---------------------------- MODULE SkillOpenProofs ----------------------------
(***************************************************************************)
(* Proofs about `Skill::open_with` and the reads that follow, for every    *)
(* file, set of versions, policy, dictionary, node table and number of     *)
(* threads.                                                                *)
(*                                                                         *)
(* The invariant says, stage by stage, what the checks behind have         *)
(* established, and it keeps what they relied on: the manifest is the      *)
(* header's once its hash was compared, and the tables are the manifest's  *)
(* only once the dictionary was, which is three checks later.  For the     *)
(* reads it says what a thread that inflates has already compared.         *)
(***************************************************************************)
EXTENDS SkillOpen, TLAPS

-----------------------------------------------------------------------------
(***************************************************************************)
(* `check_payload_ranges` decides rightly on every node table, whatever    *)
(* its length: comparing neighbours in sorted order is enough.             *)
(*                                                                         *)
(* The invariant behind it: of the ranges compared so far, any two of one  *)
(* region are equal, or the later one starts at or after the end of the    *)
(* earlier one.  It is not enough that neighbours are so: a range equal to *)
(* its neighbour passes the relation on, and a later start carries it over *)
(* the ranges between.                                                     *)
(***************************************************************************)
Collected ==
  \A i \in 1 .. next - 1 : nodes[i].len # 0 =>
    /\ nodes[i].off + nodes[i].len <= regionLen[nodes[i].cold]
    /\ \E k \in DOMAIN spans : spans[k] = Ends(nodes[i])

FromNodes ==
  \A k \in DOMAIN spans : \E i \in 1 .. Len(nodes) :
    nodes[i].len # 0 /\ spans[k] = Ends(nodes[i])

\* The later of two ranges that are in order keeps clear of the earlier one.
Clear(a, b) == a.cold = b.cold => a = b \/ a.to <= b.from

Compared ==
  \A i, j \in DOMAIN spans : i < j /\ j <= window => Clear(spans[i], spans[j])

\* A payload that does not lie in its region.
Beyond ==
  \E i \in DOMAIN nodes :
    nodes[i].len # 0 /\ ~ (nodes[i].off + nodes[i].len <= regionLen[nodes[i].cold])

Looked == ranges \in {"comparing", "apart", "RangeOverlap"}

RangesInv ==
  /\ nodes \in Seq(PayloadOf)
  /\ regionLen \in [{0, 1} -> 0..Top]
  /\ next \in 1 .. Len(nodes) + 1
  /\ spans \in Seq([cold : {0, 1}, from : 0..Top, to : 0..Top])
  /\ Len(spans) < next
  /\ window \in Nat \ {0}
  /\ ranges \in {"collecting", "comparing", "apart"} \cup RangesErrors
  /\ Collected
  /\ FromNodes
  /\ ranges = "collecting" => window = 1
  /\ Looked => next = Len(nodes) + 1 /\ Sorted(spans)
  /\ ranges \in {"comparing", "apart"} => Compared
  /\ ranges = "apart" => window >= Len(spans)
  /\ ranges \in {"OffsetOverflow", "RangeOutOfBounds"} => Beyond
  /\ ranges = "RangeOverlap" =>
       \E i, j \in DOMAIN spans : i < j /\ Clash(spans[i], spans[j])

Span == [cold : {0, 1}, from : 0..Top, to : 0..Top]

\* The types of the node table, the regions and the ranges, elementwise.
LEMMA RangesTypes ==
  ASSUME RangesInv
  PROVE  /\ Len(nodes) \in Nat /\ DOMAIN nodes = 1 .. Len(nodes)
         /\ \A i \in 1 .. Len(nodes) :
              /\ nodes[i].cold \in {0, 1}
              /\ nodes[i].off \in Nat /\ nodes[i].off <= Top
              /\ nodes[i].len \in Nat /\ nodes[i].len <= Top
         /\ regionLen[0] \in Nat /\ regionLen[1] \in Nat
         /\ spans \in Seq(Span)
         /\ Len(spans) \in Nat /\ DOMAIN spans = 1 .. Len(spans)
         /\ \A k \in 1 .. Len(spans) :
              /\ spans[k].cold \in {0, 1}
              /\ spans[k].from \in Nat /\ spans[k].to \in Nat
              /\ spans[k] = [cold |-> spans[k].cold, from |-> spans[k].from,
                             to |-> spans[k].to]
         /\ next \in Nat /\ next >= 1 /\ next <= Len(nodes) + 1
         /\ window \in Nat /\ window >= 1
<1>1. nodes \in Seq(PayloadOf) /\ spans \in Seq(Span)
      /\ regionLen \in [{0, 1} -> 0..Top] /\ next \in 1 .. Len(nodes) + 1
      /\ window \in Nat \ {0}
  BY DEF RangesInv, Span
<1>2. \A i \in 1 .. Len(nodes) : nodes[i] \in PayloadOf
  BY <1>1
<1>3. \A k \in 1 .. Len(spans) : spans[k] \in Span
  BY <1>1
<1>4. regionLen[0] \in 0..Top /\ regionLen[1] \in 0..Top
  BY <1>1
<1> QED
  BY <1>1, <1>2, <1>3, <1>4, TopAssumption, SMTT(30) DEF PayloadOf, Span

LEMMA RangesInvTypeOK ==
  ASSUME RangesInv PROVE RangesTypeOK
<1>1. spans \in Seq(Span)
  BY RangesTypes
<1>2. \A k \in DOMAIN spans : spans[k] \in Span
  BY <1>1
<1> QED
  BY <1>2 DEF RangesInv, RangesTypeOK, Span

LEMMA RangesInvInit == RangesStart => RangesInv
BY TopAssumption DEF RangesStart, RangesInit, RangesInv, Collected, FromNodes,
   Looked, RangesErrors

\* The range collected from a node, and where it lies.
LEMMA EndsType ==
  ASSUME NEW n \in PayloadOf, n.off + n.len <= Top
  PROVE  /\ Ends(n) \in Span
         /\ Ends(n).cold = n.cold /\ Ends(n).from = n.off
         /\ Ends(n).to = n.off + n.len
BY TopAssumption DEF PayloadOf, Ends, Span

LEMMA CollectKeeps == ASSUME RangesInv, Collect PROVE RangesInv'
<1> USE TopAssumption DEF RangesErrors, Looked
<1>1. /\ ranges = "collecting" /\ next <= Len(nodes)
      /\ nodes' = nodes /\ regionLen' = regionLen /\ window' = window
      /\ next \in Nat /\ next \in DOMAIN nodes
  BY DEF Collect, RangesInv
<1> DEFINE n == nodes[next]
<1>2. n \in PayloadOf
  BY <1>1 DEF RangesInv
<1>3. CASE n.len = 0
  <2>1. next' = next + 1 /\ spans' = spans /\ ranges' = ranges
    BY <1>1, <1>3 DEF Collect
  <2>2. Collected'
    BY <1>1, <1>3, <2>1, SMTT(30) DEF Collected, RangesInv
  <2> QED
    BY <1>1, <2>1, <2>2 DEF RangesInv, FromNodes
<1>4. CASE n.len # 0 /\ ranges' # ranges
  <2>1. /\ next' = next /\ spans' = spans
        /\ ranges' \in {"OffsetOverflow", "RangeOutOfBounds"}
    BY <1>1, <1>4 DEF Collect
  <2>2. Ends(n).to > Top \/ Ends(n).to > regionLen[n.cold]
    BY <1>1, <1>4 DEF Collect
  <2>3. /\ n.off \in Nat /\ n.len \in Nat /\ regionLen[n.cold] \in Nat
        /\ regionLen[n.cold] <= Top
    <3>1. n.off \in Nat /\ n.len \in Nat /\ n.cold \in {0, 1}
      BY <1>1, RangesTypes
    <3>2. regionLen[0] \in 0..Top /\ regionLen[1] \in 0..Top
      BY DEF RangesInv
    <3> QED
      BY <3>1, <3>2
  <2>4. ~ (n.off + n.len <= regionLen[n.cold])
    BY <2>2, <2>3 DEF Ends
  <2>5. Beyond
    BY <1>1, <1>4, <2>4 DEF Beyond
  <2> QED
    BY <1>1, <2>1, <2>5 DEF RangesInv, Collected, FromNodes, Beyond
<1>5. CASE n.len # 0 /\ ranges' = ranges
  <2>1. /\ n.off + n.len <= Top /\ n.off + n.len <= regionLen[n.cold]
        /\ next' = next + 1 /\ spans' = Append(spans, Ends(n))
    <3>1. Ends(n).to = n.off + n.len
      BY DEF Ends
    <3>2. ~ (Ends(n).to > Top) /\ ~ (Ends(n).to > regionLen[n.cold])
      BY <1>1, <1>5 DEF Collect
    <3>3. n.off + n.len \in Nat /\ regionLen[n.cold] \in Nat
      <4>1. n.off \in Nat /\ n.len \in Nat /\ n.cold \in {0, 1}
        BY <1>1, RangesTypes
      <4>2. regionLen[0] \in Nat /\ regionLen[1] \in Nat
        BY RangesTypes
      <4> QED
        BY <4>1, <4>2
    <3> QED
      BY <1>1, <1>5, <3>1, <3>2, <3>3 DEF Collect
  <2>2. Ends(n) \in Span
    BY <1>2, <2>1, EndsType
  <2>3. /\ spans' \in Seq(Span) /\ Len(spans') = Len(spans) + 1
        /\ spans'[Len(spans) + 1] = Ends(n)
        /\ \A k \in DOMAIN spans : k \in DOMAIN spans' /\ spans'[k] = spans[k]
        /\ \A k \in DOMAIN spans' : k \in DOMAIN spans \/ k = Len(spans) + 1
    <3>1. spans \in Seq(Span)
      BY RangesTypes
    <3> HIDE DEF n
    <3> QED
      BY <2>1, <2>2, <3>1
  <2>4. Collected'
    <3> SUFFICES ASSUME NEW i \in 1 .. next' - 1, nodes'[i].len # 0
        PROVE /\ nodes'[i].off + nodes'[i].len <= regionLen'[nodes'[i].cold]
              /\ \E k \in DOMAIN spans' : spans'[k] = Ends(nodes'[i])
      BY <1>1 DEF Collected, Ends
    <3>1. CASE i = next
      BY <1>1, <2>1, <2>3, <3>1 DEF RangesInv
    <3>2. CASE i # next
      BY <1>1, <2>1, <2>3, <3>2 DEF RangesInv, Collected
    <3> QED
      BY <3>1, <3>2
  <2>5. FromNodes'
    <3> SUFFICES ASSUME NEW k \in DOMAIN spans'
        PROVE \E i \in 1 .. Len(nodes) : nodes[i].len # 0 /\ spans'[k] = Ends(nodes[i])
      BY <1>1 DEF FromNodes, Ends
    <3>1. CASE k \in DOMAIN spans
      BY <2>3, <3>1 DEF RangesInv, FromNodes
    <3>2. CASE k = Len(spans) + 1
      BY <1>1, <1>5, <2>3, <3>2 DEF RangesInv
    <3> QED
      BY <2>3, <3>1, <3>2
  <2> QED
    BY <1>1, <1>5, <2>1, <2>3, <2>4, <2>5 DEF RangesInv, Span
<1> QED
  BY <1>3, <1>4, <1>5

LEMMA SortKeeps == ASSUME RangesInv, Sort PROVE RangesInv'
<1> USE TopAssumption DEF RangesErrors, Looked
<1>1. /\ ranges = "collecting" /\ ranges' = "comparing" /\ next = Len(nodes) + 1
      /\ nodes' = nodes /\ regionLen' = regionLen /\ next' = next
      /\ window' = window /\ window = 1
  BY DEF Sort, RangesInv
<1>2. PICK p \in [DOMAIN spans -> DOMAIN spans] :
        /\ \A k \in DOMAIN spans : \E i \in DOMAIN spans : p[i] = k
        /\ spans' = [i \in DOMAIN spans |-> spans[p[i]]]
        /\ Sorted(spans')
  BY DEF Sort
<1>3. /\ spans \in Seq(Span) /\ Len(spans) \in Nat /\ DOMAIN spans = 1 .. Len(spans)
      /\ \A i \in DOMAIN spans : spans[i] \in Span
  BY RangesTypes
<1>4. spans' \in Seq(Span) /\ Len(spans') = Len(spans) /\ DOMAIN spans' = DOMAIN spans
  BY <1>2, <1>3
<1>5. Collected'
  <2> SUFFICES ASSUME NEW i \in 1 .. next - 1, nodes[i].len # 0
      PROVE /\ nodes[i].off + nodes[i].len <= regionLen[nodes[i].cold]
            /\ \E k \in DOMAIN spans' : spans'[k] = Ends(nodes[i])
    BY <1>1 DEF Collected, Ends
  <2>1. PICK k \in DOMAIN spans : spans[k] = Ends(nodes[i])
    BY DEF RangesInv, Collected
  <2>2. PICK j \in DOMAIN spans : p[j] = k
    BY <1>2
  <2>3. spans'[j] = spans[k]
    BY <1>2, <2>2
  <2> QED
    BY <1>4, <2>1, <2>3 DEF RangesInv, Collected
<1>6. FromNodes'
  <2> SUFFICES ASSUME NEW k \in DOMAIN spans
      PROVE \E i \in 1 .. Len(nodes) : nodes[i].len # 0 /\ spans'[k] = Ends(nodes[i])
    BY <1>1, <1>4 DEF FromNodes, Ends
  <2>1. p[k] \in DOMAIN spans /\ spans'[k] = spans[p[k]]
    BY <1>2
  <2> QED
    BY <2>1 DEF RangesInv, FromNodes
<1>7. Compared'
  BY <1>1, <1>3, <1>4 DEF Compared
<1> QED
  BY <1>1, <1>2, <1>3, <1>4, <1>5, <1>6, <1>7 DEF RangesInv, Span

\* In order, keeping clear is handed on.
LEMMA ClearCarries ==
  ASSUME NEW a, NEW b, NEW c,
         a.from \in Nat, a.to \in Nat, a.cold \in {0, 1},
         b.from \in Nat, b.to \in Nat, b.cold \in {0, 1},
         c.from \in Nat, c.to \in Nat, c.cold \in {0, 1},
         NotAfter(a, b), NotAfter(b, c), Clear(a, b), Clear(b, c)
  PROVE  Clear(a, c)
<1> SUFFICES ASSUME a.cold = c.cold PROVE a = c \/ a.to <= c.from
  BY DEF Clear
<1>1. a.cold = b.cold /\ b.cold = c.cold /\ b.from <= c.from
  BY DEF NotAfter
<1>2. (a = b \/ a.to <= b.from) /\ (b = c \/ b.to <= c.from)
  BY <1>1 DEF Clear
<1> QED
  BY <1>1, <1>2

\* The neighbour that does not clash keeps clear of all ranges before it.
LEMMA CompareKeeps == ASSUME RangesInv, Compare PROVE RangesInv'
<1> USE TopAssumption DEF RangesErrors, Looked
<1>1. /\ ranges = "comparing" /\ window < Len(spans) /\ window \in Nat \ {0}
      /\ nodes' = nodes /\ regionLen' = regionLen /\ next' = next /\ spans' = spans
      /\ window \in DOMAIN spans /\ window + 1 \in DOMAIN spans
  BY DEF Compare, RangesInv
<1>2. \A i \in DOMAIN spans : spans[i] \in Span
  BY RangesTypes
<1> DEFINE w == spans[window]
           n == spans[window + 1]
<1>3. CASE Clash(w, n)
  <2>1. ranges' = "RangeOverlap" /\ window' = window
    BY <1>1, <1>3 DEF Compare
  <2> QED
    BY <1>1, <1>3, <2>1 DEF RangesInv, Collected, FromNodes, Sorted
<1>4. CASE ~ Clash(w, n)
  <2>1. ranges' = ranges /\ window' = window + 1
    BY <1>1, <1>4 DEF Compare
  <2>2. Clear(w, n)
    BY <1>1, <1>2, <1>4 DEF Clash, Clear, Span
  <2>3. Compared'
    <3> SUFFICES ASSUME NEW i \in DOMAIN spans, NEW j \in DOMAIN spans,
                        i < j, j <= window + 1
        PROVE Clear(spans[i], spans[j])
      BY <1>1, <2>1 DEF Compared
    <3>1. CASE j <= window
      BY <1>1, <3>1 DEF RangesInv, Compared
    <3>2. CASE j = window + 1 /\ i = window
      BY <2>2, <3>2
    <3>3. CASE j = window + 1 /\ i < window
      <4>1. Clear(spans[i], w)
        BY <1>1, <3>3 DEF RangesInv, Compared
      <4>2. NotAfter(spans[i], w) /\ NotAfter(w, n)
        BY <1>1, <3>3 DEF RangesInv, Sorted
      <4> QED
        <5>1. /\ spans[i].from \in Nat /\ spans[i].to \in Nat /\ spans[i].cold \in {0, 1}
              /\ w.from \in Nat /\ w.to \in Nat /\ w.cold \in {0, 1}
              /\ n.from \in Nat /\ n.to \in Nat /\ n.cold \in {0, 1}
          BY <1>1, RangesTypes
        <5> QED
          BY <2>2, <3>3, <4>1, <4>2, <5>1, ClearCarries
    <3> QED
      BY <1>1, <3>1, <3>2, <3>3
  <2>4. Collected' /\ FromNodes' /\ Sorted(spans)'
    <3>1. Collected /\ FromNodes /\ Sorted(spans)
      BY <1>1 DEF RangesInv
    <3> QED
      BY <1>1, <3>1 DEF Collected, FromNodes, Sorted, Ends
  <2>5. /\ next = Len(nodes) + 1 /\ window + 1 \in Nat \ {0} /\ ranges' = "comparing"
        /\ nodes \in Seq(PayloadOf) /\ regionLen \in [{0, 1} -> 0..Top]
        /\ next \in 1 .. Len(nodes) + 1 /\ Len(spans) < next
        /\ spans \in Seq([cold : {0, 1}, from : 0..Top, to : 0..Top])
    BY <1>1, <2>1 DEF RangesInv
  <2> HIDE DEF w, n
  <2> QED
    BY <1>1, <2>1, <2>3, <2>4, <2>5 DEF RangesInv
<1> QED
  BY <1>3, <1>4

LEMMA RangesDoneKeeps == ASSUME RangesInv, RangesDone PROVE RangesInv'
BY TopAssumption DEF RangesDone, RangesInv, RangesErrors, Looked, Collected,
   FromNodes, Compared, Sorted

LEMMA RangesStep == ASSUME RangesInv, [RangesNext]_rangesVars PROVE RangesInv'
<1>1. CASE UNCHANGED rangesVars
  BY <1>1 DEF rangesVars, RangesInv, Looked, Collected, FromNodes, Compared, Sorted,
     Ends, Beyond
<1> QED
  BY <1>1, CollectKeeps, SortKeeps, CompareKeeps, RangesDoneKeeps DEF RangesNext

\* What the invariant says when the check has passed a table.
LEMMA PassedIsApart == ASSUME RangesInv, ranges = "apart" PROVE Apart
<1> USE TopAssumption DEF RangesErrors, Looked
<1> SUFFICES ASSUME NEW i \in DOMAIN nodes, NEW j \in DOMAIN nodes,
                    nodes[i].len # 0, nodes[j].len # 0
    PROVE /\ nodes[i].off + nodes[i].len <= regionLen[nodes[i].cold]
          /\ nodes[i].cold = nodes[j].cold =>
               Same(nodes[i], nodes[j]) \/ Disjoint(nodes[i], nodes[j])
  BY DEF Apart
<1>1. /\ nodes[i] \in PayloadOf /\ nodes[j] \in PayloadOf
      /\ i \in 1 .. next - 1 /\ j \in 1 .. next - 1
      /\ window >= Len(spans) /\ Compared /\ Collected
      /\ \A k \in DOMAIN spans : k \in Nat /\ k <= window
  BY DEF RangesInv
<1>2. PICK k \in DOMAIN spans : spans[k] = Ends(nodes[i])
  BY <1>1, SMTT(30) DEF Collected
<1>3. PICK l \in DOMAIN spans : spans[l] = Ends(nodes[j])
  BY <1>1 DEF Collected
<1>4. k = l \/ Clear(spans[k], spans[l]) \/ Clear(spans[l], spans[k])
  BY <1>1 DEF Compared
<1>5. nodes[i].off + nodes[i].len <= regionLen[nodes[i].cold]
  BY <1>1 DEF Collected
<1> QED
  BY <1>1, <1>2, <1>3, <1>4, <1>5 DEF Clear, Ends, Same, Disjoint, PayloadOf

\* What it says when the check has found an overlap.
LEMMA NamedIsOverlap == ASSUME RangesInv, ranges = "RangeOverlap" PROVE Overlap
<1> USE TopAssumption DEF RangesErrors, Looked
<1>1. PICK k \in DOMAIN spans, l \in DOMAIN spans : k < l /\ Clash(spans[k], spans[l])
  BY DEF RangesInv
<1>2. PICK i \in 1 .. Len(nodes) : nodes[i].len # 0 /\ spans[k] = Ends(nodes[i])
  BY DEF RangesInv, FromNodes
<1>3. PICK j \in 1 .. Len(nodes) : nodes[j].len # 0 /\ spans[l] = Ends(nodes[j])
  BY DEF RangesInv, FromNodes
<1>4. NotAfter(spans[k], spans[l])
  BY <1>1 DEF RangesInv, Sorted
<1>5. nodes[i] \in PayloadOf /\ nodes[j] \in PayloadOf
      /\ i \in DOMAIN nodes /\ j \in DOMAIN nodes
  <2>1. nodes \in Seq(PayloadOf)
    BY DEF RangesInv
  <2> QED
    BY <2>1
<1>6. /\ nodes[i].cold = nodes[j].cold
      /\ ~ Same(nodes[i], nodes[j]) /\ ~ Disjoint(nodes[i], nodes[j])
  BY <1>1, <1>2, <1>3, <1>4, <1>5 DEF Clash, NotAfter, Ends, Same, Disjoint, PayloadOf
<1> QED
  BY <1>2, <1>3, <1>5, <1>6 DEF Overlap

LEMMA RefusedIsNotApart == ASSUME RangesInv, ranges \in RangesErrors PROVE ~ Apart
<1>1. CASE ranges = "RangeOverlap"
  <2>1. PICK i \in DOMAIN nodes, j \in DOMAIN nodes :
          /\ nodes[i].len # 0 /\ nodes[j].len # 0 /\ nodes[i].cold = nodes[j].cold
          /\ ~ Same(nodes[i], nodes[j]) /\ ~ Disjoint(nodes[i], nodes[j])
    BY <1>1, NamedIsOverlap DEF Overlap
  <2> QED
    BY <2>1 DEF Apart
<1>2. CASE ranges \in {"OffsetOverflow", "RangeOutOfBounds"}
  <2>1. Beyond
    BY <1>2 DEF RangesInv
  <2> QED
    BY <2>1 DEF Beyond, Apart
<1> QED
  BY <1>1, <1>2 DEF RangesErrors

LEMMA RangesInvDecides == RangesInv => RangesDecide
BY PassedIsApart, RefusedIsNotApart, NamedIsOverlap DEF RangesDecide

(***************************************************************************)
(* For every node table and every pair of regions: what the check passes   *)
(* is apart, what it refuses is not, and what it calls an overlap is one   *)
(* (validate.rs 221-253).                                                  *)
(***************************************************************************)
THEOREM RangesRight == RangesSpec => []RangesDecide
<1>1. RangesSpec => []RangesInv
  BY RangesInvInit, RangesStep, PTL DEF RangesSpec
<1> QED
  BY <1>1, RangesInvDecides, PTL

-----------------------------------------------------------------------------
(***************************************************************************)
(* Opening and reading                                                     *)
(***************************************************************************)

\* The stages after the check of the signatures, of the manifest's hash, ...
AfterSignatures ==
  {"bounds", "root", "parse", "routing", "dictionary", "regions", "graph",
   "ranges", "segments", "roots", "vectors", "padding", "open"}
AfterRoot == AfterSignatures \ {"bounds", "root"}
AfterParse == AfterRoot \ {"parse"}
AfterRouting == AfterParse \ {"routing"}
AfterDictionary == AfterRouting \ {"dictionary"}
AfterVectors == {"padding", "open"}

Inputs ==
  /\ file \in File
  /\ shape \in [Versions -> Shape]
  /\ policy \in Policy

Vouching ==
  /\ vouched \subseteq policy.keys
  /\ pc \in AfterSignatures =>
       /\ vouched \subseteq Written.signers
       /\ vouched # {} => file.fault = NONE
       /\ policy.require => vouched # {}

Tabled ==
  /\ pc \in AfterRoot => file.manifest = This
  /\ tables \in {This, Damaged, NONE}
  /\ pc \in AfterParse => tables = This \/ (Written.dict /\ dict # Dict)
  /\ pc \in AfterDictionary => tables = This /\ (Written.dict => dict = Dict)

Located ==
  /\ pc \in AfterRouting => RoutingFound = This
  /\ vectors \in {This, NONE}
  /\ pc \in AfterVectors /\ vectors = NONE =>
       ~ Written.vectors \/ file.vectors # This
  /\ pc = "open" => \A r \in Regions \ Written.zstd : file.zero[r]

\* What a thread can be doing.
Job ==
  [at : {"idle", "reading", "inflating", "done"},
   op : Ops \cup {NONE}, of : Payloads \cup {NONE},
   todo : SUBSET Regions, region : Regions \cup {NONE},
   answer : Places \cup {NONE, "RegionHashMismatch", "PayloadHashMismatch"}]

Working ==
  \A t \in Readers :
    /\ reading[t].at # "idle" =>
         pc = "open" /\ reading[t].op \in Ops /\ reading[t].of \in Payloads
    /\ reading[t].at = "inflating" => reading[t].region \in Regions
    /\ \A r \in Regions :
         reading[t].at = "inflating" /\ reading[t].region = r => Frame(r) = This
    /\ reading[t].at = "idle" => reading[t].answer = NONE

Shared ==
  /\ kept \in [Regions -> {This, NONE}]
  /\ reading \in [Readers -> Job]
  /\ Working

OpenInv == Inputs /\ Vouching /\ Tabled /\ Located /\ Shared /\ RangesInv

-----------------------------------------------------------------------------
LEMMA NoneIsApart ==
  /\ NONE \notin Versions /\ NONE # Damaged /\ Damaged \notin Versions
  /\ NONE \notin Places /\ "RegionHashMismatch" \notin Places
  /\ "PayloadHashMismatch" \notin Places
BY OpenAssumption DEF Places

LEMMA FileIsOneVersion ==
  ASSUME Inputs PROVE This \in Versions /\ Written \in Shape
BY DEF Inputs, File, This, Written

LEMMA InitInv == Init => OpenInv
<1> SUFFICES ASSUME Init PROVE OpenInv
  OBVIOUS
<1>1. PICK o \in Openings :
        /\ file = o.file /\ shape = o.shape /\ policy = o.policy
        /\ nodes = o.nodes /\ regionLen = o.regionLen
  BY DEF Init
<1>2. o \in Opening
  BY OpenAssumption
<1>3. Inputs /\ nodes \in Seq(PayloadOf) /\ regionLen \in [{0, 1} -> 0..Top]
  BY <1>1, <1>2 DEF Opening, Inputs
<1>4. RangesInv
  BY <1>3, RangesInvInit DEF Init, RangesStart
<1>5. Idle \in Job
  BY DEF Idle, Job
<1> QED
  BY <1>3, <1>4, <1>5 DEF Init, OpenInv, Vouching, Tabled, Located, Shared, Working,
     Idle, AfterSignatures, AfterRoot, AfterParse, AfterRouting,
     AfterDictionary, AfterVectors

-----------------------------------------------------------------------------
(* The checks. *)

\* No refusal is the name of a stage.
LEMMA FlawIsNoStage ==
  ASSUME NEW flaw \in DOMAIN FlawRefusals, NEW e \in FlawRefusals[flaw]
  PROVE  e \notin Stages \cup {"open"}
BY DEF FlawRefusals, Stages

LEMMA FlawOrGoes ==
  ASSUME NEW flaw \in DOMAIN FlawRefusals, NEW place, FlawOr(flaw, place)
  PROVE  /\ UNCHANGED <<inputs, shared, rangesVars>>
         /\ pc' = place \/ pc' \notin Stages \cup {"open"}
BY FlawIsNoStage DEF FlawOr, Goto

LEMMA HeaderIsNoStage ==
  ASSUME NEW f \in DOMAIN HeaderRefusal
  PROVE  HeaderRefusal[f] \notin Stages \cup {"open"}
BY DEF HeaderRefusal, Stages

\* Nothing writes the file.
LEMMA FileStays ==
  ASSUME UNCHANGED inputs
  PROVE  /\ This' = This /\ Written' = Written /\ RoutingFound' = RoutingFound
         /\ file' = file /\ shape' = shape /\ policy' = policy /\ dict' = dict
         /\ \A r \in Regions : Frame(r)' = Frame(r)
BY DEF inputs, This, Written, RoutingFound, Frame

\* Before the file is open no thread works on it.
LEMMA CheckKeepsOthers ==
  ASSUME OpenInv, pc \in Stages, UNCHANGED <<inputs, shared, rangesVars>>
  PROVE  Inputs' /\ Shared' /\ RangesInv'
<1>1. Inputs' /\ This' = This
  BY FileStays DEF OpenInv, Inputs
<1>2. pc # "open" /\ \A t \in Readers : reading[t].at = "idle"
  BY DEF Stages, OpenInv, Shared, Working
<1>3. Shared'
  BY <1>1, <1>2 DEF OpenInv, Shared, shared, Working
<1>4. RangesInv'
  BY RangesStep DEF OpenInv
<1> QED
  BY <1>1, <1>3, <1>4

LEMMA StagesInOrder ==
  /\ "open" \in AfterVectors /\ AfterVectors \subseteq AfterDictionary
  /\ AfterDictionary \subseteq AfterRouting /\ AfterRouting \subseteq AfterParse
  /\ AfterParse \subseteq AfterRoot /\ AfterRoot \subseteq AfterSignatures
  /\ AfterSignatures \subseteq Stages \cup {"open"}
BY DEF Stages, AfterSignatures, AfterRoot, AfterParse, AfterRouting,
   AfterDictionary, AfterVectors

\* A refusal leaves nothing to be shown, and neither does the first stage.
LEMMA RefusalKeeps ==
  ASSUME OpenInv, pc \in Stages, UNCHANGED <<inputs, shared, rangesVars>>,
         vouched' \subseteq policy.keys, tables' \in {This, Damaged, NONE},
         vectors' = vectors, pc' \notin AfterSignatures
  PROVE  OpenInv'
<1>1. Inputs' /\ Shared' /\ RangesInv'
  BY CheckKeepsOthers
<1>2. /\ pc' # "open" /\ pc' \notin AfterRoot /\ pc' \notin AfterParse
      /\ pc' \notin AfterRouting /\ pc' \notin AfterDictionary /\ pc' \notin AfterVectors
  BY StagesInOrder
<1>3. This' = This /\ policy' = policy
  BY FileStays
<1>4. vectors' \in {This, NONE}
  BY DEF OpenInv, Located
<1>5. Vouching' /\ Tabled' /\ Located'
  BY <1>2, <1>3, <1>4 DEF Vouching, Tabled, Located
<1> QED
  BY <1>1, <1>5 DEF OpenInv

LEMMA FoundTypes ==
  ASSUME OpenInv
  PROVE  /\ vouched \subseteq policy.keys /\ tables \in {This, Damaged, NONE}
         /\ vectors \in {This, NONE}
BY DEF OpenInv, Vouching, Tabled, Located

LEMMA HeaderKeeps == ASSUME OpenInv, CheckHeader PROVE OpenInv'
<1>1. /\ pc \in Stages /\ UNCHANGED <<inputs, shared, rangesVars>>
      /\ vouched' = vouched /\ tables' = tables /\ vectors' = vectors
      /\ pc' = "signatures" \/ pc' \notin Stages \cup {"open"}
  BY HeaderIsNoStage DEF CheckHeader, Goto, Stages, found
<1>2. pc' \notin AfterSignatures
  BY <1>1, StagesInOrder DEF AfterSignatures
<1> QED
  BY <1>1, <1>2, RefusalKeeps, FoundTypes

\* A key is vouched for only when it signed this header.
LEMMA ValidIsSigned ==
  ASSUME Inputs, NEW k, "valid" \in Entry(k)
  PROVE  k \in Written.signers /\ file.fault = NONE
<1>1. CASE SigsFound = Damaged
  BY <1>1 DEF Entry
<1>2. CASE SigsFound # Damaged
  BY <1>2 DEF Entry, Written, This
<1> QED
  BY <1>1, <1>2

LEMMA SignaturesKeeps == ASSUME OpenInv, CheckSignatures PROVE OpenInv'
<1>1. /\ pc = "signatures" /\ pc \in Stages
      /\ UNCHANGED <<inputs, shared, rangesVars>> /\ tables' = tables /\ vectors' = vectors
  BY DEF CheckSignatures, Goto, Stages
<1>2. CASE vouched' = vouched /\ pc' \in {"Truncated", "ReservedNonZero", "DuplicateKeyId"}
  BY <1>1, <1>2, RefusalKeeps, FoundTypes DEF AfterSignatures
<1>3. ASSUME NEW entry \in [Keys -> {"skipped", "valid", "invalid"}],
             \A k \in Keys :
               entry[k] \in (IF HasEntries THEN Entry(k) ELSE {"skipped"}),
             vouched' = {k \in policy.keys : entry[k] = "valid"},
             Goto(IF \E k \in policy.keys : entry[k] = "invalid"
                  THEN "BadSignature"
                  ELSE IF policy.require /\ vouched' = {}
                  THEN IF HasEntries THEN "UntrustedKey" ELSE "Unsigned"
                  ELSE "bounds")
      PROVE OpenInv'
  <2>1. policy.keys \subseteq Keys /\ vouched' \subseteq policy.keys
    BY <1>3 DEF OpenInv, Inputs, Policy
  <2>2. vouched' \subseteq Written.signers /\ (vouched' # {} => file.fault = NONE)
    BY <1>3, <2>1, ValidIsSigned DEF OpenInv
  <2>3. /\ pc' \in {"BadSignature", "UntrustedKey", "Unsigned", "bounds"}
        /\ pc' = "bounds" /\ policy.require => vouched' # {}
    BY <1>3 DEF Goto
  <2>4. CASE pc' \in {"BadSignature", "UntrustedKey", "Unsigned"}
    BY <1>1, <2>1, <2>4, RefusalKeeps, FoundTypes DEF AfterSignatures
  <2>5. CASE pc' = "bounds"
    <3>1. Inputs' /\ Shared' /\ RangesInv'
      BY <1>1, CheckKeepsOthers
    <3>2. This' = This /\ Written' = Written /\ policy' = policy /\ file' = file
      BY <1>1, FileStays
    <3>3. Vouching'
      BY <2>1, <2>2, <2>3, <2>5, <3>2 DEF Vouching
    <3>4. Tabled' /\ Located'
      BY <1>1, <2>5, <3>2, FoundTypes DEF Tabled, Located, AfterSignatures, AfterRoot,
         AfterParse, AfterRouting, AfterDictionary, AfterVectors
    <3> QED
      BY <3>1, <3>3, <3>4 DEF OpenInv
  <2> QED
    BY <2>3, <2>4, <2>5
<1> QED
  BY <1>2, <1>3 DEF CheckSignatures, Goto

\* A check passed, with what it has compared for the stages it opens.
LEMMA PassKeeps ==
  ASSUME OpenInv, pc \in AfterSignatures, pc \in Stages,
         UNCHANGED <<inputs, shared, rangesVars>>, UNCHANGED found,
         pc' \in AfterSignatures,
         pc' \in AfterRoot => pc \in AfterRoot \/ file.manifest = This,
         pc' \in AfterParse => pc \in AfterParse,
         pc' \in AfterRouting => pc \in AfterRouting \/ RoutingFound = This,
         pc' \in AfterDictionary =>
           pc \in AfterDictionary \/ (Written.dict => dict = Dict),
         pc' \in AfterVectors => pc \in AfterVectors,
         pc' = "open" => \A r \in Regions \ Written.zstd : file.zero[r]
  PROVE  OpenInv'
<1>1. Inputs' /\ Shared' /\ RangesInv'
  BY CheckKeepsOthers
<1>2. /\ This' = This /\ Written' = Written /\ RoutingFound' = RoutingFound
      /\ policy' = policy /\ file' = file /\ dict' = dict
      /\ vouched' = vouched /\ tables' = tables /\ vectors' = vectors
  BY FileStays DEF found
<1>3. Vouching'
  BY <1>2 DEF OpenInv, Vouching
<1>4. Tabled'
  BY <1>2, StagesInOrder DEF OpenInv, Tabled
<1>5. Located'
  BY <1>2, StagesInOrder DEF OpenInv, Located
<1> QED
  BY <1>1, <1>3, <1>4, <1>5 DEF OpenInv

\* A check that compares nothing the invariant tells of.
LEMMA GateKeeps ==
  ASSUME OpenInv, pc \in AfterSignatures, pc \in Stages,
         UNCHANGED <<inputs, shared, rangesVars>>, UNCHANGED found,
         \/ pc' \notin Stages \cup {"open"}
         \/ <<pc, pc'>> \in {<<"bounds", "root">>, <<"regions", "graph">>,
                             <<"graph", "ranges">>, <<"ranges", "segments">>,
                             <<"segments", "roots">>, <<"roots", "vectors">>}
  PROVE  OpenInv'
<1>1. CASE pc' \notin Stages \cup {"open"}
  BY <1>1, RefusalKeeps, FoundTypes, StagesInOrder DEF found
<1>2. CASE pc' \in Stages \cup {"open"}
  <2>1. /\ pc' \in AfterSignatures /\ pc' # "open"
        /\ pc' \in AfterRoot => pc \in AfterRoot
        /\ pc' \in AfterParse => pc \in AfterParse
        /\ pc' \in AfterRouting => pc \in AfterRouting
        /\ pc' \in AfterDictionary => pc \in AfterDictionary
        /\ pc' \in AfterVectors => pc \in AfterVectors
    BY <1>2 DEF AfterSignatures, AfterRoot, AfterParse, AfterRouting,
       AfterDictionary, AfterVectors
  <2> QED
    BY <2>1, PassKeeps
<1> QED
  BY <1>1, <1>2

LEMMA BoundsKeeps == ASSUME OpenInv, CheckBounds PROVE OpenInv'
<1>1. /\ pc = "bounds" /\ UNCHANGED <<inputs, shared, rangesVars>> /\ UNCHANGED found
      /\ pc' \in {"root", "OffsetOverflow", "RangeOutOfBounds"}
  BY DEF CheckBounds, Goto
<1> QED
  BY <1>1, GateKeeps DEF Stages, AfterSignatures

LEMMA RootKeeps == ASSUME OpenInv, CheckRoot PROVE OpenInv'
<1>1. /\ pc = "root" /\ UNCHANGED <<inputs, shared, rangesVars>> /\ UNCHANGED found
      /\ \/ pc' = "parse" /\ file.manifest = This
         \/ pc' = "ManifestDigestMismatch"
  BY DEF CheckRoot, Goto
<1>2. pc \in Stages /\ pc \in AfterSignatures
  BY <1>1 DEF Stages, AfterSignatures
<1>3. CASE pc' = "parse" /\ file.manifest = This
  <2>1. /\ pc' \in AfterSignatures /\ pc' # "open" /\ pc' \notin AfterParse
        /\ pc' \notin AfterRouting /\ pc' \notin AfterDictionary
        /\ pc' \notin AfterVectors
    BY <1>3 DEF AfterSignatures, AfterRoot, AfterParse, AfterRouting,
       AfterDictionary, AfterVectors
  <2> QED
    BY <1>1, <1>2, <1>3, <2>1, PassKeeps
<1>4. CASE pc' = "ManifestDigestMismatch"
  BY <1>1, <1>2, <1>4, RefusalKeeps, FoundTypes DEF AfterSignatures, found
<1> QED
  BY <1>1, <1>3, <1>4

LEMMA ParseKeeps == ASSUME OpenInv, ParseManifest PROVE OpenInv'
<1>1. /\ pc = "parse" /\ UNCHANGED <<inputs, shared, rangesVars>>
      /\ vouched' = vouched /\ vectors' = vectors
      /\ pc \in Stages /\ pc \in AfterSignatures /\ file.manifest = This
  BY DEF ParseManifest, Goto, FlawOr, Stages, AfterSignatures, AfterRoot, OpenInv, Tabled
<1>2. \/ pc' \notin Stages \cup {"open"} /\ tables' = tables
      \/ pc' = "routing" /\ tables' \in {This, Damaged}
         /\ (tables' = This \/ (Written.dict /\ dict # Dict))
  <2>1. CASE Written.flaw = "sections"
    <3>1. "sections" \in DOMAIN FlawRefusals
      BY DEF FlawRefusals
    <3> QED
      BY <2>1, <3>1, FlawIsNoStage DEF ParseManifest, FlawOr, Goto
  <2>2. CASE Written.flaw # "sections"
    BY <1>1, <2>2 DEF ParseManifest, Goto, Inflates, Stages
  <2> QED
    BY <2>1, <2>2
<1>3. CASE pc' \notin Stages \cup {"open"} /\ tables' = tables
  BY <1>1, <1>3, RefusalKeeps, FoundTypes, StagesInOrder
<1>4. CASE pc' = "routing" /\ tables' \in {This, Damaged}
           /\ (tables' = This \/ (Written.dict /\ dict # Dict))
  <2>1. Inputs' /\ Shared' /\ RangesInv'
    BY <1>1, CheckKeepsOthers
  <2>2. /\ This' = This /\ Written' = Written /\ RoutingFound' = RoutingFound
        /\ policy' = policy /\ file' = file /\ dict' = dict
    BY <1>1, FileStays
  <2>3. Vouching'
    BY <1>1, <1>4, <2>2 DEF OpenInv, Vouching
  <2>4. Tabled' /\ Located'
    BY <1>1, <1>4, <2>2, FoundTypes DEF Tabled, Located, AfterSignatures, AfterRoot,
       AfterParse, AfterRouting, AfterDictionary, AfterVectors
  <2> QED
    BY <2>1, <2>3, <2>4 DEF OpenInv
<1> QED
  BY <1>2, <1>3, <1>4

LEMMA RoutingKeeps == ASSUME OpenInv, CheckRouting PROVE OpenInv'
<1>1. /\ pc = "routing" /\ UNCHANGED <<inputs, shared, rangesVars>> /\ UNCHANGED found
      /\ \/ pc' = "dictionary" /\ RoutingFound = This
         \/ pc' \in {"Truncated", "ReservedNonZero", "RoutingNotUtf8", "RoutingEmpty",
                     "RoutingUncommitted", "RoutingHashMismatch"}
  BY DEF CheckRouting, Goto
<1>2. pc \in Stages /\ pc \in AfterSignatures /\ pc \in AfterRoot /\ pc \in AfterParse
  BY <1>1 DEF Stages, AfterSignatures, AfterRoot, AfterParse
<1>3. CASE pc' = "dictionary" /\ RoutingFound = This
  <2>1. /\ pc' \in AfterSignatures /\ pc' # "open"
        /\ pc' \notin AfterDictionary /\ pc' \notin AfterVectors
    BY <1>3 DEF AfterSignatures, AfterRoot, AfterParse, AfterRouting,
       AfterDictionary, AfterVectors
  <2> QED
    BY <1>1, <1>2, <1>3, <2>1, PassKeeps
<1>4. CASE pc' \notin AfterSignatures
  BY <1>1, <1>2, <1>4, RefusalKeeps, FoundTypes DEF found
<1> QED
  BY <1>1, <1>3, <1>4 DEF AfterSignatures

LEMMA DictionaryKeeps == ASSUME OpenInv, CheckDictionary PROVE OpenInv'
<1>1. /\ pc = "dictionary" /\ UNCHANGED <<inputs, shared, rangesVars>>
      /\ UNCHANGED found
      /\ \/ pc' = "regions" /\ (Written.dict => dict = Dict)
         \/ pc' \in {"MissingDictionary", "WrongDictionary"}
  BY OpenAssumption DEF CheckDictionary, Goto
<1>2. /\ pc \in Stages /\ pc \in AfterSignatures /\ pc \in AfterRoot
      /\ pc \in AfterParse /\ pc \in AfterRouting
  BY <1>1 DEF Stages, AfterSignatures, AfterRoot, AfterParse, AfterRouting
<1>3. CASE pc' = "regions" /\ (Written.dict => dict = Dict)
  <2>1. pc' \in AfterSignatures /\ pc' # "open" /\ pc' \notin AfterVectors
    BY <1>3 DEF AfterSignatures, AfterVectors
  <2> QED
    BY <1>1, <1>2, <1>3, <2>1, PassKeeps
<1>4. CASE pc' \notin AfterSignatures
  BY <1>1, <1>2, <1>4, RefusalKeeps, FoundTypes DEF found
<1> QED
  BY <1>1, <1>3, <1>4 DEF AfterSignatures

LEMMA FlawsKeep ==
  ASSUME OpenInv, CheckRegions \/ CheckGraph \/ CheckSegments \/ CheckRoots
  PROVE  OpenInv'
<1>1. /\ "regions" \in DOMAIN FlawRefusals /\ "graph" \in DOMAIN FlawRefusals
      /\ "segments" \in DOMAIN FlawRefusals /\ "roots" \in DOMAIN FlawRefusals
  BY DEF FlawRefusals
<1>2. CASE CheckRegions
  BY <1>1, <1>2, FlawOrGoes, GateKeeps DEF CheckRegions, Stages, AfterSignatures
<1>3. CASE CheckGraph
  BY <1>1, <1>3, FlawOrGoes, GateKeeps DEF CheckGraph, Stages, AfterSignatures
<1>4. CASE CheckSegments
  BY <1>1, <1>4, FlawOrGoes, GateKeeps DEF CheckSegments, Stages, AfterSignatures
<1>5. CASE CheckRoots
  BY <1>1, <1>5, FlawOrGoes, GateKeeps DEF CheckRoots, Stages, AfterSignatures
<1> QED
  BY <1>2, <1>3, <1>4, <1>5

LEMMA EndRangesKeeps == ASSUME OpenInv, EndRanges PROVE OpenInv'
<1>1. /\ pc = "ranges" /\ UNCHANGED <<inputs, shared, rangesVars>> /\ UNCHANGED found
      /\ pc' = "segments" \/ pc' \in RangesErrors
  BY DEF EndRanges, Goto
<1>2. RangesErrors \cap (Stages \cup {"open"}) = {}
  BY DEF RangesErrors, Stages
<1> QED
  BY <1>1, <1>2, GateKeeps DEF Stages, AfterSignatures

\* Beside the ranges everything stays as it is.
LEMMA AsideKeeps ==
  ASSUME OpenInv, UNCHANGED <<inputs, pc, found, shared>>
  PROVE  Inputs' /\ Vouching' /\ Tabled' /\ Located' /\ Shared'
<1>1. /\ This' = This /\ Written' = Written /\ RoutingFound' = RoutingFound
      /\ policy' = policy /\ file' = file /\ dict' = dict /\ shape' = shape
      /\ vouched' = vouched /\ tables' = tables /\ vectors' = vectors
      /\ kept' = kept /\ reading' = reading /\ pc' = pc
      /\ \A r \in Regions : Frame(r)' = Frame(r)
  BY FileStays DEF found, shared
<1>2. Inputs'
  BY <1>1 DEF OpenInv, Inputs
<1>3. Vouching'
  BY <1>1 DEF OpenInv, Vouching
<1>4. Tabled'
  BY <1>1 DEF OpenInv, Tabled
<1>5. Located'
  BY <1>1 DEF OpenInv, Located
<1>6. Working'
  BY <1>1 DEF OpenInv, Shared, Working
<1>7. Shared'
  BY <1>1, <1>6 DEF OpenInv, Shared
<1> QED
  BY <1>2, <1>3, <1>4, <1>5, <1>7

LEMMA RangesKeeps == ASSUME OpenInv, CheckRanges PROVE OpenInv'
<1>1. RangesInv'
  BY RangesStep DEF CheckRanges, OpenInv
<1> QED
  BY <1>1, AsideKeeps DEF CheckRanges, OpenInv

LEMMA VectorsKeeps == ASSUME OpenInv, CheckVectors PROVE OpenInv'
<1>1. /\ pc = "vectors" /\ UNCHANGED <<inputs, shared, rangesVars>>
      /\ vouched' = vouched /\ tables' = tables
      /\ pc \in Stages /\ pc \in AfterSignatures
  BY DEF CheckVectors, Goto, FlawOr, Stages, AfterSignatures
<1>2. This \in Versions /\ This # Damaged
  BY FileIsOneVersion, NoneIsApart DEF OpenInv
<1>3. \/ pc' \notin Stages \cup {"open"} /\ vectors' = vectors
      \/ pc' = "padding" /\ vectors' = vectors
         /\ (~ Written.vectors \/ file.vectors # This)
      \/ pc' = "padding" /\ vectors' = This
  <2>1. CASE /\ VectorsThere => file.vectors = Damaged
             /\ Goto("padding") /\ UNCHANGED vectors
    <3>1. ~ Written.vectors \/ file.vectors # This
      BY <1>2, <2>1 DEF VectorsThere, Written
    <3> QED
      BY <2>1, <3>1 DEF Goto
  <2>2. CASE \E e \in {"Truncated", "ReservedNonZero", "EmbeddingShape",
                       "EmbeddingKindUnknown"} : Goto(e) /\ UNCHANGED vectors
    BY <2>2 DEF Goto, Stages
  <2>3. CASE /\ VectorsThere /\ Written.flaw = "novectors"
             /\ FlawOr("novectors", "padding") /\ UNCHANGED vectors
    <3>1. "novectors" \in DOMAIN FlawRefusals
      BY DEF FlawRefusals
    <3> QED
      BY <2>3, <3>1, FlawIsNoStage DEF Goto, FlawOr
  <2>4. CASE /\ Written.flaw # "novectors"
             /\ \/ Goto("EmbeddingHashMismatch") /\ UNCHANGED vectors
                \/ file.vectors = This /\ Goto("padding") /\ vectors' = file.vectors
    BY <2>4 DEF Goto, Stages
  <2> QED
    BY <2>1, <2>2, <2>3, <2>4 DEF CheckVectors
<1>4. CASE pc' \notin Stages \cup {"open"} /\ vectors' = vectors
  BY <1>1, <1>4, RefusalKeeps, FoundTypes, StagesInOrder
<1>5. CASE pc' = "padding" /\ vectors' \in {This, NONE}
           /\ (vectors' = NONE => ~ Written.vectors \/ file.vectors # This)
  <2>1. Inputs' /\ Shared' /\ RangesInv'
    BY <1>1, CheckKeepsOthers
  <2>2. /\ This' = This /\ Written' = Written /\ RoutingFound' = RoutingFound
        /\ policy' = policy /\ file' = file /\ dict' = dict
    BY <1>1, FileStays
  <2>3. /\ pc \in AfterRoot /\ pc \in AfterParse /\ pc \in AfterRouting
        /\ pc \in AfterDictionary /\ pc' # "open"
    BY <1>1, <1>5 DEF AfterSignatures, AfterRoot, AfterParse, AfterRouting,
       AfterDictionary
  <2>4. Vouching'
    BY <1>1, <2>2 DEF OpenInv, Vouching
  <2>5. Tabled'
    BY <1>1, <2>2, <2>3 DEF OpenInv, Tabled
  <2>6. Located'
    BY <1>1, <1>5, <2>2, <2>3 DEF OpenInv, Located
  <2> QED
    BY <2>1, <2>4, <2>5, <2>6 DEF OpenInv
<1> QED
  BY <1>2, <1>3, <1>4, <1>5, FoundTypes, NoneIsApart

LEMMA PaddingKeeps == ASSUME OpenInv, CheckPadding PROVE OpenInv'
<1>1. /\ pc = "padding" /\ UNCHANGED <<inputs, shared, rangesVars>> /\ UNCHANGED found
      /\ pc \in Stages /\ pc \in AfterSignatures /\ pc \in AfterVectors
  BY DEF CheckPadding, Goto, Stages, AfterSignatures, AfterVectors
<1>2. \A r \in Regions :
        /\ RegionRefusal(r) \in {NONE, "UncommittedRegion", "UncommittedNonZero"}
        /\ RegionRefusal(r) = NONE /\ r \notin Written.zstd => file.zero[r]
  BY DEF RegionRefusal, NONE
<1>3. \/ pc' \in {"UncommittedRegion", "UncommittedNonZero"}
      \/ pc' = "open" /\ RegionRefusal("hot") = NONE /\ RegionRefusal("cold") = NONE
  BY <1>2 DEF CheckPadding, Goto, Regions
<1>4. CASE pc' \in {"UncommittedRegion", "UncommittedNonZero"}
  BY <1>1, <1>4, RefusalKeeps, FoundTypes DEF found, AfterSignatures
<1>5. CASE pc' = "open" /\ RegionRefusal("hot") = NONE /\ RegionRefusal("cold") = NONE
  <2>1. \A r \in Regions \ Written.zstd : file.zero[r]
    BY <1>2, <1>5 DEF Regions
  <2>2. /\ pc \in AfterRoot /\ pc \in AfterParse /\ pc \in AfterRouting
        /\ pc \in AfterDictionary /\ pc' \in AfterSignatures
    BY <1>1, <1>5 DEF AfterSignatures, AfterRoot, AfterParse, AfterRouting,
       AfterDictionary
  <2> QED
    BY <1>1, <2>1, <2>2, PassKeeps
<1> QED
  BY <1>3, <1>4, <1>5

LEMMA OpenStepKeeps == ASSUME OpenInv, OpenStep PROVE OpenInv'
BY HeaderKeeps, SignaturesKeeps, BoundsKeeps, RootKeeps, ParseKeeps, RoutingKeeps,
   DictionaryKeeps, FlawsKeep, RangesKeeps, EndRangesKeeps, VectorsKeeps, PaddingKeeps
   DEF OpenStep

-----------------------------------------------------------------------------
(* The reads. *)

\* What a job of a thread may be after a step of its own.  Only an answer of
\* `payload` in a raw region may be of another version.
Sound(j) ==
  /\ j \in Job
  /\ j.at # "idle" /\ j.op \in Ops /\ j.of \in Payloads
  /\ j.at = "inflating" => j.region \in Regions /\ Frame(j.region) = This
  /\ /\ j.at = "done" /\ j.answer \in Places
     /\ j.op # "payload" \/ RegionOf[j.of] \in Written.zstd
     => j.answer = This

LEMMA ReadsWithin ==
  ASSUME NEW op \in Ops, NEW p \in Payloads
  PROVE  /\ Reads(op, p) \subseteq Payloads
         /\ {RegionOf[q] : q \in Reads(op, p)} \subseteq Regions
<1>1. /\ Covers[p] \subseteq Payloads
      /\ \A q \in Payloads : RegionOf[q] \in Regions
  BY OpenAssumption
<1> QED
  BY <1>1 DEF Reads, Ops

LEMMA OpenIsThis ==
  ASSUME OpenInv, pc = "open"
  PROVE  tables = This
BY StagesInOrder DEF OpenInv, Tabled

LEMMA JobOf ==
  ASSUME OpenInv, NEW t \in Readers
  PROVE  /\ reading[t] \in Job
         /\ reading[t].at # "idle" =>
              pc = "open" /\ reading[t].op \in Ops /\ reading[t].of \in Payloads
         /\ reading[t].at = "inflating" =>
              reading[t].region \in Regions /\ Frame(reading[t].region) = This
         /\ reading[t].at = "idle" => reading[t].answer = NONE
BY DEF OpenInv, Shared, Working

LEMMA AskSound ==
  ASSUME OpenInv, NEW t \in Readers, NEW op \in Ops, NEW p \in Payloads, Ask(t, op, p)
  PROVE  \E j : Sound(j) /\ reading' = [reading EXCEPT ![t] = j]
<1> DEFINE todo == {RegionOf[q] : q \in Reads(op, p)}
           j == [reading[t] EXCEPT !.at = "reading", !.op = op, !.of = p, !.todo = todo]
<1>1. todo \in SUBSET Regions
  BY ReadsWithin
<1> HIDE DEF todo
<1>2. j \in Job /\ j.at = "reading" /\ j.op = op /\ j.of = p
  BY <1>1, JobOf DEF Job
<1>3. Sound(j)
  BY <1>2 DEF Sound
<1>4. reading' = [reading EXCEPT ![t] = j]
  BY DEF Ask, todo
<1> QED
  BY <1>3, <1>4

LEMMA GotSound ==
  ASSUME OpenInv, NEW t \in Readers, NEW r \in Regions,
         reading[t].at # "idle", Got(t, r)
  PROVE  \E j : Sound(j) /\ reading' = [reading EXCEPT ![t] = j]
<1> DEFINE j == [reading[t] EXCEPT !.at = "reading", !.todo = @ \ {r}, !.region = NONE]
<1>1. /\ j \in Job /\ j.at = "reading"
      /\ j.op = reading[t].op /\ j.of = reading[t].of
  BY JobOf DEF Job
<1>2. Sound(j)
  BY <1>1, JobOf DEF Sound
<1>3. reading' = [reading EXCEPT ![t] = j]
  BY DEF Got
<1> QED
  BY <1>2, <1>3

LEMMA AnswerSound ==
  ASSUME OpenInv, NEW t \in Readers, reading[t].at # "idle",
         NEW a \in Places \cup {NONE, "RegionHashMismatch", "PayloadHashMismatch"},
         /\ a \in Places
         /\ \/ reading[t].op # "payload"
            \/ RegionOf[reading[t].of] \in Written.zstd
         => a = This,
         Answer(t, a)
  PROVE  \E j : Sound(j) /\ reading' = [reading EXCEPT ![t] = j]
<1> DEFINE j == [reading[t] EXCEPT !.at = "done", !.answer = a]
<1>1. /\ j \in Job /\ j.at = "done" /\ j.answer = a
      /\ j.op = reading[t].op /\ j.of = reading[t].of
  BY JobOf DEF Job
<1>2. Sound(j)
  BY <1>1, JobOf DEF Sound
<1>3. reading' = [reading EXCEPT ![t] = j]
  BY DEF Answer
<1> QED
  BY <1>2, <1>3

LEMMA PayloadType ==
  ASSUME OpenInv, NEW p \in Payloads
  PROVE  /\ Payload(p) \in Places \cup {NONE}
         /\ RegionOf[p] \in Written.zstd /\ Payload(p) \in Places => Payload(p) = This
<1>1. /\ RegionOf[p] \in Regions /\ file.payload[p] \in Places
      /\ This \in Places /\ kept \in [Regions -> {This, NONE}]
  BY OpenAssumption, FileIsOneVersion DEF OpenInv, Inputs, File, Shared, Places
<1> QED
  BY <1>1, NoneIsApart DEF Payload

\* What a thread does to its own job and to the kept regions.
ReadMoves(t) ==
  /\ pc = "open" /\ UNCHANGED <<inputs, pc, found, rangesVars>>
  /\ kept' \in [Regions -> {This, NONE}]
  /\ \A r \in Regions : kept[r] # NONE => kept'[r] = kept[r]
  /\ reading[t].at # "done"
  /\ \E j : Sound(j) /\ reading' = [reading EXCEPT ![t] = j]

LEMMA FindMoves ==
  ASSUME OpenInv, NEW t \in Readers, NEW r \in Regions, Find(t, r)
  PROVE  ReadMoves(t)
<1>1. reading[t].at = "reading" /\ kept' = kept /\ UNCHANGED <<inputs, pc, found, rangesVars>>
  BY DEF Find
<1>2. \E j : Sound(j) /\ reading' = [reading EXCEPT ![t] = j]
  BY <1>1, GotSound DEF Find
<1> QED
  BY <1>1, <1>2, JobOf DEF ReadMoves, OpenInv, Shared

LEMMA TouchMoves ==
  ASSUME OpenInv, NEW t \in Readers, NEW r \in Regions, Touch(t, r)
  PROVE  ReadMoves(t)
<1>1. reading[t].at = "reading" /\ kept' = kept /\ UNCHANGED <<inputs, pc, found, rangesVars>>
  BY DEF Touch
<1>2. pc = "open" /\ tables = This
  BY <1>1, JobOf, OpenIsThis
<1>3. CASE Answer(t, "RegionHashMismatch")
  <2>1. \E j : Sound(j) /\ reading' = [reading EXCEPT ![t] = j]
    BY <1>1, <1>3, AnswerSound, NoneIsApart
  <2> QED
    BY <1>1, <1>2, <2>1 DEF ReadMoves, OpenInv, Shared
<1>4. CASE /\ Frame(r) = tables
           /\ reading' = [reading EXCEPT ![t] =
                            [reading[t] EXCEPT !.at = "inflating", !.region = r]]
  <2> DEFINE j == [reading[t] EXCEPT !.at = "inflating", !.region = r]
  <2>1. /\ j \in Job /\ j.at = "inflating" /\ j.region = r
        /\ j.op = reading[t].op /\ j.of = reading[t].of
    BY JobOf DEF Job
  <2>2. Sound(j)
    BY <1>1, <1>2, <1>4, <2>1, JobOf DEF Sound
  <2> QED
    BY <1>1, <1>2, <1>4, <2>2 DEF ReadMoves, OpenInv, Shared
<1> QED
  BY <1>3, <1>4 DEF Touch

LEMMA KeepMoves ==
  ASSUME OpenInv, NEW t \in Readers, Keep(t)
  PROVE  ReadMoves(t)
<1> DEFINE r == reading[t].region
<1>1. reading[t].at = "inflating" /\ UNCHANGED <<inputs, pc, found, rangesVars>>
  BY DEF Keep
<1>2. pc = "open" /\ r \in Regions /\ Frame(r) = This
  BY <1>1, JobOf
<1>3. /\ kept' = IF kept[r] = NONE THEN [kept EXCEPT ![r] = Frame(r)] ELSE kept
      /\ Got(t, r)
  BY DEF Keep
<1>4. kept \in [Regions -> {This, NONE}]
  BY DEF OpenInv, Shared
<1> HIDE DEF r
<1>5. /\ kept' \in [Regions -> {This, NONE}]
      /\ \A s \in Regions : kept[s] # NONE => kept'[s] = kept[s]
  BY <1>2, <1>3, <1>4
<1>6. \E j : Sound(j) /\ reading' = [reading EXCEPT ![t] = j]
  BY <1>1, <1>2, <1>3, GotSound
<1> QED
  BY <1>1, <1>2, <1>5, <1>6 DEF ReadMoves

LEMMA FinishMoves ==
  ASSUME OpenInv, NEW t \in Readers, Finish(t)
  PROVE  ReadMoves(t)
<1> DEFINE p == reading[t].of
           op == reading[t].op
<1>1. reading[t].at = "reading" /\ kept' = kept /\ UNCHANGED <<inputs, pc, found, rangesVars>>
  BY DEF Finish
<1>2. pc = "open" /\ tables = This /\ op \in Ops /\ p \in Payloads
  BY <1>1, JobOf, OpenIsThis
<1>3. CASE Answer(t, "PayloadHashMismatch")
  <2>1. \E j : Sound(j) /\ reading' = [reading EXCEPT ![t] = j]
    BY <1>1, <1>3, AnswerSound, NoneIsApart
  <2> QED
    BY <1>1, <1>2, <2>1 DEF ReadMoves, OpenInv, Shared
<1>4. CASE (\A q \in Checks(op, p) : Matches(q)) /\ Answer(t, Payload(p))
  <2>1. op # "payload" => p \in Checks(op, p)
    BY <1>2 DEF Checks, Ops
  <2>2. p \in Covers[p]
    BY <1>2, OpenAssumption
  <2>3. op # "payload" => Payload(p) = This
    BY <1>2, <1>4, <2>1, <2>2 DEF Matches
  <2>4. \E j : Sound(j) /\ reading' = [reading EXCEPT ![t] = j]
    BY <1>1, <1>2, <1>4, <2>3, PayloadType, AnswerSound
  <2> QED
    BY <1>1, <1>2, <2>4 DEF ReadMoves, OpenInv, Shared
<1> QED
  BY <1>3, <1>4 DEF Finish

LEMMA ReadStepMoves ==
  ASSUME OpenInv, NEW t \in Readers, ReadStep(t)
  PROVE  ReadMoves(t)
<1>1. ASSUME NEW op \in Ops, NEW p \in Payloads, Ask(t, op, p) PROVE ReadMoves(t)
  <2>1. /\ pc = "open" /\ reading[t].at = "idle" /\ kept' = kept
        /\ UNCHANGED <<inputs, pc, found, rangesVars>>
    BY <1>1 DEF Ask
  <2>2. \E j : Sound(j) /\ reading' = [reading EXCEPT ![t] = j]
    BY <1>1, AskSound
  <2> QED
    BY <2>1, <2>2 DEF ReadMoves, OpenInv, Shared
<1> QED
  BY <1>1, FindMoves, TouchMoves, KeepMoves, FinishMoves DEF ReadStep

LEMMA ReadStepKeeps ==
  ASSUME OpenInv, NEW t \in Readers, ReadMoves(t)
  PROVE  OpenInv'
<1>1. PICK j : Sound(j) /\ reading' = [reading EXCEPT ![t] = j]
  BY DEF ReadMoves
<1>2. /\ This' = This /\ Written' = Written /\ RoutingFound' = RoutingFound
      /\ policy' = policy /\ file' = file /\ dict' = dict /\ shape' = shape
      /\ vouched' = vouched /\ tables' = tables /\ vectors' = vectors
      /\ pc' = pc /\ pc = "open" /\ kept' \in [Regions -> {This, NONE}]
      /\ \A r \in Regions : Frame(r)' = Frame(r)
  BY FileStays DEF found, ReadMoves
<1>3. Inputs'
  BY <1>2 DEF OpenInv, Inputs
<1>4. Vouching' /\ Tabled' /\ Located'
  BY <1>2 DEF OpenInv, Vouching, Tabled, Located
<1>5. RangesInv'
  BY RangesStep DEF OpenInv, ReadMoves
<1>6. reading' \in [Readers -> Job]
  BY <1>1 DEF OpenInv, Shared, Sound
<1>7. Working'
  <2> SUFFICES ASSUME NEW u \in Readers
      PROVE /\ reading'[u].at # "idle" =>
                 pc' = "open" /\ reading'[u].op \in Ops /\ reading'[u].of \in Payloads
            /\ reading'[u].at = "inflating" => reading'[u].region \in Regions
            /\ \A r \in Regions :
                 reading'[u].at = "inflating" /\ reading'[u].region = r =>
                   Frame(r) = This
            /\ reading'[u].at = "idle" => reading'[u].answer = NONE
    BY <1>2 DEF Working
  <2>1. CASE u = t
    <3>1. reading'[u] = j
      BY <1>1, <2>1 DEF OpenInv, Shared
    <3> QED
      BY <1>1, <1>2, <3>1 DEF Sound
  <2>2. CASE u # t
    <3>1. reading'[u] = reading[u]
      BY <1>1, <2>2 DEF OpenInv, Shared
    <3> QED
      BY <1>2, <3>1, JobOf
  <2> QED
    BY <2>1, <2>2
<1> QED
  BY <1>2, <1>3, <1>4, <1>5, <1>6, <1>7 DEF OpenInv, Shared

LEMMA OpenInvStep == ASSUME OpenInv, [Next]_vars PROVE OpenInv'
<1>1. CASE UNCHANGED vars
  BY <1>1, AsideKeeps, RangesStep DEF vars, OpenInv
<1> QED
  BY <1>1, OpenStepKeeps, ReadStepMoves, ReadStepKeeps DEF Next

LEMMA OpenInvariant == Spec => []OpenInv
BY InitInv, OpenInvStep, PTL DEF Spec

-----------------------------------------------------------------------------
LEMMA InvTypeOK == OpenInv => TypeOK
<1> SUFFICES ASSUME OpenInv PROVE TypeOK
  OBVIOUS
<1>1. vouched \subseteq policy.keys /\ tables \in Places \cup {NONE}
      /\ vectors \in Versions \cup {NONE} /\ kept \in [Regions -> Versions \cup {NONE}]
  BY FoundTypes, FileIsOneVersion DEF OpenInv, Shared, Places
<1>2. ASSUME NEW t \in Readers
      PROVE  /\ reading[t].at \in {"idle", "reading", "inflating", "done"}
             /\ reading[t].at # "idle" =>
                  pc = "open" /\ reading[t].op \in Ops /\ reading[t].of \in Payloads
             /\ reading[t].todo \subseteq Regions
             /\ reading[t].region \in Regions \cup {NONE}
             /\ reading[t].answer \in
                  Places \cup {NONE, "RegionHashMismatch", "PayloadHashMismatch"}
  BY JobOf DEF Job
<1>3. RangesTypeOK
  BY RangesInvTypeOK DEF OpenInv
<1> QED
  BY <1>1, <1>2, <1>3 DEF TypeOK

(***************************************************************************)
(* The types hold for every file and every number of threads; in           *)
(* particular no frame but one the tables vouch for is ever kept           *)
(* (lib.rs 294-331).                                                       *)
(***************************************************************************)
THEOREM OpenTypeCorrect == Spec => []TypeOK
BY OpenInvariant, InvTypeOK, PTL

(***************************************************************************)
(* Called from open_with, check_payload_ranges is still right: nothing     *)
(* else touches the tables it compares (validate.rs 221-253).              *)
(***************************************************************************)
THEOREM OpenRangesRight == Spec => []RangesDecide
<1>1. OpenInv => RangesDecide
  BY RangesInvDecides DEF OpenInv
<1> QED
  BY <1>1, OpenInvariant, PTL

(***************************************************************************)
(* A file that opens is of the one version its header names, in all that   *)
(* open_with relies on, and vouched for as the policy asks                 *)
(* (lib.rs 91-204).                                                        *)
(***************************************************************************)
THEOREM OpenAcceptsCommitted == Spec => []AcceptedIsCommitted
<1>1. OpenInv => AcceptedIsCommitted
  <2> SUFFICES ASSUME OpenInv, pc = "open" PROVE AcceptedIsCommitted
    BY DEF AcceptedIsCommitted
  <2>1. Vouching /\ Tabled /\ Located
    BY DEF OpenInv
  <2> QED
    BY <2>1, StagesInOrder DEF AcceptedIsCommitted, Vouching, Tabled, Located
<1> QED
  BY <1>1, OpenInvariant, PTL

-----------------------------------------------------------------------------
(* The refinement. *)

LEMMA HeldIs ==
  ASSUME OpenInv
  PROVE  /\ pc = "open" => Held = This /\ This \in Versions
         /\ pc \in Stages => Held = "closed"
         /\ pc \notin Stages \cup {"open"} => Held = "refused"
BY FileIsOneVersion DEF OpenInv, Held, Refused, Stages

LEMMA AdmittedStays ==
  ASSUME UNCHANGED inputs PROVE Admitted' = Admitted
BY FileStays DEF Admitted

\* Without a step of a thread nothing more is handed out.
LEMMA HandedStays ==
  ASSUME UNCHANGED inputs, reading' = reading PROVE Handed' = Handed
<1>1. \A t \in Readers : Committed(t)' = Committed(t)
  BY FileStays DEF Committed
<1> QED
  BY <1>1 DEF Handed

LEMMA OpenInitAbstract == Init => Container!Init
<1> SUFFICES ASSUME Init PROVE Container!Init
  OBVIOUS
<1>1. \A t \in Readers : ~ Committed(t)
  BY DEF Init, Idle, Committed
<1>2. Handed = {}
  BY <1>1 DEF Handed
<1>3. Admitted \in SUBSET Versions
  BY DEF Admitted
<1>4. Held = "closed"
  BY DEF Init, Held, Refused, Stages
<1> QED
  BY <1>2, <1>3, <1>4 DEF Container!Init

\* A file is taken for a version the policy admits.
LEMMA OpenIsAdmitted ==
  ASSUME OpenInv', pc' = "open" PROVE This' \in Admitted'
<1>1. /\ vouched' \subseteq policy'.keys /\ vouched' \subseteq Written'.signers
      /\ policy'.require => vouched' # {}
  BY StagesInOrder DEF OpenInv, Vouching
<1>2. This' \in Versions
  BY DEF OpenInv, Inputs, File, This
<1> QED
  BY <1>1, <1>2 DEF Admitted, Written

LEMMA OpenStepAbstract ==
  ASSUME OpenInv, OpenInv', OpenStep
  PROVE  Container!Next \/ UNCHANGED <<Admitted, Held, Handed>>
<1>1. /\ pc \in Stages
      /\ UNCHANGED <<inputs, shared>>
  BY DEF OpenStep, CheckHeader, CheckSignatures, CheckBounds, CheckRoot, ParseManifest,
     CheckRouting, CheckDictionary, CheckRegions, CheckGraph, CheckRanges, EndRanges,
     CheckSegments, CheckRoots, CheckVectors, CheckPadding, Goto, FlawOr, Stages
<1>2. Admitted' = Admitted /\ Handed' = Handed
  BY <1>1, AdmittedStays, HandedStays DEF shared
<1>3. Held = "closed"
  BY <1>1, HeldIs
<1>4. CASE pc' \in Stages
  <2>1. Held' = "closed"
    BY <1>4 DEF Held, Refused, Stages
  <2> QED
    BY <1>2, <1>3, <2>1
<1>5. CASE pc' = "open"
  <2>1. This' \in Admitted'
    BY <1>5, OpenIsAdmitted
  <2>2. Held' = This'
    BY <1>5 DEF Held
  <2> QED
    BY <1>2, <1>3, <2>1, <2>2 DEF Container!Next, Container!Accept
<1>6. CASE pc' \notin Stages \cup {"open"}
  <2>1. Held' = "refused"
    BY <1>6 DEF Held, Refused
  <2> QED
    BY <1>2, <1>3, <2>1 DEF Container!Next, Container!Refuse
<1> QED
  BY <1>4, <1>5, <1>6

\* A thread hands out at most one payload at a time, and as committed only
\* what is of the version the file was taken for.
LEMMA ReadAbstract ==
  ASSUME OpenInv, NEW t \in Readers, ReadMoves(t)
  PROVE  Container!Next \/ UNCHANGED <<Admitted, Held, Handed>>
<1>1. PICK j : Sound(j) /\ reading' = [reading EXCEPT ![t] = j]
  BY DEF ReadMoves
<1>2. /\ pc = "open" /\ pc' = pc /\ UNCHANGED inputs /\ reading[t].at # "done"
      /\ reading \in [Readers -> Job]
  BY DEF ReadMoves, OpenInv, Shared
<1>3. /\ Admitted' = Admitted /\ Held = This /\ Held' = This /\ This \in Versions
      /\ Written' = Written
  BY <1>2, AdmittedStays, FileStays, HeldIs DEF Held
<1>4. /\ reading'[t] = j
      /\ \A u \in Readers \ {t} : reading'[u] = reading[u]
  BY <1>1, <1>2
<1>5. /\ ~ Committed(t)
      /\ \A u \in Readers \ {t} : Committed(u)' = Committed(u)
  BY <1>2, <1>3, <1>4 DEF Committed
<1>6. CASE Committed(t)'
  <2>1. j.answer = This /\ j.of \in Payloads
    BY <1>1, <1>3, <1>4, <1>6 DEF Committed, Sound
  <2>2. Handed' = Handed \cup {<<j.of, This>>}
    <3>1. Handed' = {<<reading'[u].of, reading'[u].answer>> :
                       u \in {w \in Readers : Committed(w)'}}
      BY DEF Handed
    <3>2. {w \in Readers : Committed(w)'} = {w \in Readers : Committed(w)} \cup {t}
      BY <1>5, <1>6
    <3> QED
      BY <1>4, <1>5, <2>1, <3>1, <3>2 DEF Handed
  <2>3. Container!HandOut(j.of)
    BY <1>3, <2>2 DEF Container!HandOut
  <2> QED
    BY <2>1, <2>3 DEF Container!Next
<1>7. CASE ~ Committed(t)'
  <2>1. Handed' = {<<reading'[u].of, reading'[u].answer>> :
                     u \in {w \in Readers : Committed(w)'}}
    BY DEF Handed
  <2>2. {w \in Readers : Committed(w)'} = {w \in Readers : Committed(w)}
    BY <1>5, <1>7
  <2>3. Handed' = Handed
    BY <1>4, <1>5, <2>1, <2>2 DEF Handed
  <2> QED
    BY <1>3, <2>3
<1> QED
  BY <1>6, <1>7

LEMMA StepAbstract ==
  ASSUME OpenInv, OpenInv', [Next]_vars
  PROVE  Container!Next \/ UNCHANGED <<Admitted, Held, Handed>>
<1>1. CASE UNCHANGED vars
  <2>1. UNCHANGED inputs /\ reading' = reading /\ pc' = pc
    BY <1>1 DEF vars, shared
  <2>2. Held' = Held
    BY <2>1, FileStays DEF Held, Refused
  <2> QED
    BY <2>1, <2>2, AdmittedStays, HandedStays
<1>2. CASE OpenStep
  BY <1>2, OpenStepAbstract
<1>3. CASE \E t \in Readers : ReadStep(t)
  BY <1>3, ReadStepMoves, ReadAbstract
<1> QED
  BY <1>1, <1>2, <1>3 DEF Next

(***************************************************************************)
(* open_with and the reads of any number of threads implement the          *)
(* container of one version: it is accepted or refused once, and whatever  *)
(* is handed out as committed is of the version it was accepted for        *)
(* (lib.rs 91-204 and 294-427).                                            *)
(***************************************************************************)
THEOREM OpenImplements == Spec => ImplementsContainer
BY OpenInitAbstract, OpenInvariant, StepAbstract, PTL
   DEF Spec, ImplementsContainer, Container!Spec

-----------------------------------------------------------------------------
(* An intact file. *)

LEMMA IntactFacts ==
  ASSUME Intact
  PROVE  /\ file.fault = NONE /\ Written.flaw = NONE
         /\ file.sigs = This /\ file.routing = This
         /\ file.vectors = This /\ file.manifest = This
         /\ \A p \in Payloads : file.payload[p] = This
         /\ \A r \in Regions : file.zero[r] /\ Frame(r) = This
         /\ Written.dict => dict = Dict
         /\ policy.require => policy.keys \cap Written.signers # {}
         /\ Apart
<1>1. \A r \in Regions : Frame(r) = This
  BY DEF Intact, Frame
<1>2. /\ file.sigs \in {This} /\ file.routing \in {This}
      /\ file.vectors \in {This} /\ file.manifest \in {This}
  BY DEF Intact
<1> QED
  BY <1>1, <1>2 DEF Intact

LEMMA IntactStays ==
  ASSUME Intact', UNCHANGED inputs, UNCHANGED <<nodes, regionLen>>
  PROVE  Intact
<1>1. Apart' = Apart
  BY DEF Apart, Same, Disjoint
<1> QED
  BY <1>1, FileStays DEF Intact

\* Every key of the policy that signed is vouched for, and none is found invalid.
LEMMA IntactEntries ==
  ASSUME OpenInv, Intact, NEW k
  PROVE  /\ "invalid" \notin Entry(k)
         /\ k \in Written.signers => HasEntries /\ Entry(k) = {"valid"}
<1>1. /\ file.fault = NONE /\ file.sigs = This /\ This \in Versions /\ This # Damaged
      /\ shape[file.sigs].signers = Written.signers
  BY IntactFacts, FileIsOneVersion, NoneIsApart DEF OpenInv, Written
<1>2. NONE # "count"
  BY DEF NONE
<1>3. SigsFound = This
  BY <1>1, <1>2 DEF SigsFound
<1> QED
  BY <1>1, <1>3 DEF Entry, HasEntries, Written

LEMMA IntactSigned ==
  ASSUME OpenInv, Intact, CheckSignatures
  PROVE  pc' = "bounds"
<1>1. /\ file.fault = NONE /\ file.sigs = This /\ This \in Versions /\ This # Damaged
  BY IntactFacts, FileIsOneVersion, NoneIsApart DEF OpenInv
<1>2. SigsFound # Damaged
  BY <1>1 DEF SigsFound, NONE, Written
<1>3. PICK entry \in [Keys -> {"skipped", "valid", "invalid"}] :
        /\ \A k \in Keys :
             entry[k] \in (IF HasEntries THEN Entry(k) ELSE {"skipped"})
        /\ vouched' = {k \in policy.keys : entry[k] = "valid"}
        /\ Goto(IF \E k \in policy.keys : entry[k] = "invalid"
                THEN "BadSignature"
                ELSE IF policy.require /\ vouched' = {}
                THEN IF HasEntries THEN "UntrustedKey" ELSE "Unsigned"
                ELSE "bounds")
  BY <1>2 DEF CheckSignatures
<1>4. policy.keys \subseteq Keys
  BY DEF OpenInv, Inputs, Policy
<1>5. \A k \in policy.keys : entry[k] # "invalid"
  BY <1>3, <1>4, IntactEntries
<1>6. policy.require => vouched' # {}
  <2> SUFFICES ASSUME policy.require PROVE vouched' # {}
    OBVIOUS
  <2>1. PICK k : k \in policy.keys /\ k \in Written.signers
    BY IntactFacts
  <2>2. entry[k] = "valid"
    BY <1>3, <1>4, <2>1, IntactEntries
  <2> QED
    BY <1>3, <2>1, <2>2
<1> QED
  BY <1>3, <1>5, <1>6 DEF Goto

LEMMA IntactPasses ==
  ASSUME OpenInv, Intact, OpenStep
  PROVE  pc' \in Stages \cup {"open"}
<1>1. /\ file.fault = NONE /\ Written.flaw = NONE /\ file.routing = This
      /\ file.vectors = This /\ file.manifest = This
      /\ Written.dict => dict = Dict
      /\ \A r \in Regions : file.zero[r]
      /\ This \in Versions /\ This # Damaged /\ shape[This] = Written
  BY IntactFacts, FileIsOneVersion, NoneIsApart DEF OpenInv, Written
<1>2. CASE CheckHeader
  <2>1. NONE \notin DOMAIN HeaderRefusal
    BY DEF HeaderRefusal, NONE
  <2> QED
    BY <1>1, <1>2, <2>1 DEF CheckHeader, Goto, Stages
<1>3. CASE CheckSignatures
  BY <1>3, IntactSigned DEF Stages
<1>4. CASE CheckBounds \/ CheckRoot \/ ParseManifest \/ CheckDictionary
  <2>1. CASE CheckBounds \/ CheckRoot
    BY <1>1, <2>1 DEF CheckBounds, CheckRoot, Goto, Stages, NONE
  <2>2. CASE ParseManifest
    BY <1>1, <2>2 DEF ParseManifest, Inflates, Goto, Stages, NONE
  <2>3. CASE CheckDictionary
    BY <1>1, <2>3, OpenAssumption DEF CheckDictionary, Goto, Stages
  <2> QED
    BY <1>4, <2>1, <2>2, <2>3
<1>5. CASE CheckRouting
  <2>1. RoutingFound = This
    BY <1>1 DEF RoutingFound, NONE
  <2> QED
    BY <1>1, <1>5, <2>1 DEF CheckRouting, Goto, Stages, NONE
<1>6. CASE CheckRegions \/ CheckGraph \/ CheckSegments \/ CheckRoots
  BY <1>1, <1>6 DEF CheckRegions, CheckGraph, CheckSegments, CheckRoots, FlawOr,
     Goto, Stages, NONE
<1>7. CASE CheckRanges
  BY <1>7 DEF CheckRanges, Stages
<1>8. CASE EndRanges
  <2>1. ranges \notin RangesErrors
    BY IntactFacts, RefusedIsNotApart DEF OpenInv
  <2> QED
    BY <1>8, <2>1 DEF EndRanges, Goto, Stages
<1>9. CASE CheckVectors
  BY <1>1, <1>9 DEF CheckVectors, Goto, Stages, NONE
<1>10. CASE CheckPadding
  <2>1. RegionRefusal("hot") = NONE /\ RegionRefusal("cold") = NONE
    BY <1>1 DEF RegionRefusal, NONE, Regions
  <2> QED
    BY <1>10, <2>1 DEF CheckPadding, Goto, Stages
<1> QED
  BY <1>2, <1>3, <1>4, <1>5, <1>6, <1>7, <1>8, <1>9, <1>10 DEF OpenStep

\* A region a thread has asked for is still to be fetched, raw, or kept.
Fetching ==
  \A t \in Readers : reading[t].at \in {"reading", "inflating"} =>
    \A q \in Reads(reading[t].op, reading[t].of) :
      \/ RegionOf[q] \in reading[t].todo
      \/ RegionOf[q] \notin Written.zstd
      \/ kept[RegionOf[q]] # NONE

Untroubled ==
  /\ pc \in Stages \cup {"open"}
  /\ \A t \in Readers : reading[t].answer \in {NONE, This}

IntactInv == Fetching /\ (Intact => Untroubled)

\* The job of a thread after its step, for the regions it asked for.
FetchingJob(j) ==
  j.at \in {"reading", "inflating"} =>
    \A q \in Reads(j.op, j.of) :
      \/ RegionOf[q] \in j.todo
      \/ RegionOf[q] \notin Written.zstd
      \/ kept'[RegionOf[q]] # NONE

LEMMA FetchingKeeps ==
  ASSUME OpenInv, Fetching, NEW t \in Readers, NEW j,
         reading' = [reading EXCEPT ![t] = j], FetchingJob(j), UNCHANGED inputs,
         \A r \in Regions : kept[r] # NONE => kept'[r] = kept[r]
  PROVE  Fetching'
<1>1. Written' = Written /\ reading \in [Readers -> Job]
  BY FileStays DEF OpenInv, Shared
<1>2. SUFFICES ASSUME NEW u \in Readers, reading'[u].at \in {"reading", "inflating"},
                      NEW q \in Reads(reading'[u].op, reading'[u].of)
      PROVE  \/ RegionOf[q] \in reading'[u].todo
             \/ RegionOf[q] \notin Written.zstd
             \/ kept'[RegionOf[q]] # NONE
  BY <1>1 DEF Fetching, Reads
<1>3. CASE u = t
  <2>1. reading'[u] = j
    BY <1>1, <1>3
  <2> QED
    BY <1>2, <2>1 DEF FetchingJob
<1>4. CASE u # t
  <2>1. reading'[u] = reading[u]
    BY <1>1, <1>4
  <2>2. reading[u].op \in Ops /\ reading[u].of \in Payloads
    BY <1>2, <2>1, JobOf
  <2>3. RegionOf[q] \in Regions
    BY <1>2, <2>1, <2>2, ReadsWithin
  <2> QED
    BY <1>2, <2>1, <2>3 DEF Fetching
<1> QED
  BY <1>3, <1>4

\* What an intact file gives of a region that was fetched.
LEMMA IntactPayload ==
  ASSUME OpenInv, Intact, NEW q \in Payloads,
         RegionOf[q] \notin Written.zstd \/ kept[RegionOf[q]] # NONE
  PROVE  Payload(q) = This
<1>1. /\ file.payload[q] = This /\ RegionOf[q] \in Regions
      /\ kept[RegionOf[q]] \in {This, NONE}
  BY IntactFacts, OpenAssumption DEF OpenInv, Shared
<1> QED
  BY <1>1 DEF Payload

\* A step of a thread, with what the two parts of the invariant need of it.
Fetches(t) ==
  \E j : /\ reading' = [reading EXCEPT ![t] = j]
         /\ FetchingJob(j)
         /\ Intact => j.answer \in {NONE, This}

LEMMA AskFetches ==
  ASSUME OpenInv, IntactInv, NEW t \in Readers, NEW op \in Ops, NEW p \in Payloads,
         Ask(t, op, p)
  PROVE  Fetches(t)
<1> DEFINE todo == {RegionOf[q] : q \in Reads(op, p)}
           j == [reading[t] EXCEPT !.at = "reading", !.op = op, !.of = p, !.todo = todo]
<1>1. reading' = [reading EXCEPT ![t] = j]
  BY DEF Ask
<1>2. \A q \in Reads(op, p) : RegionOf[q] \in todo
  OBVIOUS
<1> HIDE DEF todo
<1>3. j.op = op /\ j.of = p /\ j.todo = todo /\ j.answer = reading[t].answer
  BY JobOf DEF Job
<1>4. FetchingJob(j)
  BY <1>2, <1>3 DEF FetchingJob
<1> QED
  BY <1>1, <1>3, <1>4 DEF Fetches, IntactInv, Untroubled

LEMMA GotFetches ==
  ASSUME OpenInv, IntactInv, NEW t \in Readers, NEW r \in Regions,
         reading[t].at \in {"reading", "inflating"}, Got(t, r),
         r \notin Written.zstd \/ kept'[r] # NONE,
         \A s \in Regions : kept[s] # NONE => kept'[s] = kept[s]
  PROVE  Fetches(t)
<1> DEFINE j == [reading[t] EXCEPT !.at = "reading", !.todo = reading[t].todo \ {r},
                                   !.region = NONE]
<1>1. reading' = [reading EXCEPT ![t] = j]
  BY DEF Got
<1>2. /\ j.op = reading[t].op /\ j.of = reading[t].of
      /\ j.todo = reading[t].todo \ {r} /\ j.answer = reading[t].answer
  BY JobOf DEF Job
<1>3. ASSUME NEW q \in Reads(j.op, j.of)
      PROVE  \/ RegionOf[q] \in j.todo \/ RegionOf[q] \notin Written.zstd
             \/ kept'[RegionOf[q]] # NONE
  <2>1. RegionOf[q] \in Regions
    BY <1>2, <1>3, JobOf, ReadsWithin
  <2> QED
    BY <1>2, <1>3, <2>1 DEF IntactInv, Fetching
<1>4. FetchingJob(j)
  BY <1>3 DEF FetchingJob
<1> QED
  BY <1>1, <1>2, <1>4 DEF Fetches, IntactInv, Untroubled

LEMMA AnswerFetches ==
  ASSUME OpenInv, NEW t \in Readers, NEW a, Answer(t, a), Intact => a \in {NONE, This}
  PROVE  Fetches(t)
<1> DEFINE j == [reading[t] EXCEPT !.at = "done", !.answer = a]
<1>1. reading' = [reading EXCEPT ![t] = j] /\ j.at = "done" /\ j.answer = a
  BY JobOf DEF Answer, Job
<1> QED
  BY <1>1 DEF Fetches, FetchingJob

LEMMA TouchFetches ==
  ASSUME OpenInv, IntactInv, NEW t \in Readers, NEW r \in Regions, Touch(t, r)
  PROVE  Fetches(t)
<1>1. reading[t].at = "reading" /\ kept' = kept
  BY DEF Touch
<1>2. tables = This
  BY <1>1, JobOf, OpenIsThis
<1>3. CASE Frame(r) # tables /\ Answer(t, "RegionHashMismatch")
  BY <1>2, <1>3, IntactFacts, AnswerFetches
<1>4. CASE reading' = [reading EXCEPT ![t] =
                         [reading[t] EXCEPT !.at = "inflating", !.region = r]]
  <2> DEFINE j == [reading[t] EXCEPT !.at = "inflating", !.region = r]
  <2>1. /\ j.op = reading[t].op /\ j.of = reading[t].of
        /\ j.todo = reading[t].todo /\ j.answer = reading[t].answer
    BY JobOf DEF Job
  <2>2. FetchingJob(j)
    BY <1>1, <2>1 DEF FetchingJob, IntactInv, Fetching
  <2> QED
    BY <1>4, <2>1, <2>2 DEF Fetches, IntactInv, Untroubled
<1> QED
  BY <1>3, <1>4 DEF Touch

LEMMA KeepFetches ==
  ASSUME OpenInv, IntactInv, NEW t \in Readers, Keep(t), ReadMoves(t)
  PROVE  Fetches(t)
<1> DEFINE r == reading[t].region
<1>1. reading[t].at = "inflating" /\ Got(t, r)
      /\ kept' = IF kept[r] = NONE THEN [kept EXCEPT ![r] = Frame(r)] ELSE kept
  BY DEF Keep
<1>2. r \in Regions /\ Frame(r) = This /\ This # NONE
  BY <1>1, JobOf, FileIsOneVersion, NoneIsApart DEF OpenInv
<1>3. kept \in [Regions -> {This, NONE}]
  BY DEF OpenInv, Shared
<1>4. \A s \in Regions : kept[s] # NONE => kept'[s] = kept[s]
  BY DEF ReadMoves
<1> HIDE DEF r
<1>5. kept'[r] # NONE
  BY <1>1, <1>2, <1>3
<1> QED
  BY <1>1, <1>2, <1>4, <1>5, GotFetches

LEMMA FinishFetches ==
  ASSUME OpenInv, IntactInv, NEW t \in Readers, Finish(t)
  PROVE  Fetches(t)
<1> DEFINE p == reading[t].of
           op == reading[t].op
<1>1. reading[t].at = "reading"
  BY DEF Finish
<1>2. tables = This /\ op \in Ops /\ p \in Payloads
  BY <1>1, JobOf, OpenIsThis
<1>3. \A q \in Reads(op, p) :
        \/ RegionOf[q] \in reading[t].todo \/ RegionOf[q] \notin Written.zstd
        \/ kept[RegionOf[q]] # NONE
  BY <1>1 DEF IntactInv, Fetching
<1>4. /\ p \in Reads(op, p) /\ Reads(op, p) \subseteq Payloads
      /\ \A q \in Checks(op, p) : q \in Payloads /\ Covers[q] \subseteq Reads(op, p)
  BY <1>2, OpenAssumption, ReadsWithin DEF Reads, Checks, Ops
<1>5. CASE \E q \in Checks(op, p) :
             /\ ~ Matches(q) /\ Answer(t, "PayloadHashMismatch")
             /\ \A r \in Covers[q] : RegionOf[r] \in Fetched(t)
  <2>1. PICK q \in Checks(op, p) :
          /\ ~ Matches(q) /\ Answer(t, "PayloadHashMismatch")
          /\ \A r \in Covers[q] : RegionOf[r] \notin reading[t].todo
    BY <1>5 DEF Fetched
  <2>2. Intact => \A r \in Covers[q] : Payload(r) = This
    BY <1>3, <1>4, <2>1, IntactPayload
  <2>3. ~ Intact
    BY <1>2, <2>1, <2>2 DEF Matches
  <2> QED
    BY <2>1, <2>3, AnswerFetches
<1>6. CASE reading[t].todo = {} /\ Answer(t, Payload(p))
  <2>1. Intact => Payload(p) = This
    BY <1>2, <1>3, <1>4, <1>6, IntactPayload
  <2> QED
    BY <1>6, <2>1, AnswerFetches
<1> QED
  BY <1>5, <1>6 DEF Finish

LEMMA ReadKeepsIntact ==
  ASSUME OpenInv, IntactInv, NEW t \in Readers, ReadStep(t)
  PROVE  IntactInv'
<1>1. ReadMoves(t)
  BY ReadStepMoves
<1>2. /\ pc' = pc /\ UNCHANGED inputs /\ UNCHANGED <<nodes, regionLen>>
      /\ \A r \in Regions : kept[r] # NONE => kept'[r] = kept[r]
  BY <1>1 DEF ReadMoves, rangesVars
<1>3. Fetches(t)
  <2>1. ASSUME NEW r \in Regions, Find(t, r) PROVE Fetches(t)
    BY <2>1, GotFetches DEF Find
  <2> QED
    BY <1>1, <2>1, AskFetches, TouchFetches, KeepFetches, FinishFetches DEF ReadStep
<1>4. PICK j : /\ reading' = [reading EXCEPT ![t] = j] /\ FetchingJob(j)
               /\ Intact => j.answer \in {NONE, This}
  BY <1>3 DEF Fetches
<1>5. Fetching'
  BY <1>2, <1>4, FetchingKeeps DEF IntactInv
<1>6. ASSUME Intact' PROVE Untroubled'
  <2>1. Intact /\ This' = This
    BY <1>2, <1>6, IntactStays, FileStays
  <2>2. reading \in [Readers -> Job]
    BY DEF OpenInv, Shared
  <2>3. \A u \in Readers : reading'[u].answer \in {NONE, This}
    BY <1>4, <2>1, <2>2 DEF IntactInv, Untroubled
  <2> QED
    BY <1>2, <2>1, <2>3 DEF IntactInv, Untroubled
<1> QED
  BY <1>5, <1>6 DEF IntactInv

LEMMA IntactInvStep == ASSUME OpenInv, IntactInv, [Next]_vars PROVE IntactInv'
<1>1. ASSUME UNCHANGED shared, UNCHANGED inputs, UNCHANGED <<nodes, regionLen>>,
             Intact => pc' \in Stages \cup {"open"}
      PROVE  IntactInv'
  <2>1. /\ kept' = kept /\ reading' = reading /\ This' = This /\ Written' = Written
    BY <1>1, FileStays DEF shared
  <2>2. Fetching'
    BY <2>1 DEF IntactInv, Fetching, Reads
  <2>3. Intact' => Untroubled'
    BY <1>1, <2>1, IntactStays DEF IntactInv, Untroubled
  <2> QED
    BY <2>2, <2>3 DEF IntactInv
<1>2. CASE UNCHANGED vars
  BY <1>1, <1>2 DEF vars, rangesVars, IntactInv, Untroubled
<1>3. CASE OpenStep
  <2>1. UNCHANGED shared /\ UNCHANGED inputs /\ UNCHANGED <<nodes, regionLen>>
    BY <1>3 DEF OpenStep, CheckHeader, CheckSignatures, CheckBounds, CheckRoot,
       ParseManifest, CheckRouting, CheckDictionary, CheckRegions, CheckGraph,
       CheckRanges, EndRanges, CheckSegments, CheckRoots, CheckVectors, CheckPadding,
       Goto, FlawOr, rangesVars, RangesNext, Collect, Sort, Compare, RangesDone
  <2> QED
    BY <1>1, <1>3, <2>1, IntactPasses
<1>4. CASE \E t \in Readers : ReadStep(t)
  BY <1>4, ReadKeepsIntact
<1> QED
  BY <1>2, <1>3, <1>4 DEF Next

(***************************************************************************)
(* An intact file is opened, and every read of it answers with what was    *)
(* written, however many threads inflate its regions at once               *)
(* (lib.rs 91-204, 294-346).                                               *)
(***************************************************************************)
THEOREM OpenRefusesNoIntact == Spec => []IntactNeverRefused
<1>1. Init => IntactInv
  BY DEF Init, Idle, IntactInv, Fetching, Untroubled, Stages
<1>2. Spec => []IntactInv
  BY <1>1, OpenInvariant, IntactInvStep, PTL DEF Spec
<1>3. IntactInv => IntactNeverRefused
  BY DEF IntactInv, Untroubled, IntactNeverRefused, Refused
<1> QED
  BY <1>2, <1>3, PTL
=============================================================================
