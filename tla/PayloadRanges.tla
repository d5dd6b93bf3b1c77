---------------------------- MODULE PayloadRanges ----------------------------
(***************************************************************************)
(* `check_payload_ranges` (validate.rs): the payload of a node is a range  *)
(* of one of two regions.  Two nodes may share a range, because equal      *)
(* contents are stored once, but ranges that overlap otherwise leave open  *)
(* who owns the bytes.  The code collects the ranges, sorts them and       *)
(* compares each with the next one only.                                   *)
(*                                                                         *)
(* The variables are those of one call; a module that calls it extends     *)
(* this one and takes the steps of RangesNext.                             *)
(***************************************************************************)
EXTENDS Naturals, Sequences

CONSTANT Top   \* the largest u32

ASSUME TopAssumption == Top \in Nat

\* What the check reads of a node; cold is 0 or 1, as u8::from has it.
PayloadOf == [cold : {0, 1}, off : 0..Top, len : 0..Top]

VARIABLES
  nodes,      \* the nodes of the table
  regionLen,  \* uncompressed length of region 0 (HOT) and 1 (COLD)
  next,       \* the node the first loop comes to
  spans,      \* the ranges collected
  window,     \* the pair of neighbours the second loop comes to
  ranges      \* where the check stands, or what it says

rangesVars == <<nodes, regionLen, next, spans, window, ranges>>

RangesErrors == {"OffsetOverflow", "RangeOutOfBounds", "RangeOverlap"}

RangesInit ==
  /\ next = 1
  /\ spans = << >>
  /\ window = 1
  /\ ranges = "collecting"

\* The range of a node as the pair of its ends.
Ends(n) == [cold |-> n.cold, from |-> n.off, to |-> n.off + n.len]

Collect ==
  /\ ranges = "collecting"
  /\ next <= Len(nodes)
  /\ LET n == nodes[next]
         e == Ends(n)
     IN  IF n.len = 0
         THEN next' = next + 1 /\ UNCHANGED <<spans, ranges>>
         ELSE IF e.to > Top
         THEN ranges' = "OffsetOverflow" /\ UNCHANGED <<next, spans>>
         ELSE IF e.to > regionLen[n.cold]
         THEN ranges' = "RangeOutOfBounds" /\ UNCHANGED <<next, spans>>
         ELSE next' = next + 1 /\ spans' = Append(spans, e) /\ UNCHANGED ranges
  /\ UNCHANGED <<nodes, regionLen, window>>

\* The order of tuples: region, then start, then end.
NotAfter(a, b) ==
  \/ a.cold < b.cold
  \/ a.cold = b.cold /\ a.from < b.from
  \/ a.cold = b.cold /\ a.from = b.from /\ a.to <= b.to

Sorted(s) == \A i, j \in DOMAIN s : i < j => NotAfter(s[i], s[j])

\* sort_unstable: some arrangement of the ranges that is in order.
Sort ==
  /\ ranges = "collecting"
  /\ next > Len(nodes)
  /\ \E p \in [DOMAIN spans -> DOMAIN spans] :
       /\ \A k \in DOMAIN spans : \E i \in DOMAIN spans : p[i] = k
       /\ spans' = [i \in DOMAIN spans |-> spans[p[i]]]
       /\ Sorted(spans')
  /\ ranges' = "comparing"
  /\ UNCHANGED <<nodes, regionLen, next, window>>

\* Faulty: ranges with the same start are taken for shared.
ClashByStart(a, b) == a.cold = b.cold /\ b.from < a.to /\ a.from # b.from

\* Two neighbours that share bytes without being the same range.
Clash(a, b) ==
  /\ a.cold = b.cold
  /\ b.from < a.to
  /\ ~ (a.from = b.from /\ a.to = b.to)

Compare ==
  /\ ranges = "comparing"
  /\ window < Len(spans)
  /\ IF Clash(spans[window], spans[window + 1])
     THEN ranges' = "RangeOverlap" /\ UNCHANGED window
     ELSE window' = window + 1 /\ UNCHANGED ranges
  /\ UNCHANGED <<nodes, regionLen, next, spans>>

RangesDone ==
  /\ ranges = "comparing"
  /\ window >= Len(spans)
  /\ ranges' = "apart"
  /\ UNCHANGED <<nodes, regionLen, next, spans, window>>

RangesNext == Collect \/ Sort \/ Compare \/ RangesDone

RangesStart ==
  /\ nodes \in Seq(PayloadOf)
  /\ regionLen \in [{0, 1} -> 0..Top]
  /\ RangesInit

RangesSpec == RangesStart /\ [][RangesNext]_rangesVars

-----------------------------------------------------------------------------
RangesTypeOK ==
  /\ next \in 1..Len(nodes) + 1
  /\ Len(spans) < next
  /\ \A k \in DOMAIN spans :
       spans[k] \in [cold : {0, 1}, from : 0..Top, to : 0..Top]
  /\ window \in Nat
  /\ ranges \in {"collecting", "comparing", "apart"} \cup RangesErrors

Same(m, n) == m.off = n.off /\ m.len = n.len
Disjoint(m, n) == m.off + m.len <= n.off \/ n.off + n.len <= m.off

\* Every payload lies in its region, and any two of one region are the same
\* range or share no byte.
Apart ==
  \A i, j \in DOMAIN nodes :
    LET m == nodes[i]
        n == nodes[j]
    IN  m.len # 0 /\ n.len # 0 =>
          /\ m.off + m.len <= regionLen[m.cold]
          /\ m.cold = n.cold => Same(m, n) \/ Disjoint(m, n)

\* Two payloads overlap in part.
Overlap ==
  \E i, j \in DOMAIN nodes :
    LET m == nodes[i]
        n == nodes[j]
    IN  /\ m.len # 0 /\ n.len # 0 /\ m.cold = n.cold
        /\ ~ Same(m, n) /\ ~ Disjoint(m, n)

(***************************************************************************)
(* Comparing neighbours in sorted order is enough: the check passes only   *)
(* tables whose payloads are apart and refuses none that is; and it names  *)
(* an overlap only where two payloads do overlap in part, so that sharing  *)
(* is never mistaken for it (validate.rs 221-253, SPEC 6).                 *)
(***************************************************************************)
RangesDecide ==
  /\ ranges = "apart" => Apart
  /\ ranges \in RangesErrors => ~ Apart
  /\ ranges = "RangeOverlap" => Overlap
=============================================================================
