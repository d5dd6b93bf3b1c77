----------------------------- MODULE EdgeRules ------------------------------
(***************************************************************************)
(* The rules skill-format holds the edges of a container to when it opens  *)
(* one (check_edges in validate.rs).  Nodes are numbered from 1 in         *)
(* pre-order; `kind` gives the kind of each, `edges` is a sequence of      *)
(* records [src, rel, dst, ordinal, external].  Which rule a container     *)
(* breaks first is not kept: it is refused whichever it is.                *)
(***************************************************************************)
EXTENDS Naturals, Sequences

\* No node follows itself: in any set of nodes one points to none of the set.
Loopless(pairs) ==
  \A S \in SUBSET {p[1] : p \in pairs} :
    S # {} => \E a \in S : \A b \in S : <<a, b>> \notin pairs

\* What cycle_free is given: the pairs joined by some relations in this file.
Joined(edges, rels) ==
  {<<edges[i].src, edges[i].dst>> :
     i \in {j \in DOMAIN edges : edges[j].rel \in rels /\ ~edges[j].external}}

\* Only CITES may name a node of another container.
InRange(n, e) == IF e.external THEN e.rel = "cites" ELSE e.dst \in 1 .. n

RightEnds(kind, e) ==
  /\ e.rel = "seq" => e.src < e.dst
  /\ e.rel = "guards" => kind[e.src] = "contract"
  /\ e.rel = "needs" => kind[e.dst] \in {"binding", "resource", "segment"}

AltOrdinalsDiffer(edges) ==
  \A i, j \in DOMAIN edges :
    /\ edges[i].rel = "alt" /\ edges[j].rel = "alt"
    /\ edges[i].src = edges[j].src /\ edges[i].ordinal = edges[j].ordinal
    => i = j

\* Every relation a loader follows without a choice, taken as one.
ObligationLoopless(edges) ==
  Loopless(Joined(edges, {"seq", "guards", "needs", "alt"}))

EdgesAccepted(kind, edges) ==
  /\ \A i \in DOMAIN edges : InRange(Len(kind), edges[i]) /\ RightEnds(kind, edges[i])
  /\ AltOrdinalsDiffer(edges)
  /\ Loopless(Joined(edges, {"needs"}))
  /\ ObligationLoopless(edges)
=============================================================================
