------------------------------ MODULE Digraphs ------------------------------
(***************************************************************************)
(* Directed graphs given as adjacency lists: a function from nodes to the  *)
(* sequence of their successors, in which a successor may be repeated.     *)
(***************************************************************************)
EXTENDS Naturals, Sequences

Successors(adj, x) == {adj[x][e] : e \in 1 .. Len(adj[x])}

\* S contains every successor of its members.
SuccessorClosed(adj, S) == \A x \in S : Successors(adj, x) \subseteq S

\* b can be reached from a in one step or more: no successor-closed set holds
\* all successors of a and misses b.
Reaches(adj, a, b) ==
  \A S \in SUBSET DOMAIN adj :
    Successors(adj, a) \subseteq S /\ SuccessorClosed(adj, S) => b \in S

Acyclic(adj) == \A x \in DOMAIN adj : ~Reaches(adj, x, x)
=============================================================================
