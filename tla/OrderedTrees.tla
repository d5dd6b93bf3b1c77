---------------------------- MODULE OrderedTrees ----------------------------
(***************************************************************************)
(* What the node table of a `.skill` container means as a tree.  A table   *)
(* is a function `par` from node indices to parent indices; a value that   *)
(* is no node index (NONE32, or an index past the end) ends the path.      *)
(*                                                                         *)
(* The definitions quantify over sets of nodes instead of recursing along  *)
(* the parent pointers, so they make sense for every table, cyclic ones    *)
(* included, and can be used in proofs.                                    *)
(***************************************************************************)
EXTENDS Naturals

\* S contains the parent of each of its members that has one.
ParentClosed(par, S) == \A x \in S : par[x] \in DOMAIN par => par[x] \in S

\* a lies on the path from b to the root, b itself included.
IsAnc(par, a, b) ==
  \A S \in SUBSET DOMAIN par : b \in S /\ ParentClosed(par, S) => a \in S

\* Every subtree of the first k nodes is an unbroken run of indices.
ContiguousBelow(par, k) ==
  \A c \in 0 .. k-1 : \A a \in 0 .. c : \A b \in a .. c :
    IsAnc(par, a, c) => IsAnc(par, a, b)

\* No node among the first k is hotter than one of its ancestors.
TierMonotoneBelow(par, tier, k) ==
  \A c \in 0 .. k-1 : \A a \in 0 .. c :
    IsAnc(par, a, c) => tier[a] <= tier[c]

\* The first k entries are the pre-order listing of one tree whose root is
\* entry 0, of tier 0, and whose tiers only grow going down.
PreOrderTree(par, tier, k, none) ==
  k > 0 =>
    /\ par[0] = none
    /\ tier[0] = 0
    /\ \A j \in 1 .. k-1 : par[j] \in 0 .. j-1
    /\ ContiguousBelow(par, k)
    /\ TierMonotoneBelow(par, tier, k)
=============================================================================
