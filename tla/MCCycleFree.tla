---------------------------- MODULE MCCycleFree -----------------------------
(***************************************************************************)
(* CycleFree over every graph of N nodes with at most MaxEdges edges per   *)
(* node: self-loops, repeated edges and every order of edges included.     *)
(***************************************************************************)
EXTENDS CycleFree

CONSTANT MaxEdges

MCLists == UNION {[1 .. k -> Nodes] : k \in 0 .. MaxEdges}
=============================================================================
