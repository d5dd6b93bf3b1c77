-------------------------- MODULE PreOrderVerdict ---------------------------
(***************************************************************************)
(* What the tree half of `validate::graph` promises its callers: given any *)
(* node table at all, it answers once, and the answer is "accepted"        *)
(* exactly when the table is the pre-order listing of a tier-monotone      *)
(* tree.  How many passes that takes, and which error is reported, is left *)
(* to PreOrderCheck.                                                       *)
(***************************************************************************)
EXTENDS OrderedTrees

CONSTANTS N,            \* number of entries in the node table
          NONE,         \* the absent-parent marker, NONE32
          ParentField,  \* the values a parent field can hold
          Tier          \* the tiers, hottest (Routing) being 0

VARIABLES parent, tier, verdict

Nodes == 0 .. N-1

Init ==
  /\ parent \in [Nodes -> ParentField]
  /\ tier \in [Nodes -> Tier]
  /\ verdict = "pending"

Decide ==
  /\ verdict = "pending"
  /\ verdict' = IF PreOrderTree(parent, tier, N, NONE)
                THEN "accepted" ELSE "rejected"
  /\ UNCHANGED <<parent, tier>>

vars == <<parent, tier, verdict>>

Spec == Init /\ [][Decide]_vars /\ WF_vars(Decide)
=============================================================================
