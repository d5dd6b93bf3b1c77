--------------------------- MODULE PreOrderCheck ----------------------------
(***************************************************************************)
(* The tree half of `validate::graph` (skill-format/src/validate.rs): one  *)
(* forward pass over the node table, with a walk up the parent pointers    *)
(* (`on_root_path`) for each entry.  The pass follows only parent pointers *)
(* it has already checked; that is what keeps the walk inside the table    *)
(* and makes it end.                                                       *)
(***************************************************************************)
EXTENDS OrderedTrees

CONSTANTS N,            \* node_count
          NONE,         \* NONE32
          ParentField,  \* the values a parent field can hold
          Tier          \* the tiers in their derived order, Routing = 0

\* NONE32 is u32::MAX; a table of that many entries does not fit the format.
ASSUME TableAssumption ==
  /\ N \in Nat
  /\ NONE \in Nat /\ NONE > N
  /\ ParentField \subseteq Nat
  /\ Tier \subseteq Nat

Nodes == 0 .. N-1

VARIABLES
  parent, tier,  \* the node table, never written
  i,             \* the entry being checked
  cur,           \* where the walk of on_root_path stands
  pc,            \* the check that comes next
  verdict        \* "none" while the pass runs, then "ok" or the error

vars == <<parent, tier, i, cur, pc, verdict>>
table == <<parent, tier>>

PassErrors == {"RootHasParent", "RootNotRouting", "NonRootWithoutParent",
               "ParentNotBefore", "NotPreOrder", "TierNotMonotone"}

TypeOK ==
  /\ parent \in [Nodes -> ParentField]
  /\ tier \in [Nodes -> Tier]
  /\ i \in 0 .. N
  /\ cur \in Nat
  /\ pc \in {"root", "entry", "walk", "tier", "done"}
  /\ verdict \in {"none", "ok"} \cup PassErrors

Init ==
  /\ parent \in [Nodes -> ParentField]
  /\ tier \in [Nodes -> Tier]
  /\ i = 0
  /\ cur = 0
  /\ pc = "root"
  /\ verdict = "none"

Answer(v) ==
  /\ pc' = "done"
  /\ verdict' = v
  /\ UNCHANGED <<table, i, cur>>

Goto(next) == pc' = next /\ UNCHANGED <<table, verdict>>

\* An empty table passes; otherwise entry 0 must be a root of tier Routing.
CheckRoot ==
  /\ pc = "root"
  /\ \/ N = 0 /\ Answer("ok")
     \/ N > 0 /\ parent[0] # NONE /\ Answer("RootHasParent")
     \/ N > 0 /\ parent[0] = NONE /\ tier[0] # 0 /\ Answer("RootNotRouting")
     \/ /\ N > 0 /\ parent[0] = NONE /\ tier[0] = 0
        /\ Goto("entry") /\ i' = 1 /\ UNCHANGED cur

\* Pre-order makes acyclicity a comparison: the parent is an earlier entry.
CheckParent ==
  /\ pc = "entry" /\ i < N
  /\ \/ parent[i] = NONE /\ Answer("NonRootWithoutParent")
     \/ parent[i] # NONE /\ parent[i] >= i /\ Answer("ParentNotBefore")
     \/ parent[i] < i /\ Goto("walk") /\ cur' = i-1 /\ UNCHANGED i

\* Faulty: an entry below the sought parent passes for it.
WalkToBelow ==
  /\ pc = "walk"
  /\ \/ cur <= parent[i] /\ Goto("tier") /\ UNCHANGED <<i, cur>>
     \/ cur > parent[i] /\ parent[cur] = NONE /\ Answer("NotPreOrder")
     \/ /\ cur > parent[i] /\ parent[cur] # NONE
        /\ Goto("walk") /\ cur' = parent[cur] /\ UNCHANGED i

\* Faulty: the root stands in for its own missing parent.
WalkAroundRoot ==
  /\ pc = "walk"
  /\ \/ cur = parent[i] /\ Goto("tier") /\ UNCHANGED <<i, cur>>
     \/ /\ cur # parent[i] /\ Goto("walk") /\ UNCHANGED i
        /\ cur' = IF parent[cur] = NONE THEN i-1 ELSE parent[cur]

\* One turn of the loop in on_root_path(i-1, parent[i]).
Walk ==
  /\ pc = "walk"
  /\ \/ cur = parent[i] /\ Goto("tier") /\ UNCHANGED <<i, cur>>
     \/ cur # parent[i] /\ parent[cur] = NONE /\ Answer("NotPreOrder")
     \/ /\ cur # parent[i] /\ parent[cur] # NONE
        /\ Goto("walk") /\ cur' = parent[cur] /\ UNCHANGED i

\* Faulty: the tier of the entry before stands in for the parent's.
CheckTierOfPrevious ==
  /\ pc = "tier"
  /\ \/ tier[i] < tier[i-1] /\ Answer("TierNotMonotone")
     \/ tier[i] >= tier[i-1] /\ Goto("entry") /\ i' = i+1 /\ UNCHANGED cur

\* Faulty: every other entry is skipped.
CheckTierSkipping ==
  /\ pc = "tier"
  /\ \/ tier[i] < tier[parent[i]] /\ Answer("TierNotMonotone")
     \/ tier[i] >= tier[parent[i]] /\ Goto("entry") /\ i' = i+2 /\ UNCHANGED cur

\* Tiers only grow going down.
CheckTier ==
  /\ pc = "tier"
  /\ \/ tier[i] < tier[parent[i]] /\ Answer("TierNotMonotone")
     \/ tier[i] >= tier[parent[i]] /\ Goto("entry") /\ i' = i+1 /\ UNCHANGED cur

Finish == pc = "entry" /\ i = N /\ Answer("ok")

Next == CheckRoot \/ CheckParent \/ Walk \/ CheckTier \/ Finish

\* validate::graph is a sequential function: it runs until it returns.
Spec == Init /\ [][Next]_vars /\ WF_vars(Next)
-----------------------------------------------------------------------------
(***************************************************************************)
(* Properties                                                              *)
(***************************************************************************)

\* A table is accepted only if it is the pre-order listing of one tree: every
\* subtree an unbroken run of indices, every tier at least that of all its
\* ancestors.  The pass itself only ever compares an entry with the entry
\* before it and with its own parent (validate.rs:31-51).
AcceptedIsTree == verdict = "ok" => PreOrderTree(parent, tier, N, NONE)

\* An entry is reported at the first index at which the table stops being a
\* pre-order tree: what comes before it is one, and with it is not.  So no
\* well-formed table is refused, and no later error masks an earlier one.
RejectsFirstOffence ==
  verdict \in PassErrors =>
    /\ PreOrderTree(parent, tier, i, NONE)
    /\ ~PreOrderTree(parent, tier, i+1, NONE)

\* on_root_path indexes the node table without a bounds check of its own; it
\* may only stand on entries this pass has already accepted.
WalkStaysBehind == pc = "walk" => cur < i

\* Every table gets an answer: the loop of on_root_path cannot run for ever.
Terminates == <>(pc = "done")

\* The pass implements the one-step decision of PreOrderVerdict.
Decision == INSTANCE PreOrderVerdict WITH
  verdict <- IF verdict = "none" THEN "pending"
             ELSE IF verdict = "ok" THEN "accepted" ELSE "rejected"
ImplementsDecision == Decision!Spec
=============================================================================
