------------------------ MODULE PreOrderCheckProofs -------------------------
(***************************************************************************)
(* For a node table of any size, whatever its parent fields and tiers: the *)
(* pass of PreOrderCheck accepts exactly the pre-order listings of         *)
(* tier-monotone trees, stays inside the table while it walks, reports the *)
(* first entry at which the table stops being such a listing, and          *)
(* implements the one-step decision of PreOrderVerdict.                    *)
(***************************************************************************)
EXTENDS PreOrderCheck, TLAPS

-----------------------------------------------------------------------------
(***************************************************************************)
(* The ancestor relation of an arbitrary table.                            *)
(***************************************************************************)

\* A node is its own ancestor.
LEMMA AncReflexive ==
  ASSUME NEW par, NEW b \in DOMAIN par
  PROVE  IsAnc(par, b, b)
BY DEF IsAnc

\* The parent of a node is an ancestor of it.
LEMMA AncParent ==
  ASSUME NEW par, NEW b \in DOMAIN par, par[b] \in DOMAIN par
  PROVE  IsAnc(par, par[b], b)
BY DEF IsAnc, ParentClosed

\* Ancestors of ancestors are ancestors.
LEMMA AncTransitive ==
  ASSUME NEW par, NEW a, NEW b, NEW c, IsAnc(par, a, b), IsAnc(par, b, c)
  PROVE  IsAnc(par, a, c)
BY DEF IsAnc

\* A proper ancestor of a node is an ancestor of its parent.
LEMMA AncThroughParent ==
  ASSUME NEW par, NEW b \in DOMAIN par, NEW a, a # b, IsAnc(par, a, b)
  PROVE  par[b] \in DOMAIN par /\ IsAnc(par, a, par[b])
<1>1. par[b] \in DOMAIN par
  <2>1. SUFFICES ASSUME par[b] \notin DOMAIN par PROVE FALSE
    OBVIOUS
  <2>2. {b} \in SUBSET DOMAIN par /\ ParentClosed(par, {b})
    BY <2>1 DEF ParentClosed
  <2>3. QED
    BY <2>2 DEF IsAnc
<1>2. ASSUME NEW S \in SUBSET DOMAIN par, par[b] \in S, ParentClosed(par, S)
      PROVE  a \in S
  <2>1. S \cup {b} \in SUBSET DOMAIN par /\ ParentClosed(par, S \cup {b})
    BY <1>2 DEF ParentClosed
  <2>2. a \in S \cup {b}
    BY <2>1 DEF IsAnc
  <2>3. QED
    BY <2>2
<1>3. QED
  BY <1>1, <1>2 DEF IsAnc
-----------------------------------------------------------------------------
(***************************************************************************)
(* How a pre-order tree grows by one entry.                                *)
(***************************************************************************)

\* A table of N entries whose first k entries each have an earlier parent.
ParentsBefore(par, k) ==
  /\ DOMAIN par = Nodes
  /\ par[0] = NONE
  /\ \A j \in 1 .. k-1 : par[j] \in 0 .. j-1

\* Ancestors do not come after their descendants.
LEMMA AncestorsBefore ==
  ASSUME NEW par, NEW k \in 1 .. N, ParentsBefore(par, k),
         NEW b \in 0 .. k-1, NEW a, IsAnc(par, a, b)
  PROVE  a \in 0 .. b
<1>1. 0 .. b \in SUBSET DOMAIN par
  BY TableAssumption DEF ParentsBefore, Nodes
<1>2. ParentClosed(par, 0 .. b)
  <2>1. SUFFICES ASSUME NEW x \in 0 .. b, par[x] \in DOMAIN par
                 PROVE  par[x] \in 0 .. b
    BY DEF ParentClosed
  <2>2. CASE x = 0
    BY <2>1, <2>2, TableAssumption DEF ParentsBefore, Nodes
  <2>3. CASE x # 0
    <3>1. par[x] \in 0 .. x-1
      BY <2>3 DEF ParentsBefore
    <3>2. QED
      BY <3>1
  <2>4. QED
    BY <2>2, <2>3
<1>3. QED
  BY <1>1, <1>2 DEF IsAnc

\* Appending entry k keeps subtrees contiguous iff its parent is on the root
\* path of the entry before it: the test of on_root_path.
LEMMA ContiguousExtends ==
  ASSUME NEW par, NEW k \in 1 .. N-1, ParentsBefore(par, k+1),
         ContiguousBelow(par, k)
  PROVE  ContiguousBelow(par, k+1) <=> IsAnc(par, par[k], k-1)
<1> DEFINE p == par[k]
<1>1. p \in 0 .. k-1 /\ k \in DOMAIN par /\ p \in DOMAIN par /\ k+1 \in 1 .. N
  BY TableAssumption DEF ParentsBefore, Nodes
<1>2. ASSUME ContiguousBelow(par, k+1) PROVE IsAnc(par, p, k-1)
  <2>1. IsAnc(par, p, k)
    BY <1>1, AncParent
  <2>2. k \in 0 .. (k+1)-1 /\ p \in 0 .. k /\ k-1 \in p .. k
    BY <1>1, TableAssumption
  <2>3. QED
    BY <1>2, <2>1, <2>2 DEF ContiguousBelow
<1>3. ASSUME IsAnc(par, p, k-1) PROVE ContiguousBelow(par, k+1)
  <2>1. SUFFICES ASSUME NEW c \in 0 .. (k+1)-1, NEW a \in 0 .. c,
                        NEW b \in a .. c, IsAnc(par, a, c)
                 PROVE  IsAnc(par, a, b)
    BY DEF ContiguousBelow
  <2>2. CASE c < k
    <3>1. c \in 0 .. k-1
      BY <2>2, TableAssumption
    <3>2. QED
      BY <2>1, <3>1 DEF ContiguousBelow
  <2>3. CASE c = k /\ b = k
    BY <2>1, <2>3
  <2>4. CASE c = k /\ b # k
    <3>1. a # k /\ b \in 0 .. k-1 /\ b \in a .. k-1 /\ a \in 0 .. k-1
      BY <2>1, <2>4, TableAssumption
    <3>2. IsAnc(par, a, p)
      BY <1>1, <2>1, <2>4, <3>1, AncThroughParent
    <3>3. IsAnc(par, a, k-1)
      BY <1>3, <3>2, AncTransitive
    <3>4. k-1 \in 0 .. k-1 /\ a \in 0 .. k-1 /\ b \in a .. k-1
      BY <3>1, TableAssumption
    <3>5. QED
      BY <3>3, <3>4 DEF ContiguousBelow
  <2>5. QED
    BY <2>2, <2>3, <2>4, TableAssumption
<1>4. QED
  BY <1>2, <1>3

\* Appending entry k keeps tiers monotone along every path iff its own tier
\* is at least its parent's.
LEMMA TiersExtend ==
  ASSUME NEW par, NEW t \in [Nodes -> Nat], NEW k \in 1 .. N-1,
         ParentsBefore(par, k+1), TierMonotoneBelow(par, t, k)
  PROVE  TierMonotoneBelow(par, t, k+1) <=> t[par[k]] <= t[k]
<1> DEFINE p == par[k]
<1>1. p \in 0 .. k-1 /\ k \in DOMAIN par /\ p \in DOMAIN par /\ k+1 \in 1 .. N
  BY TableAssumption DEF ParentsBefore, Nodes
<1>2. ASSUME TierMonotoneBelow(par, t, k+1) PROVE t[p] <= t[k]
  <2>1. IsAnc(par, p, k)
    BY <1>1, AncParent
  <2>2. k \in 0 .. (k+1)-1 /\ p \in 0 .. k
    BY <1>1, TableAssumption
  <2>3. QED
    BY <1>2, <2>1, <2>2 DEF TierMonotoneBelow
<1>3. ASSUME t[p] <= t[k] PROVE TierMonotoneBelow(par, t, k+1)
  <2>1. SUFFICES ASSUME NEW c \in 0 .. (k+1)-1, NEW a \in 0 .. c,
                        IsAnc(par, a, c)
                 PROVE  t[a] <= t[c]
    BY DEF TierMonotoneBelow
  <2>2. CASE c < k
    <3>1. c \in 0 .. k-1
      BY <2>2, TableAssumption
    <3>2. QED
      BY <2>1, <3>1 DEF TierMonotoneBelow
  <2>3. CASE c = k /\ a = k
    BY <2>1, <2>3, TableAssumption DEF Nodes
  <2>4. CASE c = k /\ a # k
    <3>1. IsAnc(par, a, p)
      BY <1>1, <2>1, <2>4, AncThroughParent
    <3>2. a \in 0 .. p
      BY <1>1, <3>1, AncestorsBefore
    <3>3. t[a] <= t[p]
      BY <1>1, <3>1, <3>2 DEF TierMonotoneBelow
    <3>4. a \in Nodes /\ p \in Nodes /\ k \in Nodes
      BY <1>1, <3>2, TableAssumption DEF Nodes
    <3>5. t[a] \in Nat /\ t[p] \in Nat /\ t[k] \in Nat
      BY <3>4
    <3>6. QED
      BY <1>3, <2>4, <3>3, <3>5
  <2>5. QED
    BY <2>2, <2>3, <2>4, TableAssumption
<1>4. QED
  BY <1>2, <1>3

\* One more entry: the three tests the pass makes on entry k are exactly what
\* it takes for the first k+1 entries to be a tree when the first k are.
LEMMA TreeExtends ==
  ASSUME NEW par, NEW t \in [Nodes -> Nat], NEW k \in 1 .. N-1,
         DOMAIN par = Nodes, PreOrderTree(par, t, k, NONE)
  PROVE  PreOrderTree(par, t, k+1, NONE) <=>
           /\ par[k] \in 0 .. k-1
           /\ IsAnc(par, par[k], k-1)
           /\ t[par[k]] <= t[k]
<1>1. k > 0 /\ k+1 > 0 /\ k \in 1 .. (k+1)-1
  BY TableAssumption
<1>2. /\ par[0] = NONE /\ t[0] = 0
      /\ \A j \in 1 .. k-1 : par[j] \in 0 .. j-1
      /\ ContiguousBelow(par, k) /\ TierMonotoneBelow(par, t, k)
  BY <1>1 DEF PreOrderTree
<1>3. par[k] \in 0 .. k-1 => ParentsBefore(par, k+1)
  BY <1>2, TableAssumption DEF ParentsBefore
<1>4. PreOrderTree(par, t, k+1, NONE) <=>
        /\ ParentsBefore(par, k+1)
        /\ ContiguousBelow(par, k+1) /\ TierMonotoneBelow(par, t, k+1)
  BY <1>1, <1>2 DEF PreOrderTree, ParentsBefore
<1>5. ParentsBefore(par, k+1) => par[k] \in 0 .. k-1
  BY <1>1 DEF ParentsBefore
<1>6. QED
  BY <1>2, <1>3, <1>4, <1>5, ContiguousExtends, TiersExtend
-----------------------------------------------------------------------------
(***************************************************************************)
(* The inductive invariant: the entries behind the pass are a tree, and    *)
(* the walk is on the root path of the entry before the one it checks.     *)
(***************************************************************************)
Checked(k) == PreOrderTree(parent, tier, k, NONE)

Running ==
  /\ verdict = "none" <=> pc # "done"
  /\ pc = "root" => i = 0

EntryInv ==
  pc \in {"entry", "walk", "tier"} => i \in 1 .. N /\ Checked(i)

ParentInv ==
  pc \in {"walk", "tier"} => i \in 1 .. N-1 /\ parent[i] \in 0 .. i-1

WalkInv ==
  pc = "walk" =>
    /\ cur \in 0 .. i-1
    /\ IsAnc(parent, cur, i-1)
    /\ IsAnc(parent, parent[i], i-1) => IsAnc(parent, parent[i], cur)

TierInv == pc = "tier" => IsAnc(parent, parent[i], i-1)

IInv ==
  /\ TypeOK /\ Running /\ EntryInv /\ ParentInv /\ WalkInv /\ TierInv
  /\ AcceptedIsTree /\ RejectsFirstOffence

\* What TypeOK says of the table, in the form the lemmas take it.
LEMMA TableTypes ==
  ASSUME TypeOK
  PROVE  /\ DOMAIN parent = Nodes /\ tier \in [Nodes -> Nat]
         /\ \A x \in Nodes : parent[x] \in Nat
BY TableAssumption DEF TypeOK

\* The invariant holds before the pass starts.
LEMMA InitInv == Init => IInv
BY TableAssumption
DEF Init, IInv, TypeOK, Running, EntryInv, ParentInv, WalkInv, TierInv,
    AcceptedIsTree, RejectsFirstOffence, PassErrors

\* Checking entry 0 decides whether a table of one entry is a tree.
LEMMA FirstEntry ==
  ASSUME N > 0, DOMAIN parent = Nodes
  PROVE  /\ Checked(0)
         /\ Checked(1) <=> parent[0] = NONE /\ tier[0] = 0
<1>1. Checked(0)
  BY DEF Checked, PreOrderTree
<1>2. ContiguousBelow(parent, 1)
  <2>1. SUFFICES ASSUME NEW c \in 0 .. 1-1, NEW a \in 0 .. c, NEW b \in a .. c,
                        IsAnc(parent, a, c)
                 PROVE  IsAnc(parent, a, b)
    BY DEF ContiguousBelow
  <2>2. a = 0 /\ b = 0 /\ c = 0
    BY <2>1
  <2>3. QED
    BY <2>1, <2>2
<1>3. tier[0] = 0 => TierMonotoneBelow(parent, tier, 1)
  <2>1. SUFFICES ASSUME tier[0] = 0, NEW c \in 0 .. 1-1, NEW a \in 0 .. c
                 PROVE  tier[a] <= tier[c]
    BY DEF TierMonotoneBelow
  <2>2. a = 0 /\ c = 0
    BY <2>1
  <2>3. QED
    BY <2>1, <2>2
<1>4. 1 .. 1-1 = {}
  OBVIOUS
<1>5. QED
  BY <1>1, <1>2, <1>3, <1>4 DEF Checked, PreOrderTree

\* Once the parent of entry i is known to be an earlier entry, the walk and
\* the tier comparison decide whether the tree grows.
LEMMA NextEntry ==
  ASSUME TypeOK, i \in 1 .. N-1, Checked(i)
  PROVE  Checked(i+1) <=> /\ parent[i] \in 0 .. i-1
                          /\ IsAnc(parent, parent[i], i-1)
                          /\ tier[parent[i]] <= tier[i]
BY TableTypes, TreeExtends DEF Checked

\* CheckRoot preserves the invariant.
LEMMA CheckRootInv == ASSUME IInv, CheckRoot PROVE IInv'
<1> USE DEF IInv
<1>1. CASE N = 0 /\ Answer("ok")
  <2>1. PreOrderTree(parent, tier, N, NONE)'
    BY <1>1 DEF PreOrderTree
  <2>2. QED
    BY <1>1, <2>1 DEF Answer, TypeOK, Running, EntryInv, ParentInv, WalkInv,
       TierInv, AcceptedIsTree, RejectsFirstOffence, PassErrors, table
<1>2. CASE N > 0 /\ parent[0] # NONE /\ Answer("RootHasParent")
  <2>1. i = 0 /\ Checked(i) /\ ~Checked(i+1)
    BY <1>2, TableTypes, FirstEntry DEF CheckRoot, Running
  <2>2. QED
    BY <1>2, <2>1 DEF Answer, TypeOK, Running, EntryInv, ParentInv, WalkInv,
       TierInv, AcceptedIsTree, RejectsFirstOffence, PassErrors, table, Checked
<1>3. CASE N > 0 /\ tier[0] # 0 /\ Answer("RootNotRouting")
  <2>1. i = 0 /\ Checked(i) /\ ~Checked(i+1)
    BY <1>3, TableTypes, FirstEntry DEF CheckRoot, Running
  <2>2. QED
    BY <1>3, <2>1 DEF Answer, TypeOK, Running, EntryInv, ParentInv, WalkInv,
       TierInv, AcceptedIsTree, RejectsFirstOffence, PassErrors, table, Checked
<1>4. CASE /\ N > 0 /\ parent[0] = NONE /\ tier[0] = 0
           /\ Goto("entry") /\ i' = 1 /\ UNCHANGED cur
  <2>1. Checked(1)
    BY <1>4, TableTypes, FirstEntry
  <2>2. 1 \in 1 .. N
    BY <1>4, TableAssumption
  <2>3. QED
    BY <1>4, <2>1, <2>2, CheckRoot
    DEF CheckRoot, Goto, TypeOK, Running, EntryInv, ParentInv, WalkInv, TierInv,
        AcceptedIsTree, RejectsFirstOffence, PassErrors, table, Checked
<1>5. QED
  BY <1>1, <1>2, <1>3, <1>4 DEF CheckRoot

\* CheckParent preserves the invariant; its two errors need the tree behind.
LEMMA CheckParentInv == ASSUME IInv, CheckParent PROVE IInv'
<1> USE DEF IInv
<1>1. i \in 1 .. N-1 /\ Checked(i) /\ parent[i] \in Nat
  BY TableTypes, TableAssumption DEF CheckParent, EntryInv, TypeOK, Nodes
<1>2. CASE parent[i] # NONE /\ parent[i] >= i /\ Answer("ParentNotBefore")
  <2>1. ~Checked(i+1)
    BY <1>1, <1>2, NextEntry
  <2>2. QED
    BY <1>1, <1>2, <2>1 DEF Answer, TypeOK, Running, EntryInv, ParentInv,
       WalkInv, TierInv, AcceptedIsTree, RejectsFirstOffence, PassErrors, table,
       Checked
<1>3. CASE parent[i] = NONE /\ Answer("NonRootWithoutParent")
  <2>1. ~Checked(i+1)
    BY <1>1, <1>3, NextEntry, TableAssumption
  <2>2. QED
    BY <1>1, <1>3, <2>1 DEF Answer, TypeOK, Running, EntryInv, ParentInv,
       WalkInv, TierInv, AcceptedIsTree, RejectsFirstOffence, PassErrors, table,
       Checked
<1>4. CASE parent[i] < i /\ Goto("walk") /\ cur' = i-1 /\ UNCHANGED i
  <2>1. parent[i] \in 0 .. i-1 /\ i-1 \in 0 .. i-1 /\ i-1 \in Nodes
    BY <1>1, <1>4, TableAssumption DEF Nodes
  <2>2. IsAnc(parent, i-1, i-1)
    BY <2>1, TableTypes, AncReflexive
  <2>3. QED
    BY <1>1, <1>4, <2>1, <2>2
    DEF CheckParent, Goto, TypeOK, Running, EntryInv, ParentInv, WalkInv, TierInv,
        AcceptedIsTree, RejectsFirstOffence, PassErrors, table, Checked
<1>5. QED
  BY <1>2, <1>3, <1>4 DEF CheckParent

\* Each turn of the walk preserves the invariant; the walk that reaches the
\* root without meeting the parent proves the parent is not on the path.
LEMMA WalkStepInv == ASSUME IInv, Walk PROVE IInv'
<1> USE DEF IInv
<1>1. /\ i \in 1 .. N-1 /\ Checked(i) /\ parent[i] \in 0 .. i-1 /\ cur \in 0 .. i-1
      /\ cur \in Nodes /\ i-1 \in Nodes
  BY TableAssumption DEF Walk, EntryInv, ParentInv, WalkInv, Nodes
<1>2. CASE cur = parent[i] /\ Goto("tier") /\ UNCHANGED <<i, cur>>
  BY <1>1, <1>2 DEF Walk, Goto, TypeOK, Running, EntryInv, ParentInv, WalkInv,
     TierInv, AcceptedIsTree, RejectsFirstOffence, PassErrors, table, Checked
<1>3. CASE cur # parent[i] /\ parent[cur] = NONE /\ Answer("NotPreOrder")
  <2>1. ~IsAnc(parent, parent[i], cur)
    <3>1. cur \in DOMAIN parent /\ parent[cur] \notin DOMAIN parent
      BY <1>1, <1>3, TableTypes, TableAssumption DEF Nodes
    <3>2. QED
      BY <1>3, <3>1, AncThroughParent
  <2>2. ~Checked(i+1)
    BY <1>1, <2>1, NextEntry DEF Walk, WalkInv
  <2>3. QED
    BY <1>1, <1>3, <2>2 DEF Answer, TypeOK, Running, EntryInv, ParentInv,
       WalkInv, TierInv, AcceptedIsTree, RejectsFirstOffence, PassErrors, table,
       Checked
<1>4. CASE /\ cur # parent[i] /\ parent[cur] # NONE
           /\ Goto("walk") /\ cur' = parent[cur] /\ UNCHANGED i
  <2>1. parent[cur] \in 0 .. cur-1
    <3>1. /\ parent[0] = NONE
          /\ \A j \in 1 .. i-1 : parent[j] \in 0 .. j-1
      BY <1>1 DEF Checked, PreOrderTree
    <3>2. cur \in 1 .. i-1
      BY <1>1, <1>4, <3>1
    <3>3. QED
      BY <3>1, <3>2
  <2>2. parent[cur] \in Nodes /\ parent[cur] \in 0 .. i-1
    BY <1>1, <2>1, TableAssumption DEF Nodes
  <2>3. IsAnc(parent, parent[cur], i-1)
    BY <1>1, <2>2, TableTypes, AncParent, AncTransitive DEF Walk, WalkInv
  <2>4. IsAnc(parent, parent[i], i-1) => IsAnc(parent, parent[i], parent[cur])
    BY <1>1, <1>4, TableTypes, AncThroughParent DEF Walk, WalkInv
  <2>5. QED
    BY <1>1, <1>4, <2>2, <2>3, <2>4
    DEF Walk, Goto, TypeOK, Running, EntryInv, ParentInv, WalkInv, TierInv,
        AcceptedIsTree, RejectsFirstOffence, PassErrors, table, Checked
<1>5. QED
  BY <1>2, <1>3, <1>4 DEF Walk

\* CheckTier preserves the invariant: it is the last of the three tests.
LEMMA CheckTierInv == ASSUME IInv, CheckTier PROVE IInv'
<1> USE DEF IInv
<1>1. /\ i \in 1 .. N-1 /\ Checked(i) /\ parent[i] \in 0 .. i-1
      /\ IsAnc(parent, parent[i], i-1)
      /\ tier[i] \in Nat /\ tier[parent[i]] \in Nat
  BY TableTypes, TableAssumption
  DEF CheckTier, EntryInv, ParentInv, TierInv, Nodes
<1>2. CASE tier[i] < tier[parent[i]] /\ Answer("TierNotMonotone")
  <2>1. ~Checked(i+1)
    BY <1>1, <1>2, NextEntry
  <2>2. QED
    BY <1>1, <1>2, <2>1 DEF Answer, TypeOK, Running, EntryInv, ParentInv,
       WalkInv, TierInv, AcceptedIsTree, RejectsFirstOffence, PassErrors, table,
       Checked
<1>3. CASE /\ tier[i] >= tier[parent[i]]
           /\ Goto("entry") /\ i' = i+1 /\ UNCHANGED cur
  <2>1. Checked(i+1) /\ i+1 \in 1 .. N
    BY <1>1, <1>3, NextEntry, TableAssumption
  <2>2. QED
    BY <1>1, <1>3, <2>1
    DEF CheckTier, Goto, TypeOK, Running, EntryInv, ParentInv, WalkInv, TierInv,
        AcceptedIsTree, RejectsFirstOffence, PassErrors, table, Checked
<1>4. QED
  BY <1>2, <1>3 DEF CheckTier

\* Finish preserves the invariant: everything behind the pass is everything.
LEMMA FinishInv == ASSUME IInv, Finish PROVE IInv'
BY DEF IInv, Finish, Answer, TypeOK, Running, EntryInv, ParentInv, WalkInv,
   TierInv, AcceptedIsTree, RejectsFirstOffence, PassErrors, table, Checked

LEMMA StepInv == IInv /\ [Next]_vars => IInv'
<1> SUFFICES ASSUME IInv, [Next]_vars PROVE IInv'
  OBVIOUS
<1>1. CASE Next
  BY <1>1, CheckRootInv, CheckParentInv, WalkStepInv, CheckTierInv, FinishInv
  DEF Next
<1>2. CASE UNCHANGED vars
  BY <1>2 DEF vars, IInv, TypeOK, Running, EntryInv, ParentInv, WalkInv, TierInv,
     AcceptedIsTree, RejectsFirstOffence, Checked
<1>3. QED
  BY <1>1, <1>2
-----------------------------------------------------------------------------
(***************************************************************************)
(* Theorems                                                                *)
(***************************************************************************)

\* The inductive invariant holds throughout every pass.
THEOREM Invariance == Spec => []IInv
BY InitInv, StepInv, PTL DEF Spec

\* Types are kept: `i` and `cur` stay table indices, errors are listed ones.
THEOREM TypeCorrect == Spec => []TypeOK
BY Invariance, PTL DEF IInv

\* Whatever the table, acceptance means it lists a tier-monotone tree in
\* pre-order.
THEOREM Soundness == Spec => []AcceptedIsTree
BY Invariance, PTL DEF IInv

\* Whatever the table, an error is reported at the first entry that breaks
\* the tree, so no pre-order listing of a tree is refused.
THEOREM Completeness == Spec => []RejectsFirstOffence
BY Invariance, PTL DEF IInv

\* on_root_path reads only entries behind the one being checked.
THEOREM WalkInBounds == Spec => []WalkStaysBehind
<1>1. IInv => WalkStaysBehind
  BY TableAssumption DEF IInv, EntryInv, WalkInv, WalkStaysBehind
<1>2. QED
  BY <1>1, Invariance, PTL

\* A table that breaks off being a tree is not one: refusal is the right
\* decision about the whole table.
LEMMA PrefixOfTree ==
  ASSUME NEW k \in 0 .. N-1, TypeOK, ~Checked(k+1)
  PROVE  ~Checked(N)
<1>1. SUFFICES ASSUME Checked(N) PROVE Checked(k+1)
  OBVIOUS
<1>2. N > 0 /\ 0 .. (k+1)-1 \subseteq 0 .. N-1 /\ 1 .. (k+1)-1 \subseteq 1 .. N-1
  BY TableAssumption
<1>3. QED
  BY <1>1, <1>2 DEF Checked, PreOrderTree, ContiguousBelow, TierMonotoneBelow

\* The abstract module means the same by a tree.
LEMMA SameTree ==
  ASSUME NEW par, NEW t, NEW k, NEW none
  PROVE  Decision!PreOrderTree(par, t, k, none) <=> PreOrderTree(par, t, k, none)
BY DEF PreOrderTree, ContiguousBelow, TierMonotoneBelow, IsAnc, ParentClosed,
   Decision!PreOrderTree, Decision!ContiguousBelow, Decision!TierMonotoneBelow,
   Decision!IsAnc, Decision!ParentClosed

\* Every pass implements the one-step decision of PreOrderVerdict, its
\* fairness apart: the answer given is the one that module defines.
THEOREM DecisionSafety ==
  Spec => Decision!Init /\ [][Decision!Decide]_(Decision!vars)
<1>1. Init => Decision!Init
  BY DEF Init, Decision!Init, Nodes, Decision!Nodes
<1>2. ASSUME IInv, IInv', [Next]_vars
      PROVE  [Decision!Decide]_(Decision!vars)
  <2>1. UNCHANGED <<parent, tier>>
    BY <1>2 DEF Next, CheckRoot, CheckParent, Walk, CheckTier, Finish, Answer,
       Goto, vars, table
  <2>2. CASE pc = "done"
    <3>1. UNCHANGED verdict
      BY <1>2, <2>2 DEF Next, CheckRoot, CheckParent, Walk, CheckTier, Finish, vars
    <3>2. QED
      BY <2>1, <3>1 DEF Decision!vars
  <2>3. CASE pc # "done" /\ verdict' = "none"
    <3>1. verdict = "none"
      BY <1>2, <2>3 DEF IInv, Running
    <3>2. QED
      BY <2>1, <2>3, <3>1 DEF Decision!vars
  <2>4. CASE pc # "done" /\ verdict' = "ok"
    <3>1. verdict = "none" /\ Checked(N)
      BY <1>2, <2>1, <2>4 DEF IInv, Running, AcceptedIsTree, Checked
    <3>2. QED
      BY <2>1, <2>4, <3>1, SameTree DEF Decision!Decide, Checked
  <2>5. CASE pc # "done" /\ verdict' \in PassErrors
    <3>1. verdict = "none"
      BY <1>2, <2>5 DEF IInv, Running
    <3>2. verdict' # "none" /\ verdict' # "ok"
      BY <2>5 DEF PassErrors
    <3>3. UNCHANGED i /\ i \in 0 .. N-1
      <4>1. CASE CheckRoot
        BY <1>2, <3>1, <3>2, <4>1, TableAssumption
        DEF CheckRoot, Answer, Goto, IInv, Running
      <4>2. CASE CheckParent
        BY <1>2, <3>1, <3>2, <4>2, TableAssumption
        DEF CheckParent, Answer, Goto, IInv, TypeOK
      <4>3. CASE Walk \/ CheckTier
        BY <1>2, <3>1, <3>2, <4>3, TableAssumption
        DEF Walk, CheckTier, Answer, Goto, IInv, ParentInv
      <4>4. QED
        BY <1>2, <3>1, <3>2, <4>1, <4>2, <4>3 DEF Next, Finish, Answer, vars
    <3>4. ~Checked(i+1)
      BY <1>2, <2>1, <2>5, <3>3 DEF IInv, RejectsFirstOffence, Checked
    <3>5. ~Checked(N)
      BY <1>2, <3>3, <3>4, PrefixOfTree DEF IInv
    <3>6. QED
      BY <2>1, <3>1, <3>2, <3>5, SameTree DEF Decision!Decide, Checked
  <2>6. QED
    BY <1>2, <2>2, <2>3, <2>4, <2>5 DEF IInv, TypeOK
<1>3. QED
  BY <1>1, <1>2, Invariance, PTL DEF Spec
=============================================================================
