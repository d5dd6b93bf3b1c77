------------------------- MODULE CloneBudgetProofs --------------------------
(***************************************************************************)
(* `corpusctl clone` for every list of repositories, every ceiling and     *)
(* every number of threads and of runs.                                    *)
(*                                                                         *)
(* What earlier runs completed, later runs keep (MarkedTreeSurvives).  It  *)
(* rests on one fact about the order of the steps: a thread that has       *)
(* passed Clear and not yet reached the marker has no marked tree, because *)
(* Clear turns away from a marked one and no other thread touches it.      *)
(*                                                                         *)
(* The budget's two totals are at every moment what the repositories add   *)
(* up to (Ledger), and no step of a thread changes what another adds, so   *)
(* each step is compared with the one summand it changes.                  *)
(***************************************************************************)
EXTENDS CloneBudget, FiniteSetTheorems, TLAPS

States == Waiting \cup InFlight \cup Outcomes

\* The steps between looking for the marker and creating it.
Unmarking == {"admitCheck", "admitAdd", "admitSub", "clone", "release", "markDone"}

IInv ==
  /\ pc \in [Repos -> States]
  /\ tree \in [Repos -> Trees]
  /\ \A r \in Repos : pc[r] \in Unmarking => ~tree[r].done

\* What a killed run leaves of a tree is a tree, and an unmarked one unless the
\* run was removing it.
LEMMA InterruptedTrees ==
  ASSUME NEW r \in Repos, IInv, NEW t \in Interrupted(r)
  PROVE  t \in Trees
  BY CloneAssumption DEF IInv, Interrupted, Trees, CloneAssumption

LEMMA RestartTrees ==
  ASSUME IInv, Restart
  PROVE  /\ tree' \in [Repos -> Trees]
         /\ \A r \in Repos : tree'[r] # tree[r] => pc[r] \in {"clone", "discard"}
<1> DEFINE cut == {r \in Repos : pc[r] \in {"clone", "discard"}}
<1>1. PICK part \in [cut -> UNION {Interrupted(r) : r \in cut}] :
        /\ \A r \in cut : part[r] \in Interrupted(r)
        /\ tree' = [r \in Repos |-> IF r \in cut THEN part[r] ELSE tree[r]]
  BY DEF Restart
<1>2. \A r \in cut : part[r] \in Trees
  BY <1>1, InterruptedTrees
<1>3. tree' \in [Repos -> Trees]
  BY <1>1, <1>2 DEF IInv
<1>4. ASSUME NEW r \in Repos, tree'[r] # tree[r]
      PROVE  pc[r] \in {"clone", "discard"}
  BY <1>1, <1>4
<1> QED
  BY <1>3, <1>4

LEMMA StepKeeps ==
  ASSUME IInv, NEW r \in Repos, Step(r)
  PROVE  IInv'
<1> USE CloneAssumption DEF IInv, Goto, States, Waiting, InFlight, Outcomes, Unmarking,
        CloneAssumption, Trees, NoTree
<1>1. CASE TakeUp(r) BY <1>1 DEF TakeUp
<1>2. CASE Clear(r)
  <2>1. CASE tree[r].done /\ Goto(r, "clear", "skipped") /\ UNCHANGED tree
    BY <2>1
  <2>2. CASE Goto(r, "clear", "admitCheck") /\ tree' = [tree EXCEPT ![r] = NoTree]
    BY <2>2
  <2> QED
    BY <1>2, <2>1, <2>2 DEF Clear
<1>3. CASE AdmitCheck(r) BY <1>3 DEF AdmitCheck
<1>4. CASE AdmitAdd(r) BY <1>4 DEF AdmitAdd
<1>5. CASE AdmitSub(r) BY <1>5 DEF AdmitSub
<1>6. CASE CloneAndPrune(r) BY <1>6 DEF CloneAndPrune
<1>7. CASE CloneFails(r) BY <1>7 DEF CloneFails
<1>8. CASE Release(r) BY <1>8 DEF Release
<1>9. CASE MarkDone(r) BY <1>9 DEF MarkDone
<1>10. CASE CommitAdd(r) BY <1>10 DEF CommitAdd
<1>11. CASE CommitRelease(r) BY <1>11 DEF CommitRelease
<1>12. CASE CommitCharge(r) BY <1>12 DEF CommitCharge
<1>13. CASE Uncharge(r) BY <1>13 DEF Uncharge
<1>14. CASE Unuse(r) BY <1>14 DEF Unuse
<1>15. CASE Discard(r) BY <1>15 DEF Discard
<1> QED
  BY <1>1, <1>2, <1>3, <1>4, <1>5, <1>6, <1>7, <1>8, <1>9, <1>10, <1>11, <1>12,
     <1>13, <1>14, <1>15 DEF Step

LEMMA RestartKeeps ==
  ASSUME IInv, Restart
  PROVE  IInv'
<1>1. tree' \in [Repos -> Trees]
  BY RestartTrees
<1>2. pc' = [r \in Repos |-> "waiting"]
  BY DEF Restart
<1> QED
  BY <1>1, <1>2 DEF IInv, States, Waiting, Unmarking

\* The invariant behind the theorem: no thread between the look at the marker
\* and its creation has a marked tree (main.rs:233-262).
THEOREM Invariance == Spec => []IInv
<1>1. Init => IInv
  BY DEF Init, IInv, States, Waiting, Unmarking, Trees, NoTree
<1>2. IInv /\ [Next]_vars => IInv'
  <2> SUFFICES ASSUME IInv, [Next]_vars PROVE IInv'
    OBVIOUS
  <2>1. ASSUME NEW r \in Repos, Step(r) PROVE IInv'
    BY <2>1, StepKeeps
  <2>2. CASE Restart
    BY <2>2, RestartKeeps
  <2>3. CASE UNCHANGED vars
    BY <2>3 DEF vars, IInv
  <2> QED
    BY <2>1, <2>2, <2>3 DEF Next
<1> QED
  BY <1>1, <1>2, PTL DEF Spec

\* Every step that changes a marked tree is a step of the thread whose commit was
\* refused, or a restart that cut that thread short.
LEMMA MarkedTreeKept ==
  ASSUME IInv, [Next]_vars, NEW r \in Repos, tree[r].done, tree'[r] # tree[r]
  PROVE  pc[r] = "discard"
<1>1. ASSUME NEW s \in Repos, Step(s) PROVE pc[r] = "discard"
  <2> USE DEF IInv, Goto, Unmarking, Trees
  <2>1. CASE TakeUp(s) BY <2>1 DEF TakeUp
  <2>2. CASE Clear(s) BY <2>2 DEF Clear
  <2>3. CASE AdmitCheck(s) BY <2>3 DEF AdmitCheck
  <2>4. CASE AdmitAdd(s) BY <2>4 DEF AdmitAdd
  <2>5. CASE AdmitSub(s) BY <2>5 DEF AdmitSub
  <2>6. CASE CloneAndPrune(s) BY <2>6 DEF CloneAndPrune
  <2>7. CASE CloneFails(s) BY <2>7 DEF CloneFails
  <2>8. CASE Release(s) BY <2>8 DEF Release
  <2>9. CASE MarkDone(s) BY <2>9 DEF MarkDone
  <2>10. CASE CommitAdd(s) BY <2>10 DEF CommitAdd
  <2>11. CASE CommitRelease(s) BY <2>11 DEF CommitRelease
  <2>12. CASE CommitCharge(s) BY <2>12 DEF CommitCharge
  <2>13. CASE Uncharge(s) BY <2>13 DEF Uncharge
  <2>14. CASE Unuse(s) BY <2>14 DEF Unuse
  <2>15. CASE Discard(s) BY <2>15 DEF Discard
  <2> QED
    BY <1>1, <2>1, <2>2, <2>3, <2>4, <2>5, <2>6, <2>7, <2>8, <2>9, <2>10, <2>11,
       <2>12, <2>13, <2>14, <2>15 DEF Step
<1>2. CASE Restart
  BY <1>2, RestartTrees DEF IInv, Unmarking
<1>3. CASE UNCHANGED vars
  BY <1>3 DEF vars
<1> QED
  BY <1>1, <1>2, <1>3 DEF Next

\* A tree marked `.done` is only ever lost to the refusal of its own commit,
\* whatever the other threads do and whenever the run is killed (main.rs:233-265).
THEOREM MarkedTreesSurvive == Spec => MarkedTreeSurvives
<1>1. IInv /\ [Next]_vars =>
        [\A r \in Repos : tree[r].done /\ tree'[r] # tree[r] => pc[r] = "discard"]_vars
  BY MarkedTreeKept
<1> QED
  BY <1>1, Invariance, PTL DEF Spec, MarkedTreeSurvives

-----------------------------------------------------------------------------
(***************************************************************************)
(* Sums                                                                    *)
(*                                                                         *)
(* SumFunctionOnSet of the community modules is defined by recursion over  *)
(* the set.  That is replaced by counting: the sum of f over S is the      *)
(* number of pairs of a member of S and a number from 1 to its value, and  *)
(* how many pairs there are does not depend on the order in which the      *)
(* members are taken.                                                      *)
(***************************************************************************)

Units(f, S) == {u \in S \X Nat : u[2] \in 1 .. f[u[1]]}

\* Taking out a member takes out its units.
LEMMA UnitsSplit ==
  ASSUME NEW f, NEW S, NEW x \in S, f[x] \in Nat
  PROVE  /\ Units(f, S) = Units(f, S \ {x}) \cup ({x} \X (1 .. f[x]))
         /\ Units(f, S \ {x}) \cap ({x} \X (1 .. f[x])) = {}
BY DEF Units

LEMMA UnitsOfOne ==
  ASSUME NEW x, NEW n \in Nat
  PROVE  IsFiniteSet({x} \X (1 .. n)) /\ Cardinality({x} \X (1 .. n)) = n
<1>1. IsFiniteSet({x}) /\ Cardinality({x}) = 1
  BY FS_Singleton
<1>2. IsFiniteSet(1 .. n) /\ Cardinality(1 .. n) = n
  BY FS_Interval
<1> DEFINE X == {x}
           Y == 1 .. n
<1> HIDE DEF X, Y
<1>3. Cardinality(X \X Y) = Cardinality(X) * Cardinality(Y) /\ IsFiniteSet(X \X Y)
  BY <1>1, <1>2, FS_Product DEF X, Y
<1>4. Cardinality(X) * Cardinality(Y) = n
  BY <1>1, <1>2 DEF X, Y
<1> QED
  BY <1>3, <1>4 DEF X, Y

LEMMA UnitsFinite ==
  ASSUME NEW S, IsFiniteSet(S), NEW f, \A x \in S : f[x] \in Nat
  PROVE  IsFiniteSet(Units(f, S)) /\ Cardinality(Units(f, S)) \in Nat
<1> DEFINE block(x) == {x} \X (1 .. f[x])
           blocks == {block(x) : x \in S}
<1>1. IsFiniteSet(blocks)
  <2> DEFINE g == [x \in S |-> block(x)]
  <2>1. g \in Surjection(S, blocks)
    BY DEF Surjection
  <2> HIDE DEF g, blocks
  <2> QED
    BY <2>1, FS_Surjection
<1>2. \A b \in blocks : IsFiniteSet(b)
  <2> SUFFICES ASSUME NEW x \in S PROVE IsFiniteSet(block(x))
    OBVIOUS
  <2>1. f[x] \in Nat
    OBVIOUS
  <2> QED
    BY <2>1, UnitsOfOne
<1>3. IsFiniteSet(UNION blocks)
  <2> HIDE DEF blocks
  <2> QED
    BY <1>1, <1>2, FS_UNION
<1>4. Units(f, S) \subseteq UNION blocks
  BY DEF Units
<1>5. IsFiniteSet(Units(f, S))
  <2> HIDE DEF blocks
  <2> QED
    BY <1>3, <1>4, FS_Subset
<1> QED
  BY <1>5, FS_CardinalityType

LEMMA CountSplit ==
  ASSUME NEW S, IsFiniteSet(S), NEW f, \A y \in S : f[y] \in Nat, NEW x \in S
  PROVE  Cardinality(Units(f, S)) = f[x] + Cardinality(Units(f, S \ {x}))
<1> DEFINE rest == Units(f, S \ {x})
           own == {x} \X (1 .. f[x])
<1>1. IsFiniteSet(S \ {x})
  BY FS_Difference
<1>2. IsFiniteSet(rest) /\ Cardinality(rest) \in Nat
  BY <1>1, UnitsFinite
<1>3. IsFiniteSet(own) /\ Cardinality(own) = f[x]
  BY UnitsOfOne
<1>4. Units(f, S) = rest \cup own /\ rest \cap own = {}
  BY UnitsSplit
<1> HIDE DEF rest, own
<1>5. Cardinality(rest \cap own) = 0
  BY <1>4, FS_EmptySet
<1>6. Cardinality(rest \cup own) = Cardinality(rest) + Cardinality(own) - 0
  BY <1>2, <1>3, <1>5, FS_Union
<1> QED
  BY <1>2, <1>3, <1>4, <1>6 DEF rest

\* The sum counts the units.
LEMMA SumCounts ==
  ASSUME NEW S, IsFiniteSet(S), NEW f, \A x \in S : f[x] \in Nat
  PROVE  SumFunctionOnSet(f, S) = Cardinality(Units(f, S))
<1> DEFINE one(s) == CHOOSE x \in s : TRUE
           turn(it) == [s \in SUBSET S |->
                          IF s = {} THEN 0 ELSE f[one(s)] + it[s \ {one(s)}]]
           iter == CHOOSE it : it = turn(it)
           count == [s \in SUBSET S |-> Cardinality(Units(f, s))]
<1>1. ASSUME NEW s \in SUBSET S
      PROVE  count[s] = IF s = {} THEN 0 ELSE f[one(s)] + count[s \ {one(s)}]
  <2>1. CASE s = {}
    <3>1. Units(f, s) = {}
      BY <2>1 DEF Units
    <3> QED
      BY <2>1, <3>1, FS_EmptySet
  <2>2. CASE s # {}
    <3>1. one(s) \in s /\ IsFiniteSet(s) /\ s \ {one(s)} \in SUBSET S
      BY <2>2, FS_Subset
    <3>2. \A y \in s : f[y] \in Nat
      OBVIOUS
    <3>3. Cardinality(Units(f, s)) = f[one(s)] + Cardinality(Units(f, s \ {one(s)}))
      <4> HIDE DEF one
      <4> QED
        BY <3>1, <3>2, CountSplit
    <3>4. count[s] = Cardinality(Units(f, s))
          /\ count[s \ {one(s)}] = Cardinality(Units(f, s \ {one(s)}))
      BY <3>1
    <3> HIDE DEF one, count
    <3> QED
      BY <2>2, <3>3, <3>4
  <2> QED
    BY <2>1, <2>2
<1>2. count = turn(count)
  BY <1>1
<1>3. iter = turn(iter)
  <2>1. \E it : it = turn(it)
    BY <1>2
  <2> QED
    BY <2>1
<1>4. SumFunctionOnSet(f, S) = iter[S]
  BY DEF SumFunctionOnSet, FoldFunctionOnSet, MapThenFoldSet
<1>5. \A s \in SUBSET S : iter[s] = count[s]
  <2> DEFINE apart == {s \in SUBSET S : iter[s] # count[s]}
  <2>1. SUFFICES ASSUME apart # {} PROVE FALSE
    OBVIOUS
  <2>2. PICK s \in apart : \A u \in apart : ~ (<<u, s>> \in StrictSubsetOrdering(S))
    <3>1. IsWellFoundedOn(StrictSubsetOrdering(S), SUBSET S)
      BY FS_StrictSubsetOrderingWellFounded, FS_FiniteSubsetsOfFinite
    <3>2. apart \subseteq SUBSET S
      OBVIOUS
    <3> HIDE DEF apart
    <3> QED
      BY <2>1, <3>1, <3>2, WFMin
  <2>3. s \in SUBSET S /\ iter[s] # count[s]
    OBVIOUS
  <2> HIDE DEF iter, count
  <2>4. iter[s] = IF s = {} THEN 0 ELSE f[one(s)] + iter[s \ {one(s)}]
    BY <1>3, <2>3
  <2>5. s # {} /\ iter[s \ {one(s)}] # count[s \ {one(s)}]
    BY <1>1, <2>3, <2>4
  <2>6. one(s) \in s
    BY <2>5
  <2>7. s \ {one(s)} \in apart /\ <<s \ {one(s)}, s>> \in StrictSubsetOrdering(S)
    BY <2>3, <2>5, <2>6 DEF StrictSubsetOrdering
  <2> QED
    BY <2>2, <2>7
<1> QED
  BY <1>4, <1>5

LEMMA SumType ==
  ASSUME NEW S, IsFiniteSet(S), NEW f, \A x \in S : f[x] \in Nat
  PROVE  SumFunctionOnSet(f, S) \in Nat
BY SumCounts, UnitsFinite

\* Smaller values make no larger sum.
LEMMA SumBelow ==
  ASSUME NEW S, IsFiniteSet(S), NEW f, NEW g,
         \A x \in S : f[x] \in Nat /\ g[x] \in Nat /\ f[x] <= g[x]
  PROVE  SumFunctionOnSet(f, S) <= SumFunctionOnSet(g, S)
<1>1. IsFiniteSet(Units(g, S))
  BY UnitsFinite
<1>2. Units(f, S) \in SUBSET Units(g, S)
  BY DEF Units
<1>3. Cardinality(Units(f, S)) <= Cardinality(Units(g, S))
  BY <1>1, <1>2, FS_Subset
<1>4. /\ SumFunctionOnSet(f, S) = Cardinality(Units(f, S))
      /\ SumFunctionOnSet(g, S) = Cardinality(Units(g, S))
  BY SumCounts
<1> QED
  BY <1>3, <1>4

\* The sum depends on the values at the members only.
LEMMA SumSame ==
  ASSUME NEW S, IsFiniteSet(S), NEW f, NEW g,
         \A x \in S : f[x] \in Nat /\ g[x] = f[x]
  PROVE  SumFunctionOnSet(g, S) = SumFunctionOnSet(f, S)
<1>1. Units(f, S) = Units(g, S)
  BY DEF Units
<1>2. /\ SumFunctionOnSet(f, S) = Cardinality(Units(f, S))
      /\ SumFunctionOnSet(g, S) = Cardinality(Units(g, S))
  BY SumCounts
<1> QED
  BY <1>1, <1>2

LEMMA SumZero ==
  ASSUME NEW S, IsFiniteSet(S), NEW f, \A x \in S : f[x] = 0
  PROVE  SumFunctionOnSet(f, S) = 0
<1>1. Units(f, S) = {}
  BY DEF Units
<1>2. SumFunctionOnSet(f, S) = Cardinality(Units(f, S))
  BY SumCounts
<1> QED
  BY <1>1, <1>2, FS_EmptySet

\* A change at one member changes the sum by as much.
LEMMA SumChange ==
  ASSUME NEW S, IsFiniteSet(S), NEW x \in S, NEW f, NEW g,
         \A y \in S : f[y] \in Nat /\ g[y] \in Nat,
         \A y \in S : y # x => g[y] = f[y]
  PROVE  SumFunctionOnSet(g, S) + f[x] = SumFunctionOnSet(f, S) + g[x]
<1>1. /\ SumFunctionOnSet(f, S) = f[x] + Cardinality(Units(f, S \ {x}))
      /\ SumFunctionOnSet(g, S) = g[x] + Cardinality(Units(g, S \ {x}))
  BY SumCounts, CountSplit
<1>2. Units(f, S \ {x}) = Units(g, S \ {x})
  BY DEF Units
<1>3. IsFiniteSet(S \ {x})
  BY FS_Difference
<1>4. Cardinality(Units(f, S \ {x})) \in Nat
  BY <1>3, UnitsFinite
<1> QED
  BY <1>1, <1>2, <1>4

-----------------------------------------------------------------------------
(***************************************************************************)
(* The budget                                                              *)
(***************************************************************************)

\* The size of a tree that is charged: one whose refusal is being undone, too.
Paid(r) == IF pc[r] \in Waiting \cup {"clear", "uncharge"} \cup Outcomes THEN Size(r) ELSE 0

\* The size of a tree whose commit has gone over the ceiling.
Refused(r) == IF pc[r] = "uncharge" THEN Size(r) ELSE 0

Limit == IF onDisk > Ceiling THEN onDisk ELSE Ceiling

\* Where a thread stands, its repository has a number of turns left and a tree or none.
Flow ==
  /\ pc \in [Repos -> States]
  /\ tree \in [Repos -> Trees]
  /\ tries \in [Repos -> 0 .. AdmitTries]
  /\ full \in BOOLEAN /\ onDisk \in Nat /\ runs \in 1 .. MaxRuns
  /\ \A r \in Repos : pc[r] \in Waiting \cup {"clear"} => tries[r] = 0
  /\ \A r \in Repos : pc[r] \in {"admitCheck", "admitAdd", "admitSub"} => tries[r] < AdmitTries
  /\ \A r \in Repos :
       pc[r] \in {"admitCheck", "admitAdd", "admitSub", "clone", "release"} => tree[r].size = 0

Ledger ==
  /\ used \in Nat /\ charged \in Nat
  /\ Accounting
  /\ GrantedFit
  /\ Total([r \in Repos |-> Paid(r)]) <= charged
  /\ charged <= Limit + Total([r \in Repos |-> Refused(r)])

\* What a repository adds is a number of KiB, and what was granted is held.
LEMMA Summands ==
  ASSUME pc \in [Repos -> States], tree \in [Repos -> Trees], NEW r \in Repos
  PROVE  /\ Size(r) \in Nat /\ Reserved(r) \in Nat
         /\ Held(r) \in Nat /\ Granted(r) \in Nat /\ Paid(r) \in Nat /\ Refused(r) \in Nat
         /\ Granted(r) <= Held(r)
<1>1. tree[r] \in Trees
  OBVIOUS
<1>2. Size(r) \in Nat
  BY <1>1 DEF Size, Trees
<1>3. Reserved(r) \in Nat
  BY CloneAssumption DEF Reserved
<1> QED
  BY <1>2, <1>3 DEF Held, Granted, Paid, Refused

\* A step of one thread changes each total by what it changes of that summand.
LEMMA OneChanges ==
  ASSUME pc \in [Repos -> States], tree \in [Repos -> Trees],
         pc' \in [Repos -> States], tree' \in [Repos -> Trees],
         NEW r \in Repos,
         \A s \in Repos : s # r => pc'[s] = pc[s] /\ tree'[s] = tree[s]
  PROVE  /\ Total([s \in Repos |-> Held(s)])' + Held(r) = Total([s \in Repos |-> Held(s)]) + Held(r)'
         /\ Total([s \in Repos |-> Granted(s)])' + Granted(r)
              = Total([s \in Repos |-> Granted(s)]) + Granted(r)'
         /\ Total([s \in Repos |-> Paid(s)])' + Paid(r) = Total([s \in Repos |-> Paid(s)]) + Paid(r)'
         /\ Total([s \in Repos |-> Refused(s)])' + Refused(r)
              = Total([s \in Repos |-> Refused(s)]) + Refused(r)'
<1>1. \A s \in Repos : s # r =>
        Held(s)' = Held(s) /\ Granted(s)' = Granted(s) /\ Paid(s)' = Paid(s)
        /\ Refused(s)' = Refused(s)
  BY DEF Held, Granted, Paid, Refused, Size
<1>2. \A s \in Repos :
        /\ Held(s) \in Nat /\ Granted(s) \in Nat /\ Paid(s) \in Nat /\ Refused(s) \in Nat
        /\ Held(s)' \in Nat /\ Granted(s)' \in Nat /\ Paid(s)' \in Nat /\ Refused(s)' \in Nat
  <2> TAKE s \in Repos
  <2>1. Held(s) \in Nat /\ Granted(s) \in Nat /\ Paid(s) \in Nat /\ Refused(s) \in Nat
    BY Summands
  <2>2. Held(s)' \in Nat /\ Granted(s)' \in Nat /\ Paid(s)' \in Nat /\ Refused(s)' \in Nat
    <3>1. tree'[s] \in Trees
      OBVIOUS
    <3>2. Size(s)' \in Nat
      BY <3>1 DEF Size, Trees
    <3>3. Reserved(s)' \in Nat
      BY CloneAssumption DEF Reserved
    <3> QED
      BY <3>2, <3>3 DEF Held, Granted, Paid, Refused
  <2> QED
    BY <2>1, <2>2
<1>3. IsFiniteSet(Repos)
  BY CloneAssumption
<1> DEFINE held == [s \in Repos |-> Held(s)]
           granted == [s \in Repos |-> Granted(s)]
           paid == [s \in Repos |-> Paid(s)]
           refused == [s \in Repos |-> Refused(s)]
<1>4. \A s \in Repos :
        /\ held[s] = Held(s) /\ held'[s] = Held(s)'
        /\ granted[s] = Granted(s) /\ granted'[s] = Granted(s)'
        /\ paid[s] = Paid(s) /\ paid'[s] = Paid(s)'
        /\ refused[s] = Refused(s) /\ refused'[s] = Refused(s)'
  OBVIOUS
<1> HIDE DEF held, granted, paid, refused
<1>5. Total(held') + held[r] = Total(held) + held'[r]
  <2>1. /\ \A s \in Repos : held[s] \in Nat /\ held'[s] \in Nat
        /\ \A s \in Repos : s # r => held'[s] = held[s]
    BY <1>1, <1>2, <1>4
  <2> QED
    BY <1>3, <2>1, SumChange DEF Total
<1>6. Total(granted') + granted[r] = Total(granted) + granted'[r]
  <2>1. /\ \A s \in Repos : granted[s] \in Nat /\ granted'[s] \in Nat
        /\ \A s \in Repos : s # r => granted'[s] = granted[s]
    BY <1>1, <1>2, <1>4
  <2> QED
    BY <1>3, <2>1, SumChange DEF Total
<1>7. Total(paid') + paid[r] = Total(paid) + paid'[r]
  <2>1. /\ \A s \in Repos : paid[s] \in Nat /\ paid'[s] \in Nat
        /\ \A s \in Repos : s # r => paid'[s] = paid[s]
    BY <1>1, <1>2, <1>4
  <2> QED
    BY <1>3, <2>1, SumChange DEF Total
<1>8. Total(refused') + refused[r] = Total(refused) + refused'[r]
  <2>1. /\ \A s \in Repos : refused[s] \in Nat /\ refused'[s] \in Nat
        /\ \A s \in Repos : s # r => refused'[s] = refused[s]
    BY <1>1, <1>2, <1>4
  <2> QED
    BY <1>3, <2>1, SumChange DEF Total
<1>9. /\ Total(held)' = Total(held') /\ Total(granted)' = Total(granted')
      /\ Total(paid)' = Total(paid') /\ Total(refused)' = Total(refused')
  BY DEF Total
<1> QED
  BY <1>4, <1>5, <1>6, <1>7, <1>8, <1>9 DEF held, granted, paid, refused

\* The totals are numbers, and no more is granted than is held.
LEMMA TotalsType ==
  ASSUME pc \in [Repos -> States], tree \in [Repos -> Trees]
  PROVE  /\ Total([r \in Repos |-> Held(r)]) \in Nat
         /\ Total([r \in Repos |-> Granted(r)]) \in Nat
         /\ Total([r \in Repos |-> Paid(r)]) \in Nat
         /\ Total([r \in Repos |-> Refused(r)]) \in Nat
         /\ Total([r \in Repos |-> Granted(r)]) <= Total([r \in Repos |-> Held(r)])
<1>1. \A r \in Repos :
        /\ Held(r) \in Nat /\ Granted(r) \in Nat /\ Paid(r) \in Nat /\ Refused(r) \in Nat
        /\ Granted(r) <= Held(r)
  BY Summands
<1>2. IsFiniteSet(Repos)
  BY CloneAssumption
<1> DEFINE held == [s \in Repos |-> Held(s)]
           granted == [s \in Repos |-> Granted(s)]
           paid == [s \in Repos |-> Paid(s)]
           refused == [s \in Repos |-> Refused(s)]
<1>3. \A s \in Repos :
        held[s] \in Nat /\ granted[s] \in Nat /\ paid[s] \in Nat /\ refused[s] \in Nat
        /\ granted[s] <= held[s]
  BY <1>1
<1> HIDE DEF held, granted, paid, refused
<1>4. /\ SumFunctionOnSet(held, Repos) \in Nat /\ SumFunctionOnSet(granted, Repos) \in Nat
      /\ SumFunctionOnSet(paid, Repos) \in Nat /\ SumFunctionOnSet(refused, Repos) \in Nat
  BY <1>2, <1>3, SumType
<1>5. SumFunctionOnSet(granted, Repos) <= SumFunctionOnSet(held, Repos)
  BY <1>2, <1>3, SumBelow
<1> QED
  BY <1>4, <1>5 DEF Total, held, granted, paid, refused

\* The same after a step.
LEMMA SummandsNext ==
  ASSUME NEW r \in Repos
  PROVE  (pc \in [Repos -> States] /\ tree \in [Repos -> Trees] =>
            /\ Size(r) \in Nat /\ Reserved(r) \in Nat
            /\ Held(r) \in Nat /\ Granted(r) \in Nat /\ Paid(r) \in Nat /\ Refused(r) \in Nat
            /\ Granted(r) <= Held(r))'
<1>1. pc \in [Repos -> States] /\ tree \in [Repos -> Trees] =>
        /\ Size(r) \in Nat /\ Reserved(r) \in Nat
        /\ Held(r) \in Nat /\ Granted(r) \in Nat /\ Paid(r) \in Nat /\ Refused(r) \in Nat
        /\ Granted(r) <= Held(r)
  BY Summands
<1> QED
  BY <1>1, PTL

LEMMA TotalsNext ==
  (pc \in [Repos -> States] /\ tree \in [Repos -> Trees] =>
     /\ Total([r \in Repos |-> Held(r)]) \in Nat
     /\ Total([r \in Repos |-> Granted(r)]) \in Nat
     /\ Total([r \in Repos |-> Paid(r)]) \in Nat
     /\ Total([r \in Repos |-> Refused(r)]) \in Nat
     /\ Total([r \in Repos |-> Granted(r)]) <= Total([r \in Repos |-> Held(r)]))'
<1>1. pc \in [Repos -> States] /\ tree \in [Repos -> Trees] =>
        /\ Total([r \in Repos |-> Held(r)]) \in Nat
        /\ Total([r \in Repos |-> Granted(r)]) \in Nat
        /\ Total([r \in Repos |-> Paid(r)]) \in Nat
        /\ Total([r \in Repos |-> Refused(r)]) \in Nat
        /\ Total([r \in Repos |-> Granted(r)]) <= Total([r \in Repos |-> Held(r)])
  BY TotalsType
<1> QED
  BY <1>1, PTL

LEMMA StepKeepsFlow ==
  ASSUME Flow, NEW r \in Repos, Step(r)
  PROVE  /\ Flow'
         /\ \A s \in Repos : s # r => pc'[s] = pc[s] /\ tree'[s] = tree[s]
         /\ UNCHANGED <<onDisk, runs>>
<1> USE CloneAssumption DEF Flow, Goto, States, Waiting, InFlight, Outcomes, Trees, NoTree,
        run, budget
<1>1. CASE TakeUp(r)
  BY <1>1 DEF TakeUp
<1>2. CASE Clear(r)
  <2>1. CASE tree[r].done /\ Goto(r, "clear", "skipped") /\ UNCHANGED tree
    BY <1>2, <2>1 DEF Clear
  <2>2. CASE Goto(r, "clear", "admitCheck") /\ tree' = [tree EXCEPT ![r] = NoTree]
    BY <1>2, <2>2 DEF Clear
  <2> QED
    BY <1>2, <2>1, <2>2 DEF Clear
<1>3. CASE AdmitCheck(r)
  BY <1>3 DEF AdmitCheck
<1>4. CASE AdmitAdd(r)
  BY <1>4 DEF AdmitAdd
<1>5. CASE AdmitSub(r)
  BY <1>5 DEF AdmitSub
<1>6. CASE CloneAndPrune(r)
  BY <1>6 DEF CloneAndPrune
<1>7. CASE CloneFails(r)
  BY <1>7 DEF CloneFails
<1>8. CASE Release(r)
  BY <1>8 DEF Release
<1>9. CASE MarkDone(r)
  <2> DEFINE marked == [tree[r] EXCEPT !.done = TRUE]
  <2>1. marked \in Trees /\ marked.size = tree[r].size
    <3>1. tree[r] \in [size : Nat, done : BOOLEAN]
      OBVIOUS
    <3> QED
      BY ONLY <3>1 DEF Trees
  <2>2. /\ pc[r] = "markDone" /\ pc' = [pc EXCEPT ![r] = "commitAdd"]
        /\ tree' = [tree EXCEPT ![r] = marked]
        /\ UNCHANGED <<tries, full, onDisk, runs>>
    BY <1>9 DEF MarkDone
  <2> HIDE DEF marked
  <2> QED
    BY <2>1, <2>2
<1>10. CASE CommitAdd(r)
  BY <1>10 DEF CommitAdd
<1>11. CASE CommitRelease(r)
  BY <1>11 DEF CommitRelease
<1>12. CASE CommitCharge(r)
  BY <1>12 DEF CommitCharge
<1>13. CASE Uncharge(r)
  BY <1>13 DEF Uncharge
<1>14. CASE Unuse(r)
  BY <1>14 DEF Unuse
<1>15. CASE Discard(r)
  BY <1>15 DEF Discard
<1> QED
  BY <1>1, <1>2, <1>3, <1>4, <1>5, <1>6, <1>7, <1>8, <1>9, <1>10, <1>11, <1>12,
     <1>13, <1>14, <1>15 DEF Step

\* The totals follow the counters over a step of one thread, if what the step adds
\* to the counters is what it adds to the thread's summands.
LEMMA LedgerStep ==
  ASSUME Flow, Flow', Ledger, NEW r \in Repos,
         \A s \in Repos : s # r => pc'[s] = pc[s] /\ tree'[s] = tree[s],
         onDisk' = onDisk, used' \in Int, charged' \in Int,
         used' + charged + Held(r) = used + charged' + Held(r)',
         Granted(r)' <= Granted(r) \/ used' <= Ceiling,
         Paid(r)' + charged <= Paid(r) + charged',
         charged' <= Ceiling \/ charged' + Refused(r) <= charged + Refused(r)'
  PROVE  Ledger'
<1> DEFINE held == Total([s \in Repos |-> Held(s)])
           granted == Total([s \in Repos |-> Granted(s)])
           paid == Total([s \in Repos |-> Paid(s)])
           refused == Total([s \in Repos |-> Refused(s)])
           used2 == used'         charged2 == charged'
           held2 == held'         Held2 == Held(r)'
           granted2 == granted'   Granted2 == Granted(r)'
           paid2 == paid'         Paid2 == Paid(r)'
           refused2 == refused'   Refused2 == Refused(r)'
<1>1. /\ pc \in [Repos -> States] /\ tree \in [Repos -> Trees]
      /\ pc' \in [Repos -> States] /\ tree' \in [Repos -> Trees]
  BY DEF Flow
<1>2. /\ held2 + Held(r) = held + Held2
      /\ granted2 + Granted(r) = granted + Granted2
      /\ paid2 + Paid(r) = paid + Paid2
      /\ refused2 + Refused(r) = refused + Refused2
  BY <1>1, OneChanges
<1>3. /\ held \in Nat /\ granted \in Nat /\ paid \in Nat /\ refused \in Nat
  BY <1>1, TotalsType
<1>4. /\ held2 \in Nat /\ granted2 \in Nat /\ paid2 \in Nat /\ refused2 \in Nat
      /\ granted2 <= held2
  BY <1>1, TotalsNext
<1>5. /\ Held(r) \in Nat /\ Granted(r) \in Nat /\ Paid(r) \in Nat /\ Refused(r) \in Nat
  BY <1>1, Summands
<1>6. /\ Held2 \in Nat /\ Granted2 \in Nat /\ Paid2 \in Nat /\ Refused2 \in Nat
  BY <1>1, SummandsNext
<1>7. /\ used \in Nat /\ charged \in Nat /\ used = charged + held /\ granted <= Ceiling
      /\ paid <= charged /\ charged <= Limit + refused
  BY DEF Ledger, Accounting, GrantedFit
<1>8. Ceiling \in Nat /\ Limit \in Nat /\ Ceiling <= Limit /\ Limit' = Limit
  BY CloneAssumption DEF Limit, Flow
<1>9. /\ used2 \in Int /\ charged2 \in Int
      /\ used2 + charged + Held(r) = used + charged2 + Held2
      /\ Granted2 <= Granted(r) \/ used2 <= Ceiling
      /\ Paid2 + charged <= Paid(r) + charged2
      /\ charged2 <= Ceiling \/ charged2 + Refused(r) <= charged + Refused2
  OBVIOUS
<1> HIDE DEF held, granted, paid, refused, held2, granted2, paid2, refused2,
             used2, charged2, Held2, Granted2, Paid2, Refused2
<1>10. charged2 \in Nat /\ paid2 <= charged2
  BY ONLY <1>2, <1>3, <1>4, <1>5, <1>6, <1>7, <1>9
<1>11. used2 = charged2 + held2 /\ used2 \in Nat
  BY ONLY <1>2, <1>3, <1>4, <1>5, <1>6, <1>7, <1>9, <1>10
<1>12. granted2 <= Ceiling
  BY ONLY <1>2, <1>3, <1>4, <1>5, <1>6, <1>7, <1>8, <1>9, <1>10, <1>11
<1>13. charged2 <= Limit + refused2
  BY ONLY <1>2, <1>3, <1>4, <1>5, <1>6, <1>7, <1>8, <1>9, <1>10
<1> QED
  BY <1>8, <1>10, <1>11, <1>12, <1>13 DEF Ledger, Accounting, GrantedFit,
     held, granted, paid, refused, held2, granted2, paid2, refused2, used2, charged2

LEMMA StepKeepsLedger ==
  ASSUME Flow, Ledger, NEW r \in Repos, Step(r)
  PROVE  Ledger'
<1>1. /\ Flow' /\ onDisk' = onDisk
      /\ \A s \in Repos : s # r => pc'[s] = pc[s] /\ tree'[s] = tree[s]
  BY StepKeepsFlow
<1>2. /\ pc \in [Repos -> States] /\ tree \in [Repos -> Trees]
      /\ pc' \in [Repos -> States] /\ tree' \in [Repos -> Trees]
      /\ pc[r] \in {"admitCheck", "admitAdd", "admitSub", "clone", "release"} => Size(r) = 0
  BY <1>1 DEF Flow, Size
<1>3. /\ used \in Int /\ charged \in Int /\ Ceiling \in Int
      /\ Reserved(r) \in Int /\ Size(r) \in Int /\ Size(r) >= 0 /\ Reserved(r) >= 0
  BY <1>2, Summands, CloneAssumption DEF Ledger
<1>4. SUFFICES
        /\ used' \in Int /\ charged' \in Int
        /\ used' + charged + Held(r) = used + charged' + Held(r)'
        /\ Granted(r)' <= Granted(r) \/ used' <= Ceiling
        /\ Paid(r)' + charged <= Paid(r) + charged'
        /\ charged' <= Ceiling \/ charged' + Refused(r) <= charged + Refused(r)'
  BY <1>1, LedgerStep
<1>5. Reserved(r)' = Reserved(r)
  BY DEF Reserved
<1>6. CASE TakeUp(r)
  <2>1. /\ pc[r] = "waiting" /\ pc'[r] \in {"overBudget", "skipped", "clear"}
        /\ used' = used /\ charged' = charged
        /\ Size(r)' = Size(r)
    BY <1>2, <1>6 DEF TakeUp, Goto, Size, NoTree, run, budget
  <2>2. /\ Held(r) = 0 /\ Held(r)' = 0
        /\ Granted(r) = 0 /\ Granted(r)' = 0
        /\ Paid(r) = Size(r) /\ Paid(r)' = Size(r)
        /\ Refused(r) = 0 /\ Refused(r)' = 0
    BY <1>2, <1>3, <1>5, <2>1 DEF Held, Granted, Paid, Refused, Waiting, Outcomes
  <2> QED
    BY ONLY <1>3, <2>1, <2>2
<1>7. CASE Clear(r)
  <2>1. /\ pc[r] = "clear" /\ pc'[r] \in {"skipped", "admitCheck"}
        /\ used' = used /\ charged' = charged
        /\ Size(r)' = Size(r) \/ Size(r)' = 0
    BY <1>2, <1>7 DEF Clear, Goto, Size, NoTree, run, budget
  <2>2. /\ Held(r) = 0 /\ Held(r)' = 0
        /\ Granted(r) = 0 /\ Granted(r)' = 0
        /\ Paid(r) = Size(r)
        /\ (Paid(r)' = 0 \/ Paid(r)' = Size(r))
        /\ Refused(r) = 0 /\ Refused(r)' = 0
    BY <1>2, <1>3, <1>5, <2>1 DEF Held, Granted, Paid, Refused, Waiting, Outcomes
  <2> QED
    BY ONLY <1>3, <2>1, <2>2
<1>8. CASE AdmitCheck(r)
  <2>1. /\ pc[r] = "admitCheck" /\ pc'[r] \in {"overBudget", "admitAdd"}
        /\ used' = used /\ charged' = charged
        /\ Size(r)' = 0
    BY <1>2, <1>8 DEF AdmitCheck, Goto, Size, NoTree, run, budget
  <2>2. /\ Held(r) = 0 /\ Held(r)' = 0
        /\ Granted(r) = 0 /\ Granted(r)' = 0
        /\ Paid(r) = 0 /\ Paid(r)' = 0
        /\ Refused(r) = 0 /\ Refused(r)' = 0
    BY <1>2, <1>3, <1>5, <2>1 DEF Held, Granted, Paid, Refused, Waiting, Outcomes
  <2> QED
    BY ONLY <1>3, <2>1, <2>2
<1>9. CASE AdmitAdd(r)
  <2>1. /\ pc[r] = "admitAdd" /\ pc'[r] \in {"clone", "admitSub"}
        /\ used' = used + Reserved(r) /\ charged' = charged
        /\ Size(r)' = 0
        /\ pc'[r] = "clone" => used' <= Ceiling
    BY <1>2, <1>9 DEF AdmitAdd, Goto, Size, NoTree, run, budget
  <2>2. /\ Held(r) = 0 /\ Held(r)' = Reserved(r)
        /\ Granted(r) = 0
        /\ Granted(r)' = 0 \/ used' <= Ceiling
        /\ Paid(r) = 0 /\ Paid(r)' = 0
        /\ Refused(r) = 0 /\ Refused(r)' = 0
    BY <1>2, <1>3, <1>5, <2>1 DEF Held, Granted, Paid, Refused, Waiting, Outcomes
  <2> QED
    BY ONLY <1>3, <2>1, <2>2
<1>10. CASE AdmitSub(r)
  <2>1. /\ pc[r] = "admitSub" /\ pc'[r] \in {"admitCheck", "overBudget"}
        /\ used' = used - Reserved(r) /\ charged' = charged
        /\ Size(r)' = 0
    BY <1>2, <1>10 DEF AdmitSub, Goto, Size, NoTree, run, budget
  <2>2. /\ Held(r) = Reserved(r) /\ Held(r)' = 0
        /\ Granted(r) = 0 /\ Granted(r)' = 0
        /\ Paid(r) = 0 /\ Paid(r)' = 0
        /\ Refused(r) = 0 /\ Refused(r)' = 0
    BY <1>2, <1>3, <1>5, <2>1 DEF Held, Granted, Paid, Refused, Waiting, Outcomes
  <2> QED
    BY ONLY <1>3, <2>1, <2>2
<1>11. CASE CloneAndPrune(r)
  <2>1. /\ pc[r] = "clone" /\ pc'[r] = "markDone"
        /\ used' = used /\ charged' = charged
    BY <1>2, <1>11 DEF CloneAndPrune, Goto, Size, NoTree, run, budget
  <2>2. /\ Held(r) = Reserved(r) /\ Held(r)' = Reserved(r)
        /\ Granted(r) = Reserved(r) /\ Granted(r)' = Reserved(r)
        /\ Paid(r) = 0 /\ Paid(r)' = 0
        /\ Refused(r) = 0 /\ Refused(r)' = 0
    BY <1>2, <1>3, <1>5, <2>1 DEF Held, Granted, Paid, Refused, Waiting, Outcomes
  <2> QED
    BY ONLY <1>3, <2>1, <2>2
<1>12. CASE CloneFails(r)
  <2>1. /\ pc[r] = "clone" /\ pc'[r] = "release"
        /\ used' = used /\ charged' = charged
    BY <1>2, <1>12 DEF CloneFails, Goto, Size, NoTree, run, budget
  <2>2. /\ Held(r) = Reserved(r) /\ Held(r)' = Reserved(r)
        /\ Granted(r) = Reserved(r) /\ Granted(r)' = Reserved(r)
        /\ Paid(r) = 0 /\ Paid(r)' = 0
        /\ Refused(r) = 0 /\ Refused(r)' = 0
    BY <1>2, <1>3, <1>5, <2>1 DEF Held, Granted, Paid, Refused, Waiting, Outcomes
  <2> QED
    BY ONLY <1>3, <2>1, <2>2
<1>13. CASE Release(r)
  <2>1. /\ pc[r] = "release" /\ pc'[r] = "failed"
        /\ used' = used - Reserved(r) /\ charged' = charged
        /\ Size(r)' = 0
    BY <1>2, <1>13 DEF Release, Goto, Size, NoTree, run, budget
  <2>2. /\ Held(r) = Reserved(r) /\ Held(r)' = 0
        /\ Granted(r) = Reserved(r) /\ Granted(r)' = 0
        /\ Paid(r) = 0 /\ Paid(r)' = 0
        /\ Refused(r) = 0 /\ Refused(r)' = 0
    BY <1>2, <1>3, <1>5, <2>1 DEF Held, Granted, Paid, Refused, Waiting, Outcomes
  <2> QED
    BY ONLY <1>3, <2>1, <2>2
<1>14. CASE MarkDone(r)
  <2>1. /\ pc[r] = "markDone" /\ pc'[r] = "commitAdd"
        /\ used' = used /\ charged' = charged
    BY <1>2, <1>14 DEF MarkDone, Goto, Size, NoTree, run, budget
  <2>2. /\ Held(r) = Reserved(r) /\ Held(r)' = Reserved(r)
        /\ Granted(r) = Reserved(r) /\ Granted(r)' = Reserved(r)
        /\ Paid(r) = 0 /\ Paid(r)' = 0
        /\ Refused(r) = 0 /\ Refused(r)' = 0
    BY <1>2, <1>3, <1>5, <2>1 DEF Held, Granted, Paid, Refused, Waiting, Outcomes
  <2> QED
    BY ONLY <1>3, <2>1, <2>2
<1>15. CASE CommitAdd(r)
  <2>1. /\ pc[r] = "commitAdd" /\ pc'[r] = "commitRelease"
        /\ used' = used + Size(r) /\ charged' = charged
        /\ Size(r)' = Size(r)
    BY <1>2, <1>15 DEF CommitAdd, Goto, Size, NoTree, run, budget
  <2>2. /\ Held(r) = Reserved(r) /\ Held(r)' = Reserved(r) + Size(r)
        /\ Granted(r) = Reserved(r) /\ Granted(r)' = Reserved(r)
        /\ Paid(r) = 0 /\ Paid(r)' = 0
        /\ Refused(r) = 0 /\ Refused(r)' = 0
    BY <1>2, <1>3, <1>5, <2>1 DEF Held, Granted, Paid, Refused, Waiting, Outcomes
  <2> QED
    BY ONLY <1>3, <2>1, <2>2
<1>16. CASE CommitRelease(r)
  <2>1. /\ pc[r] = "commitRelease" /\ pc'[r] = "commitCharge"
        /\ used' = used - Reserved(r) /\ charged' = charged
        /\ Size(r)' = Size(r)
    BY <1>2, <1>16 DEF CommitRelease, Goto, Size, NoTree, run, budget
  <2>2. /\ Held(r) = Reserved(r) + Size(r) /\ Held(r)' = Size(r)
        /\ Granted(r) = Reserved(r) /\ Granted(r)' = 0
        /\ Paid(r) = 0 /\ Paid(r)' = 0
        /\ Refused(r) = 0 /\ Refused(r)' = 0
    BY <1>2, <1>3, <1>5, <2>1 DEF Held, Granted, Paid, Refused, Waiting, Outcomes
  <2> QED
    BY ONLY <1>3, <2>1, <2>2
<1>17. CASE CommitCharge(r)
  <2>1. /\ pc[r] = "commitCharge" /\ pc'[r] \in {"uncharge", "cloned"}
        /\ used' = used /\ charged' = charged + Size(r)
        /\ Size(r)' = Size(r)
        /\ pc'[r] = "cloned" => charged' <= Ceiling
    BY <1>2, <1>3, <1>17 DEF CommitCharge, Goto, Size, NoTree, run, budget
  <2>2. /\ Held(r) = Size(r) /\ Held(r)' = 0
        /\ Granted(r) = 0 /\ Granted(r)' = 0
        /\ Paid(r) = 0 /\ Paid(r)' = Size(r)
        /\ Refused(r) = 0
        /\ Refused(r)' = Size(r) \/ charged' <= Ceiling
    BY <1>2, <1>3, <1>5, <2>1 DEF Held, Granted, Paid, Refused, Waiting, Outcomes
  <2> QED
    BY ONLY <1>3, <2>1, <2>2
<1>18. CASE Uncharge(r)
  <2>1. /\ pc[r] = "uncharge" /\ pc'[r] = "unuse"
        /\ used' = used /\ charged' = charged - Size(r)
        /\ Size(r)' = Size(r)
    BY <1>2, <1>18 DEF Uncharge, Goto, Size, NoTree, run, budget
  <2>2. /\ Held(r) = 0 /\ Held(r)' = Size(r)
        /\ Granted(r) = 0 /\ Granted(r)' = 0
        /\ Paid(r) = Size(r) /\ Paid(r)' = 0
        /\ Refused(r) = Size(r) /\ Refused(r)' = 0
    BY <1>2, <1>3, <1>5, <2>1 DEF Held, Granted, Paid, Refused, Waiting, Outcomes
  <2> QED
    BY ONLY <1>3, <2>1, <2>2
<1>19. CASE Unuse(r)
  <2>1. /\ pc[r] = "unuse" /\ pc'[r] = "discard"
        /\ used' = used - Size(r) /\ charged' = charged
        /\ Size(r)' = Size(r)
    BY <1>2, <1>19 DEF Unuse, Goto, Size, NoTree, run, budget
  <2>2. /\ Held(r) = Size(r) /\ Held(r)' = 0
        /\ Granted(r) = 0 /\ Granted(r)' = 0
        /\ Paid(r) = 0 /\ Paid(r)' = 0
        /\ Refused(r) = 0 /\ Refused(r)' = 0
    BY <1>2, <1>3, <1>5, <2>1 DEF Held, Granted, Paid, Refused, Waiting, Outcomes
  <2> QED
    BY ONLY <1>3, <2>1, <2>2
<1>20. CASE Discard(r)
  <2>1. /\ pc[r] = "discard" /\ pc'[r] = "overBudget"
        /\ used' = used /\ charged' = charged
        /\ Size(r)' = 0
    BY <1>2, <1>20 DEF Discard, Goto, Size, NoTree, run, budget
  <2>2. /\ Held(r) = 0 /\ Held(r)' = 0
        /\ Granted(r) = 0 /\ Granted(r)' = 0
        /\ Paid(r) = 0 /\ Paid(r)' = 0
        /\ Refused(r) = 0 /\ Refused(r)' = 0
    BY <1>2, <1>3, <1>5, <2>1 DEF Held, Granted, Paid, Refused, Waiting, Outcomes
  <2> QED
    BY ONLY <1>3, <2>1, <2>2
<1> QED
  BY <1>6, <1>7, <1>8, <1>9, <1>10, <1>11, <1>12, <1>13, <1>14, <1>15, <1>16, <1>17, <1>18, <1>19, <1>20 DEF Step

\* What a state without clones in flight adds: nothing is held, and every tree is paid for.
LEMMA AtRest ==
  ASSUME pc \in [Repos -> Waiting \cup Outcomes], tree \in [Repos -> Trees]
  PROVE  /\ Total([r \in Repos |-> Held(r)]) = 0
         /\ Total([r \in Repos |-> Granted(r)]) = 0
         /\ Total([r \in Repos |-> Refused(r)]) = 0
         /\ Total([r \in Repos |-> Paid(r)]) = DiskBytes
         /\ DiskBytes \in Nat
<1>1. \A r \in Repos :
        /\ pc[r] \in Waiting \cup Outcomes /\ Size(r) \in Nat
        /\ Held(r) = 0 /\ Granted(r) = 0 /\ Refused(r) = 0 /\ Paid(r) = Size(r)
  <2> TAKE r \in Repos
  <2>1. pc[r] \in Waiting \cup Outcomes /\ tree[r] \in Trees
    OBVIOUS
  <2>2. Size(r) \in Nat
    BY <2>1 DEF Size, Trees
  <2> QED
    BY <2>1, <2>2 DEF Held, Granted, Refused, Paid, Waiting, Outcomes
<1>2. IsFiniteSet(Repos)
  BY CloneAssumption
<1> DEFINE held == [s \in Repos |-> Held(s)]
           granted == [s \in Repos |-> Granted(s)]
           paid == [s \in Repos |-> Paid(s)]
           refused == [s \in Repos |-> Refused(s)]
           sizes == [s \in Repos |-> Size(s)]
<1>3. \A s \in Repos :
        /\ held[s] = 0 /\ granted[s] = 0 /\ refused[s] = 0
        /\ sizes[s] \in Nat /\ paid[s] = sizes[s]
  BY <1>1
<1> HIDE DEF held, granted, paid, refused, sizes
<1>4. /\ SumFunctionOnSet(held, Repos) = 0 /\ SumFunctionOnSet(granted, Repos) = 0
      /\ SumFunctionOnSet(refused, Repos) = 0
  BY <1>2, <1>3, SumZero
<1>5. SumFunctionOnSet(paid, Repos) = SumFunctionOnSet(sizes, Repos)
  BY <1>2, <1>3, SumSame
<1>6. SumFunctionOnSet(sizes, Repos) \in Nat
  BY <1>2, <1>3, SumType
<1> QED
  BY <1>4, <1>5, <1>6 DEF Total, DiskBytes, held, granted, paid, refused, sizes

LEMMA AtRestNext ==
  (pc \in [Repos -> Waiting \cup Outcomes] /\ tree \in [Repos -> Trees] =>
     /\ Total([r \in Repos |-> Held(r)]) = 0
     /\ Total([r \in Repos |-> Granted(r)]) = 0
     /\ Total([r \in Repos |-> Refused(r)]) = 0
     /\ Total([r \in Repos |-> Paid(r)]) = DiskBytes
     /\ DiskBytes \in Nat)'
<1>1. pc \in [Repos -> Waiting \cup Outcomes] /\ tree \in [Repos -> Trees] =>
        /\ Total([r \in Repos |-> Held(r)]) = 0
        /\ Total([r \in Repos |-> Granted(r)]) = 0
        /\ Total([r \in Repos |-> Refused(r)]) = 0
        /\ Total([r \in Repos |-> Paid(r)]) = DiskBytes
        /\ DiskBytes \in Nat
  BY AtRest
<1> QED
  BY <1>1, PTL

LEMMA FirstRun ==
  ASSUME Init
  PROVE  Flow /\ Ledger
<1>1. pc \in [Repos -> Waiting \cup Outcomes] /\ tree \in [Repos -> Trees]
  BY DEF Init, Waiting, Trees, NoTree
<1>2. /\ Total([r \in Repos |-> Held(r)]) = 0 /\ Total([r \in Repos |-> Granted(r)]) = 0
      /\ Total([r \in Repos |-> Refused(r)]) = 0
      /\ Total([r \in Repos |-> Paid(r)]) = DiskBytes
  BY <1>1, AtRest
<1>3. DiskBytes = 0
  <2> DEFINE sizes == [s \in Repos |-> Size(s)]
  <2>1. IsFiniteSet(Repos)
    BY CloneAssumption
  <2>2. \A s \in Repos : sizes[s] = 0
    BY DEF Init, Size, NoTree
  <2> HIDE DEF sizes
  <2>3. SumFunctionOnSet(sizes, Repos) = 0
    BY <2>1, <2>2, SumZero
  <2> QED
    BY <2>3 DEF DiskBytes, Total, sizes
<1>4. Flow
  <2>1. 0 \in 0 .. AdmitTries /\ 1 \in 1 .. MaxRuns
    BY CloneAssumption DEF CloneAssumption
  <2>2. \A r \in Repos : pc[r] = "waiting" /\ tries[r] = 0
    BY DEF Init
  <2>3. /\ pc \in [Repos -> States] /\ tries \in [Repos -> 0 .. AdmitTries]
        /\ full \in BOOLEAN /\ onDisk \in Nat /\ runs \in 1 .. MaxRuns
    BY <2>1 DEF Init, States, Waiting
  <2> QED
    BY <1>1, <2>2, <2>3 DEF Flow
<1>5. Ceiling \in Nat /\ Limit \in Nat
  BY CloneAssumption DEF Limit, Init
<1>6. used = 0 /\ charged = 0
  BY DEF Init
<1>7. Ledger
  BY <1>2, <1>3, <1>5, <1>6 DEF Ledger, Accounting, GrantedFit
<1> QED
  BY <1>4, <1>7

\* A run started over what the last one left pays for all of it.
LEMMA NextRun ==
  ASSUME IInv, Flow, Restart
  PROVE  Flow' /\ Ledger'
<1>1. tree' \in [Repos -> Trees] /\ pc' = [r \in Repos |-> "waiting"]
  BY RestartTrees DEF Restart
<1>2. pc' \in [Repos -> Waiting \cup Outcomes]
  BY <1>1 DEF Waiting
<1>3. /\ Total([r \in Repos |-> Held(r)])' = 0 /\ Total([r \in Repos |-> Granted(r)])' = 0
      /\ Total([r \in Repos |-> Refused(r)])' = 0
      /\ Total([r \in Repos |-> Paid(r)])' = DiskBytes' /\ DiskBytes' \in Nat
  BY <1>1, <1>2, AtRestNext
<1>4. /\ onDisk' = DiskBytes' /\ used' = DiskBytes' /\ charged' = DiskBytes'
      /\ tries' = [r \in Repos |-> 0] /\ full' = FALSE
      /\ runs < MaxRuns /\ runs' = runs + 1
  BY DEF Restart
<1>5. runs' \in 1 .. MaxRuns
  BY <1>4, CloneAssumption DEF Flow, CloneAssumption
<1>6. Flow'
  <2>1. pc' \in [Repos -> States] /\ \A r \in Repos : pc'[r] = "waiting" /\ tries'[r] = 0
    BY <1>1, <1>4 DEF States, Waiting
  <2>2. tries' \in [Repos -> 0 .. AdmitTries]
    <3>1. 0 \in 0 .. AdmitTries
      BY CloneAssumption DEF CloneAssumption
    <3> QED
      BY <1>4, <3>1
  <2>3. full' \in BOOLEAN
    BY <1>4
  <2>4. onDisk' \in Nat
    BY ONLY <1>3, <1>4
  <2> QED
    BY <1>1, <1>5, <2>1, <2>2, <2>3, <2>4 DEF Flow
<1>7. Ceiling \in Nat /\ Limit' = IF onDisk' > Ceiling THEN onDisk' ELSE Ceiling
  BY CloneAssumption DEF Limit
<1> DEFINE held2 == Total([r \in Repos |-> Held(r)])'
           granted2 == Total([r \in Repos |-> Granted(r)])'
           paid2 == Total([r \in Repos |-> Paid(r)])'
           refused2 == Total([r \in Repos |-> Refused(r)])'
           disk2 == DiskBytes'   used2 == used'   charged2 == charged'   limit2 == Limit'
           onDisk2 == onDisk'
<1>8. /\ held2 = 0 /\ granted2 = 0 /\ refused2 = 0 /\ paid2 = disk2 /\ disk2 \in Nat
      /\ onDisk2 = disk2 /\ used2 = disk2 /\ charged2 = disk2
      /\ limit2 = IF onDisk2 > Ceiling THEN onDisk2 ELSE Ceiling
  BY <1>3, <1>4, <1>7
<1> HIDE DEF held2, granted2, paid2, refused2, disk2, used2, charged2, limit2, onDisk2
<1>9. /\ used2 \in Nat /\ charged2 \in Nat /\ used2 = charged2 + held2 /\ granted2 <= Ceiling
      /\ paid2 <= charged2 /\ charged2 <= limit2 + refused2
  BY ONLY <1>7, <1>8
<1>10. Ledger'
  BY <1>9 DEF Ledger, Accounting, GrantedFit,
     held2, granted2, paid2, refused2, disk2, used2, charged2, limit2, onDisk2
<1> QED
  BY <1>6, <1>10

\* The two totals are what the repositories add up to, from the first step of the
\* first run (main.rs:99-180).
THEOREM BudgetInvariance == Spec => [](Flow /\ Ledger)
<1>1. Init => Flow /\ Ledger
  BY FirstRun
<1>2. IInv /\ Flow /\ Ledger /\ [Next]_vars => Flow' /\ Ledger'
  <2> SUFFICES ASSUME IInv, Flow, Ledger, [Next]_vars PROVE Flow' /\ Ledger'
    OBVIOUS
  <2>1. ASSUME NEW r \in Repos, Step(r) PROVE Flow' /\ Ledger'
    BY <2>1, StepKeepsFlow, StepKeepsLedger
  <2>2. CASE Restart
    BY <2>2, NextRun
  <2>3. CASE UNCHANGED vars
    <3>1. Flow'
      BY <2>3 DEF vars, Flow
    <3>2. Ledger'
      BY <2>3 DEF vars, Ledger, Accounting, GrantedFit, Held, Granted, Paid, Refused, Limit,
         Size, Reserved, Total
    <3> QED
      BY <3>1, <3>2
  <2> QED
    BY <2>1, <2>2, <2>3 DEF Next
<1> QED
  BY <1>1, <1>2, Invariance, PTL DEF Spec

\* `used` and `charged` never go below zero, whatever the threads add and take off
\* (main.rs:99-180).
THEOREM TypeCorrect == Spec => []TypeOK
<1>1. Flow /\ Ledger => TypeOK
  BY DEF Flow, Ledger, TypeOK, States
<1> QED
  BY <1>1, BudgetInvariance, PTL

\* Between any two atomic operations, `used` is the bytes charged plus what the
\* clones in flight hold (main.rs:99-180).
THEOREM AccountingHolds == Spec => []Accounting
<1>1. Ledger => Accounting
  BY DEF Ledger
<1> QED
  BY <1>1, BudgetInvariance, PTL

\* The reservations granted at any one time fit under the ceiling, for any number of
\* threads (main.rs:134-139).
THEOREM GrantedFits == Spec => []GrantedFit
<1>1. Ledger => GrantedFit
  BY DEF Ledger
<1> QED
  BY <1>1, BudgetInvariance, PTL

LEMMA KeptIsPaid ==
  ASSUME Flow, Ledger
  PROVE  ChargedCoversDisk
<1>1. pc \in [Repos -> States] /\ tree \in [Repos -> Trees] /\ IsFiniteSet(Repos)
  BY CloneAssumption DEF Flow
<1>2. \A r \in Repos : Kept(r) \in Nat /\ Paid(r) \in Nat /\ Kept(r) <= Paid(r)
  <2> TAKE r \in Repos
  <2>1. Size(r) \in Nat /\ Paid(r) \in Nat
    BY <1>1, Summands
  <2> QED
    BY <2>1 DEF Kept, Paid
<1> DEFINE kept == [r \in Repos |-> Kept(r)]
           paid == [r \in Repos |-> Paid(r)]
<1>3. \A r \in Repos : kept[r] \in Nat /\ paid[r] \in Nat /\ kept[r] <= paid[r]
  BY <1>2
<1> HIDE DEF kept, paid
<1>4. /\ SumFunctionOnSet(kept, Repos) <= SumFunctionOnSet(paid, Repos)
      /\ SumFunctionOnSet(kept, Repos) \in Nat /\ SumFunctionOnSet(paid, Repos) \in Nat
  BY <1>1, <1>3, SumBelow, SumType
<1>5. Total(paid) <= charged /\ charged \in Nat
  BY DEF Ledger, paid
<1>6. Total(kept) <= charged
  BY <1>4, <1>5 DEF Total
<1> QED
  BY <1>6 DEF ChargedCoversDisk, kept

\* Every byte of a tree the run keeps is charged (main.rs:152-166).
THEOREM ChargedCovers == Spec => []ChargedCoversDisk
<1>1. Flow /\ Ledger => ChargedCoversDisk
  BY KeptIsPaid
<1> QED
  BY <1>1, BudgetInvariance, PTL

LEMMA RestFits ==
  ASSUME Flow, Ledger
  PROVE  CeilingAtRest
<1> SUFFICES ASSUME Busy = {} PROVE DiskBytes <= Limit
  BY DEF CeilingAtRest, Limit
<1>1. pc \in [Repos -> Waiting \cup Outcomes] /\ tree \in [Repos -> Trees]
  BY DEF Flow, Busy, States
<1>2. /\ Total([r \in Repos |-> Refused(r)]) = 0
      /\ Total([r \in Repos |-> Paid(r)]) = DiskBytes /\ DiskBytes \in Nat
  BY <1>1, AtRest
<1>3. charged \in Nat /\ DiskBytes <= charged /\ charged <= Limit + 0
  BY <1>2 DEF Ledger
<1>4. Limit \in Nat
  BY CloneAssumption DEF Limit, Flow
<1> QED
  BY <1>2, <1>3, <1>4

\* With no clone in flight the directory is within the ceiling, or no larger than the
\* run found it (RESULTS.md:636, main.rs:160-165).
THEOREM CeilingHoldsAtRest == Spec => []CeilingAtRest
<1>1. Flow /\ Ledger => CeilingAtRest
  BY RestFits
<1> QED
  BY <1>1, BudgetInvariance, PTL
=============================================================================
