---------------------------- MODULE CloneBudget -----------------------------
(***************************************************************************)
(* `corpusctl clone` (corpusctl/src/main.rs): a list of repositories is    *)
(* cloned by a pool of threads under one disk ceiling.  The ceiling is     *)
(* kept by `Budget`, three atomics shared by the threads.                  *)
(*                                                                         *)
(* One action is one atomic operation on the budget, or the file-system    *)
(* work between two of them.  A tree is written by the thread handling its *)
(* repository alone, so that work needs no finer steps.  `full` is only    *)
(* ever set, and read only when a repository is taken up, so setting it is *)
(* part of the operation that decides to.  The run can be killed at any    *)
(* point and started again over what it left on disk.                      *)
(*                                                                         *)
(* Sizes are in KiB.  A tree is reduced to its size, to whether it is      *)
(* whole, and to whether it holds the `.done` marker.                      *)
(***************************************************************************)
EXTENDS Naturals, FiniteSets, Functions

CONSTANTS
  Repos,        \* the repositories listed
  Kb,           \* the size listed for each, 0 when the listing has none
  MaxKb,        \* --max-kb
  Ceiling,      \* --budget-gb
  Jobs,         \* threads in the pool
  AdmitTries,   \* ADMIT_TRIES
  TreeSizes,    \* sizes a pruned tree can turn out to have
  PartSizes,    \* sizes an unfinished tree can have when the run is killed
  MaxRuns       \* bound: times the command is started

ASSUME CloneAssumption ==
  /\ IsFiniteSet(Repos)
  /\ Kb \in [Repos -> Nat]
  /\ {MaxKb, Ceiling, Jobs, AdmitTries, MaxRuns} \subseteq Nat \ {0}
  /\ TreeSizes \subseteq Nat /\ PartSizes \subseteq Nat

VARIABLES
  pc,       \* what the thread handling each repository does next
  tries,    \* failed turns of the loop in admit
  tree,     \* [size, done] of each destination directory
  used,     \* Budget.used
  charged,  \* Budget.charged
  full,     \* Budget.full
  onDisk,   \* what Budget::new measured
  runs      \* times the command has been started

vars == <<pc, tries, tree, used, charged, full, onDisk, runs>>
budget == <<used, charged, full>>
run == <<onDisk, runs>>

Waiting == {"waiting"}
Outcomes == {"cloned", "skipped", "failed", "overBudget"}
InFlight == {"clear", "admitCheck", "admitAdd", "admitSub", "clone", "release",
             "markDone", "commitAdd", "commitRelease", "commitCharge",
             "uncharge", "unuse", "discard"}

Trees == [size : Nat, done : BOOLEAN]
NoTree == [size |-> 0, done |-> FALSE]

Size(r) == tree[r].size
Total(amount) == SumFunctionOnSet(amount, Repos)
DiskBytes == Total([r \in Repos |-> Size(r)])

\* `reserved`: a listing without a size reserves the most it may cost.
Reserved(r) == IF Kb[r] > 0 THEN Kb[r] ELSE MaxKb

TypeOK ==
  /\ pc \in [Repos -> Waiting \cup InFlight \cup Outcomes]
  /\ tries \in [Repos -> 0 .. AdmitTries]
  /\ tree \in [Repos -> Trees]
  /\ used \in Nat /\ charged \in Nat /\ onDisk \in Nat
  /\ full \in BOOLEAN
  /\ runs \in 1 .. MaxRuns

\* A first run starts over an empty directory; Restart makes the others.
Init ==
  /\ pc = [r \in Repos |-> "waiting"]
  /\ tries = [r \in Repos |-> 0]
  /\ tree = [r \in Repos |-> NoTree]
  /\ used = 0 /\ charged = 0 /\ full = FALSE
  /\ onDisk = 0 /\ runs = 1

Goto(r, from, to) == pc[r] = from /\ pc' = [pc EXCEPT ![r] = to]
-----------------------------------------------------------------------------
(***************************************************************************)
(* Taking up a repository                                                  *)
(***************************************************************************)
Busy == {r \in Repos : pc[r] \in InFlight}

\* is_full, and the repositories listed as too large.
TakeUp(r) ==
  /\ Cardinality(Busy) < Jobs
  /\ \/ full /\ Goto(r, "waiting", "overBudget")
     \/ ~full /\ Kb[r] > MaxKb /\ Goto(r, "waiting", "skipped")
     \/ ~full /\ Kb[r] <= MaxKb /\ Goto(r, "waiting", "clear")
  /\ UNCHANGED <<tries, tree, budget, run>>

\* Faulty: the marker is not looked at.
ClearAlways(r) ==
  /\ Goto(r, "clear", "admitCheck")
  /\ tree' = [tree EXCEPT ![r] = NoTree]
  /\ UNCHANGED <<tries, budget, run>>

\* A tree with its marker is complete; anything else is in the way.
Clear(r) ==
  /\ \/ tree[r].done /\ Goto(r, "clear", "skipped") /\ UNCHANGED tree
     \/ /\ ~tree[r].done /\ Goto(r, "clear", "admitCheck")
        /\ tree' = [tree EXCEPT ![r] = NoTree]
  /\ UNCHANGED <<tries, budget, run>>

(***************************************************************************)
(* Budget::admit                                                           *)
(***************************************************************************)
AdmitCheck(r) ==
  /\ \/ charged >= Ceiling /\ Goto(r, "admitCheck", "overBudget") /\ full' = TRUE
     \/ charged < Ceiling /\ Goto(r, "admitCheck", "admitAdd") /\ UNCHANGED full
  /\ UNCHANGED <<tries, tree, used, charged, run>>

\* Faulty: the ceiling is compared with the total before the reservation.
AdmitAddStale(r) ==
  /\ used' = used + Reserved(r)
  /\ Goto(r, "admitAdd", IF used <= Ceiling THEN "clone" ELSE "admitSub")
  /\ UNCHANGED <<tries, tree, charged, full, run>>

\* fetch_add, and the comparison of its result with the ceiling.
AdmitAdd(r) ==
  /\ used' = used + Reserved(r)
  /\ Goto(r, "admitAdd", IF used' <= Ceiling THEN "clone" ELSE "admitSub")
  /\ UNCHANGED <<tries, tree, charged, full, run>>

\* Faulty: the failed turn is not counted.
AdmitSubUncounted(r) ==
  /\ used' = used - Reserved(r)
  /\ UNCHANGED tries
  /\ Goto(r, "admitSub", "admitCheck")
  /\ UNCHANGED <<tree, charged, full, run>>

\* fetch_sub, the back-off, and the next turn of the loop if there is one.
AdmitSub(r) ==
  /\ used' = used - Reserved(r)
  /\ tries' = [tries EXCEPT ![r] = @ + 1]
  /\ Goto(r, "admitSub", IF tries'[r] < AdmitTries THEN "admitCheck" ELSE "overBudget")
  /\ UNCHANGED <<tree, charged, full, run>>

(***************************************************************************)
(* The clone itself                                                        *)
(***************************************************************************)

\* git_clone succeeded; `.git` and all that is no skill are gone.
CloneAndPrune(r) ==
  /\ Goto(r, "clone", "markDone")
  /\ \E b \in TreeSizes : tree' = [tree EXCEPT ![r].size = b]
  /\ UNCHANGED <<tries, budget, run>>

\* git_clone failed or ran into its deadline; what it wrote is removed.
CloneFails(r) ==
  /\ Goto(r, "clone", "release")
  /\ tree' = [tree EXCEPT ![r] = NoTree]
  /\ UNCHANGED <<tries, budget, run>>

\* Faulty: the reservation of a failed clone is kept.
ReleaseNothing(r) ==
  /\ Goto(r, "release", "failed")
  /\ UNCHANGED <<tries, tree, budget, run>>

\* Faulty: bytes never charged are taken off as well.
ReleaseCharged(r) ==
  /\ Goto(r, "release", "failed")
  /\ used' = used - Reserved(r)
  /\ charged' = charged - Reserved(r)
  /\ UNCHANGED <<tries, tree, full, run>>

\* Budget::release.
Release(r) ==
  /\ Goto(r, "release", "failed")
  /\ used' = used - Reserved(r)
  /\ UNCHANGED <<tries, tree, charged, full, run>>

\* The `.done` marker is created before the tree is paid for.
MarkDone(r) ==
  /\ Goto(r, "markDone", "commitAdd")
  /\ tree' = [tree EXCEPT ![r].done = TRUE]
  /\ UNCHANGED <<tries, budget, run>>

(***************************************************************************)
(* Budget::commit, with `actual` the size of the tree                      *)
(***************************************************************************)
CommitAdd(r) ==
  /\ Goto(r, "commitAdd", "commitRelease")
  /\ used' = used + Size(r)
  /\ UNCHANGED <<tries, tree, charged, full, run>>

CommitRelease(r) ==
  /\ Goto(r, "commitRelease", "commitCharge")
  /\ used' = used - Reserved(r)
  /\ UNCHANGED <<tries, tree, charged, full, run>>

\* Faulty: the comparison uses the total before this tree.
CommitChargeStale(r) ==
  /\ charged' = charged + Size(r)
  /\ Goto(r, "commitCharge", IF charged > Ceiling THEN "uncharge" ELSE "cloned")
  /\ UNCHANGED <<tries, tree, used, full, run>>

\* fetch_add, and the comparison of its result with the ceiling.
CommitCharge(r) ==
  /\ charged' = charged + Size(r)
  /\ Goto(r, "commitCharge", IF charged' > Ceiling THEN "uncharge" ELSE "cloned")
  /\ UNCHANGED <<tries, tree, used, full, run>>

\* Faulty: the refusal takes back the reservation, not the bytes.
UnchargeReserved(r) ==
  /\ Goto(r, "uncharge", "unuse")
  /\ charged' = IF charged >= Reserved(r) THEN charged - Reserved(r) ELSE 0
  /\ UNCHANGED <<tries, tree, used, full, run>>

Uncharge(r) ==
  /\ Goto(r, "uncharge", "unuse")
  /\ charged' = charged - Size(r)
  /\ UNCHANGED <<tries, tree, used, full, run>>

Unuse(r) ==
  /\ Goto(r, "unuse", "discard")
  /\ used' = used - Size(r)
  /\ full' = TRUE
  /\ UNCHANGED <<tries, tree, charged, run>>

\* The caller of a refused commit removes what it wrote.
Discard(r) ==
  /\ Goto(r, "discard", "overBudget")
  /\ tree' = [tree EXCEPT ![r] = NoTree]
  /\ UNCHANGED <<tries, budget, run>>

Step(r) ==
  \/ TakeUp(r) \/ Clear(r) \/ AdmitCheck(r) \/ AdmitAdd(r) \/ AdmitSub(r)
  \/ CloneAndPrune(r) \/ CloneFails(r) \/ Release(r) \/ MarkDone(r)
  \/ CommitAdd(r) \/ CommitRelease(r) \/ CommitCharge(r)
  \/ Uncharge(r) \/ Unuse(r) \/ Discard(r)

\* What a run killed here leaves of a tree being written, or being removed:
\* remove_dir_all takes the entries in no particular order, the marker too.
Interrupted(r) ==
  IF pc[r] = "clone" THEN [size : PartSizes, done : {FALSE}]
  ELSE [size : PartSizes, done : BOOLEAN] \cup {tree[r]}

\* The command ends or is killed, and is started again with the same list:
\* Budget::new walks what is there.
Restart ==
  LET cut == {r \in Repos : pc[r] \in {"clone", "discard"}}
  IN
  /\ runs < MaxRuns
  /\ \E part \in [cut -> UNION {Interrupted(r) : r \in cut}] :
       /\ \A r \in cut : part[r] \in Interrupted(r)
       /\ tree' = [r \in Repos |-> IF r \in cut THEN part[r] ELSE tree[r]]
  /\ onDisk' = DiskBytes'
  /\ used' = onDisk' /\ charged' = onDisk'
  /\ full' = FALSE
  /\ pc' = [r \in Repos |-> "waiting"]
  /\ tries' = [r \in Repos |-> 0]
  /\ runs' = runs + 1

Next == (\E r \in Repos : Step(r)) \/ Restart

\* Each thread keeps running: back-offs are timed, and git_clone has a
\* deadline.  Nothing makes a killed run start again.
Fairness == \A r \in Repos : WF_vars(Step(r))

Spec == Init /\ [][Next]_vars /\ Fairness
-----------------------------------------------------------------------------
(***************************************************************************)
(* Properties                                                              *)
(***************************************************************************)

\* What a repository adds to `used` beyond what it adds to `charged`: the
\* reservation until it is released, and the tree until it is charged.
Held(r) ==
  (IF pc[r] \in {"admitSub", "clone", "release", "markDone", "commitAdd", "commitRelease"}
   THEN Reserved(r) ELSE 0)
  + (IF pc[r] \in {"commitRelease", "commitCharge", "unuse"} THEN Size(r) ELSE 0)

\* Between any two atomic operations of any threads, `used` is the bytes
\* charged plus what the clones in flight hold: no path through admit, release
\* or commit leaks a reservation or gives one back twice (main.rs:99-180).
Accounting == used = charged + Total([r \in Repos |-> Held(r)])

\* The part of it that was granted under the ceiling.
Granted(r) ==
  IF pc[r] \in {"clone", "release", "markDone", "commitAdd", "commitRelease"}
  THEN Reserved(r) ELSE 0

\* The reservations granted at any one time fit under the ceiling, however the
\* threads interleave (main.rs:134-139): a check of the total alone would let
\* as many clones through as there are threads.
GrantedFit == Total([r \in Repos |-> Granted(r)]) <= Ceiling

\* The size of a tree the run keeps, or has not looked at yet.
Kept(r) == IF pc[r] \in Waiting \cup {"clear"} \cup Outcomes THEN Size(r) ELSE 0

\* Bytes of such trees are charged.
ChargedCoversDisk == Total([r \in Repos |-> Kept(r)]) <= charged

\* With no clone in flight the directory is within the ceiling, or no larger
\* than the run found it: a tree that beat its guess is not kept
\* (RESULTS.md:636, main.rs:160-165).
CeilingAtRest ==
  Busy = {} => DiskBytes <= (IF onDisk > Ceiling THEN onDisk ELSE Ceiling)

\* A tree marked `.done` is only ever lost to the refusal of its own commit:
\* a run started again keeps what earlier runs completed.
MarkedTreeSurvives ==
  [][\A r \in Repos : tree[r].done /\ tree'[r] # tree[r] => pc[r] = "discard"]_vars

\* The last run gives every repository an outcome: waiting for other clones'
\* reservations is bounded.
EveryRepoAnswered == <>[](\A r \in Repos : pc[r] \in Outcomes)

\* "`charged` is bytes on disk alone" (main.rs:105-106), taken when no clone is
\* in flight.  An unfinished tree left by a killed run is charged when the next
\* run starts and stays charged when that run removes it (main.rs:242).
ChargedIsBytesOnDisk == Busy = {} => charged = DiskBytes
=============================================================================
