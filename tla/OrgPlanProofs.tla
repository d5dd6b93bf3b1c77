--------------------------- MODULE OrgPlanProofs ---------------------------
(***************************************************************************)
(* The planner, for every manifest.  Kahn's loop takes members with no     *)
(* edge left into them; what its counters count is that number of edges    *)
(* (Sorted).  When none is left to take, each member not taken waits for   *)
(* another such: the relations they wait along have no end among them, so, *)
(* there being finitely many, they loop, which find_cycle has ruled out.   *)
(*                                                                         *)
(* The container: its nodes are those of the members one after the other,  *)
(* in the order of the plan (Table), so that a part of a member is found   *)
(* at one place, and after the parts of those the member waits for; of its *)
(* edges each joins the parts its relation takes (Fits).                   *)
(***************************************************************************)
EXTENDS OrgPlan, FiniteSetTheorems, TLAPS

\* Past the check of the members.
Known == {"seq", "guards", "needs", "rest", "cycle", "sort", "lower", "open"} \cup Verdicts
Acyclic == {"sort", "lower", "open"} \cup Verdicts

Obligations == {p \in Members \X Members : Obligation(p[1], p[2]) # {}}

\* Edges into a member from members not yet planned.
Unmet(t, done) == UNION {Obligation(a, t) : a \in Members \ done}

Sorted ==
  /\ indegree \in [Members -> Nat]
  /\ out \in Seq(Members)
  /\ \A i, j \in DOMAIN out : out[i] = out[j] => i = j
  /\ \A t \in Members : indegree[t] = Cardinality(Unmet(t, ToSet(out)))
  /\ ready = {t \in Members \ ToSet(out) : indegree[t] = 0}
  /\ \A t \in ToSet(out) : Unmet(t, ToSet(out)) = {}
  /\ \A k \in DOMAIN out : Waits[out[k]] \subseteq {out[j] : j \in 1 .. k-1}

PlanInv ==
  /\ manifest \in Manifests
  /\ pc \in Stages \cup Refusals \cup Verdicts
  /\ pc \in Known => \A i, j \in Members :
                       manifest.members[i].id = manifest.members[j].id => i = j
  /\ pc \in Acyclic => Loopless(Obligations)
  /\ IF indegree = <<>> THEN out = <<>> /\ ready = {} ELSE Sorted /\ pc \in Acyclic
  /\ Planned => indegree # <<>> /\ ready = {}
  /\ FirstDeclaredFirst

-----------------------------------------------------------------------------
(***************************************************************************)
(* The relations of a manifest                                             *)
(***************************************************************************)
LEMMA MembersAre ==
  ASSUME manifest \in Manifests
  PROVE  /\ Members = 1 .. Len(manifest.members) /\ Len(manifest.members) \in Nat
         /\ IsFiniteSet(Members) /\ Members \subseteq Nat
<1>1. manifest.members \in Seq([id : Ids, artifact : BOOLEAN, gate : BOOLEAN])
  BY ManifestAssumption
<1>2. Members = 1 .. Len(manifest.members) /\ Len(manifest.members) \in Nat
  BY <1>1 DEF Members
<1> QED
  BY <1>2, FS_Interval

LEMMA ObligationFinite ==
  ASSUME manifest \in Manifests, NEW a, NEW b
  PROVE  IsFiniteSet(Obligation(a, b))
<1>1. ASSUME NEW rel \in {"seq", "guards", "needs"}, NEW c, NEW d
      PROVE  IsFiniteSet({rel} \X Edges(rel, c, d))
  <2>1. manifest[rel] \in Seq(References \X References)
    BY ManifestAssumption
  <2>2. DOMAIN manifest[rel] = 1 .. Len(manifest[rel]) /\ Len(manifest[rel]) \in Nat
    BY <2>1
  <2>3. IsFiniteSet(DOMAIN manifest[rel])
    <3> DEFINE n == Len(manifest[rel])
    <3>1. n \in Nat /\ DOMAIN manifest[rel] = 1 .. n
      BY <2>2
    <3> HIDE DEF n
    <3>2. IsFiniteSet(1 .. n)
      BY <3>1, FS_Interval
    <3> QED
      BY <3>1, <3>2
  <2>4. IsFiniteSet(Edges(rel, c, d))
    BY <2>3, FS_Subset DEF Edges
  <2>5. IsFiniteSet({rel})
    BY FS_Singleton
  <2> QED
    BY <2>4, <2>5, FS_Product
<1> QED
  BY <1>1, FS_Union DEF Obligation

\* An edge comes from one member.
LEMMA ObligationsApart ==
  ASSUME \A i, j \in Members : manifest.members[i].id = manifest.members[j].id => i = j,
         NEW a \in Members, NEW b \in Members, NEW t \in Members, a # b
  PROVE  Obligation(a, t) \cap Obligation(b, t) = {}
BY DEF Obligation, Edges

LEMMA UnmetFinite ==
  ASSUME manifest \in Manifests, NEW t, NEW done
  PROVE  IsFiniteSet(Unmet(t, done)) /\ Cardinality(Unmet(t, done)) \in Nat
<1> DEFINE left == Members \ done
           from(a) == Obligation(a, t)
           sets == {from(a) : a \in left}
<1>1. IsFiniteSet(left)
  BY MembersAre, FS_Difference
<1>2. IsFiniteSet(sets)
  <2> DEFINE g == [a \in left |-> from(a)]
  <2>1. g \in Surjection(left, sets)
    BY DEF Surjection
  <2> HIDE DEF g, sets, left
  <2> QED
    BY <1>1, <2>1, FS_Surjection
<1>3. \A s \in sets : IsFiniteSet(s)
  BY ObligationFinite
<1>4. IsFiniteSet(UNION sets)
  <2> HIDE DEF sets
  <2> QED
    BY <1>2, <1>3, FS_UNION
<1> QED
  BY <1>4, FS_CardinalityType DEF Unmet

\* Planning a member takes its edges from those that hold up another.
LEMMA UnmetSplit ==
  ASSUME manifest \in Manifests,
         \A i, j \in Members : manifest.members[i].id = manifest.members[j].id => i = j,
         NEW t \in Members, NEW done, NEW n \in Members \ done
  PROVE  /\ Obliged(n, t) \in Nat
         /\ Cardinality(Unmet(t, done)) = Cardinality(Unmet(t, done \cup {n})) + Obliged(n, t)
<1> DEFINE own == Obligation(n, t)
           rest == Unmet(t, done \cup {n})
<1>1. Unmet(t, done) = rest \cup own
  BY DEF Unmet
<1>2. rest \cap own = {}
  <2> SUFFICES ASSUME NEW e \in rest, e \in own PROVE FALSE
    OBVIOUS
  <2>1. PICK a \in Members \ (done \cup {n}) : e \in Obligation(a, t)
    BY DEF Unmet
  <2> QED
    BY <2>1, ObligationsApart
<1>3. IsFiniteSet(own) /\ Cardinality(own) \in Nat
  BY ObligationFinite, FS_CardinalityType
<1>4. IsFiniteSet(rest) /\ Cardinality(rest) \in Nat
  BY UnmetFinite
<1> HIDE DEF own, rest
<1>5. Cardinality(rest \cap own) = 0
  BY <1>2, FS_EmptySet
<1>6. Cardinality(rest \cup own) = Cardinality(rest) + Cardinality(own) - 0
  BY <1>3, <1>4, <1>5, FS_Union
<1> QED
  BY <1>1, <1>3, <1>4, <1>6 DEF Obliged, own, rest

\* No edge is left into a member exactly if all it waits for is planned.
LEMMA UnmetWaits ==
  ASSUME NEW t \in Members, NEW done
  PROVE  Unmet(t, done) = {} <=> Waits[t] \subseteq done
<1>1. ASSUME NEW a \in Members
      PROVE  Obligation(a, t) # {} <=> a \in Waits[t]
  <2> DEFINE before == Edges("seq", a, t)
             gating == Edges("guards", a, t)
             handing == Edges("needs", t, a)
  <2>1. a \in Waits[t] <=> before \cup gating \cup handing # {}
    BY DEF Waits
  <2>2. Obligation(a, t) = ({"seq"} \X before) \cup ({"guards"} \X gating) \cup ({"needs"} \X handing)
    BY DEF Obligation
  <2> HIDE DEF before, gating, handing
  <2>3. ASSUME NEW w, NEW S
        PROVE  {w} \X S = {} <=> S = {}
    <3>1. S = {} => {w} \X S = {}
      OBVIOUS
    <3>2. ASSUME S # {} PROVE {w} \X S # {}
      <4>1. PICK e : e \in S
        BY <3>2
      <4>2. <<w, e>> \in {w} \X S
        BY <4>1
      <4> QED
        BY ONLY <4>2, Zenon
    <3> QED
      BY <3>1, <3>2
  <2>4. /\ {"seq"} \X before = {} <=> before = {}
        /\ {"guards"} \X gating = {} <=> gating = {}
        /\ {"needs"} \X handing = {} <=> handing = {}
    BY <2>3
  <2> QED
    BY <2>1, <2>2, <2>4
<1>2. Waits[t] \subseteq Members
  BY DEF Waits
<1> QED
  BY <1>1, <1>2 DEF Unmet

LEMMA UnmetCount ==
  ASSUME manifest \in Manifests, NEW t \in Members, NEW done
  PROVE  Cardinality(Unmet(t, done)) = 0 <=> Waits[t] \subseteq done
BY UnmetFinite, UnmetWaits, FS_EmptySet

\* In a finite set along whose members a loopless relation leads, one has none before it.
LEMMA SomeFirst ==
  ASSUME NEW pairs, Loopless(pairs), NEW S, IsFiniteSet(S), S # {}
  PROVE  \E t \in S : \A a \in S : <<a, t>> \notin pairs
<1> SUFFICES ASSUME \A t \in S : \E a \in S : <<a, t>> \in pairs
             PROVE  FALSE
  OBVIOUS
<1> DEFINE Led(T) == T # {} /\ \A t \in T : \E a \in T : <<a, t>> \in pairs
           led == {T \in SUBSET S : Led(T)}
<1>1. PICK T \in led : \A U \in led : ~ (<<U, T>> \in StrictSubsetOrdering(S))
  <2>1. IsWellFoundedOn(StrictSubsetOrdering(S), SUBSET S)
    BY FS_StrictSubsetOrderingWellFounded, FS_FiniteSubsetsOfFinite
  <2>2. led # {} /\ led \subseteq SUBSET S
    <3>1. S \in led
      OBVIOUS
    <3> QED
      BY <3>1
  <2> HIDE DEF led
  <2> QED
    BY <2>1, <2>2, WFMin
<1>2. T \in SUBSET S /\ Led(T)
  OBVIOUS
<1> HIDE DEF led
<1>3. ASSUME NEW x \in T, \A b \in T : <<x, b>> \notin pairs
      PROVE  FALSE
  <2>1. PICK y \in T : <<y, x>> \in pairs
    BY <1>2
  <2>2. y \in T \ {x}
    BY <1>3, <2>1
  <2>3. \A t \in T \ {x} : \E a \in T \ {x} : <<a, t>> \in pairs
    BY <1>2, <1>3
  <2>4. T \ {x} \in led
    BY <1>2, <2>2, <2>3 DEF led
  <2>5. <<T \ {x}, T>> \in StrictSubsetOrdering(S)
    BY <1>2 DEF StrictSubsetOrdering
  <2> QED
    BY <1>1, <2>4, <2>5
<1>4. T \in SUBSET {p[1] : p \in pairs}
  <2> SUFFICES ASSUME NEW x \in T PROVE \E p \in pairs : p[1] = x
    BY SMT
  <2>1. PICK b \in T : <<x, b>> \in pairs
    BY <1>3
  <2> QED
    BY <2>1
<1>5. PICK a \in T : \A b \in T : <<a, b>> \notin pairs
  BY <1>2, <1>4 DEF Loopless
<1> QED
  BY <1>3, <1>5

\* A set of numbers has a least.
LEMMA Smallest ==
  ASSUME NEW S, S \subseteq Nat, S # {}
  PROVE  \E n \in S : \A m \in S : n <= m
<1>1. IsWellFoundedOn(OpToRel(<, Nat), Nat)
  BY NatLessThanWellFounded
<1>2. PICK n \in S : \A m \in S : ~ (<<m, n>> \in OpToRel(<, Nat))
  BY <1>1, WFMin
<1>3. \A m \in S : ~ (m < n)
  BY <1>2 DEF OpToRel
<1> QED
  BY <1>3

LEMMA LeastReady ==
  ASSUME ready \in SUBSET Nat, ready # {}
  PROVE  FirstReady \in ready /\ \A m \in ready : FirstReady <= m
<1>1. \E n \in ready : \A m \in ready : n <= m
  BY Smallest
<1> QED
  BY <1>1 DEF FirstReady

-----------------------------------------------------------------------------
(***************************************************************************)
(* The stages                                                              *)
(***************************************************************************)
LEMMA PlanInit == Init => PlanInv
<1> SUFFICES ASSUME Init PROVE PlanInv
  OBVIOUS
<1>1. /\ manifest \in Manifests /\ pc = "members"
      /\ indegree = <<>> /\ ready = {} /\ out = <<>>
  BY DEF Init
<1>2. FirstDeclaredFirst
  BY <1>1 DEF FirstDeclaredFirst
<1> QED
  BY <1>1, <1>2 DEF PlanInv, Known, Acyclic, Planned, Verdicts, Stages

\* A check that leads past the cycle check, or to a refusal, only moves on.
LEMMA CheckKeeps ==
  ASSUME PlanInv, NEW stage \in {"seq", "guards", "needs", "rest", "cycle", "sort"} \cup Refusals,
         Goto(stage), pc \in {"members", "seq", "guards", "needs", "rest", "cycle"},
         stage \in Known => \A i, j \in Members :
                       manifest.members[i].id = manifest.members[j].id => i = j,
         stage = "sort" => Loopless(Obligations)
  PROVE  PlanInv'
<1>1. /\ pc' = stage
      /\ UNCHANGED <<manifest, indegree, ready, out, nodes, edges>>
  BY DEF Goto, plan, container
<1>2. indegree = <<>> /\ out = <<>> /\ ready = {} /\ manifest \in Manifests
  BY DEF PlanInv, Acyclic, Verdicts
<1>3. Members' = Members /\ Obligations' = Obligations
  BY <1>1 DEF Members, Obligations, Obligation, Edges
<1>4. FirstDeclaredFirst'
  BY <1>1, <1>2 DEF FirstDeclaredFirst
<1>5. stage \in Stages \cup Refusals /\ ~ Planned' /\ (stage \in Acyclic => stage = "sort")
  BY <1>1 DEF Stages, Refusals, Planned, Verdicts, Acyclic
<1>6. Loopless(Obligations)' <=> Loopless(Obligations)
  BY <1>3 DEF Loopless
<1>7. (\A i, j \in Members : manifest.members[i].id = manifest.members[j].id => i = j)'
        <=> (\A i, j \in Members : manifest.members[i].id = manifest.members[j].id => i = j)
  BY <1>1, <1>3
<1> QED
  BY <1>1, <1>2, <1>4, <1>5, <1>6, <1>7 DEF PlanInv

LEMMA ChecksKeep ==
  ASSUME PlanInv,
         CheckMembers \/ CheckSeq \/ CheckGuards \/ CheckNeeds \/ CheckRest \/ CheckCycle
  PROVE  PlanInv'
<1> USE DEF Known, Refusals
<1>0. pc \in {"seq", "guards", "needs", "rest", "cycle"} =>
        \A i, j \in Members : manifest.members[i].id = manifest.members[j].id => i = j
  BY DEF PlanInv
<1>1. CASE CheckMembers
  <2>1. CASE \E i, j \in Members : i # j /\ manifest.members[i].id = manifest.members[j].id
    <3>1. PICK stage \in {"NoMembers", "DuplicateMember"} : Goto(stage) /\ pc = "members"
      BY <1>1, <2>1 DEF CheckMembers
    <3> QED
      BY <3>1, CheckKeeps DEF Verdicts
  <2>2. CASE \A i, j \in Members : manifest.members[i].id = manifest.members[j].id => i = j
    <3>1. PICK stage \in {"NoMembers", "DuplicateMember", "seq"} : Goto(stage) /\ pc = "members"
      BY <1>1 DEF CheckMembers
    <3> QED
      BY <2>2, <3>1, CheckKeeps
  <2> QED
    BY <2>1, <2>2
<1>2. CASE CheckSeq
  <2>1. PICK stage \in {"guards", "UnknownMember"} : Goto(stage) /\ pc = "seq"
    BY <1>2 DEF CheckSeq
  <2> QED
    BY <1>0, <2>1, CheckKeeps
<1>3. CASE CheckGuards
  <2>1. PICK stage \in {"needs", "MissingGate", "UnknownMember"} : Goto(stage) /\ pc = "guards"
    BY <1>3 DEF CheckGuards, CheckLowered
  <2> QED
    BY <1>0, <2>1, CheckKeeps
<1>4. CASE CheckNeeds
  <2>1. PICK stage \in {"rest", "MissingArtifact", "UnknownMember"} : Goto(stage) /\ pc = "needs"
    BY <1>4 DEF CheckNeeds, CheckLowered
  <2> QED
    BY <1>0, <2>1, CheckKeeps
<1>5. CASE CheckRest
  <2>1. PICK stage \in {"cycle", "UnknownMember"} : Goto(stage) /\ pc = "rest"
    BY <1>5 DEF CheckRest
  <2> QED
    BY <1>0, <2>1, CheckKeeps
<1>6. CASE CheckCycle
  <2>1. CASE Loopless(Obligations)
    <3>1. Goto("sort") /\ pc = "cycle"
      BY <1>6, <2>1 DEF CheckCycle, Obligations
    <3> QED
      BY <1>0, <2>1, <3>1, CheckKeeps
  <2>2. CASE ~ Loopless(Obligations)
    <3>1. PICK stage \in {"SeqCycle", "ApprovalCycle"} : Goto(stage) /\ pc = "cycle"
      BY <1>6, <2>2 DEF CheckCycle, Obligations, Refuse
    <3> QED
      BY <3>1, CheckKeeps DEF Verdicts
  <2> QED
    BY <2>1, <2>2
<1> QED
  BY <1>1, <1>2, <1>3, <1>4, <1>5, <1>6

\* Nothing that the invariant or the plan is about changes with these.
LEMMA SameManifest ==
  ASSUME UNCHANGED manifest
  PROVE  /\ Members' = Members /\ Waits' = Waits /\ Obligations' = Obligations
         /\ \A a, b : Obligation(a, b)' = Obligation(a, b)
BY DEF Members, Waits, Obligations, Obligation, Edges

LEMMA StartKeeps == ASSUME PlanInv, StartSort PROVE PlanInv'
<1>1. /\ pc = "sort" /\ indegree = <<>> /\ out = <<>> /\ manifest \in Manifests
      /\ indegree' = [b \in Members |-> Cardinality(Incoming(b))]
      /\ ready' = {b \in Members : indegree'[b] = 0}
      /\ UNCHANGED <<manifest, pc, out, nodes, edges>>
  BY DEF StartSort, PlanInv, container
<1>2. /\ Members' = Members /\ Waits' = Waits /\ Obligations' = Obligations
      /\ \A a, b : Obligation(a, b)' = Obligation(a, b)
  BY <1>1, SameManifest
<1>3. ToSet(out) = {} /\ ToSet(out)' = {} /\ DOMAIN out' = {}
  BY <1>1 DEF ToSet
<1>4. \A t \in Members : Incoming(t) = Unmet(t, {}) /\ Unmet(t, {})' = Unmet(t, {})
  BY <1>2 DEF Incoming, Unmet
<1>5. \A t \in Members : indegree'[t] = Cardinality(Unmet(t, {})) /\ indegree'[t] \in Nat
  BY <1>1, <1>4, UnmetFinite
<1>6. Sorted'
  <2>1. indegree' \in [Members -> Nat]
    BY <1>1, <1>5
  <2>2. \A t \in Members : indegree'[t] = Cardinality(Unmet(t, ToSet(out)))'
    BY <1>3, <1>4, <1>5
  <2>3. out' \in Seq(Members)
    BY <1>1
  <2>4. ready' = {t \in Members \ ToSet(out)' : indegree'[t] = 0}
    BY <1>1, <1>3
  <2> QED
    BY <1>1, <1>2, <1>3, <2>1, <2>2, <2>3, <2>4 DEF Sorted
<1>7. FirstDeclaredFirst'
  BY <1>3 DEF FirstDeclaredFirst
<1>8. indegree' = <<>> => ready' = {}
  BY <1>1
<1>9. Loopless(Obligations)'
  BY <1>1, <1>2 DEF PlanInv, Acyclic, Loopless
<1>10. (\A i, j \in Members : manifest.members[i].id = manifest.members[j].id => i = j)'
  BY <1>1, <1>2 DEF PlanInv, Known
<1> QED
  BY <1>1, <1>6, <1>7, <1>8, <1>9, <1>10 DEF PlanInv, Acyclic, Stages, Planned, Verdicts

\* Planning the member declared first of those nothing holds up.
LEMMA TakeKeeps ==
  ASSUME PlanInv, Take
  PROVE  /\ PlanInv'
         /\ \E n \in Members \ ToSet(out) :
              Waits[n] \subseteq ToSet(out) /\ ToSet(out)' = ToSet(out) \cup {n}
<1> DEFINE n == FirstReady
           done == ToSet(out)
<1>1. /\ pc = "sort" /\ indegree # <<>> /\ ready # {} /\ manifest \in Manifests
      /\ out' = Append(out, n)
      /\ indegree' = [t \in Members |-> indegree[t] - Obliged(n, t)]
      /\ ready' = (ready \ {n}) \cup {t \in Members : Obliged(n, t) > 0 /\ indegree'[t] = 0}
      /\ UNCHANGED <<manifest, pc, nodes, edges>>
  BY DEF Take, Emit, PlanInv, container
<1>2. /\ Sorted /\ Loopless(Obligations) /\ FirstDeclaredFirst
      /\ \A i, j \in Members : manifest.members[i].id = manifest.members[j].id => i = j
  BY <1>1 DEF PlanInv, Acyclic, Known
<1>3. /\ Members' = Members /\ Waits' = Waits /\ Obligations' = Obligations
      /\ \A a, b : Obligation(a, b)' = Obligation(a, b)
  BY <1>1, SameManifest
<1>4. /\ indegree \in [Members -> Nat] /\ out \in Seq(Members)
      /\ \A i, j \in DOMAIN out : out[i] = out[j] => i = j
      /\ \A t \in Members : indegree[t] = Cardinality(Unmet(t, done))
      /\ ready = {t \in Members \ done : indegree[t] = 0}
      /\ \A t \in done : Unmet(t, done) = {}
  BY <1>2 DEF Sorted
<1>5. n \in ready /\ \A m \in ready : n <= m
  <2>1. ready \in SUBSET Nat
    BY <1>1, <1>4, MembersAre
  <2> QED
    BY <1>1, <2>1, LeastReady
<1>6. n \in Members \ done /\ indegree[n] = 0 /\ Waits[n] \subseteq done /\ n \in Nat
  <2>1. n \in Members \ done /\ indegree[n] = 0
    BY <1>4, <1>5
  <2>2. Cardinality(Unmet(n, done)) = 0
    BY <1>4, <2>1
  <2> HIDE DEF n, done
  <2> QED
    BY <1>1, <2>1, <2>2, UnmetCount, MembersAre
<1> HIDE DEF n
<1>7. /\ out' \in Seq(Members) /\ Len(out) \in Nat /\ Len(out') = Len(out) + 1
      /\ DOMAIN out = 1 .. Len(out) /\ DOMAIN out' = 1 .. Len(out) + 1
      /\ out'[Len(out) + 1] = n /\ \A k \in 1 .. Len(out) : out'[k] = out[k]
  BY <1>1, <1>4, <1>6
<1>8. ToSet(out)' = done \cup {n}
  <2>1. ToSet(out') = {out'[k] : k \in 1 .. Len(out) + 1} /\ done = {out[k] : k \in 1 .. Len(out)}
    BY <1>7 DEF ToSet
  <2>2. ASSUME NEW k \in 1 .. Len(out) + 1 PROVE out'[k] \in done \cup {n}
    BY <1>7, <2>1
  <2>3. ASSUME NEW x \in done \cup {n} PROVE x \in ToSet(out')
    BY <1>7, <2>1
  <2> QED
    BY <2>1, <2>2, <2>3 DEF ToSet
<1>9. \A i, j \in DOMAIN out' : out'[i] = out'[j] => i = j
  <2>1. \A k \in DOMAIN out : out[k] # n
    BY <1>6 DEF ToSet
  <2> QED
    BY <1>4, <1>7, <2>1
<1> DEFINE done2 == done \cup {n}
<1>10. ASSUME NEW t \in Members
       PROVE  /\ Obliged(n, t) \in Nat
              /\ Cardinality(Unmet(t, done2)) \in Nat /\ Cardinality(Unmet(t, done)) \in Nat
              /\ Cardinality(Unmet(t, done)) = Cardinality(Unmet(t, done2)) + Obliged(n, t)
  <2> HIDE DEF done, done2
  <2>1. Cardinality(Unmet(t, done2)) \in Nat /\ Cardinality(Unmet(t, done)) \in Nat
    BY <1>1, UnmetFinite
  <2>2. /\ Obliged(n, t) \in Nat
        /\ Cardinality(Unmet(t, done)) = Cardinality(Unmet(t, done2)) + Obliged(n, t)
    BY <1>1, <1>2, <1>6, UnmetSplit DEF done2
  <2> QED
    BY <2>1, <2>2
<1>11. \A t \in Members : Unmet(t, ToSet(out))' = Unmet(t, done2)
  BY <1>3, <1>8 DEF Unmet
<1>12. ASSUME NEW t \in Members
       PROVE  /\ indegree'[t] = Cardinality(Unmet(t, done2)) /\ indegree'[t] \in Nat
              /\ indegree[t] = indegree'[t] + Obliged(n, t)
  <2> DEFINE before == Cardinality(Unmet(t, done))
             after == Cardinality(Unmet(t, done2))
             taken == Obliged(n, t)
  <2>1. /\ before \in Nat /\ after \in Nat /\ taken \in Nat /\ before = after + taken
        /\ indegree[t] = before /\ indegree'[t] = indegree[t] - taken
    BY <1>1, <1>4, <1>10
  <2> HIDE DEF before, after, taken
  <2>2. indegree'[t] = after /\ indegree[t] = after + taken
    BY ONLY <2>1
  <2> QED
    BY <2>1, <2>2 DEF after, taken
<1> HIDE DEF done2
<1>13. ASSUME NEW t \in done2 PROVE t \in Members /\ Unmet(t, done2) = {}
  <2>1. t \in Members
    BY <1>4, <1>6, <1>13 DEF done2, ToSet
  <2>2. Waits[t] \subseteq done
    BY <1>4, <1>6, <1>13, <2>1, UnmetWaits DEF done2
  <2>3. Waits[t] \subseteq done2
    BY <2>2 DEF done2
  <2> QED
    BY <2>1, <2>3, UnmetWaits
<1>14. ready' = {t \in Members \ done2 : indegree'[t] = 0}
  <2>1. ASSUME NEW t \in ready' PROVE t \in Members \ done2 /\ indegree'[t] = 0
    <3>1. CASE t \in ready /\ t # n
      <4>1. t \in Members \ done2 /\ indegree[t] = 0
        BY <1>4, <3>1 DEF done2
      <4> QED
        BY <1>4, <1>10, <1>12, <4>1
    <3>2. CASE t \in Members /\ Obliged(n, t) > 0 /\ indegree'[t] = 0
      <4>1. Cardinality(Unmet(t, done)) # 0
        BY <1>10, <3>2
      <4>2. t \notin done
        BY <1>4, <3>2, <4>1, FS_EmptySet
      <4>3. t # n
        BY <1>4, <1>6, <4>1
      <4> QED
        BY <3>2, <4>2, <4>3 DEF done2
    <3> QED
      BY <1>1, <2>1, <3>1, <3>2
  <2>2. ASSUME NEW t \in Members \ done2, indegree'[t] = 0 PROVE t \in ready'
    <3>1. CASE Obliged(n, t) > 0
      BY <1>1, <2>2, <3>1
    <3>2. CASE Obliged(n, t) = 0
      <4>1. indegree[t] = 0
        BY <1>12, <2>2, <3>2
      <4>2. t \notin done /\ t # n
        BY <2>2 DEF done2
      <4> QED
        BY <1>1, <1>4, <4>1, <4>2
    <3> QED
      BY <1>10, <3>1, <3>2
  <2>3. \A t : t \in ready' <=> t \in {u \in Members \ done2 : indegree'[u] = 0}
    BY <2>1, <2>2
  <2> QED
    BY <2>3
<1>15. Sorted'
  <2>1. indegree' \in [Members -> Nat]
    BY <1>1, <1>12
  <2>2. ToSet(out)' = done2
    BY <1>8 DEF done2
  <2>3. \A t \in Members : indegree'[t] = Cardinality(Unmet(t, ToSet(out)))'
    BY <1>11, <1>12
  <2>4. \A t \in done2 : Unmet(t, ToSet(out))' = {}
    BY <1>11, <1>13
  <2>5. ASSUME NEW k \in DOMAIN out'
        PROVE  Waits[out'[k]] \subseteq {out'[j] : j \in 1 .. k-1}
    <3>1. k \in 1 .. Len(out) + 1
      BY <1>7
    <3>2. {out'[j] : j \in 1 .. k-1} = {out[j] : j \in 1 .. k-1}
      BY <1>7, <3>1
    <3>3. CASE k \in 1 .. Len(out)
      BY <1>2, <1>7, <3>2, <3>3 DEF Sorted
    <3>4. CASE k = Len(out) + 1
      <4>1. {out[j] : j \in 1 .. k-1} = done
        BY <1>7, <3>4 DEF ToSet
      <4> QED
        BY <1>6, <1>7, <3>2, <3>4, <4>1
    <3> QED
      BY <3>1, <3>3, <3>4
  <2>6. (\A k \in DOMAIN out : Waits[out[k]] \subseteq {out[j] : j \in 1 .. k-1})'
    BY <1>3, <2>5
  <2> QED
    BY <1>3, <1>7, <1>9, <1>14, <2>1, <2>2, <2>3, <2>4, <2>6 DEF Sorted
<1>16. FirstDeclaredFirst'
  <2> SUFFICES ASSUME NEW k \in DOMAIN out', NEW m \in Members,
                      m < out'[k], m \notin {out'[j] : j \in 1 .. k-1}
               PROVE  ~ (Waits[m] \subseteq {out'[j] : j \in 1 .. k-1})
    BY <1>3 DEF FirstDeclaredFirst
  <2>1. k \in 1 .. Len(out) + 1
    BY <1>7
  <2>2. {out'[j] : j \in 1 .. k-1} = {out[j] : j \in 1 .. k-1}
    BY <1>7, <2>1
  <2>3. CASE k \in 1 .. Len(out)
    <3>1. k \in DOMAIN out /\ out'[k] = out[k]
      BY <1>7, <2>3
    <3> QED
      BY <1>2, <2>2, <3>1 DEF FirstDeclaredFirst
  <2>4. CASE k = Len(out) + 1
    <3>1. {out[j] : j \in 1 .. k-1} = done
      BY <1>7, <2>4 DEF ToSet
    <3>2. m < n /\ m \notin done
      BY <1>7, <2>2, <2>4, <3>1
    <3>3. indegree[m] # 0
      <4>1. m \in Nat
        BY <1>1, MembersAre
      <4> QED
        BY <1>4, <1>5, <1>6, <3>2, <4>1
    <3>4. ~ (Waits[m] \subseteq done)
      BY <1>1, <1>4, <3>3, UnmetCount
    <3> QED
      BY <2>2, <3>1, <3>4
  <2> QED
    BY <2>1, <2>3, <2>4
<1>17. Loopless(Obligations)'
  BY <1>2, <1>3 DEF Loopless
<1>18. (\A i, j \in Members : manifest.members[i].id = manifest.members[j].id => i = j)'
  BY <1>1, <1>2, <1>3
<1>19. indegree' # <<>>
  <2>1. DOMAIN indegree' = Members /\ n \in Members
    BY <1>1, <1>6
  <2> QED
    BY <2>1
<1>20. PlanInv'
  BY <1>1, <1>15, <1>16, <1>17, <1>18, <1>19 DEF PlanInv, Acyclic, Stages, Planned, Verdicts
<1> QED
  BY <1>6, <1>8, <1>20

\* The end of the sort, writing and opening leave the plan alone.
LEMMA RestKeeps ==
  ASSUME PlanInv, EndSort \/ Lower \/ Open \/ UNCHANGED vars
  PROVE  PlanInv'
<1>1. /\ UNCHANGED <<manifest, indegree, ready, out>>
      /\ \/ pc = "sort" /\ pc' = "lower" /\ indegree # <<>> /\ ready = {}
         \/ pc = "lower" /\ pc' = "open"
         \/ pc = "open" /\ pc' \in Verdicts
         \/ pc' = pc
  BY DEF EndSort, Lower, Open, Goto, plan, container, vars, Verdicts
<1>2. /\ Members' = Members /\ Waits' = Waits /\ Obligations' = Obligations
      /\ \A a, b : Obligation(a, b)' = Obligation(a, b)
  BY <1>1, SameManifest
<1>3. /\ pc' \in Acyclic => pc \in Acyclic /\ pc \in Known
      /\ pc' \in Known => pc \in Known
      /\ pc' \in Stages \cup Refusals \cup Verdicts
      /\ pc \in Acyclic => pc' \in Acyclic
  BY <1>1 DEF PlanInv, Acyclic, Known, Stages, Verdicts
<1>4. (\A i, j \in Members : manifest.members[i].id = manifest.members[j].id => i = j)'
        <=> (\A i, j \in Members : manifest.members[i].id = manifest.members[j].id => i = j)
  BY <1>1, <1>2
<1>5. Loopless(Obligations)' <=> Loopless(Obligations)
  BY <1>2 DEF Loopless
<1>6. Sorted' <=> Sorted
  BY <1>1, <1>2 DEF Sorted, Unmet, ToSet
<1>7. FirstDeclaredFirst' <=> FirstDeclaredFirst
  BY <1>1, <1>2 DEF FirstDeclaredFirst
<1>8. Planned' => indegree # <<>> /\ ready = {}
  BY <1>1 DEF PlanInv, Planned, Verdicts
<1> QED
  BY <1>1, <1>3, <1>4, <1>5, <1>6, <1>7, <1>8 DEF PlanInv

LEMMA PlanStep == ASSUME PlanInv, [Next]_vars PROVE PlanInv'
BY ChecksKeep, StartKeeps, TakeKeeps, RestKeeps DEF Next

LEMMA Planning == Spec => []PlanInv
<1>1. PlanInv /\ [Next]_vars => PlanInv'
  BY PlanStep
<1> QED
  BY <1>1, PlanInit, PTL DEF Spec

-----------------------------------------------------------------------------
(***************************************************************************)
(* The plan                                                                *)
(***************************************************************************)

LEMMA AllPlanned ==
  ASSUME PlanInv
  PROVE  NoMemberLost
<1> SUFFICES ASSUME Planned PROVE ToSet(out) = Members /\ Len(out) = Cardinality(Members)
  BY DEF NoMemberLost
<1>1. /\ Sorted /\ ready = {} /\ Loopless(Obligations) /\ manifest \in Manifests
  BY DEF PlanInv, Planned, Acyclic, Verdicts
<1>2. /\ out \in Seq(Members) /\ \A i, j \in DOMAIN out : out[i] = out[j] => i = j
      /\ \A t \in Members \ ToSet(out) : indegree[t] # 0
      /\ \A t \in Members : indegree[t] = Cardinality(Unmet(t, ToSet(out)))
  BY <1>1 DEF Sorted
<1> DEFINE left == Members \ ToSet(out)
<1>3. left = {}
  <2> SUFFICES ASSUME left # {} PROVE FALSE
    OBVIOUS
  <2>1. IsFiniteSet(left)
    BY <1>1, MembersAre, FS_Difference
  <2>2. PICK t \in left : \A a \in left : <<a, t>> \notin Obligations
    BY <1>1, <2>1, SomeFirst
  <2>3. \A a \in left : Obligation(a, t) = {}
    BY <2>2 DEF Obligations
  <2>4. Unmet(t, ToSet(out)) = {}
    BY <2>3 DEF Unmet
  <2> QED
    BY <1>2, <2>2, <2>4, FS_EmptySet
<1>4. ToSet(out) = {out[k] : k \in 1 .. Len(out)} /\ Len(out) \in Nat /\ DOMAIN out = 1 .. Len(out)
  BY <1>2 DEF ToSet
<1>5. ToSet(out) = Members
  BY <1>2, <1>3, <1>4
<1>6. Cardinality(Members) = Len(out)
  <2> DEFINE places == 1 .. Len(out)
  <2>1. out \in Bijection(places, Members)
    BY <1>2, <1>4, <1>5 DEF Bijection, Injection, Surjection, IsInjective
  <2>2. IsFiniteSet(places) /\ Cardinality(places) = Len(out)
    <3> DEFINE n == Len(out)
    <3>1. n \in Nat
      BY <1>4
    <3> HIDE DEF n
    <3>2. IsFiniteSet(1 .. n) /\ Cardinality(1 .. n) = n
      BY <3>1, FS_Interval
    <3> QED
      BY <3>2 DEF n
  <2> HIDE DEF places
  <2>3. ExistsBijection(places, Members)
    BY <2>1 DEF ExistsBijection
  <2>4. Cardinality(Members) = Cardinality(places)
    BY ONLY <2>2, <2>3, FS_Bijection
  <2> QED
    BY <2>2, <2>4
<1> QED
  BY <1>5, <1>6

\* Every manifest that passes the checks is planned whole (org.rs:229-249, 450-470).
THEOREM EveryMemberPlanned == Spec => []NoMemberLost
<1>1. PlanInv => NoMemberLost
  BY AllPlanned
<1> QED
  BY <1>1, Planning, PTL

\* The order is a function of the manifest alone: ties go to the member declared
\* first (org.rs:448-449).
THEOREM DeclarationOrder == Spec => []FirstDeclaredFirst
<1>1. PlanInv => FirstDeclaredFirst
  BY DEF PlanInv
<1> QED
  BY <1>1, Planning, PTL

\* Planning an organization is a run of it: every member is planned after all it
\* waits for (org.rs:229-234).
THEOREM PlanIsDelivery == Spec => ImplementsDelivery
<1>1. Init => Work!Init
  BY DEF Init, Work!Init, Waits, ToSet
<1>2. PlanInv /\ [Next]_vars => [Work!Next]_Work!vars
  <2> SUFFICES ASSUME PlanInv, [Next]_vars PROVE [Work!Next]_Work!vars
    OBVIOUS
  <2>1. Waits' = Waits
    <3>1. UNCHANGED manifest
      BY DEF Next, CheckMembers, CheckSeq, CheckGuards, CheckNeeds, CheckRest, CheckCycle,
         CheckLowered, StartSort, Take, Emit, EndSort, Lower, Open, Goto, vars
    <3> QED
      BY <3>1, SameManifest
  <2>2. CASE Take
    <3>1. PICK n \in Members \ ToSet(out) :
            Waits[n] \subseteq ToSet(out) /\ ToSet(out)' = ToSet(out) \cup {n}
      BY <2>2, TakeKeeps
    <3>2. DOMAIN Waits = Members
      BY DEF Waits
    <3> QED
      BY <2>1, <3>1, <3>2 DEF Work!Next, Work!Act
  <2>3. CASE ~ Take
    <3>1. UNCHANGED out
      BY <2>3 DEF Next, CheckMembers, CheckSeq, CheckGuards, CheckNeeds, CheckRest, CheckCycle,
         CheckLowered, StartSort, EndSort, Lower, Open, Goto, plan, vars
    <3> QED
      BY <2>1, <3>1 DEF Work!vars, ToSet
  <2> QED
    BY <2>2, <2>3
<1> QED
  BY <1>1, <1>2, Planning, PTL DEF Spec, Work!Spec, ImplementsDelivery

-----------------------------------------------------------------------------
(***************************************************************************)
(* Sequences one after the other                                           *)
(***************************************************************************)
LEMMA ConcatIs ==
  ASSUME NEW S, NEW s \in Seq(S), NEW t \in Seq(S)
  PROVE  /\ s \o t \in Seq(S) /\ Len(s \o t) = Len(s) + Len(t)
         /\ Len(s) \in Nat /\ Len(t) \in Nat
         /\ \A i \in 1 .. Len(s) : (s \o t)[i] = s[i]
         /\ \A i \in 1 .. Len(t) : (s \o t)[Len(s) + i] = t[i]
OBVIOUS

\* The equation FlattenSeq is defined by has a solution.
LEMMA FlattenExists ==
  ASSUME NEW n \in Nat, NEW parts
  PROVE  \E f : f = [i \in 1 .. n |-> IF i = 1 THEN parts[i] ELSE f[i-1] \o parts[i]]
<1> DEFINE Follows(f, k) ==
             \A i \in 1 .. k : f[i] = IF i = 1 THEN parts[i] ELSE f[i-1] \o parts[i]
           Without == {k \in 0 .. n : ~ \E f : Follows(f, k)}
<1>1. Without = {}
  <2> SUFFICES ASSUME Without # {} PROVE FALSE
    OBVIOUS
  <2>1. PICK k \in Without : \A m \in Without : k <= m
    <3>1. Without \subseteq Nat
      OBVIOUS
    <3> HIDE DEF Without
    <3> QED
      BY <3>1, Smallest
  <2>2. k \in 0 .. n /\ ~ \E f : Follows(f, k)
    BY <2>1
  <2>3. k # 0
    <3>1. \A f : Follows(f, 0)
      OBVIOUS
    <3> HIDE DEF Follows
    <3> QED
      BY <2>2, <3>1
  <2>4. k - 1 \in 0 .. n /\ k - 1 \notin Without
    <3>1. k \in Nat /\ k - 1 \in 0 .. n /\ ~ (k <= k - 1)
      BY <2>2, <2>3
    <3> HIDE DEF Without
    <3> QED
      BY <2>1, <3>1
  <2>5. PICK f : Follows(f, k-1)
    <3> HIDE DEF Follows
    <3> QED
      BY <2>4
  <2> DEFINE g == [i \in 1 .. k |-> IF i = k THEN (IF k = 1 THEN parts[k] ELSE f[k-1] \o parts[k])
                                             ELSE f[i]]
  <2>6. ASSUME NEW i \in 1 .. k
        PROVE  g[i] = IF i = 1 THEN parts[i] ELSE g[i-1] \o parts[i]
    <3>1. CASE i = k
      <4>1. k # 1 => k - 1 \in 1 .. k /\ k - 1 # k
        BY <2>2
      <4>2. k # 1 => g[k-1] = f[k-1]
        BY <4>1
      <4>3. g[k] = IF k = 1 THEN parts[k] ELSE f[k-1] \o parts[k]
        BY <3>1
      <4> HIDE DEF g
      <4> QED
        BY <3>1, <4>2, <4>3
    <3>2. CASE i # k
      <4>1. i \in 1 .. k-1 /\ (i # 1 => i-1 \in 1 .. k /\ i-1 # k)
        BY <2>2, <3>2
      <4>2. g[i] = f[i] /\ (i # 1 => g[i-1] = f[i-1])
        BY <3>2, <4>1
      <4>3. f[i] = IF i = 1 THEN parts[i] ELSE f[i-1] \o parts[i]
        BY <2>5, <4>1
      <4> HIDE DEF g
      <4> QED
        BY <4>2, <4>3
    <3> QED
      BY <3>1, <3>2
  <2> HIDE DEF g
  <2>7. Follows(g, k)
    BY <2>6
  <2> HIDE DEF Follows
  <2> QED
    BY <2>2, <2>7
<1>2. PICK f : Follows(f, n)
  <2>1. n \notin Without /\ n \in 0 .. n
    <3> HIDE DEF Without
    <3> QED
      BY <1>1
  <2> HIDE DEF Follows
  <2> QED
    BY <2>1
<1> DEFINE g == [i \in 1 .. n |-> f[i]]
<1>3. ASSUME NEW i \in 1 .. n
      PROVE  g[i] = IF i = 1 THEN parts[i] ELSE g[i-1] \o parts[i]
  <2>1. g[i] = f[i] /\ (i # 1 => i-1 \in 1 .. n /\ g[i-1] = f[i-1])
    OBVIOUS
  <2>2. f[i] = IF i = 1 THEN parts[i] ELSE f[i-1] \o parts[i]
    BY <1>2
  <2> HIDE DEF g
  <2> QED
    BY <2>1, <2>2
<1>4. g = [i \in 1 .. n |-> IF i = 1 THEN parts[i] ELSE g[i-1] \o parts[i]]
  <2>1. g = [i \in 1 .. n |-> g[i]]
    OBVIOUS
  <2> HIDE DEF g
  <2> QED
    BY <1>3, <2>1
<1> HIDE DEF g
<1> QED
  BY <1>4

\* The part k of all begins after the place start[k].
Laid(all, parts, n, start) ==
  /\ \A k \in 1 .. n : /\ start[k] \in Nat
                       /\ \A p \in 1 .. Len(parts[k]) : /\ start[k] + p \in 1 .. Len(all)
                                                        /\ all[start[k] + p] = parts[k][p]
  /\ \A i \in 1 .. Len(all) : \E k \in 1 .. n : \E p \in 1 .. Len(parts[k]) : i = start[k] + p
  /\ \A k, m \in 1 .. n : k < m => start[k] + Len(parts[k]) <= start[m]

LEMMA LaidNext ==
  ASSUME NEW S, NEW n \in Nat, NEW parts, NEW all \in Seq(S), NEW start,
         Laid(all, parts, n, start), parts[n+1] \in Seq(S), start[n+1] = Len(all),
         \A k \in 1 .. n : parts[k] \in Seq(S) /\ parts[k] # <<>>
  PROVE  Laid(all \o parts[n+1], parts, n+1, start)
<1> DEFINE more == parts[n+1]
           whole == all \o more
           L == Len(all)
           K == Len(more)
<1>1. /\ whole \in Seq(S) /\ Len(whole) = L + K /\ L \in Nat /\ K \in Nat
      /\ \A i \in 1 .. L : whole[i] = all[i]
      /\ \A i \in 1 .. K : whole[L + i] = more[i]
  BY ConcatIs
<1>0. \A k \in 1 .. n : Len(parts[k]) \in Nat /\ Len(parts[k]) # 0
  OBVIOUS
<1> HIDE DEF more, whole, L, K
<1>2. ASSUME NEW k \in 1 .. n+1
      PROVE  /\ start[k] \in Nat
             /\ \A p \in 1 .. Len(parts[k]) : /\ start[k] + p \in 1 .. L + K
                                              /\ whole[start[k] + p] = parts[k][p]
  <2>1. CASE k = n + 1
    <3>1. start[k] = L /\ parts[k] = more /\ Len(parts[k]) = K
      BY <2>1 DEF more, K, L
    <3>2. \A p \in 1 .. K : L + p \in 1 .. L + K
      BY <1>1
    <3> QED
      BY <1>1, <3>1, <3>2
  <2>2. CASE k # n + 1
    <3>1. k \in 1 .. n
      BY <2>2
    <3>2. /\ start[k] \in Nat
          /\ \A p \in 1 .. Len(parts[k]) : /\ start[k] + p \in 1 .. L
                                           /\ all[start[k] + p] = parts[k][p]
      BY <3>1 DEF Laid, L
    <3>3. \A i \in 1 .. L : i \in 1 .. L+K
      BY <1>1
    <3> QED
      BY <1>1, <3>2, <3>3
  <2> QED
    BY <2>1, <2>2
<1>3. ASSUME NEW i \in 1 .. L + K
      PROVE  \E k \in 1 .. n+1 : \E p \in 1 .. Len(parts[k]) : i = start[k] + p
  <2>1. CASE i \in 1 .. L
    <3>1. PICK k \in 1 .. n : \E p \in 1 .. Len(parts[k]) : i = start[k] + p
      BY <2>1 DEF Laid, L
    <3>2. k \in 1 .. n+1
      OBVIOUS
    <3> QED
      BY <3>1, <3>2
  <2>2. CASE i \notin 1 .. L
    <3>1. i - L \in 1 .. K /\ i = L + (i - L)
      BY <1>1, <2>2
    <3>2. i - L \in 1 .. Len(parts[n+1]) /\ i = start[n+1] + (i - L) /\ n+1 \in 1 .. n+1
      BY <3>1 DEF K, L, more
    <3> QED
      BY <3>2
  <2> QED
    BY <2>1, <2>2
<1>4. ASSUME NEW k \in 1 .. n+1, NEW m \in 1 .. n+1, k < m
      PROVE  start[k] + Len(parts[k]) <= start[m]
  <2>1. k \in 1 .. n
    BY <1>4
  <2>2. CASE m \in 1 .. n
    BY <1>4, <2>1, <2>2 DEF Laid
  <2>3. CASE m = n + 1
    <3> DEFINE J == Len(parts[k])
               b == start[k]
    <3>1. J \in Nat /\ b \in Nat /\ \A p \in 1 .. J : b + p \in 1 .. L
      BY <1>0, <2>1 DEF Laid, L
    <3>2. J \in 1 .. J
      BY <1>0, <2>1, <3>1
    <3>3. b + J \in 1 .. L
      BY <3>1, <3>2
    <3> HIDE DEF J, b
    <3>4. b + J <= L
      BY <1>1, <3>1, <3>3
    <3> QED
      BY <2>3, <3>4 DEF J, b, L
  <2> QED
    BY <2>1, <2>2, <2>3
<1>5. Len(whole) = L + K
  BY <1>1
<1>6. Laid(whole, parts, n+1, start)
  BY ONLY <1>2, <1>3, <1>4, <1>5 DEF Laid
<1> QED
  BY <1>6 DEF whole, more

\* The parts of a flattened sequence, one after the other.
LEMMA FlattenLays ==
  ASSUME NEW S, NEW n \in Nat \ {0}, NEW parts, Len(parts) = n,
         \A k \in 1 .. n : parts[k] \in Seq(S) /\ parts[k] # <<>>
  PROVE  /\ FlattenSeq(parts) \in Seq(S)
         /\ \E start : Laid(FlattenSeq(parts), parts, n, start)
<1> DEFINE flat == CHOOSE f : f = [i \in 1 .. n |-> IF i = 1 THEN parts[i] ELSE f[i-1] \o parts[i]]
           start == [k \in 1 .. n |-> IF k = 1 THEN 0 ELSE Len(flat[k-1])]
           Right(k) == flat[k] \in Seq(S) /\ Laid(flat[k], parts, k, start)
           Wrong == {k \in 1 .. n : ~ Right(k)}
<1>1. FlattenSeq(parts) = flat[n]
  BY DEF FlattenSeq
<1>2. flat = [i \in 1 .. n |-> IF i = 1 THEN parts[i] ELSE flat[i-1] \o parts[i]]
  BY FlattenExists
<1> HIDE DEF flat
<1>3. /\ flat[1] = parts[1]
      /\ \A k \in 2 .. n : flat[k] = flat[k-1] \o parts[k]
  <2>1. \A k \in 1 .. n : flat[k] = IF k = 1 THEN parts[k] ELSE flat[k-1] \o parts[k]
    BY <1>2, Zenon
  <2>2. 1 \in 1 .. n /\ \A k \in 2 .. n : k \in 1 .. n /\ k # 1
    OBVIOUS
  <2> QED
    BY <2>1, <2>2, Zenon
<1>4. Wrong = {}
  <2> SUFFICES ASSUME Wrong # {} PROVE FALSE
    OBVIOUS
  <2>1. PICK k \in Wrong : \A m \in Wrong : k <= m
    <3>1. Wrong \subseteq Nat
      OBVIOUS
    <3> HIDE DEF Wrong
    <3> QED
      BY <3>1, Smallest
  <2>2. k \in 1 .. n /\ ~ Right(k)
    BY <2>1
  <2>3. CASE k = 1
    <3>1. flat[1] \in Seq(S) /\ start[1] = 0 /\ parts[1] \in Seq(S) /\ Len(parts[1]) \in Nat
      BY <1>3
    <3> HIDE DEF start
    <3>2. Laid(flat[1], parts, 1, start)
      BY <1>3, <3>1 DEF Laid
    <3> QED
      BY <2>2, <2>3, <3>1, <3>2
  <2>4. CASE k # 1
    <3>1. k-1 \in 1 .. n /\ k-1 \in Nat /\ ~ (k <= k-1) /\ k = (k-1) + 1 /\ k \in 2 .. n
          /\ \A j \in 1 .. k-1 : j \in 1 .. n
      BY <2>2, <2>4
    <3>2. Right(k-1)
      <4>1. k-1 \notin Wrong
        <5> HIDE DEF Wrong
        <5> QED
          BY <2>1, <3>1
      <4> HIDE DEF Right
      <4> QED
        BY <3>1, <4>1
    <3>3. start[k] = Len(flat[k-1]) /\ flat[k] = flat[k-1] \o parts[k]
      BY <1>3, <2>2, <2>4, <3>1
    <3> HIDE DEF start
    <3> DEFINE j == k - 1
    <3>4. /\ j \in Nat /\ k = j + 1
          /\ parts[j+1] \in Seq(S) /\ start[j+1] = Len(flat[j])
          /\ flat[j] \in Seq(S) /\ Laid(flat[j], parts, j, start)
          /\ \A i \in 1 .. j : parts[i] \in Seq(S) /\ parts[i] # <<>>
      BY <2>2, <3>1, <3>2, <3>3
    <3>5. flat[k] = flat[j] \o parts[j+1]
      BY <2>2, <3>1, <3>3
    <3>6. k = j + 1
      BY <3>4
    <3> HIDE DEF j
    <3>7. flat[j] \o parts[j+1] \in Seq(S)
      BY <3>4, ConcatIs
    <3>8. Laid(flat[j] \o parts[j+1], parts, j+1, start)
      BY ONLY <3>4, LaidNext
    <3>9. Right(k)
      BY <3>5, <3>6, <3>7, <3>8, Zenon
    <3> HIDE DEF Right
    <3> QED
      BY <2>2, <3>9
  <2> QED
    BY <2>3, <2>4
<1>5. Right(n)
  <2>1. n \in 1 .. n /\ n \notin Wrong
    <3> HIDE DEF Wrong
    <3> QED
      BY <1>4
  <2> HIDE DEF Right
  <2> QED
    BY <2>1
<1> QED
  BY <1>1, <1>5

-----------------------------------------------------------------------------
(***************************************************************************)
(* The nodes of the container                                              *)
(***************************************************************************)
Parts == {"root", "artifact", "gate"}
KindOf(part) ==
  IF part = "artifact" THEN "binding" ELSE IF part = "gate" THEN "contract" ELSE "prose"
NodeRecords ==
  [part : Parts \cup {"bundle", "charter"}, of : Nat, kind : {"prose", "binding", "contract"}]

\* The parts a member has.
Has(m, part) ==
  \/ part = "root"
  \/ part = "artifact" /\ manifest.members[m].artifact
  \/ part = "gate" /\ manifest.members[m].gate

\* The nodes s of member m.
Whole(s, m) ==
  /\ s \in Seq(NodeRecords) /\ s # <<>>
  /\ \A p \in 1 .. Len(s) : s[p].part \in Parts /\ s[p].of = m /\ s[p].kind = KindOf(s[p].part)
  /\ \A p, q \in 1 .. Len(s) : s[p].part = s[q].part => p = q
  /\ \A part \in Parts : Has(m, part) => \E p \in 1 .. Len(s) : s[p].part = part

LEMMA MemberNodesAre ==
  ASSUME manifest \in Manifests, NEW m \in Members
  PROVE  Whole(MemberNodes(m), m)
<1> DEFINE has == manifest.members[m]
           root == [part |-> "root", of |-> m, kind |-> "prose"]
           artifact == [part |-> "artifact", of |-> m, kind |-> "binding"]
           gate == [part |-> "gate", of |-> m, kind |-> "contract"]
           s == MemberNodes(m)
<1>1. m \in Nat
  BY MembersAre
<1>2. root \in NodeRecords /\ artifact \in NodeRecords /\ gate \in NodeRecords
  BY <1>1 DEF NodeRecords, Parts
<1>3. s = <<root>> \o (IF has.artifact THEN <<artifact>> ELSE <<>>)
                   \o (IF has.gate THEN <<gate>> ELSE <<>>)
  BY DEF MemberNodes
<1>4. /\ s \in Seq(NodeRecords) /\ s[1] = root
      /\ Len(s) = 1 + (IF has.artifact THEN 1 ELSE 0) + (IF has.gate THEN 1 ELSE 0)
      /\ has.artifact => s[2] = artifact
      /\ has.gate => s[IF has.artifact THEN 3 ELSE 2] = gate
  <2> DEFINE r == <<root>>
             b == IF has.artifact THEN <<artifact>> ELSE <<>>
             c == IF has.gate THEN <<gate>> ELSE <<>>
             rb == r \o b
  <2>1. /\ r \in Seq(NodeRecords) /\ Len(r) = 1 /\ r[1] = root
        /\ b \in Seq(NodeRecords) /\ Len(b) = (IF has.artifact THEN 1 ELSE 0)
        /\ has.artifact => b[1] = artifact
        /\ c \in Seq(NodeRecords) /\ Len(c) = (IF has.gate THEN 1 ELSE 0)
        /\ has.gate => c[1] = gate
    BY <1>2
  <2>2. s = rb \o c
    BY <1>3
  <2> HIDE DEF r, b, c, s, root, artifact, gate, has
  <2>3. /\ rb \in Seq(NodeRecords) /\ Len(rb) = 1 + Len(b)
        /\ rb[1] = root /\ (has.artifact => rb[2] = artifact)
    <3>1. /\ rb \in Seq(NodeRecords) /\ Len(rb) = Len(r) + Len(b)
          /\ \A i \in 1 .. Len(r) : rb[i] = r[i]
          /\ \A i \in 1 .. Len(b) : rb[Len(r) + i] = b[i]
      <4>1. r \in Seq(NodeRecords) /\ b \in Seq(NodeRecords)
        BY <2>1
      <4> QED
        BY ONLY <4>1, ConcatIs DEF rb
    <3> HIDE DEF rb
    <3> QED
      BY <2>1, <3>1
  <2> HIDE DEF rb
  <2>4. /\ s \in Seq(NodeRecords) /\ Len(s) = Len(rb) + Len(c)
        /\ \A i \in 1 .. Len(rb) : s[i] = rb[i]
        /\ \A i \in 1 .. Len(c) : s[Len(rb) + i] = c[i]
    <3>1. rb \in Seq(NodeRecords) /\ c \in Seq(NodeRecords)
      BY <2>1, <2>3
    <3> QED
      BY ONLY <2>2, <3>1, ConcatIs
  <2> QED
    BY <2>1, <2>3, <2>4
<1>5. root.part = "root" /\ artifact.part = "artifact" /\ gate.part = "gate"
      /\ root.of = m /\ artifact.of = m /\ gate.of = m
      /\ root.kind = "prose" /\ artifact.kind = "binding" /\ gate.kind = "contract"
  OBVIOUS
<1>6. \A part \in Parts : Has(m, part) <=>
        \/ part = "root"
        \/ (part = "artifact" /\ has.artifact)
        \/ (part = "gate" /\ has.gate)
  BY DEF Has
<1> HIDE DEF root, artifact, gate, has
<1> SUFFICES Whole(s, m)
  BY DEF s
<1> HIDE DEF s
<1>7. Len(s) \in Nat
  BY <1>4
<1>8. CASE ~ has.artifact /\ ~ has.gate
  <2>1. Len(s) = 1 /\ s[1] = root
    BY <1>4, <1>8
  <2>2. \A p : p \in 1 .. 1 <=> p = 1
    OBVIOUS
  <2>3. \A p \in 1 .. Len(s) : s[p].part \in Parts /\ s[p].of = m /\ s[p].kind = KindOf(s[p].part)
    BY <1>5, <2>1, <2>2 DEF Parts, KindOf
  <2>4. \A p, q \in 1 .. Len(s) : s[p].part = s[q].part => p = q
    BY <1>5, <2>1, <2>2
  <2>5. \A part \in Parts : Has(m, part) => \E p \in 1 .. Len(s) : s[p].part = part
    BY <1>5, <1>6, <1>8, <2>1, <2>2
  <2> QED
    BY <1>4, <2>1, <2>3, <2>4, <2>5 DEF Whole
<1>9. CASE ~ has.artifact /\ has.gate
  <2>1. Len(s) = 2 /\ s[1] = root /\ s[2] = gate
    BY <1>4, <1>9
  <2>2. \A p : p \in 1 .. 2 <=> p = 1 \/ p = 2
    OBVIOUS
  <2>3. \A p \in 1 .. Len(s) : s[p].part \in Parts /\ s[p].of = m /\ s[p].kind = KindOf(s[p].part)
    BY <1>5, <2>1, <2>2 DEF Parts, KindOf
  <2>4. \A p, q \in 1 .. Len(s) : s[p].part = s[q].part => p = q
    BY <1>5, <2>1, <2>2
  <2>5. \A part \in Parts : Has(m, part) => \E p \in 1 .. Len(s) : s[p].part = part
    BY <1>5, <1>6, <1>9, <2>1, <2>2
  <2> QED
    BY <1>4, <2>1, <2>3, <2>4, <2>5 DEF Whole
<1>10. CASE has.artifact /\ ~ has.gate
  <2>1. Len(s) = 2 /\ s[1] = root /\ s[2] = artifact
    BY <1>4, <1>10
  <2>2. \A p : p \in 1 .. 2 <=> p = 1 \/ p = 2
    OBVIOUS
  <2>3. \A p \in 1 .. Len(s) : s[p].part \in Parts /\ s[p].of = m /\ s[p].kind = KindOf(s[p].part)
    BY <1>5, <2>1, <2>2 DEF Parts, KindOf
  <2>4. \A p, q \in 1 .. Len(s) : s[p].part = s[q].part => p = q
    BY <1>5, <2>1, <2>2
  <2>5. \A part \in Parts : Has(m, part) => \E p \in 1 .. Len(s) : s[p].part = part
    BY <1>5, <1>6, <1>10, <2>1, <2>2
  <2> QED
    BY <1>4, <2>1, <2>3, <2>4, <2>5 DEF Whole
<1>11. CASE has.artifact /\ has.gate
  <2>1. Len(s) = 3 /\ s[1] = root /\ s[2] = artifact /\ s[3] = gate
    BY <1>4, <1>11
  <2>2. \A p : p \in 1 .. 3 <=> p = 1 \/ p = 2 \/ p = 3
    OBVIOUS
  <2>3. \A p \in 1 .. Len(s) : s[p].part \in Parts /\ s[p].of = m /\ s[p].kind = KindOf(s[p].part)
    BY <1>5, <2>1, <2>2 DEF Parts, KindOf
  <2>4. \A p, q \in 1 .. Len(s) : s[p].part = s[q].part => p = q
    BY <1>5, <2>1, <2>2
  <2>5. \A part \in Parts : Has(m, part) => \E p \in 1 .. Len(s) : s[p].part = part
    BY <1>5, <1>6, <1>11, <2>1, <2>2
  <2> QED
    BY <1>4, <2>1, <2>3, <2>4, <2>5 DEF Whole
<1> QED
  BY <1>8, <1>9, <1>10, <1>11

\* A table of nodes that puts the members in this order.
Table(table, order) ==
  /\ table \in Seq(NodeRecords)
  /\ \A i \in DOMAIN table : table[i].part \in Parts =>
       table[i].of \in ToSet(order) /\ table[i].kind = KindOf(table[i].part)
  /\ \A k \in DOMAIN order : \A part \in Parts : Has(order[k], part) =>
       \E i \in DOMAIN table : table[i].part = part /\ table[i].of = order[k]
  /\ \A i, j \in DOMAIN table :
       /\ table[i].part \in Parts /\ table[i].part = table[j].part /\ table[i].of = table[j].of
       => i = j
  /\ \A i, j \in DOMAIN table : \A k, l \in DOMAIN order :
       /\ table[i].part \in Parts /\ table[j].part \in Parts
       /\ table[i].of = order[k] /\ table[j].of = order[l] /\ k < l
       => i < j

LEMMA NodesAre ==
  ASSUME manifest \in Manifests, NEW order \in Seq(Members),
         \A k, l \in DOMAIN order : order[k] = order[l] => k = l
  PROVE  Table(Nodes(order), order)
<1> DEFINE head == <<[part |-> "bundle", of |-> 0, kind |-> "prose"],
                     [part |-> "charter", of |-> 0, kind |-> "prose"]>>
           parts == [k \in DOMAIN order |-> MemberNodes(order[k])]
           flat == FlattenSeq(parts)
           table == Nodes(order)
           n == Len(order)
<1>1. /\ n \in Nat /\ DOMAIN order = 1 .. n
      /\ \A k \in 1 .. n : order[k] \in Members
  OBVIOUS
<1>2. head \in Seq(NodeRecords) /\ Len(head) = 2 /\ \A i \in 1 .. 2 : head[i].part \notin Parts
  <2>1. head[1].part = "bundle" /\ head[2].part = "charter" /\ \A i \in 1 .. 2 : i = 1 \/ i = 2
    OBVIOUS
  <2>2. [part |-> "bundle", of |-> 0, kind |-> "prose"] \in NodeRecords
        /\ [part |-> "charter", of |-> 0, kind |-> "prose"] \in NodeRecords
    BY DEF NodeRecords, Parts
  <2> QED
    BY <2>1, <2>2 DEF Parts
<1>3. ASSUME NEW k \in 1 .. n
      PROVE  Whole(parts[k], order[k])
  <2>1. parts[k] = MemberNodes(order[k]) /\ order[k] \in Members
    BY <1>1
  <2>2. Whole(MemberNodes(order[k]), order[k])
    BY <2>1, MemberNodesAre
  <2> QED
    BY ONLY <2>1, <2>2, Zenon
<1>4. Len(parts) = n
  BY <1>1
<1>5. table = head \o flat
  BY DEF Nodes
<1> HIDE DEF parts, head, table, flat, n
<1>6. flat \in Seq(NodeRecords) /\ \E start : Laid(flat, parts, n, start)
  <2>1. CASE n = 0
    <3>1. parts = <<>>
      BY <1>1, <1>4, <2>1 DEF parts
    <3>2. flat = <<>>
      BY <1>4, <2>1, <3>1 DEF flat, FlattenSeq
    <3> QED
      BY <2>1, <3>2 DEF Laid
  <2>2. CASE n # 0
    <3>1. n \in Nat \ {0}
      BY <1>1, <2>2
    <3>2. \A k \in 1 .. n : parts[k] \in Seq(NodeRecords) /\ parts[k] # <<>>
      BY <1>3 DEF Whole
    <3> QED
      BY <1>4, <3>1, <3>2, FlattenLays DEF flat
  <2> QED
    BY <2>1, <2>2
<1>7. PICK start : Laid(flat, parts, n, start)
  BY <1>6
<1>8. /\ table \in Seq(NodeRecords) /\ Len(table) = 2 + Len(flat) /\ Len(flat) \in Nat
      /\ \A i \in 1 .. 2 : table[i] = head[i]
      /\ \A i \in 1 .. Len(flat) : table[2 + i] = flat[i]
  <2>1. head \in Seq(NodeRecords) /\ flat \in Seq(NodeRecords) /\ Len(head) = 2
    BY <1>2, <1>6
  <2>2. /\ table \in Seq(NodeRecords) /\ Len(table) = Len(head) + Len(flat)
        /\ \A i \in 1 .. Len(head) : table[i] = head[i]
        /\ \A i \in 1 .. Len(flat) : table[Len(head) + i] = flat[i]
    <3>1. head \in Seq(NodeRecords) /\ flat \in Seq(NodeRecords)
      BY <2>1
    <3> QED
      BY ONLY <1>5, <3>1, ConcatIs
  <2>3. Len(flat) \in Nat
    BY <2>1
  <2> QED
    BY ONLY <2>1, <2>2, <2>3
\* Each node of a member lies in the part of it.
<1> DEFINE at(k, p) == 2 + (start[k] + p)
<1>9. ASSUME NEW k \in 1 .. n, NEW p \in 1 .. Len(parts[k])
      PROVE  at(k, p) \in 1 .. Len(table) /\ table[at(k, p)] = parts[k][p]
  <2>1. start[k] + p \in 1 .. Len(flat) /\ flat[start[k] + p] = parts[k][p]
    BY <1>7 DEF Laid
  <2> QED
    BY <1>8, <2>1
<1>10. ASSUME NEW i \in 1 .. Len(table), table[i].part \in Parts
       PROVE  \E k \in 1 .. n : \E p \in 1 .. Len(parts[k]) : i = at(k, p)
  <2>1. i \notin 1 .. 2
    BY <1>2, <1>8, <1>10
  <2>2. i - 2 \in 1 .. Len(flat) /\ i = 2 + (i - 2)
    BY <1>8, <2>1
  <2>3. PICK k \in 1 .. n : \E p \in 1 .. Len(parts[k]) : i - 2 = start[k] + p
    BY <1>7, <2>2 DEF Laid
  <2> QED
    BY <2>2, <2>3
<1>11. DOMAIN table = 1 .. Len(table)
  BY <1>8
<1>12. ASSUME NEW i \in DOMAIN table, table[i].part \in Parts
       PROVE  table[i].of \in ToSet(order) /\ table[i].kind = KindOf(table[i].part)
  <2>1. PICK k \in 1 .. n : \E p \in 1 .. Len(parts[k]) : i = at(k, p)
    BY <1>10, <1>11, <1>12
  <2>2. PICK p \in 1 .. Len(parts[k]) : i = at(k, p)
    BY <2>1
  <2>3. table[i] = parts[k][p]
    BY <1>9, <2>2
  <2>4. parts[k][p].of = order[k] /\ parts[k][p].kind = KindOf(parts[k][p].part)
    BY <1>3 DEF Whole
  <2>5. order[k] \in ToSet(order)
    BY <1>1 DEF ToSet
  <2> QED
    BY <2>3, <2>4, <2>5
<1>13. ASSUME NEW k \in DOMAIN order, NEW part \in Parts, Has(order[k], part)
       PROVE  \E i \in DOMAIN table : table[i].part = part /\ table[i].of = order[k]
  <2>1. PICK p \in 1 .. Len(parts[k]) : parts[k][p].part = part
    BY <1>1, <1>3, <1>13 DEF Whole
  <2>2. at(k, p) \in DOMAIN table /\ table[at(k, p)] = parts[k][p]
    BY <1>1, <1>9, <1>11
  <2> QED
    BY <1>1, <1>3, <2>1, <2>2 DEF Whole
<1>14. ASSUME NEW i \in DOMAIN table, NEW j \in DOMAIN table, table[i].part \in Parts,
              table[i].part = table[j].part, table[i].of = table[j].of
       PROVE  i = j
  <2>1a. PICK k \in 1 .. n : \E p \in 1 .. Len(parts[k]) : i = at(k, p)
    BY <1>10, <1>11, <1>14
  <2>1. PICK p \in 1 .. Len(parts[k]) : i = at(k, p)
    BY <2>1a
  <2>2a. PICK l \in 1 .. n : \E q \in 1 .. Len(parts[l]) : j = at(l, q)
    BY <1>10, <1>11, <1>14
  <2>2. PICK q \in 1 .. Len(parts[l]) : j = at(l, q)
    BY <2>2a
  <2>3. table[i] = parts[k][p] /\ table[j] = parts[l][q]
    BY <1>9, <2>1, <2>2
  <2>4. order[k] = order[l]
    BY <1>3, <1>14, <2>3 DEF Whole
  <2>5. k = l
    BY <1>1, <2>4
  <2>6. p = q
    BY <1>3, <1>14, <2>3, <2>5 DEF Whole
  <2> QED
    BY <2>1, <2>2, <2>5, <2>6
<1>15. ASSUME NEW i \in DOMAIN table, NEW j \in DOMAIN table,
              table[i].part \in Parts, table[j].part \in Parts,
              NEW k \in DOMAIN order, NEW l \in DOMAIN order,
              table[i].of = order[k], table[j].of = order[l], k < l
       PROVE  i < j
  <2>1a. PICK kk \in 1 .. n : \E p \in 1 .. Len(parts[kk]) : i = at(kk, p)
    BY <1>10, <1>11, <1>15
  <2>1. PICK p \in 1 .. Len(parts[kk]) : i = at(kk, p)
    BY <2>1a
  <2>2a. PICK ll \in 1 .. n : \E q \in 1 .. Len(parts[ll]) : j = at(ll, q)
    BY <1>10, <1>11, <1>15
  <2>2. PICK q \in 1 .. Len(parts[ll]) : j = at(ll, q)
    BY <2>2a
  <2>3. table[i] = parts[kk][p] /\ table[j] = parts[ll][q]
    BY <1>9, <2>1, <2>2
  <2>4. order[kk] = order[k] /\ order[ll] = order[l]
    BY <1>3, <1>15, <2>3 DEF Whole
  <2>5. kk = k /\ ll = l
    BY <1>1, <2>4
  <2> DEFINE K == Len(parts[k])
             a == start[k]
             b == start[l]
  <2>6. a \in Nat /\ b \in Nat /\ a + K <= b
    BY <1>1, <1>7, <1>15 DEF Laid
  <2>7. K \in Nat
    BY <1>1, <1>3 DEF Whole
  <2>8. i = 2 + (a + p) /\ j = 2 + (b + q) /\ p \in 1 .. K /\ q \in Nat /\ q >= 1
    BY <2>1, <2>2, <2>5
  <2> HIDE DEF a, b, K
  <2> QED
    BY ONLY <2>6, <2>7, <2>8
<1> QED
  BY <1>8, <1>12, <1>13, <1>14, <1>15 DEF Table, table

-----------------------------------------------------------------------------
(***************************************************************************)
(* Its edges                                                               *)
(***************************************************************************)
LEMMA ConcatItems ==
  ASSUME NEW S, NEW s \in Seq(S), NEW t \in Seq(S)
  PROVE  /\ s \o t \in Seq(S)
         /\ \A i \in DOMAIN (s \o t) :
              \/ (i \in DOMAIN s /\ (s \o t)[i] = s[i])
              \/ (i - Len(s) \in DOMAIN t /\ (s \o t)[i] = t[i - Len(s)])
         /\ \A i \in DOMAIN (s \o t) : i \in Nat
<1>1. /\ s \o t \in Seq(S) /\ Len(s \o t) = Len(s) + Len(t)
      /\ Len(s) \in Nat /\ Len(t) \in Nat
      /\ \A i \in 1 .. Len(s) : (s \o t)[i] = s[i]
      /\ \A i \in 1 .. Len(t) : (s \o t)[Len(s) + i] = t[i]
  BY ConcatIs
<1>2. DOMAIN s = 1 .. Len(s) /\ DOMAIN t = 1 .. Len(t) /\ DOMAIN (s \o t) = 1 .. Len(s) + Len(t)
  BY <1>1
<1>3. ASSUME NEW i \in DOMAIN (s \o t), i \notin DOMAIN s
      PROVE  i - Len(s) \in DOMAIN t /\ i = Len(s) + (i - Len(s))
  BY <1>1, <1>2, <1>3
<1> QED
  BY <1>1, <1>2, <1>3

\* Every reference of the manifest names a member, with what the relation takes.
Sound(rel) == \A k \in DOMAIN manifest[rel] : ~ UnknownEnd(manifest[rel][k])
Gated == \A k \in DOMAIN manifest.guards : manifest.members[Resolve(manifest.guards[k][1])].gate
Handed == \A k \in DOMAIN manifest.needs : manifest.members[Resolve(manifest.needs[k][2])].artifact

Checked ==
  /\ Sound("seq") /\ Sound("guards") /\ Sound("needs") /\ Sound("alt") /\ Sound("cites")
  /\ Gated /\ Handed

LEMMA ResolveIs ==
  ASSUME NEW ref, ~ Unknown(ref)
  PROVE  Resolve(ref) \in Members /\ manifest.members[Resolve(ref)].id = MemberOf[ref]
<1>1. \E i \in Members : manifest.members[i].id = MemberOf[ref]
  BY DEF Unknown
<1> QED
  BY <1>1 DEF Resolve

At(table, part, ref) ==
  CHOOSE i \in DOMAIN table : table[i].part = part /\ table[i].of = Resolve(ref)

LEMMA AtIs ==
  ASSUME NEW table, NEW order, Table(table, order), ToSet(order) = Members,
         NEW part \in Parts, NEW ref, ~ Unknown(ref), Has(Resolve(ref), part)
  PROVE  /\ At(table, part, ref) \in DOMAIN table
         /\ table[At(table, part, ref)].part = part
         /\ table[At(table, part, ref)].of = Resolve(ref)
<1>1. PICK k \in DOMAIN order : order[k] = Resolve(ref)
  BY ResolveIs DEF ToSet
<1>2. \E i \in DOMAIN table : table[i].part = part /\ table[i].of = Resolve(ref)
  BY <1>1 DEF Table
<1> QED
  BY <1>2 DEF At

\* The edge written for the place k of a list.
Edge(table, rel, from, to, k) ==
  [src |-> At(table, from, manifest[rel][k][1]), rel |-> rel,
   dst |-> At(table, to, manifest[rel][k][2]), ordinal |-> Ordinal(k), external |-> FALSE]

LEMMA EdgesAre ==
  ASSUME manifest \in Manifests, NEW table
  PROVE  LET E == LoweredEdges(table)
         IN  /\ \A i \in DOMAIN E :
                  \/ \E k \in DOMAIN manifest.seq : E[i] = Edge(table, "seq", "root", "root", k)
                  \/ \E k \in DOMAIN manifest.needs : E[i] = Edge(table, "needs", "root", "artifact", k)
                  \/ \E k \in DOMAIN manifest.guards : E[i] = Edge(table, "guards", "gate", "root", k)
                  \/ \E k \in DOMAIN manifest.alt : E[i] = Edge(table, "alt", "root", "root", k)
                  \/ \E k \in DOMAIN manifest.cites : E[i] = Edge(table, "cites", "root", "root", k)
             /\ \E off \in Nat : \A i \in DOMAIN E :
                  E[i].rel = "alt" => /\ i - off \in DOMAIN manifest.alt /\ i \in Nat
                                      /\ E[i] = Edge(table, "alt", "root", "root", i - off)
<1> DEFINE s == Lowered("seq", "root", "root", table)
           n == Lowered("needs", "root", "artifact", table)
           g == Lowered("guards", "gate", "root", table)
           a == Lowered("alt", "root", "root", table)
           c == Lowered("cites", "root", "root", table)
           E == LoweredEdges(table)
           Some(q, rel, from, to) ==
             \A k \in DOMAIN q : k \in DOMAIN manifest[rel] /\ q[k] = Edge(table, rel, from, to, k)
           X == {s[k] : k \in DOMAIN s} \cup {n[k] : k \in DOMAIN n} \cup {g[k] : k \in DOMAIN g}
                \cup {a[k] : k \in DOMAIN a} \cup {c[k] : k \in DOMAIN c}
<1>1. ASSUME NEW rel \in {"seq", "needs", "guards", "alt", "cites"}, NEW from, NEW to
      PROVE  /\ Some(Lowered(rel, from, to, table), rel, from, to)
             /\ \E m \in Nat : DOMAIN Lowered(rel, from, to, table) = 1 .. m
             /\ Lowered(rel, from, to, table) =
                  [k \in DOMAIN Lowered(rel, from, to, table) |-> Lowered(rel, from, to, table)[k]]
  <2>1. Lowered(rel, from, to, table) = [k \in DOMAIN manifest[rel] |-> Edge(table, rel, from, to, k)]
    BY DEF Lowered, Edge, At
  <2>2. manifest[rel] \in Seq(References \X References)
    BY ManifestAssumption
  <2>3. DOMAIN manifest[rel] = 1 .. Len(manifest[rel]) /\ Len(manifest[rel]) \in Nat
    BY <2>2
  <2> QED
    BY <2>1, <2>3
<1>2. /\ Some(s, "seq", "root", "root") /\ Some(n, "needs", "root", "artifact")
      /\ Some(g, "guards", "gate", "root") /\ Some(a, "alt", "root", "root")
      /\ Some(c, "cites", "root", "root")
  BY <1>1
<1>3. s \in Seq(X) /\ n \in Seq(X) /\ g \in Seq(X) /\ a \in Seq(X) /\ c \in Seq(X)
  <2>1. ASSUME NEW q, NEW m \in Nat, DOMAIN q = 1 .. m, q = [k \in DOMAIN q |-> q[k]],
               \A k \in DOMAIN q : q[k] \in X
        PROVE  q \in Seq(X)
    <3> HIDE DEF X
    <3> QED
      BY <2>1
  <2>2. /\ \A k \in DOMAIN s : s[k] \in X
        /\ \A k \in DOMAIN n : n[k] \in X
        /\ \A k \in DOMAIN g : g[k] \in X
        /\ \A k \in DOMAIN a : a[k] \in X
        /\ \A k \in DOMAIN c : c[k] \in X
    <3> HIDE DEF s, n, g, a, c
    <3> QED
      OBVIOUS
  <2> HIDE DEF X
  <2> QED
    BY <1>1, <2>1, <2>2
<1> HIDE DEF X
<1> DEFINE sn == s \o n
           sng == sn \o g
           snga == sng \o a
<1>4. E = snga \o c
  BY DEF LoweredEdges
<1> HIDE DEF s, n, g, a, c, E, Some
<1>5. /\ sn \in Seq(X)
      /\ \A i \in DOMAIN sn : \/ (i \in DOMAIN s /\ sn[i] = s[i])
                              \/ (i - Len(s) \in DOMAIN n /\ sn[i] = n[i - Len(s)])
  BY ONLY <1>3, ConcatItems DEF sn
<1> HIDE DEF sn
<1>6. /\ sng \in Seq(X)
      /\ \A i \in DOMAIN sng : \/ (i \in DOMAIN sn /\ sng[i] = sn[i])
                               \/ (i - Len(sn) \in DOMAIN g /\ sng[i] = g[i - Len(sn)])
  BY ONLY <1>3, <1>5, ConcatItems DEF sng
<1> HIDE DEF sng
<1>7. /\ snga \in Seq(X)
      /\ \A i \in DOMAIN snga : \/ (i \in DOMAIN sng /\ snga[i] = sng[i])
                                \/ (i - Len(sng) \in DOMAIN a /\ snga[i] = a[i - Len(sng)])
  BY ONLY <1>3, <1>6, ConcatItems DEF snga
<1> HIDE DEF snga
<1>8. /\ E \in Seq(X)
      /\ \A i \in DOMAIN E : \/ (i \in DOMAIN snga /\ E[i] = snga[i])
                             \/ (i - Len(snga) \in DOMAIN c /\ E[i] = c[i - Len(snga)])
      /\ \A i \in DOMAIN E : i \in Nat
  BY ONLY <1>3, <1>4, <1>7, ConcatItems
<1> DEFINE off == Len(sng)
           Of(rel, from, to, i) == \E k \in DOMAIN manifest[rel] : E[i] = Edge(table, rel, from, to, k)
<1>9. off \in Nat
  BY <1>6
<1>10. ASSUME NEW i \in DOMAIN E
       PROVE  \/ Of("seq", "root", "root", i)
              \/ Of("needs", "root", "artifact", i)
              \/ Of("guards", "gate", "root", i)
              \/ (Of("alt", "root", "root", i) /\ i - off \in DOMAIN manifest.alt
                    /\ E[i] = Edge(table, "alt", "root", "root", i - off))
              \/ Of("cites", "root", "root", i)
  <2>1. CASE \E k \in DOMAIN s : E[i] = s[k]
    BY <1>2, <2>1 DEF Some
  <2>2. CASE \E k \in DOMAIN n : E[i] = n[k]
    BY <1>2, <2>2 DEF Some
  <2>3. CASE \E k \in DOMAIN g : E[i] = g[k]
    BY <1>2, <2>3 DEF Some
  <2>4. CASE i - off \in DOMAIN a /\ E[i] = a[i - off]
    BY <1>2, <2>4 DEF Some
  <2>5. CASE \E k \in DOMAIN c : E[i] = c[k]
    BY <1>2, <2>5 DEF Some
  <2>6. \/ \E k \in DOMAIN s : E[i] = s[k]
        \/ \E k \in DOMAIN n : E[i] = n[k]
        \/ \E k \in DOMAIN g : E[i] = g[k]
        \/ (i - off \in DOMAIN a /\ E[i] = a[i - off])
        \/ \E k \in DOMAIN c : E[i] = c[k]
    <3>1. CASE i - Len(snga) \in DOMAIN c /\ E[i] = c[i - Len(snga)]
      BY ONLY <3>1
    <3>2. CASE i - Len(sng) \in DOMAIN a /\ E[i] = a[i - Len(sng)]
      BY ONLY <3>2 DEF off
    <3>3. CASE i - Len(sn) \in DOMAIN g /\ E[i] = g[i - Len(sn)]
      BY ONLY <3>3
    <3>4. CASE i - Len(s) \in DOMAIN n /\ E[i] = n[i - Len(s)]
      BY ONLY <3>4
    <3>5. CASE i \in DOMAIN s /\ E[i] = s[i]
      BY ONLY <3>5
    <3> QED
      BY <1>5, <1>6, <1>7, <1>8, <3>1, <3>2, <3>3, <3>4, <3>5
  <2> QED
    BY <2>1, <2>2, <2>3, <2>4, <2>5, <2>6
<1>11. \A rel, from, to, k : Edge(table, rel, from, to, k).rel = rel
  BY DEF Edge
<1>12. ASSUME NEW i \in DOMAIN E, E[i].rel = "alt"
       PROVE  i - off \in DOMAIN manifest.alt /\ E[i] = Edge(table, "alt", "root", "root", i - off)
  <2>1. ASSUME NEW rel \in {"seq", "needs", "guards", "cites"}, NEW from, NEW to,
               Of(rel, from, to, i)
        PROVE  FALSE
    BY <1>11, <1>12, <2>1
  <2> HIDE DEF Of
  <2> QED
    BY <1>10, <2>1
<1> HIDE DEF off
<1> QED
  BY <1>8, <1>9, <1>10, <1>12 DEF E

-----------------------------------------------------------------------------
(***************************************************************************)
(* The container judged                                                    *)
(***************************************************************************)
\* Every member comes after those it waits for.
Follows(order) ==
  \A k \in DOMAIN order : Waits[order[k]] \subseteq {order[j] : j \in 1 .. k-1}

\* A member's nodes come after those of the members it waits for.
LEMMA WaitedForFirst ==
  ASSUME NEW table, NEW order, order \in Seq(Members), Table(table, order), Follows(order),
         NEW i \in DOMAIN table, NEW j \in DOMAIN table,
         table[i].part \in Parts, table[j].part \in Parts, table[j].of \in Waits[table[i].of]
  PROVE  j < i
<1>1. PICK k \in DOMAIN order : table[i].of = order[k]
  BY DEF Table, ToSet
<1>2. PICK l \in 1 .. k-1 : table[j].of = order[l]
  BY <1>1 DEF Follows
<1>3. l \in DOMAIN order /\ l < k
  BY <1>1, <1>2
<1> QED
  BY <1>1, <1>2, <1>3 DEF Table

\* Members joined by the pipeline or as fallbacks.
Fallbacks ==
  {p \in Members \X Members : Edges("seq", p[1], p[2]) \cup Edges("alt", p[1], p[2]) # {}}

\* Two fallbacks of one member whose ordinals the wrap makes the same.
Confused ==
  \E i, j \in DOMAIN manifest.alt :
    /\ i # j /\ Ordinal(i) = Ordinal(j)
    /\ Resolve(manifest.alt[i][1]) = Resolve(manifest.alt[j][1])

\* What is known of an edge: the parts it joins, and which way it leads.
Fits(e, table) ==
  /\ ~ e.external /\ e.src \in DOMAIN table /\ e.dst \in DOMAIN table
  /\ \/ /\ e.rel = "seq" /\ e.src < e.dst
        /\ table[e.src].part = "root" /\ table[e.dst].part = "root"
        /\ <<table[e.src].of, table[e.dst].of>> \in Fallbacks
     \/ e.rel = "needs" /\ table[e.src].part = "root" /\ table[e.dst].part = "artifact"
     \/ e.rel = "guards" /\ table[e.src].part = "gate" /\ table[e.dst].part = "root"
     \/ /\ e.rel = "alt"
        /\ table[e.src].part = "root" /\ table[e.dst].part = "root"
        /\ <<table[e.src].of, table[e.dst].of>> \in Fallbacks
     \/ e.rel = "cites"

LEMMA EdgesFit ==
  ASSUME manifest \in Manifests, Checked, NEW order \in Seq(Members), ToSet(order) = Members,
         Follows(order), NEW table, Table(table, order),
         NEW i \in DOMAIN LoweredEdges(table)
  PROVE  Fits(LoweredEdges(table)[i], table)
<1> DEFINE e == LoweredEdges(table)[i]
<1>1. \/ \E k \in DOMAIN manifest.seq : e = Edge(table, "seq", "root", "root", k)
      \/ \E k \in DOMAIN manifest.needs : e = Edge(table, "needs", "root", "artifact", k)
      \/ \E k \in DOMAIN manifest.guards : e = Edge(table, "guards", "gate", "root", k)
      \/ \E k \in DOMAIN manifest.alt : e = Edge(table, "alt", "root", "root", k)
      \/ \E k \in DOMAIN manifest.cites : e = Edge(table, "cites", "root", "root", k)
  BY EdgesAre
<1> HIDE DEF e
\* The ends of the edge, once both references name members with these parts.
<1>2. ASSUME NEW rel \in {"seq", "needs", "guards", "alt", "cites"},
             NEW from \in Parts, NEW to \in Parts, NEW k \in DOMAIN manifest[rel],
             e = Edge(table, rel, from, to, k), Sound(rel),
             Has(Resolve(manifest[rel][k][1]), from), Has(Resolve(manifest[rel][k][2]), to)
      PROVE  /\ e.rel = rel /\ ~ e.external /\ e.src \in DOMAIN table /\ e.dst \in DOMAIN table
             /\ table[e.src].part = from /\ table[e.dst].part = to
             /\ table[e.src].of \in Members /\ table[e.dst].of \in Members
             /\ k \in Edges(rel, table[e.src].of, table[e.dst].of)
  <2> DEFINE x == manifest[rel][k][1]
             y == manifest[rel][k][2]
  <2>1. ~ Unknown(x) /\ ~ Unknown(y)
    BY <1>2 DEF Sound, UnknownEnd
  <2>2. /\ e.src = At(table, from, x) /\ e.dst = At(table, to, y)
        /\ e.rel = rel /\ ~ e.external
    BY <1>2 DEF Edge
  <2>3. /\ Resolve(x) \in Members /\ manifest.members[Resolve(x)].id = MemberOf[x]
        /\ Resolve(y) \in Members /\ manifest.members[Resolve(y)].id = MemberOf[y]
    BY <2>1, ResolveIs
  <2>4. /\ At(table, from, x) \in DOMAIN table
        /\ table[At(table, from, x)].part = from /\ table[At(table, from, x)].of = Resolve(x)
    BY <1>2, <2>1, AtIs
  <2>5. /\ At(table, to, y) \in DOMAIN table
        /\ table[At(table, to, y)].part = to /\ table[At(table, to, y)].of = Resolve(y)
    BY <1>2, <2>1, AtIs
  <2>6. k \in Edges(rel, Resolve(x), Resolve(y))
    BY <2>3 DEF Edges
  <2> HIDE DEF x, y
  <2> QED
    BY <2>2, <2>3, <2>4, <2>5, <2>6
<1>3. \A m : Has(m, "root")
  BY DEF Has
<1> USE DEF Parts
<1>4. CASE \E k \in DOMAIN manifest.seq : e = Edge(table, "seq", "root", "root", k)
  <2>1. PICK k \in DOMAIN manifest.seq : e = Edge(table, "seq", "root", "root", k)
    BY <1>4
  <2>2. /\ e.rel = "seq" /\ ~ e.external /\ e.src \in DOMAIN table /\ e.dst \in DOMAIN table
        /\ table[e.src].part = "root" /\ table[e.dst].part = "root"
        /\ table[e.src].of \in Members /\ table[e.dst].of \in Members
        /\ k \in Edges("seq", table[e.src].of, table[e.dst].of)
    BY <1>2, <1>3, <2>1 DEF Checked
  <2>3. table[e.src].of \in Waits[table[e.dst].of]
    BY <2>2 DEF Waits
  <2>4. e.src < e.dst
    BY <2>2, <2>3, WaitedForFirst
  <2>5. <<table[e.src].of, table[e.dst].of>> \in Fallbacks
    BY <2>2 DEF Fallbacks
  <2> QED
    BY <2>2, <2>4, <2>5 DEF Fits, e
<1>5. CASE \E k \in DOMAIN manifest.needs : e = Edge(table, "needs", "root", "artifact", k)
  <2>1. PICK k \in DOMAIN manifest.needs : e = Edge(table, "needs", "root", "artifact", k)
    BY <1>5
  <2>2. Has(Resolve(manifest.needs[k][2]), "artifact")
    BY DEF Checked, Handed, Has
  <2>3. /\ e.rel = "needs" /\ ~ e.external /\ e.src \in DOMAIN table /\ e.dst \in DOMAIN table
        /\ table[e.src].part = "root" /\ table[e.dst].part = "artifact"
    BY <1>2, <1>3, <2>1, <2>2 DEF Checked
  <2> QED
    BY <2>3 DEF Fits, e
<1>6. CASE \E k \in DOMAIN manifest.guards : e = Edge(table, "guards", "gate", "root", k)
  <2>1. PICK k \in DOMAIN manifest.guards : e = Edge(table, "guards", "gate", "root", k)
    BY <1>6
  <2>2. Has(Resolve(manifest.guards[k][1]), "gate")
    BY DEF Checked, Gated, Has
  <2>3. /\ e.rel = "guards" /\ ~ e.external /\ e.src \in DOMAIN table /\ e.dst \in DOMAIN table
        /\ table[e.src].part = "gate" /\ table[e.dst].part = "root"
    BY <1>2, <1>3, <2>1, <2>2 DEF Checked
  <2> QED
    BY <2>3 DEF Fits, e
<1>7. CASE \E k \in DOMAIN manifest.alt : e = Edge(table, "alt", "root", "root", k)
  <2>1. PICK k \in DOMAIN manifest.alt : e = Edge(table, "alt", "root", "root", k)
    BY <1>7
  <2>2. /\ e.rel = "alt" /\ ~ e.external /\ e.src \in DOMAIN table /\ e.dst \in DOMAIN table
        /\ table[e.src].part = "root" /\ table[e.dst].part = "root"
        /\ table[e.src].of \in Members /\ table[e.dst].of \in Members
        /\ k \in Edges("alt", table[e.src].of, table[e.dst].of)
    BY <1>2, <1>3, <2>1 DEF Checked
  <2>3. <<table[e.src].of, table[e.dst].of>> \in Fallbacks
    BY <2>2 DEF Fallbacks
  <2> QED
    BY <2>2, <2>3 DEF Fits, e
<1>8. CASE \E k \in DOMAIN manifest.cites : e = Edge(table, "cites", "root", "root", k)
  <2>1. PICK k \in DOMAIN manifest.cites : e = Edge(table, "cites", "root", "root", k)
    BY <1>8
  <2>2. /\ e.rel = "cites" /\ ~ e.external /\ e.src \in DOMAIN table /\ e.dst \in DOMAIN table
    BY <1>2, <1>3, <2>1 DEF Checked
  <2> QED
    BY <2>2 DEF Fits, e
<1> QED
  BY <1>1, <1>4, <1>5, <1>6, <1>7, <1>8

\* Fallbacks of one member have ordinals of their own.
LEMMA OrdinalsDiffer ==
  ASSUME manifest \in Manifests, Checked, NEW order \in Seq(Members), ToSet(order) = Members,
         NEW table, Table(table, order), ~ Confused
  PROVE  AltOrdinalsDiffer(LoweredEdges(table))
<1> DEFINE E == LoweredEdges(table)
<1>1. PICK off \in Nat : \A i \in DOMAIN E :
        E[i].rel = "alt" => /\ i - off \in DOMAIN manifest.alt /\ i \in Nat
                            /\ E[i] = Edge(table, "alt", "root", "root", i - off)
  BY EdgesAre
<1> HIDE DEF E
<1>2. SUFFICES ASSUME NEW i \in DOMAIN E, NEW j \in DOMAIN E, E[i].rel = "alt", E[j].rel = "alt",
                      E[i].src = E[j].src, E[i].ordinal = E[j].ordinal, i # j
               PROVE  FALSE
  BY DEF AltOrdinalsDiffer, E
<1> DEFINE k == i - off
           l == j - off
<1>3. /\ k \in DOMAIN manifest.alt /\ l \in DOMAIN manifest.alt /\ k # l
      /\ E[i] = Edge(table, "alt", "root", "root", k)
      /\ E[j] = Edge(table, "alt", "root", "root", l)
  BY <1>1, <1>2
<1> HIDE DEF k, l
<1> DEFINE x == manifest.alt[k][1]
           y == manifest.alt[l][1]
<1>4. /\ E[i].src = At(table, "root", x) /\ E[i].ordinal = Ordinal(k)
      /\ E[j].src = At(table, "root", y) /\ E[j].ordinal = Ordinal(l)
  BY <1>3 DEF Edge
<1>5. ~ Unknown(x) /\ ~ Unknown(y)
  BY <1>3 DEF Checked, Sound, UnknownEnd
<1>6. "root" \in Parts /\ Has(Resolve(x), "root") /\ Has(Resolve(y), "root")
  BY DEF Has, Parts
<1>7. table[At(table, "root", x)].of = Resolve(x)
  BY <1>5, <1>6, AtIs
<1>8. table[At(table, "root", y)].of = Resolve(y)
  BY <1>5, <1>6, AtIs
<1>9. Resolve(x) = Resolve(y) /\ Ordinal(k) = Ordinal(l)
  BY <1>2, <1>4, <1>7, <1>8
<1> QED
  BY <1>3, <1>9 DEF Confused

\* Whatever follows itself along the edges does so along the fallbacks.
LEMMA NothingFollowsItself ==
  ASSUME NEW table, NEW E, \A i \in DOMAIN E : Fits(E[i], table), Loopless(Fallbacks)
  PROVE  Loopless(Joined(E, {"needs"})) /\ ObligationLoopless(E)
<1> DEFINE All == Joined(E, {"seq", "guards", "needs", "alt"})
           Part(a) == table[a].part
           Of(a) == table[a].of
<1>1. ASSUME NEW a, NEW b, <<a, b>> \in All
      PROVE  \/ Part(a) = "root" /\ Part(b) = "artifact"
             \/ Part(a) = "gate" /\ Part(b) = "root"
             \/ Part(a) = "root" /\ Part(b) = "root" /\ <<Of(a), Of(b)>> \in Fallbacks
  <2>1. PICK i \in DOMAIN E : /\ E[i].rel \in {"seq", "guards", "needs", "alt"}
                              /\ a = E[i].src /\ b = E[i].dst
    BY <1>1 DEF Joined
  <2> QED
    BY <2>1 DEF Fits
<1>2. ASSUME NEW a, NEW b, <<a, b>> \in Joined(E, {"needs"})
      PROVE  Part(a) = "root" /\ Part(b) = "artifact"
  <2>1. PICK i \in DOMAIN E : E[i].rel = "needs" /\ a = E[i].src /\ b = E[i].dst
    BY <1>2 DEF Joined
  <2> QED
    BY <2>1 DEF Fits
<1>3. \A R, a : a \in {p[1] : p \in Joined(E, R)} => \E b : <<a, b>> \in Joined(E, R)
  BY DEF Joined
<1> HIDE DEF All, Part, Of
<1>4. Loopless(Joined(E, {"needs"}))
  <2> SUFFICES ASSUME NEW S \in SUBSET {p[1] : p \in Joined(E, {"needs"})}, S # {}
               PROVE  \E a \in S : \A b \in S : <<a, b>> \notin Joined(E, {"needs"})
    BY DEF Loopless
  <2>1. \A a \in S : Part(a) = "root"
    BY <1>2, <1>3
  <2> QED
    BY <1>2, <2>1
<1>5. Loopless(All)
  <2> SUFFICES ASSUME NEW S \in SUBSET {p[1] : p \in All}, S # {}
               PROVE  \E a \in S : \A b \in S : <<a, b>> \notin All
    BY DEF Loopless
  <2>1. \A a \in S : Part(a) \in {"root", "gate"}
    BY <1>1, <1>3 DEF All
  <2> DEFINE roots == {a \in S : Part(a) = "root"}
             T == {Of(a) : a \in roots}
  <2>2. CASE roots = {}
    <3>1. PICK a \in S : TRUE
      OBVIOUS
    <3>2. \A b \in S : Part(b) = "gate"
      BY <2>1, <2>2
    <3> QED
      BY <1>1, <3>1, <3>2
  <2>3. CASE \E a \in roots : Of(a) \notin {p[1] : p \in Fallbacks}
    <3>1. PICK a \in roots : Of(a) \notin {p[1] : p \in Fallbacks}
      BY <2>3
    <3>2. ASSUME NEW b \in S, <<a, b>> \in All PROVE FALSE
      <4>1. Part(a) = "root" /\ Part(b) \in {"root", "gate"}
        BY <2>1, <3>1
      <4>2. <<Of(a), Of(b)>> \in Fallbacks
        BY <1>1, <3>2, <4>1
      <4> QED
        BY <3>1, <4>2
    <3> QED
      BY <3>1, <3>2
  <2>4. CASE roots # {} /\ \A a \in roots : Of(a) \in {p[1] : p \in Fallbacks}
    <3>1. T \in SUBSET {p[1] : p \in Fallbacks} /\ T # {}
      BY <2>4
    <3> HIDE DEF roots
    <3>2. PICK t \in T : \A u \in T : <<t, u>> \notin Fallbacks
      BY <3>1 DEF Loopless
    <3>3. PICK a \in roots : t = Of(a)
      BY <3>2
    <3>4. ASSUME NEW b \in S, <<a, b>> \in All PROVE FALSE
      <4>1. Part(a) = "root" /\ Part(b) \in {"root", "gate"}
        BY <2>1, <3>3 DEF roots
      <4>2. <<Of(a), Of(b)>> \in Fallbacks /\ Part(b) = "root"
        BY <1>1, <3>4, <4>1
      <4>3. Of(b) \in T
        BY <3>4, <4>2 DEF roots
      <4> QED
        BY <3>2, <3>3, <4>2, <4>3
    <3>5. a \in S
      BY <3>3 DEF roots
    <3> QED
      BY <3>4, <3>5
  <2> QED
    BY <2>2, <2>3, <2>4
<1> QED
  BY <1>4, <1>5 DEF ObligationLoopless, All

LEMMA Accepted ==
  ASSUME manifest \in Manifests, Checked, NEW order \in Seq(Members), ToSet(order) = Members,
         Follows(order), NEW table, Table(table, order), Loopless(Fallbacks), ~ Confused
  PROVE  EdgesAccepted([i \in DOMAIN table |-> table[i].kind], LoweredEdges(table))
<1> DEFINE kind == [i \in DOMAIN table |-> table[i].kind]
           E == LoweredEdges(table)
<1>1. \A i \in DOMAIN E : Fits(E[i], table)
  BY EdgesFit
<1>2. AltOrdinalsDiffer(E)
  BY OrdinalsDiffer
<1>3. DOMAIN table = 1 .. Len(kind) /\ \A i \in DOMAIN table : kind[i] = table[i].kind
  <2>1. table \in Seq(NodeRecords)
    BY DEF Table
  <2>2. DOMAIN table = 1 .. Len(table) /\ Len(table) \in Nat
    BY <2>1
  <2>3. kind = [i \in 1 .. Len(table) |-> table[i].kind]
    BY <2>2
  <2>4. Len(kind) = Len(table)
    BY <2>2, <2>3
  <2> QED
    BY <2>2, <2>4
<1> HIDE DEF E, kind
<1>4. ASSUME NEW i \in DOMAIN E
      PROVE  InRange(Len(kind), E[i]) /\ RightEnds(kind, E[i])
  <2>1. Fits(E[i], table)
    BY <1>1
  <2>2. InRange(Len(kind), E[i])
    BY <1>3, <2>1 DEF Fits, InRange
  <2>3. \A j \in DOMAIN table : table[j].part \in Parts => kind[j] = KindOf(table[j].part)
    BY <1>3 DEF Table
  <2>4. RightEnds(kind, E[i])
    BY <2>1, <2>3 DEF Fits, RightEnds, KindOf, Parts
  <2> QED
    BY <2>2, <2>4
<1>5. Loopless(Joined(E, {"needs"})) /\ ObligationLoopless(E)
  BY <1>1, NothingFollowsItself
<1> QED
  BY <1>2, <1>4, <1>5 DEF EdgesAccepted, E, kind

Later == {"cycle"} \cup Acyclic

\* What each check has established, and what was written and judged.
JudgedInv ==
  /\ pc \in {"guards", "needs", "rest"} \cup Later => Sound("seq")
  /\ pc \in {"needs", "rest"} \cup Later => Sound("guards") /\ Gated
  /\ pc \in {"rest"} \cup Later => Sound("needs") /\ Handed
  /\ pc \in Later => Sound("alt") /\ Sound("cites")
  /\ pc \in {"open"} \cup Verdicts => nodes = Nodes(out) /\ edges = LoweredEdges(nodes)
  /\ pc = "rejected" => ~ EdgesAccepted([i \in DOMAIN nodes |-> nodes[i].kind], edges)

LEMMA SameEdges ==
  ASSUME UNCHANGED manifest
  PROVE  /\ \A rel : Sound(rel)' = Sound(rel)
         /\ Gated' = Gated /\ Handed' = Handed
         /\ \A order : Nodes(order)' = Nodes(order)
         /\ \A table : LoweredEdges(table)' = LoweredEdges(table)
BY DEF Sound, Gated, Handed, UnknownEnd, Unknown, Resolve, Members, Nodes, MemberNodes,
   LoweredEdges, Lowered

\* Going on from a check of edges, none is at fault.
LEMMA LoweredChecked ==
  ASSUME NEW rel, NEW lacking, NEW error, NEW next, CheckLowered(rel, lacking, error, next),
         pc' = next, error # next, next # "UnknownMember"
  PROVE  Sound(rel) /\ lacking = {}
<1> DEFINE faulty == (DOMAIN manifest[rel] \ Resolved(rel)) \cup lacking
           first == CHOOSE k \in faulty : \A j \in faulty : k <= j
<1>1. pc' = IF faulty = {} THEN next ELSE IF first \in lacking THEN error ELSE "UnknownMember"
  BY DEF CheckLowered, Goto
<1>2. faulty = {}
  <2> HIDE DEF faulty, first
  <2> QED
    BY <1>1
<1> QED
  BY <1>2 DEF Sound, Resolved

LEMMA JudgedStep == ASSUME PlanInv, JudgedInv, [Next]_vars PROVE JudgedInv'
<1> DEFINE opens(t, e) == EdgesAccepted([i \in DOMAIN t |-> t[i].kind], e)
<1>0. UNCHANGED manifest
  BY DEF Next, CheckMembers, CheckSeq, CheckGuards, CheckNeeds, CheckRest, CheckCycle,
     CheckLowered, StartSort, Take, Emit, EndSort, Lower, Open, Goto, vars
<1>1. /\ \A rel : Sound(rel)' = Sound(rel)
      /\ Gated' = Gated /\ Handed' = Handed
      /\ \A order : Nodes(order)' = Nodes(order)
      /\ \A table : LoweredEdges(table)' = LoweredEdges(table)
  BY <1>0, SameEdges
<1> USE DEF Later, Acyclic, Verdicts
<1>2. CASE CheckMembers
  <2>1. pc' \in {"NoMembers", "DuplicateMember", "seq"}
    BY <1>2 DEF CheckMembers, Goto
  <2> QED
    BY <2>1 DEF JudgedInv
<1>3. CASE CheckSeq
  <2>1. pc' \in {"UnknownMember", "guards"} /\ (pc' = "guards" => Sound("seq"))
    BY <1>3 DEF CheckSeq, Goto, Sound
  <2> QED
    BY <1>1, <2>1 DEF JudgedInv
<1>4. CASE CheckGuards
  <2>1. pc = "guards" /\ pc' \in {"UnknownMember", "MissingGate", "needs"}
    BY <1>4 DEF CheckGuards, CheckLowered, Goto
  <2>2. ASSUME pc' = "needs" PROVE Sound("guards") /\ Gated
    <3> DEFINE lacking == {k \in Resolved("guards") :
                            ~manifest.members[Resolve(manifest.guards[k][1])].gate}
    <3>1. CheckLowered("guards", lacking, "MissingGate", "needs")
      BY <1>4 DEF CheckGuards
    <3>2. Sound("guards") /\ lacking = {}
      <4> HIDE DEF lacking
      <4> QED
        BY <2>2, <3>1, LoweredChecked
    <3> QED
      BY <3>2 DEF Sound, Resolved, Gated
  <2> QED
    BY <1>1, <2>1, <2>2 DEF JudgedInv
<1>5. CASE CheckNeeds
  <2>1. pc = "needs" /\ pc' \in {"UnknownMember", "MissingArtifact", "rest"}
    BY <1>5 DEF CheckNeeds, CheckLowered, Goto
  <2>2. ASSUME pc' = "rest" PROVE Sound("needs") /\ Handed
    <3> DEFINE lacking == {k \in Resolved("needs") :
                            ~manifest.members[Resolve(manifest.needs[k][2])].artifact}
    <3>1. CheckLowered("needs", lacking, "MissingArtifact", "rest")
      BY <1>5 DEF CheckNeeds
    <3>2. Sound("needs") /\ lacking = {}
      <4> HIDE DEF lacking
      <4> QED
        BY <2>2, <3>1, LoweredChecked
    <3> QED
      BY <3>2 DEF Sound, Resolved, Handed
  <2> QED
    BY <1>1, <2>1, <2>2 DEF JudgedInv
<1>6. CASE CheckRest
  <2>1. pc = "rest" /\ pc' \in {"UnknownMember", "cycle"}
        /\ (pc' = "cycle" => Sound("alt") /\ Sound("cites"))
    BY <1>6 DEF CheckRest, Goto, Sound
  <2> QED
    BY <1>1, <2>1 DEF JudgedInv
<1>7. CASE CheckCycle
  <2>1. pc = "cycle" /\ pc' \in {"sort", "SeqCycle", "ApprovalCycle"}
    BY <1>7 DEF CheckCycle, Goto, Refuse
  <2> QED
    BY <1>1, <2>1 DEF JudgedInv
<1>8. CASE StartSort \/ Take
  <2>1. pc = "sort" /\ pc' = pc
    BY <1>8 DEF StartSort, Take, Emit
  <2> QED
    BY <1>1, <2>1 DEF JudgedInv
<1>9. CASE EndSort
  <2>1. pc = "sort" /\ pc' = "lower"
    BY <1>9 DEF EndSort, Goto
  <2> QED
    BY <1>1, <2>1 DEF JudgedInv
<1>10. CASE Lower
  <2>1. /\ pc = "lower" /\ pc' = "open" /\ out' = out
        /\ nodes' = Nodes(out) /\ edges' = LoweredEdges(nodes')
    BY <1>10 DEF Lower, plan
  <2> QED
    BY <1>1, <2>1 DEF JudgedInv
<1>11. CASE Open
  <2>1. /\ pc = "open" /\ pc' = IF opens(nodes, edges) THEN "opened" ELSE "rejected"
        /\ UNCHANGED <<out, nodes, edges>>
    BY <1>11 DEF Open, Goto, plan, container
  <2>2. pc' = "rejected" => ~ opens(nodes, edges)'
    BY <2>1
  <2> QED
    BY <1>1, <2>1, <2>2 DEF JudgedInv
<1>12. CASE UNCHANGED vars
  <2>1. UNCHANGED <<pc, out, nodes, edges>>
    BY <1>12 DEF vars
  <2>2. opens(nodes, edges)' = opens(nodes, edges)
    BY <2>1
  <2> HIDE DEF opens
  <2>3. pc = "rejected" => ~ opens(nodes, edges)
    BY DEF JudgedInv, opens
  <2>4. pc' = "rejected" => ~ opens(nodes, edges)'
    BY <2>1, <2>2, <2>3
  <2> QED
    BY <1>1, <2>1, <2>4 DEF JudgedInv, opens
<1> QED
  BY <1>2, <1>3, <1>4, <1>5, <1>6, <1>7, <1>8, <1>9, <1>10, <1>11, <1>12 DEF Next

LEMMA Judging == Spec => [](PlanInv /\ JudgedInv)
<1>1. Init => JudgedInv
  BY DEF Init, JudgedInv, Later, Acyclic, Verdicts
<1>2. PlanInv /\ JudgedInv /\ [Next]_vars => JudgedInv'
  BY JudgedStep
<1> QED
  BY <1>1, <1>2, Planning, PTL DEF Spec

\* What holds of a container once it is written.
LEMMA WrittenIs ==
  ASSUME PlanInv, JudgedInv, pc \in {"open"} \cup Verdicts
  PROVE  /\ manifest \in Manifests /\ Checked
         /\ out \in Seq(Members) /\ ToSet(out) = Members /\ Follows(out)
         /\ Table(nodes, out) /\ edges = LoweredEdges(nodes)
<1> USE DEF Verdicts
<1>1. manifest \in Manifests /\ Sorted
  BY DEF PlanInv, Planned
<1>2. Checked
  BY DEF JudgedInv, Checked, Later, Acyclic
<1>3. out \in Seq(Members) /\ Follows(out) /\ \A i, j \in DOMAIN out : out[i] = out[j] => i = j
  BY <1>1 DEF Sorted, Follows
<1>4. ToSet(out) = Members
  BY AllPlanned DEF NoMemberLost, Planned
<1>5. nodes = Nodes(out) /\ edges = LoweredEdges(nodes)
  BY DEF JudgedInv
<1>6. Table(nodes, out)
  BY <1>1, <1>3, <1>5, NodesAre
<1> QED
  BY <1>1, <1>2, <1>3, <1>4, <1>5, <1>6

\* Whatever manifest plans, its container opens unless its fallbacks loop, alone or
\* through the pipeline, or have ordinals the wrap confuses (org.rs:252-330).
THEOREM RejectedForFallbacks == Spec => []RejectsOnlyFallbacks
<1>1. PlanInv /\ JudgedInv => RejectsOnlyFallbacks
  <2> SUFFICES ASSUME PlanInv, JudgedInv, pc = "rejected", Loopless(Fallbacks), ~ Confused
               PROVE  FALSE
    BY DEF RejectsOnlyFallbacks, Fallbacks, Confused
  <2>1. EdgesAccepted([i \in DOMAIN nodes |-> nodes[i].kind], edges)
    BY WrittenIs, Accepted DEF Verdicts
  <2> QED
    BY <2>1 DEF JudgedInv
<1> QED
  BY <1>1, Judging, PTL

\* Reading a container that opens from top to bottom meets each member after all
\* it waits for (docs/GRAPH.md:257-259).
THEOREM PlanReadOffFile == Spec => []FileOrderIsPlan
<1>1. PlanInv /\ JudgedInv => FileOrderIsPlan
  <2> SUFFICES ASSUME PlanInv, JudgedInv, pc = "opened",
                      NEW i \in DOMAIN nodes, NEW j \in DOMAIN nodes,
                      nodes[i].part = "root", nodes[j].part = "root",
                      nodes[j].of \in Waits[nodes[i].of]
               PROVE  j < i
    BY DEF FileOrderIsPlan
  <2> QED
    BY WrittenIs, WaitedForFirst DEF Verdicts, Parts
<1> QED
  BY <1>1, Judging, PTL
=============================================================================
