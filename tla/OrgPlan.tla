------------------------------ MODULE OrgPlan -------------------------------
(***************************************************************************)
(* `skillc org` (skillc/src/org.rs): a manifest names members and relates  *)
(* them; `plan` checks it and puts the members in an order, `compile`      *)
(* writes them in that order into one container, whose edges skill-format  *)
(* judges when the container is opened.                                    *)
(*                                                                         *)
(* A member's document hangs below its root and carries no edge; it is     *)
(* left out.  Members are known by their place in the manifest.            *)
(***************************************************************************)
EXTENDS Naturals, Sequences, SequencesExt, FiniteSets, EdgeRules

CONSTANTS
  Ids,        \* member ids
  References, \* what an edge of a manifest may be written with
  MemberOf,   \* the id each reference stands for, `.gate` and the like cut off
  OrdWrap,    \* 256: values of an edge's ordinal
  Manifests   \* the manifests considered

ASSUME ManifestAssumption ==
  /\ MemberOf \in [References -> Ids] /\ OrdWrap \in Nat \ {0}
  /\ \A m \in Manifests :
       /\ m.members \in Seq([id : Ids, artifact : BOOLEAN, gate : BOOLEAN])
       /\ \A rel \in {"seq", "guards", "needs", "alt", "cites"} :
            m[rel] \in Seq(References \X References)

VARIABLES
  manifest,  \* as parsed
  pc,        \* the next stage, or how it ended
  indegree,  \* edges into each member from members not yet in the plan
  ready,     \* members nothing holds up
  out,       \* the plan: members in the order they are written
  nodes,     \* of the container: records [part, of, kind]
  edges      \* of the container, as EdgeRules takes them

vars == <<manifest, pc, indegree, ready, out, nodes, edges>>
plan == <<indegree, ready, out>>
container == <<nodes, edges>>

Members == DOMAIN manifest.members

Stages == {"members", "seq", "guards", "needs", "rest", "cycle", "sort", "lower", "open"}
Refusals == {"NoMembers", "DuplicateMember", "UnknownMember", "MissingGate",
             "MissingArtifact", "SeqCycle", "ApprovalCycle"}
Verdicts == {"opened", "rejected"}

Init ==
  /\ manifest \in Manifests
  /\ pc = "members"
  /\ indegree = <<>> /\ ready = {} /\ out = <<>>
  /\ nodes = <<>> /\ edges = <<>>

Goto(stage) == pc' = stage /\ UNCHANGED <<manifest, plan, container>>
-----------------------------------------------------------------------------
(***************************************************************************)
(* Manifest::plan, the checks                                              *)
(***************************************************************************)
CheckMembers ==
  /\ pc = "members"
  /\ Goto(IF Members = {} THEN "NoMembers"
          ELSE IF \E i, j \in Members : i # j /\ manifest.members[i].id = manifest.members[j].id
          THEN "DuplicateMember" ELSE "seq")

\* `resolve` finds no member under the reference.
Unknown(ref) == \A i \in Members : manifest.members[i].id # MemberOf[ref]
Resolve(ref) == CHOOSE i \in Members : manifest.members[i].id = MemberOf[ref]

UnknownEnd(edge) == Unknown(edge[1]) \/ Unknown(edge[2])

CheckSeq ==
  /\ pc = "seq"
  /\ Goto(IF \E k \in DOMAIN manifest.seq : UnknownEnd(manifest.seq[k])
          THEN "UnknownMember" ELSE "guards")

\* Edges that resolve, and so are looked at further.
Resolved(rel) == {k \in DOMAIN manifest[rel] : ~UnknownEnd(manifest[rel][k])}

\* The first edge at fault decides: unresolved, or without what it takes.
CheckLowered(rel, lacking, error, next) ==
  LET faulty == (DOMAIN manifest[rel] \ Resolved(rel)) \cup lacking
  IN  Goto(IF faulty = {} THEN next
           ELSE LET first == CHOOSE k \in faulty : \A j \in faulty : k <= j
                IN  IF first \in lacking THEN error ELSE "UnknownMember")

CheckGuards ==
  /\ pc = "guards"
  /\ CheckLowered("guards",
       {k \in Resolved("guards") : ~manifest.members[Resolve(manifest.guards[k][1])].gate},
       "MissingGate", "needs")

CheckNeeds ==
  /\ pc = "needs"
  /\ CheckLowered("needs",
       {k \in Resolved("needs") : ~manifest.members[Resolve(manifest.needs[k][2])].artifact},
       "MissingArtifact", "rest")

CheckRest ==
  /\ pc = "rest"
  /\ Goto(IF \E rel \in {"alt", "cites"} :
               \E k \in DOMAIN manifest[rel] : UnknownEnd(manifest[rel][k])
          THEN "UnknownMember" ELSE "cycle")

(***************************************************************************)
(* Manifest::plan, the order                                               *)
(***************************************************************************)
Edges(rel, a, b) ==
  {k \in DOMAIN manifest[rel] :
     /\ MemberOf[manifest[rel][k][1]] = manifest.members[a].id
     /\ MemberOf[manifest[rel][k][2]] = manifest.members[b].id}

\* Edges from a to b in `obligation`; who needs an artifact waits for who hands it on.
Obligation(a, b) ==
  ({"seq"} \X Edges("seq", a, b)) \cup ({"guards"} \X Edges("guards", a, b))
    \cup ({"needs"} \X Edges("needs", b, a))

\* Repeated edges are counted.
Obliged(a, b) == Cardinality(Obligation(a, b))

Refuse == IF manifest.guards = <<>> THEN "SeqCycle" ELSE "ApprovalCycle"

\* Faulty: the handoffs are not among the obligations.
CheckCycleWithoutNeeds ==
  /\ pc = "cycle"
  /\ Goto(IF Loopless({p \in Members \X Members :
                         Edges("seq", p[1], p[2]) \cup Edges("guards", p[1], p[2]) # {}})
          THEN "sort" ELSE Refuse)

\* find_cycle.
CheckCycle ==
  /\ pc = "cycle"
  /\ Goto(IF Loopless({p \in Members \X Members : Obligation(p[1], p[2]) # {}})
          THEN "sort" ELSE Refuse)

Incoming(b) == UNION {Obligation(a, b) : a \in Members}

\* `topological`: indegrees, and the members with none.
StartSort ==
  /\ pc = "sort" /\ indegree = <<>>
  /\ indegree' = [b \in Members |-> Cardinality(Incoming(b))]
  /\ ready' = {b \in Members : indegree'[b] = 0}
  /\ UNCHANGED <<manifest, pc, out, container>>

\* Faulty: the targets become ready whatever else holds them up.
EmitEager(n) ==
  /\ out' = Append(out, n)
  /\ indegree' = [t \in Members |-> indegree[t] - Obliged(n, t)]
  /\ ready' = (ready \ {n}) \cup {t \in Members : Obliged(n, t) > 0 /\ t \notin ToSet(out)}
  /\ UNCHANGED <<manifest, pc, container>>

\* A member is planned: it holds up nobody any more.
Emit(n) ==
  /\ out' = Append(out, n)
  /\ indegree' = [t \in Members |-> indegree[t] - Obliged(n, t)]
  /\ ready' = (ready \ {n}) \cup {t \in Members : Obliged(n, t) > 0 /\ indegree'[t] = 0}
  /\ UNCHANGED <<manifest, pc, container>>

\* Faulty: the member declared last goes first.
FirstReadyLast == CHOOSE n \in ready : \A m \in ready : n >= m

\* Ties are broken by the order of declaration.
FirstReady == CHOOSE n \in ready : \A m \in ready : n <= m

Take == pc = "sort" /\ indegree # <<>> /\ ready # {} /\ Emit(FirstReady)

EndSort == pc = "sort" /\ indegree # <<>> /\ ready = {} /\ Goto("lower")

(***************************************************************************)
(* compile, and the container opened                                       *)
(***************************************************************************)
Ordinal(k) == (k - 1) % OrdWrap

MemberNodes(m) ==
  LET node(part, kind) == <<[part |-> part, of |-> m, kind |-> kind]>>
      has == manifest.members[m]
  IN  node("root", "prose")
        \o (IF has.artifact THEN node("artifact", "binding") ELSE <<>>)
        \o (IF has.gate THEN node("gate", "contract") ELSE <<>>)

\* Faulty: the members are written in the order they are declared.
NodesDeclared(order) ==
  <<[part |-> "bundle", of |-> 0, kind |-> "prose"],
    [part |-> "charter", of |-> 0, kind |-> "prose"]>>
    \o FlattenSeq([k \in DOMAIN order |-> MemberNodes(k)])

\* The synthetic root, the charter, and the members in the order of the plan.
Nodes(order) ==
  <<[part |-> "bundle", of |-> 0, kind |-> "prose"],
    [part |-> "charter", of |-> 0, kind |-> "prose"]>>
    \o FlattenSeq([k \in DOMAIN order |-> MemberNodes(order[k])])

\* The edges of one list of the manifest, joining these parts of its members.
Lowered(rel, from, to, table) ==
  LET At(part, ref) ==
        CHOOSE i \in DOMAIN table : table[i].part = part /\ table[i].of = Resolve(ref)
  IN  [k \in DOMAIN manifest[rel] |->
         [src |-> At(from, manifest[rel][k][1]), rel |-> rel,
          dst |-> At(to, manifest[rel][k][2]), ordinal |-> Ordinal(k), external |-> FALSE]]

\* Faulty: what a member needs is the member, not its artifact.
LoweredEdgesToMembers(table) ==
  Lowered("seq", "root", "root", table) \o Lowered("needs", "root", "root", table)
    \o Lowered("guards", "gate", "root", table) \o Lowered("alt", "root", "root", table)
    \o Lowered("cites", "root", "root", table)

LoweredEdges(table) ==
  Lowered("seq", "root", "root", table) \o Lowered("needs", "root", "artifact", table)
    \o Lowered("guards", "gate", "root", table) \o Lowered("alt", "root", "root", table)
    \o Lowered("cites", "root", "root", table)

Lower ==
  /\ pc = "lower" /\ pc' = "open"
  /\ nodes' = Nodes(out)
  /\ edges' = LoweredEdges(nodes')
  /\ UNCHANGED <<manifest, plan>>

Open ==
  /\ pc = "open"
  /\ Goto(IF EdgesAccepted([i \in DOMAIN nodes |-> nodes[i].kind], edges)
          THEN "opened" ELSE "rejected")

Next ==
  \/ CheckMembers \/ CheckSeq \/ CheckGuards \/ CheckNeeds \/ CheckRest \/ CheckCycle
  \/ StartSort \/ Take \/ EndSort \/ Lower \/ Open

Spec == Init /\ [][Next]_vars
-----------------------------------------------------------------------------
(***************************************************************************)
(* Properties                                                              *)
(***************************************************************************)
\* Members a member waits for: whoever comes before it in the pipeline, gates
\* it, or hands on an artifact it needs.
Waits ==
  [m \in Members |->
     {a \in Members : Edges("seq", a, m) \cup Edges("guards", a, m)
                        \cup Edges("needs", m, a) # {}}]

Planned == pc \in {"lower", "open"} \cup Verdicts

\* The plan holds every member, once: Kahn's loop drops whatever is held up for
\* ever and reports nothing, so the cycle check before it has to see every
\* relation the loop counts (org.rs:229-249, 450-470).
NoMemberLost == Planned => ToSet(out) = Members /\ Len(out) = Cardinality(Members)

\* A manifest compiles to the same bytes every time: each member planned is the
\* one declared first among those nothing holds up any more (org.rs:448-449).
FirstDeclaredFirst ==
  \A k \in DOMAIN out : \A m \in Members :
    LET before == {out[j] : j \in 1 .. k-1}
    IN  m < out[k] /\ m \notin before => ~(Waits[m] \subseteq before)

\* The plan is a run of the organization: every member, when it is planned, can
\* act, because all it waits for have acted (org.rs:229-234).
Work == INSTANCE Delivery WITH waits <- Waits, acted <- ToSet(out)
ImplementsDelivery == Work!Spec

\* Of the manifests that plan, a container refuses only those whose fallbacks
\* loop, alone or through the pipeline, or whose fallbacks from one member are
\* further apart in the list than ordinals reach.
RejectsOnlyFallbacks ==
  pc = "rejected" =>
    \/ ~Loopless({p \in Members \X Members :
                    Edges("seq", p[1], p[2]) \cup Edges("alt", p[1], p[2]) # {}})
    \/ \E i, j \in DOMAIN manifest.alt :
         /\ i # j /\ Ordinal(i) = Ordinal(j)
         /\ Resolve(manifest.alt[i][1]) = Resolve(manifest.alt[j][1])

\* What the container says about an organization is read off the file alone: in
\* a container that opens, reading the members' roots from top to bottom, all a
\* member waits for is found above it (docs/GRAPH.md:257-259).
FileOrderIsPlan ==
  pc = "opened" =>
    \A i, j \in DOMAIN nodes :
      /\ nodes[i].part = "root" /\ nodes[j].part = "root"
      /\ nodes[j].of \in Waits[nodes[i].of]
      => j < i

\* "acyclic by construction, for every organization that can be written"
\* (docs/SPEC.md:610-611).  ALT joins member roots to member roots, so a
\* fallback and its counterpart close a loop.
AcyclicByConstruction == pc \in {"open"} \cup Verdicts => ObligationLoopless(edges)
=============================================================================
