----------------------------- MODULE MCOrgPlan ------------------------------
(***************************************************************************)
(* Organizations of three members, one of which has neither an artifact    *)
(* nor a gate.  All manifests with up to three edges of any kinds       *)
(* written with plain ids; and, with a single edge, those written with a   *)
(* dotted reference or with one that names nobody; and those with no       *)
(* member, or with one declared twice.                                     *)
(***************************************************************************)
EXTENDS OrgPlan

Ids3 == {"a", "b", "c", "nobody"}
References3 == {"a", "b", "c", "b.gate", "nobody"}
MemberOf3 == [r \in References3 |-> IF r = "b.gate" THEN "b" ELSE r]

Member(id, both) == [id |-> id, artifact |-> both, gate |-> both]
Three == <<Member("a", TRUE), Member("b", TRUE), Member("c", FALSE)>>

Bare(members) ==
  [members |-> members,
   seq |-> <<>>, guards |-> <<>>, needs |-> <<>>, alt |-> <<>>, cites |-> <<>>]

\* These manifests, and each with one more edge.
Extended(S, refs) ==
  S \cup {[m EXCEPT ![rel] = Append(@, e)] :
            m \in S, rel \in {"seq", "guards", "needs", "alt", "cites"}, e \in refs \X refs}

Plain == {"a", "b", "c"}
MCManifests ==
  Extended(Extended(Extended({Bare(Three)}, Plain), Plain), Plain)
    \cup Extended({Bare(Three)}, References3)
    \cup {Bare(<<>>), Bare(<<Three[1], Three[2], Three[1]>>)}
=============================================================================
