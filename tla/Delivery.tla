------------------------------ MODULE Delivery ------------------------------
(***************************************************************************)
(* An organization at work: each member waits for some others, and acts    *)
(* once, after all of those have acted.                                    *)
(***************************************************************************)
VARIABLES
  waits,   \* for each member that exists, the members it waits for
  acted    \* the members that have acted

vars == <<waits, acted>>

Init ==
  /\ \A m \in DOMAIN waits : waits[m] \subseteq DOMAIN waits
  /\ acted = {}

Act(m) ==
  /\ waits[m] \subseteq acted
  /\ acted' = acted \cup {m}
  /\ UNCHANGED waits

Next == \E m \in (DOMAIN waits) \ acted : Act(m)

Spec == Init /\ [][Next]_vars
=============================================================================
