-------------------------- MODULE CommittedContainer --------------------------
(***************************************************************************)
(* What an opened container promises, however it is checked.  A file is    *)
(* taken for one version of the container, one the caller's policy admits, *)
(* or it is refused; every payload it then hands out as committed is that  *)
(* version's.  A file put together of several versions, or changed since   *)
(* it was written, never shows in what is handed out.                      *)
(***************************************************************************)
CONSTANTS Versions, Payloads

VARIABLES
  admitted,  \* the versions the policy lets a file be taken for
  held,      \* "closed", "refused", or the version the file is taken for
  handed     \* the payloads handed out as committed, each with its version

Init ==
  /\ admitted \in SUBSET Versions
  /\ held = "closed"
  /\ handed = {}

Accept ==
  /\ held = "closed"
  /\ held' \in admitted
  /\ UNCHANGED <<admitted, handed>>

Refuse ==
  /\ held = "closed"
  /\ held' = "refused"
  /\ UNCHANGED <<admitted, handed>>

HandOut(p) ==
  /\ held \in Versions
  /\ handed' = handed \cup {<<p, held>>}
  /\ UNCHANGED <<admitted, held>>

Next == Accept \/ Refuse \/ \E p \in Payloads : HandOut(p)

Spec == Init /\ [][Next]_<<admitted, held, handed>>
=============================================================================
