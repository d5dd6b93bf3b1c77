-------------------------- MODULE MCPreOrderCheck ---------------------------
(***************************************************************************)
(* PreOrderCheck over every node table of N entries.  Parent fields range  *)
(* over every index, one index past the end (any larger one is refused by  *)
(* the same comparison) and NONE32.                                        *)
(***************************************************************************)
EXTENDS PreOrderCheck

CONSTANT TierCount

MCNone == 99
MCParentField == 0 .. N \cup {MCNone}
MCTier == 0 .. TierCount-1
=============================================================================
