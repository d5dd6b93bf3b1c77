-------------------------- MODULE MCCompileRender ---------------------------
(***************************************************************************)
(* Two documents with a few blocks between them; one heading of each tier, *)
(* two levels of headings, and contents that recur in both regions.        *)
(***************************************************************************)
EXTENDS CompileRender

MCClassify ==
  "When to use" :> [kind |-> "applicability", tier |-> 0]
    @@ "Workflow" :> [kind |-> "prose", tier |-> 1]
    @@ "Reference" :> [kind |-> "resource", tier |-> 2]
MCMaxBlocks == "single" :> 4 @@ "bundle" :> 3 @@ "org" :> 2
MCMaxBlocksOrg == "org" :> 1
MCTitles == DOMAIN MCClassify
=============================================================================
