---------------------------- MODULE MCSegmentRun ----------------------------
(* Calls that differ in what one question is about: the refusals, the      *)
(* imports against the capabilities, or the budgets.                       *)
EXTENDS SegmentRun

Good ==
  [present |-> TRUE, intact |-> TRUE, trust |-> "Portable", allow |-> FALSE,
   abi |-> "Wasm32Core", caps |-> {"stdio"},
   ask |-> [mem |-> 1, cpu |-> 1, wall |-> 2], compiles |-> TRUE,
   imports |-> {"fd_write"}, suits |-> TRUE, start |-> FALSE, entry |-> TRUE]

MCRefusals ==
  {[Good EXCEPT !.present = p, !.intact = i, !.trust = t, !.allow = w, !.abi = a,
                !.compiles = c, !.suits = s, !.entry = e, !.ask.mem = m] :
     p \in BOOLEAN, i \in BOOLEAN, t \in {"Portable", "HostTrusted"},
     w \in BOOLEAN, a \in {"Wasm32Core", "Wasm32Wasip2", "Sh"},
     c \in BOOLEAN, s \in BOOLEAN, e \in BOOLEAN, m \in 1 .. 2}

MCImports ==
  {[Good EXCEPT !.caps = c, !.imports = i] :
     c \in SUBSET (CapKinds \cup {FREE}), i \in SUBSET Imports}

MCBudgets ==
  {[Good EXCEPT !.start = s, !.ask.cpu = c, !.ask.wall = w] :
     s \in BOOLEAN, c \in 0 .. 3, w \in 0 .. 6}

MCCalls ==
  {c \in MCRefusals : c.trust = "Portable" => c.abi # "Sh"}
    \cup MCImports \cup MCBudgets
MCCeiling == [mem |-> 1, cpu |-> 2, wall |-> 5]
=============================================================================
