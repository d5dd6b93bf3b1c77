----------------------------- MODULE CycleFree ------------------------------
(***************************************************************************)
(* `cycle_free` (skill-format/src/validate.rs): the depth-first search     *)
(* that decides whether the NEEDS edges, and then all obligation edges, of *)
(* a container are free of cycles.  It keeps its own stack of (node, next  *)
(* edge) frames so that a deep graph cannot overflow the thread's.         *)
(*                                                                         *)
(* One action is one turn of a loop: of the `for` over start nodes, or of  *)
(* the `while` over the stack.                                             *)
(*                                                                         *)
(* `find_cycle` of the planner (skillc/src/org.rs) is the same search      *)
(* written as a recursion: its calls are the frames, and its stack holds   *)
(* their nodes.  It answers with the cycle (Reported).                     *)
(***************************************************************************)
EXTENDS Digraphs

CONSTANTS N,      \* number of nodes
          Lists   \* the adjacency lists a node can have

Nodes == 0 .. N-1

\* check_edges has refused every edge whose target is not a node.
ASSUME GraphAssumption ==
  /\ N \in Nat
  /\ Lists \subseteq Seq(Nodes)

VARIABLES
  adj,      \* the adjacency lists, never written
  mark,     \* White: not seen; Grey: on the stack; Black: finished
  stack,    \* frames, the last one on top; `edge` counts edges followed
  root,     \* the next start node of the `for` loop
  answer,   \* "running", then what the function returns
  witness   \* the node of Err(node), once answer = "cycle"

vars == <<adj, mark, stack, root, answer, witness>>

Frame == [node : Nodes, edge : Nat]
Depth == Len(stack)
Top == stack[Depth]

TypeOK ==
  /\ adj \in [Nodes -> Lists]
  /\ mark \in [Nodes -> {"White", "Grey", "Black"}]
  /\ stack \in Seq(Frame)
  /\ \A k \in 1 .. Depth : stack[k].edge <= Len(adj[stack[k].node])
  /\ root \in 0 .. N
  /\ answer \in {"running", "ok", "cycle"}
  /\ witness \in Nat

Init ==
  /\ adj \in [Nodes -> Lists]
  /\ mark = [n \in Nodes |-> "White"]
  /\ stack = <<>>
  /\ root = 0
  /\ answer = "running"
  /\ witness = 0

\* The next start node has not been seen: begin a search there.
Start ==
  /\ answer = "running" /\ stack = <<>> /\ root < N /\ mark[root] = "White"
  /\ stack' = <<[node |-> root, edge |-> 0]>>
  /\ mark' = [mark EXCEPT ![root] = "Grey"]
  /\ root' = root + 1
  /\ UNCHANGED <<adj, answer, witness>>

\* It has: `continue`.
Skip ==
  /\ answer = "running" /\ stack = <<>> /\ root < N /\ mark[root] # "White"
  /\ root' = root + 1
  /\ UNCHANGED <<adj, mark, stack, answer, witness>>

Finish ==
  /\ answer = "running" /\ stack = <<>> /\ root = N
  /\ answer' = "ok"
  /\ UNCHANGED <<adj, mark, stack, root, witness>>

HasEdge ==
  answer = "running" /\ stack # <<>> /\ Top.edge < Len(adj[Top.node])

Target == adj[Top.node][Top.edge + 1]

\* The top frame with one more edge followed.
Advanced == [stack EXCEPT ![Depth].edge = @ + 1]

\* Faulty: any node seen before closes a cycle.
CloseOnSeen ==
  /\ HasEdge /\ mark[Target] # "White"
  /\ answer' = "cycle"
  /\ witness' = Target
  /\ stack' = Advanced
  /\ UNCHANGED <<adj, mark, root>>

\* The edge leads back into the stack.
CloseCycle ==
  /\ HasEdge /\ mark[Target] = "Grey"
  /\ answer' = "cycle"
  /\ witness' = Target
  /\ stack' = Advanced
  /\ UNCHANGED <<adj, mark, root>>

\* Faulty: the new node is finished as soon as it is reached.
DescendBlack ==
  /\ HasEdge /\ mark[Target] = "White"
  /\ stack' = Append(Advanced, [node |-> Target, edge |-> 0])
  /\ mark' = [mark EXCEPT ![Target] = "Black"]
  /\ UNCHANGED <<adj, root, answer, witness>>

\* The edge leads to a new node, whose own edges come first.
Descend ==
  /\ HasEdge /\ mark[Target] = "White"
  /\ stack' = Append(Advanced, [node |-> Target, edge |-> 0])
  /\ mark' = [mark EXCEPT ![Target] = "Grey"]
  /\ UNCHANGED <<adj, root, answer, witness>>

\* Faulty: the frame is put back as it was popped.
PassBySame ==
  /\ HasEdge /\ mark[Target] = "Black"
  /\ UNCHANGED vars

\* The edge leads to a finished node.
PassBy ==
  /\ HasEdge /\ mark[Target] = "Black"
  /\ stack' = Advanced
  /\ UNCHANGED <<adj, mark, root, answer, witness>>

\* All edges of the top node are followed: it is finished.
Backtrack ==
  /\ answer = "running" /\ stack # <<>> /\ Top.edge = Len(adj[Top.node])
  /\ stack' = SubSeq(stack, 1, Depth - 1)
  /\ mark' = [mark EXCEPT ![Top.node] = "Black"]
  /\ UNCHANGED <<adj, root, answer, witness>>

Next ==
  Start \/ Skip \/ Finish \/ CloseCycle \/ Descend \/ PassBy \/ Backtrack

\* cycle_free is a sequential function: it runs until it returns.
Spec == Init /\ [][Next]_vars /\ WF_vars(Next)
-----------------------------------------------------------------------------
OnStack == [k \in 1 .. Depth |-> stack[k].node]

\* Faulty: the path from where the search started.
ReportedFromStart == Append(OnStack, witness)

\* find_cycle: the path from where the cycle closes, and back.
Reported ==
  LET at == CHOOSE k \in 1 .. Depth : OnStack[k] = witness
  IN  Append(SubSeq(OnStack, at, Depth), witness)
-----------------------------------------------------------------------------
(***************************************************************************)
(* Properties                                                              *)
(***************************************************************************)

\* Ok(()) is returned only for a graph none of whose nodes can be reached
\* from itself, whatever the order of nodes and edges (validate.rs:169-203).
OkMeansAcyclic == answer = "ok" => Acyclic(adj)

\* The node named in the error really lies on a cycle: not merely on the way
\* to one, and never a node reached twice along different paths.
CycleIsReal == answer = "cycle" => Reaches(adj, witness, witness)

\* "Returns the members on a cycle, in the order they wait on each other"
\* (skillc/src/org.rs:398): each is a successor of the one before, the last is the
\* first again, and no other comes twice.
ReportsCycle ==
  answer = "cycle" =>
    LET length == Len(Reported) - 1
    IN  /\ length >= 1 /\ Reported[length + 1] = Reported[1]
        /\ \A i \in 1 .. length : Reported[i+1] \in Successors(adj, Reported[i])
        /\ \A i, j \in 1 .. length : Reported[i] = Reported[j] => i = j

\* Grey means "on the stack", once, and each frame's node is reachable from
\* every frame below it.  Two frames for one node would make a diamond look
\* like a cycle.
StackIsPath ==
  /\ \A n \in Nodes : mark[n] = "Grey" <=> \E k \in 1 .. Depth : stack[k].node = n
  /\ \A k, l \in 1 .. Depth :
       k < l => /\ stack[k].node # stack[l].node
                /\ Reaches(adj, stack[k].node, stack[l].node)

\* The search ends, for every graph: cycles, self-loops and repeated edges
\* included.
Terminates == <>(answer # "running")
=============================================================================
