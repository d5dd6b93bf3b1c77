--------------------------- MODULE CycleFreeProofs --------------------------
(***************************************************************************)
(* For every number of nodes and every adjacency lists: the depth-first    *)
(* search of CycleFree returns Ok(()) only for an acyclic graph and an     *)
(* error only with a node that lies on a cycle.                            *)
(***************************************************************************)
EXTENDS CycleFree, SequenceTheorems, TLAPS

-----------------------------------------------------------------------------
(***************************************************************************)
(* Reachability in an arbitrary graph.                                     *)
(***************************************************************************)

\* An edge is a path.
LEMMA EdgeReaches ==
  ASSUME NEW g, NEW a, NEW b \in Successors(g, a)
  PROVE  Reaches(g, a, b)
BY DEF Reaches

\* A path followed by an edge is a path.
LEMMA ReachesThenEdge ==
  ASSUME NEW g, NEW a, NEW b, NEW c \in Successors(g, b), Reaches(g, a, b)
  PROVE  Reaches(g, a, c)
BY DEF Reaches, SuccessorClosed

\* A node outside a closed set that holds all its successors is on no cycle.
LEMMA NotOnCycle ==
  ASSUME NEW g, NEW a, NEW S \in SUBSET DOMAIN g,
         Successors(g, a) \subseteq S, SuccessorClosed(g, S), a \notin S
  PROVE  ~Reaches(g, a, a)
BY DEF Reaches

-----------------------------------------------------------------------------
(***************************************************************************)
(* The inductive invariant.                                                *)
(***************************************************************************)
Finished == {n \in Nodes : mark[n] = "Black"}

\* Finished nodes lead only to finished nodes, and lie on no cycle.
FinishedInv ==
  /\ SuccessorClosed(adj, Finished)
  /\ \A n \in Finished : ~Reaches(adj, n, n)

\* The edges a frame has followed lead to finished nodes, except that the
\* last one may lead to the frame above.
FrameInv ==
  \A k \in 1 .. Depth : \A e \in 1 .. stack[k].edge :
    \/ mark[adj[stack[k].node][e]] = "Black"
    \/ answer = "cycle"
    \/ /\ k < Depth /\ e = stack[k].edge
       /\ adj[stack[k].node][e] = stack[k+1].node

\* Start nodes tried are no longer White.
RootInv == \A n \in Nodes : n < root => mark[n] # "White"

AnswerInv == answer = "ok" => \A n \in Nodes : mark[n] = "Black"

IInv ==
  /\ TypeOK /\ StackIsPath /\ FinishedInv /\ FrameInv /\ RootInv /\ AnswerInv
  /\ CycleIsReal

\* The invariant holds before the search starts.
LEMMA InitInv == ASSUME Init PROVE IInv
<1>1. Depth = 0 /\ stack \in Seq(Frame)
  BY DEF Init, Depth
<1>2. Finished = {}
  BY DEF Init, Finished
<1>3. TypeOK
  BY <1>1, GraphAssumption DEF Init, TypeOK
<1>4. StackIsPath /\ FrameInv
  BY <1>1 DEF Init, StackIsPath, FrameInv
<1>5. FinishedInv
  BY <1>2 DEF FinishedInv, SuccessorClosed
<1>6. RootInv /\ AnswerInv /\ CycleIsReal
  BY GraphAssumption DEF Init, RootInv, AnswerInv, CycleIsReal, Nodes
<1>7. QED
  BY <1>3, <1>4, <1>5, <1>6 DEF IInv

\* What TypeOK says of the lists.
LEMMA ListTypes ==
  ASSUME TypeOK, NEW n \in Nodes
  PROVE  /\ DOMAIN adj = Nodes /\ adj[n] \in Seq(Nodes) /\ Len(adj[n]) \in Nat
         /\ \A e \in 1 .. Len(adj[n]) : adj[n][e] \in Nodes
         /\ Successors(adj, n) \subseteq Nodes
<1>1. DOMAIN adj = Nodes /\ adj[n] \in Seq(Nodes)
  BY GraphAssumption DEF TypeOK
<1>2. Len(adj[n]) \in Nat /\ \A e \in 1 .. Len(adj[n]) : adj[n][e] \in Nodes
  BY <1>1
<1>3. QED
  BY <1>1, <1>2 DEF Successors

\* Starting a search preserves the invariant.
LEMMA StartInv == ASSUME IInv, Start PROVE IInv'
<1> USE DEF IInv
<1>1. root \in Nodes /\ root + 1 \in 0 .. N
  BY GraphAssumption DEF Start, TypeOK, Nodes
<1>2. /\ stack' \in Seq(Frame) /\ Depth' = 1
      /\ stack'[1].node = root /\ stack'[1].edge = 0
  BY <1>1 DEF Start, Frame, Depth
<1>3. TypeOK'
  BY <1>1, <1>2, ListTypes DEF Start, TypeOK
<1>4. Finished' = Finished
  BY <1>1 DEF Start, Finished, TypeOK
<1>5. FinishedInv'
  BY <1>4 DEF Start, FinishedInv
<1>6. StackIsPath'
  BY <1>1, <1>2 DEF Start, StackIsPath, TypeOK, Depth
<1>7. FrameInv' /\ AnswerInv' /\ CycleIsReal'
  BY <1>2 DEF Start, FrameInv, AnswerInv, CycleIsReal
<1>8. RootInv'
  BY <1>1, GraphAssumption DEF Start, RootInv, TypeOK, Nodes
<1>9. QED
  BY <1>3, <1>5, <1>6, <1>7, <1>8

\* Passing over a start node preserves the invariant.
LEMMA SkipInv == ASSUME IInv, Skip PROVE IInv'
<1>1. root \in Nat /\ root + 1 \in 0 .. N
  BY GraphAssumption DEF IInv, Skip, TypeOK
<1>2. TypeOK'
  BY <1>1 DEF IInv, Skip, TypeOK, Depth
<1>3. RootInv'
  BY <1>1, GraphAssumption DEF IInv, Skip, RootInv, Nodes
<1>4. QED
  BY <1>2, <1>3 DEF IInv, Skip, StackIsPath, FinishedInv, FrameInv, AnswerInv,
     CycleIsReal, Finished, Depth

\* With no start node left and nothing on the stack, everything is finished.
LEMMA FinishInv == ASSUME IInv, Finish PROVE IInv'
<1>1. \A n \in Nodes : mark[n] = "Black"
  <2>1. SUFFICES ASSUME NEW n \in Nodes PROVE mark[n] = "Black"
    OBVIOUS
  <2>2. mark[n] # "White"
    BY GraphAssumption DEF IInv, Finish, RootInv, Nodes
  <2>3. Depth = 0
    BY DEF Finish, Depth
  <2>4. mark[n] # "Grey"
    BY <2>3 DEF IInv, StackIsPath
  <2>5. QED
    BY <2>2, <2>4 DEF IInv, TypeOK
<1>2. QED
  BY <1>1 DEF IInv, Finish, TypeOK, StackIsPath, FinishedInv, FrameInv, RootInv,
     AnswerInv, CycleIsReal, Finished, Depth, Frame

\* The frame on top, and the stack with that frame advanced.
LEMMA AdvancedStack ==
  ASSUME TypeOK, HasEdge
  PROVE  /\ Depth \in Nat /\ Depth >= 1 /\ Top.node \in Nodes /\ Top.edge \in Nat
         /\ Target \in Nodes /\ Target \in Successors(adj, Top.node)
         /\ Advanced \in Seq(Frame) /\ Len(Advanced) = Depth
         /\ \A k \in 1 .. Depth : Advanced[k].node = stack[k].node
         /\ \A k \in 1 .. Depth : k # Depth => Advanced[k] = stack[k]
         /\ Advanced[Depth].edge = Top.edge + 1
         /\ Top.edge + 1 \in 1 .. Len(adj[Top.node])
<1>1. Depth \in Nat /\ Depth >= 1
  BY DEF TypeOK, HasEdge, Depth
<1>2. \A k \in 1 .. Depth : stack[k] \in Frame
  BY DEF TypeOK, Depth
<1>3. Top \in Frame
  BY <1>1, <1>2 DEF Top
<1>4. Top.node \in Nodes /\ Top.edge \in Nat
  BY <1>3 DEF Frame
<1>5. Top.edge + 1 \in 1 .. Len(adj[Top.node])
  BY <1>4, ListTypes DEF HasEdge
<1>6. Target \in Nodes /\ Target \in Successors(adj, Top.node)
  BY <1>4, <1>5, ListTypes DEF Target, Successors
<1>7. [Top EXCEPT !.edge = @ + 1] \in Frame
  BY <1>3 DEF Frame
<1>8. Advanced = [stack EXCEPT ![Depth] = [Top EXCEPT !.edge = @ + 1]]
  BY DEF Advanced, Top
<1>9. Advanced \in Seq(Frame) /\ Len(Advanced) = Depth
  BY <1>1, <1>7, <1>8 DEF TypeOK, Depth
<1>10. /\ Advanced[Depth] = [Top EXCEPT !.edge = @ + 1]
       /\ \A k \in 1 .. Depth : k # Depth => Advanced[k] = stack[k]
  BY <1>1, <1>8 DEF TypeOK, Depth
<1>11. Advanced[Depth].edge = Top.edge + 1 /\ Advanced[Depth].node = Top.node
  BY <1>3, <1>10 DEF Frame
<1>12. QED
  BY <1>1, <1>4, <1>5, <1>6, <1>9, <1>10, <1>11 DEF Top

\* Following an edge to a finished node preserves the invariant.
LEMMA PassByInv == ASSUME IInv, PassBy PROVE IInv'
<1> USE DEF IInv
<1>1. HasEdge /\ TypeOK /\ Depth' = Depth /\ stack' = Advanced
      /\ UNCHANGED <<adj, mark, root, answer, witness>>
  BY AdvancedStack DEF PassBy, Depth
<1>2. TypeOK'
  BY <1>1, AdvancedStack, SMTT(30) DEF TypeOK, Top
<1>3. StackIsPath'
  BY <1>1, AdvancedStack, SMTT(30) DEF StackIsPath
<1>4. FrameInv'
  <2>1. SUFFICES ASSUME NEW k \in 1 .. Depth, NEW e \in 1 .. Advanced[k].edge
                 PROVE  \/ mark[adj[stack[k].node][e]] = "Black"
                        \/ answer = "cycle"
                        \/ /\ k < Depth /\ e = stack[k].edge
                           /\ adj[stack[k].node][e] = stack[k+1].node
    BY <1>1, AdvancedStack, SMTT(30) DEF FrameInv
  <2>2. CASE k < Depth
    BY <1>1, <2>1, <2>2, AdvancedStack, SMTT(30) DEF FrameInv
  <2>3. CASE k = Depth /\ e = Top.edge + 1
    BY <1>1, <2>3 DEF PassBy, Target, Top
  <2>4. CASE k = Depth /\ e \in 1 .. Top.edge
    BY <1>1, <2>4, AdvancedStack DEF FrameInv, Top
  <2>5. QED
    BY <1>1, <2>1, <2>2, <2>3, <2>4, AdvancedStack
<1>5. QED
  BY <1>1, <1>2, <1>3, <1>4
  DEF FinishedInv, RootInv, AnswerInv, CycleIsReal, Finished

\* A node on the stack reaches every node above it; following an edge from the
\* top back to it closes a cycle.
LEMMA CloseCycleInv == ASSUME IInv, CloseCycle PROVE IInv'
<1> USE DEF IInv
<1>1. HasEdge /\ TypeOK /\ Depth' = Depth /\ stack' = Advanced /\ answer' = "cycle"
      /\ witness' = Target /\ UNCHANGED <<adj, mark, root>>
  BY AdvancedStack DEF CloseCycle, Depth
<1>2. TypeOK'
  <2>1. witness' \in Nat
    BY <1>1, AdvancedStack, GraphAssumption DEF Nodes
  <2>2. \A k \in 1 .. Depth : Advanced[k].edge <= Len(adj[Advanced[k].node])
    BY <1>1, AdvancedStack DEF TypeOK, Top
  <2>3. Advanced \in Seq(Frame)
    BY <1>1, AdvancedStack
  <2>4. QED
    BY <1>1, <2>1, <2>2, <2>3 DEF TypeOK
<1>3. StackIsPath'
  BY <1>1, AdvancedStack DEF StackIsPath
<1>4. Reaches(adj, Target, Target)
  <2>1. PICK k \in 1 .. Depth : stack[k].node = Target
    BY <1>1, AdvancedStack DEF CloseCycle, StackIsPath
  <2>2. CASE k = Depth
    BY <1>1, <2>1, <2>2, AdvancedStack, EdgeReaches DEF Top
  <2>3. CASE k < Depth
    <3>1. Reaches(adj, Target, Top.node)
      BY <1>1, <2>1, <2>3, AdvancedStack DEF StackIsPath, Top
    <3>2. QED
      BY <1>1, <3>1, AdvancedStack, ReachesThenEdge
  <2>4. QED
    BY <1>1, <2>1, <2>2, <2>3, AdvancedStack
<1>5. FrameInv' /\ AnswerInv' /\ CycleIsReal'
  BY <1>1, <1>4 DEF FrameInv, AnswerInv, CycleIsReal
<1>6. QED
  BY <1>1, <1>2, <1>3, <1>5 DEF FinishedInv, RootInv, Finished

\* Descending to a new node preserves the invariant: it was nowhere on the
\* stack, and every frame now below it reaches it.
LEMMA DescendInv == ASSUME IInv, Descend PROVE IInv'
<1> DEFINE fresh == [node |-> Target, edge |-> 0]
<1> USE DEF IInv
<1>1. HasEdge /\ TypeOK /\ stack' = Append(Advanced, fresh)
      /\ mark' = [mark EXCEPT ![Target] = "Grey"] /\ mark[Target] = "White"
      /\ UNCHANGED <<adj, root, answer, witness>>
  BY DEF Descend
<1>2. fresh \in Frame /\ Target \in Nodes
  BY <1>1, AdvancedStack DEF Frame
<1>3. /\ stack' \in Seq(Frame) /\ Depth' = Depth + 1
      /\ \A k \in 1 .. Depth : stack'[k] = Advanced[k]
      /\ stack'[Depth + 1] = fresh
  BY <1>1, <1>2, AdvancedStack DEF Depth
<1>4. /\ Depth \in Nat /\ Depth >= 1
      /\ \A k \in 1 .. Depth : stack'[k].node = stack[k].node
      /\ stack'[Depth + 1].node = Target /\ stack'[Depth + 1].edge = 0
      /\ \A k \in 1 .. Depth + 1 : k \in 1 .. Depth \/ k = Depth + 1
  BY <1>1, <1>3, AdvancedStack
<1>5. TypeOK'
  <2>1. \A k \in 1 .. Depth' : stack'[k].edge <= Len(adj[stack'[k].node])
    <3>1. SUFFICES ASSUME NEW k \in 1 .. Depth + 1
                   PROVE  stack'[k].edge <= Len(adj[stack'[k].node])
      BY <1>3
    <3>2. CASE k = Depth + 1
      <4>1. Len(adj[Target]) \in Nat
        BY <1>1, <1>2, ListTypes
      <4>2. QED
        BY <1>4, <3>2, <4>1
    <3>3. CASE k = Depth
      BY <1>1, <1>3, <1>4, <3>3, AdvancedStack DEF Top
    <3>4. CASE k < Depth
      <4>1. k \in 1 .. Depth /\ stack'[k] = stack[k]
        BY <1>1, <1>3, <1>4, <3>1, <3>4, AdvancedStack
      <4>2. QED
        BY <1>1, <4>1 DEF TypeOK
    <3>5. QED
      BY <1>4, <3>1, <3>2, <3>3, <3>4
  <2>2. QED
    BY <1>1, <1>2, <1>3, <2>1 DEF TypeOK
<1>6. \A k \in 1 .. Depth : stack[k].node # Target
  BY <1>1, <1>2 DEF StackIsPath
<1>7. \A k \in 1 .. Depth : Reaches(adj, stack[k].node, Target)
  <2>1. SUFFICES ASSUME NEW k \in 1 .. Depth
                 PROVE  Reaches(adj, stack[k].node, Target)
    OBVIOUS
  <2>2. CASE k = Depth
    BY <1>1, <2>2, AdvancedStack, EdgeReaches DEF Top
  <2>3. CASE k < Depth
    <3>1. Reaches(adj, stack[k].node, Top.node)
      BY <1>4, <2>1, <2>3 DEF StackIsPath, Top
    <3>2. QED
      BY <1>1, <3>1, AdvancedStack, ReachesThenEdge
  <2>4. QED
    BY <1>4, <2>1, <2>2, <2>3
<1>8. StackIsPath'
  <2>1. ASSUME NEW n \in Nodes
        PROVE  mark'[n] = "Grey" <=> \E k \in 1 .. Depth + 1 : stack'[k].node = n
    <3>1. CASE n = Target
      BY <1>1, <1>2, <1>4, <3>1 DEF TypeOK
    <3>2. CASE n # Target
      <4>1. mark'[n] = mark[n]
        BY <1>1, <1>2, <3>2 DEF TypeOK
      <4>2. mark[n] = "Grey" <=> \E k \in 1 .. Depth : stack[k].node = n
        BY DEF StackIsPath
      <4>3. QED
        BY <1>4, <3>2, <4>1, <4>2
    <3>3. QED
      BY <3>1, <3>2
  <2>2. ASSUME NEW k \in 1 .. Depth + 1, NEW l \in 1 .. Depth + 1, k < l
        PROVE  /\ stack'[k].node # stack'[l].node
               /\ Reaches(adj, stack'[k].node, stack'[l].node)
    <3>1. k \in 1 .. Depth
      BY <1>4, <2>2
    <3>2. CASE l = Depth + 1
      BY <1>4, <1>6, <1>7, <3>1, <3>2
    <3>3. CASE l \in 1 .. Depth
      BY <1>4, <2>2, <3>1, <3>3 DEF StackIsPath
    <3>4. QED
      BY <1>4, <3>2, <3>3
  <2>3. 1 .. Depth' = 1 .. Depth + 1 /\ adj' = adj
    BY <1>1, <1>3
  <2>4. QED
    BY <2>1, <2>2, <2>3 DEF StackIsPath
<1>9. Finished' = Finished
  BY <1>1, <1>2 DEF Finished, TypeOK
<1>10. FinishedInv'
  BY <1>1, <1>9 DEF FinishedInv
<1>11. FrameInv'
  <2>1. SUFFICES ASSUME NEW k \in 1 .. Depth, NEW e \in 1 .. Advanced[k].edge
                 PROVE  \/ mark'[adj[stack[k].node][e]] = "Black"
                        \/ answer = "cycle"
                        \/ /\ e = Advanced[k].edge
                           /\ adj[stack[k].node][e] = stack'[k+1].node
    <3>1. SUFFICES ASSUME NEW k \in 1 .. Depth', NEW e \in 1 .. stack'[k].edge
                   PROVE  \/ mark'[adj'[stack'[k].node][e]] = "Black"
                          \/ answer' = "cycle"
                          \/ /\ k < Depth' /\ e = stack'[k].edge
                             /\ adj'[stack'[k].node][e] = stack'[k+1].node
      BY DEF FrameInv
    <3>2. k \in 1 .. Depth /\ adj' = adj /\ answer' = answer
      <4>1. k # Depth + 1
        BY <1>4, <3>1
      <4>2. k \in 1 .. Depth + 1
        BY <1>3, <3>1
      <4>3. QED
        BY <1>1, <1>4, <4>1, <4>2
    <3>3. stack'[k] = Advanced[k] /\ stack'[k].node = stack[k].node /\ k < Depth'
      BY <1>3, <1>4, <3>2
    <3>4. QED
      BY <3>1, <3>2, <3>3
  <2>2. ASSUME mark[adj[stack[k].node][e]] = "Black"
        PROVE  mark'[adj[stack[k].node][e]] = "Black"
    BY <1>1, <1>2, <2>2 DEF TypeOK
  <2>3. CASE k < Depth
    <3>1. Advanced[k].edge = stack[k].edge /\ stack'[k+1].node = stack[k+1].node
      BY <1>1, <1>4, <2>3, AdvancedStack
    <3>2. QED
      BY <1>4, <2>1, <2>2, <2>3, <3>1 DEF FrameInv
  <2>4. CASE k = Depth /\ e = Top.edge + 1
    BY <1>1, <1>4, <2>4, AdvancedStack DEF Target, Top
  <2>5. CASE k = Depth /\ e \in 1 .. Top.edge
    <3>1. e \in 1 .. stack[Depth].edge /\ Depth \in 1 .. Depth
      BY <1>4, <2>5 DEF Top
    <3>2. QED
      BY <1>4, <2>2, <2>5, <3>1 DEF FrameInv
  <2>6. QED
    BY <1>1, <2>1, <2>3, <2>4, <2>5, AdvancedStack
<1>12. RootInv'
  BY <1>1, <1>2 DEF RootInv, TypeOK
<1>13. AnswerInv' /\ CycleIsReal'
  BY <1>1 DEF Descend, HasEdge, AnswerInv, CycleIsReal
<1>14. QED
  BY <1>5, <1>8, <1>10, <1>11, <1>12, <1>13

\* Finishing a node preserves the invariant: the finished nodes hold all its
\* successors and are closed, and it is not among them, so no path leads from
\* it back to itself.
LEMMA BacktrackInv == ASSUME IInv, Backtrack PROVE IInv'
<1> DEFINE done == Top.node
<1> USE DEF IInv
<1>1. /\ TypeOK /\ stack # <<>> /\ stack' = SubSeq(stack, 1, Depth - 1)
      /\ Top.edge = Len(adj[done]) /\ mark' = [mark EXCEPT ![done] = "Black"]
      /\ answer = "running" /\ UNCHANGED <<adj, root, answer, witness>>
  BY DEF Backtrack
<1>2. Depth \in Nat /\ Depth >= 1 /\ Depth - 1 \in 0 .. Depth
  BY <1>1 DEF TypeOK, Depth
<1>3. Top \in Frame /\ done \in Nodes /\ Depth \in 1 .. Depth
  <2>1. \A k \in 1 .. Depth : stack[k] \in Frame
    BY <1>1 DEF TypeOK, Depth
  <2>2. QED
    BY <1>2, <2>1 DEF Top, Frame
<1>4. /\ stack' \in Seq(Frame) /\ Depth' = Depth - 1
      /\ \A k \in 1 .. Depth - 1 : stack'[k] = stack[k] /\ k \in 1 .. Depth
  <2>1. \A k \in 1 .. Depth - 1 : stack[k] \in Frame /\ k \in 1 .. Depth
    BY <1>1, <1>2 DEF TypeOK, Depth
  <2>2. /\ stack' \in Seq(Frame)
        /\ Len(stack') = IF 1 <= Depth - 1 THEN (Depth - 1) - 1 + 1 ELSE 0
        /\ \A k \in 1 .. (Depth - 1) - 1 + 1 : stack'[k] = stack[1 + k - 1]
    BY <1>1, <1>2, <2>1, SubSeqProperties
  <2>3. Len(stack') = Depth - 1
    BY <1>2, <2>2
  <2>4. Depth' = Depth - 1
    BY <2>3 DEF Depth
  <2>5. QED
    BY <1>2, <2>1, <2>2, <2>4
<1>5. TypeOK'
  BY <1>1, <1>3, <1>4 DEF TypeOK
<1>6. mark[done] = "Grey"
  BY <1>1, <1>3 DEF StackIsPath, Top
<1>7. Finished' = Finished \cup {done} /\ done \notin Finished
  BY <1>1, <1>3, <1>6 DEF Finished, TypeOK
<1>8. Successors(adj, done) \subseteq Finished
  <2>1. SUFFICES ASSUME NEW e \in 1 .. Len(adj[done])
                 PROVE  adj[done][e] \in Finished
    BY DEF Successors
  <2>2. mark[adj[done][e]] = "Black"
    BY <1>1, <1>3, <2>1 DEF FrameInv, Top
  <2>3. QED
    BY <1>1, <1>3, <2>1, <2>2, ListTypes DEF Finished
<1>9. FinishedInv'
  <2>1. ~Reaches(adj, done, done)
    BY <1>1, <1>3, <1>7, <1>8, NotOnCycle, ListTypes DEF FinishedInv, Finished
  <2>2. SuccessorClosed(adj, Finished \cup {done})
    BY <1>8 DEF FinishedInv, SuccessorClosed
  <2>3. QED
    BY <1>1, <1>7, <2>1, <2>2 DEF FinishedInv
<1>10. StackIsPath'
  <2>1. ASSUME NEW n \in Nodes
        PROVE  mark'[n] = "Grey" <=> \E k \in 1 .. Depth - 1 : stack'[k].node = n
    <3>1. CASE n = done
      <4>1. \A k \in 1 .. Depth - 1 : stack[k].node # done
        BY <1>2, <1>3 DEF StackIsPath, Top
      <4>2. QED
        BY <1>1, <1>3, <1>4, <3>1, <4>1 DEF TypeOK
    <3>2. CASE n # done
      <4>1. mark'[n] = mark[n]
        BY <1>1, <1>3, <3>2 DEF TypeOK
      <4>2. mark[n] = "Grey" <=> \E k \in 1 .. Depth : stack[k].node = n
        BY DEF StackIsPath
      <4>3. \A k \in 1 .. Depth : k \in 1 .. Depth - 1 \/ k = Depth
        BY <1>2
      <4>4. QED
        BY <1>4, <3>2, <4>1, <4>2, <4>3 DEF Top
    <3>3. QED
      BY <3>1, <3>2
  <2>2. ASSUME NEW k \in 1 .. Depth - 1, NEW l \in 1 .. Depth - 1, k < l
        PROVE  /\ stack'[k].node # stack'[l].node
               /\ Reaches(adj, stack'[k].node, stack'[l].node)
    BY <1>4, <2>2 DEF StackIsPath
  <2>3. 1 .. Depth' = 1 .. Depth - 1 /\ adj' = adj
    BY <1>1, <1>4
  <2>4. QED
    BY <2>1, <2>2, <2>3 DEF StackIsPath
<1>11. FrameInv'
  <2>1. SUFFICES ASSUME NEW k \in 1 .. Depth - 1, NEW e \in 1 .. stack[k].edge
                 PROVE  \/ mark'[adj[stack[k].node][e]] = "Black"
                        \/ /\ k < Depth - 1 /\ e = stack[k].edge
                           /\ adj[stack[k].node][e] = stack'[k+1].node
    <3>1. SUFFICES ASSUME NEW k \in 1 .. Depth', NEW e \in 1 .. stack'[k].edge
                   PROVE  \/ mark'[adj'[stack'[k].node][e]] = "Black"
                          \/ answer' = "cycle"
                          \/ /\ k < Depth' /\ e = stack'[k].edge
                             /\ adj'[stack'[k].node][e] = stack'[k+1].node
      BY DEF FrameInv
    <3>2. k \in 1 .. Depth - 1 /\ adj' = adj /\ stack'[k] = stack[k]
      BY <1>1, <1>4, <3>1
    <3>3. QED
      BY <1>4, <3>1, <3>2
  <2>2. ASSUME mark[adj[stack[k].node][e]] = "Black"
        PROVE  mark'[adj[stack[k].node][e]] = "Black"
    BY <1>1, <1>3, <2>2 DEF TypeOK
  <2>3. CASE /\ k < Depth /\ e = stack[k].edge
             /\ adj[stack[k].node][e] = stack[k+1].node
    <3>1. CASE k = Depth - 1
      BY <1>1, <1>2, <1>3, <2>3, <3>1 DEF TypeOK, Top
    <3>2. CASE k < Depth - 1
      BY <1>2, <1>4, <2>3, <3>2
    <3>3. QED
      BY <1>2, <2>1, <3>1, <3>2
  <2>4. QED
    BY <1>1, <1>4, <2>1, <2>2, <2>3 DEF FrameInv
<1>12. RootInv'
  BY <1>1, <1>3 DEF RootInv, TypeOK
<1>13. AnswerInv' /\ CycleIsReal'
  BY <1>1 DEF AnswerInv, CycleIsReal
<1>14. QED
  BY <1>5, <1>9, <1>10, <1>11, <1>12, <1>13

\* Every step preserves the invariant.
LEMMA StepInv == IInv /\ [Next]_vars => IInv'
<1> SUFFICES ASSUME IInv, [Next]_vars PROVE IInv'
  OBVIOUS
<1>1. CASE Next
  BY <1>1, StartInv, SkipInv, FinishInv, CloseCycleInv, DescendInv, PassByInv,
     BacktrackInv DEF Next
<1>2. CASE UNCHANGED vars
  BY <1>2 DEF vars, IInv, TypeOK, StackIsPath, FinishedInv, FrameInv, RootInv,
     AnswerInv, CycleIsReal, Finished, Depth
<1>3. QED
  BY <1>1, <1>2

-----------------------------------------------------------------------------
(***************************************************************************)
(* Theorems                                                                *)
(***************************************************************************)

\* The inductive invariant holds throughout every search.
THEOREM Invariance == Spec => []IInv
BY InitInv, StepInv, PTL DEF Spec

\* Types are kept; in particular no frame runs past its adjacency list.
THEOREM TypeCorrect == Spec => []TypeOK
BY Invariance, PTL DEF IInv

\* No cyclic graph is passed.
THEOREM Soundness == Spec => []OkMeansAcyclic
<1>1. IInv => OkMeansAcyclic
  <2>1. SUFFICES ASSUME IInv, answer = "ok", NEW x \in DOMAIN adj
                 PROVE  ~Reaches(adj, x, x)
    BY DEF OkMeansAcyclic, Acyclic
  <2>2. x \in Finished
    BY <2>1 DEF IInv, TypeOK, AnswerInv, Finished
  <2>3. QED
    BY <2>1, <2>2 DEF IInv, FinishedInv
<1>2. QED
  BY <1>1, Invariance, PTL

\* No acyclic graph is refused, and the node blamed is on a cycle.
THEOREM Completeness == Spec => []CycleIsReal
BY Invariance, PTL DEF IInv

\* The stack is a simple path of exactly the grey nodes.
THEOREM StackCorrect == Spec => []StackIsPath
BY Invariance, PTL DEF IInv

-----------------------------------------------------------------------------
(***************************************************************************)
(* The cycle find_cycle reports.                                           *)
(***************************************************************************)

\* Each frame has last followed the edge to the frame above, and the top one, when
\* a cycle closes, the edge to where it closes.
LinkInv ==
  /\ \A k \in 1 .. Depth - 1 :
       /\ stack[k].edge \in 1 .. Len(adj[stack[k].node])
       /\ adj[stack[k].node][stack[k].edge] = stack[k+1].node
  /\ answer = "cycle" =>
       /\ Depth >= 1 /\ Top.edge \in 1 .. Len(adj[Top.node])
       /\ adj[Top.node][Top.edge] = witness /\ mark[witness] = "Grey" /\ witness \in Nodes

LEMMA LinkStep == ASSUME IInv, LinkInv, [Next]_vars PROVE LinkInv'
<1>0. TypeOK /\ Depth \in Nat /\ DOMAIN stack = 1 .. Depth
  BY DEF IInv, TypeOK, Depth
<1>1. CASE Start
  <2>1. Depth' = 1 /\ answer' # "cycle"
    BY <1>1 DEF Start, Depth
  <2> QED
    BY <2>1 DEF LinkInv
<1>2. CASE Skip \/ Finish \/ UNCHANGED vars
  BY <1>2 DEF Skip, Finish, vars, LinkInv, Depth, Top
<1>3. CASE CloseCycle
  <2>1. /\ HasEdge /\ stack' = Advanced /\ adj' = adj /\ mark' = mark /\ witness' = Target
        /\ mark[Target] = "Grey"
    BY <1>3 DEF CloseCycle
  <2>2. Depth' = Depth
    BY <1>0, <2>1, AdvancedStack DEF Depth
  <2>3. \A k \in 1 .. Depth - 1 :
          /\ stack'[k] = stack[k] /\ stack'[k+1].node = stack[k+1].node
    BY <1>0, <2>1, AdvancedStack
  <2>4. /\ Top'.node = Top.node /\ Top'.edge = Top.edge + 1
        /\ Top.edge + 1 \in 1 .. Len(adj[Top.node])
        /\ adj[Top.node][Top.edge + 1] = Target /\ Target \in Nodes /\ Depth >= 1
    BY <1>0, <2>1, <2>2, AdvancedStack DEF Top, Target
  <2> QED
    BY <2>1, <2>2, <2>3, <2>4 DEF LinkInv
<1>4. CASE Descend
  <2>1. /\ HasEdge /\ adj' = adj /\ answer' = "running"
        /\ stack' = Append(Advanced, [node |-> Target, edge |-> 0])
    BY <1>4 DEF Descend, HasEdge
  <2>2. /\ Advanced \in Seq(Frame) /\ Len(Advanced) = Depth /\ Depth >= 1
        /\ \A k \in 1 .. Depth : Advanced[k].node = stack[k].node
        /\ \A k \in 1 .. Depth : k # Depth => Advanced[k] = stack[k]
        /\ Advanced[Depth].edge = Top.edge + 1
        /\ Top.edge + 1 \in 1 .. Len(adj[Top.node]) /\ adj[Top.node][Top.edge + 1] = Target
    BY <1>0, <2>1, AdvancedStack DEF Target
  <2>3. Depth' = Depth + 1
    BY <2>1, <2>2 DEF Depth
  <2>4. stack'[Depth + 1].node = Target /\ \A k \in 1 .. Depth : stack'[k] = Advanced[k]
    BY <1>0, <2>1, <2>2
  <2>5. ASSUME NEW k \in 1 .. Depth
        PROVE  /\ stack'[k].edge \in 1 .. Len(adj[stack'[k].node])
               /\ adj[stack'[k].node][stack'[k].edge] = stack'[k+1].node
    <3>1. CASE k = Depth
      BY <2>2, <2>4, <3>1 DEF Top
    <3>2. CASE k # Depth
      <4>1. k \in 1 .. Depth - 1 /\ k + 1 \in 1 .. Depth
        BY <1>0, <3>2
      <4>2. stack'[k] = stack[k] /\ stack'[k+1].node = stack[k+1].node
        BY <2>2, <2>4, <3>2, <4>1
      <4> QED
        BY <4>1, <4>2 DEF LinkInv
    <3> QED
      BY <3>1, <3>2
  <2> QED
    BY <1>0, <2>1, <2>3, <2>5 DEF LinkInv
<1>5. CASE PassBy
  <2>1. HasEdge /\ stack' = Advanced /\ adj' = adj /\ answer' = "running"
    BY <1>5 DEF PassBy, HasEdge
  <2>2. Depth' = Depth
    BY <1>0, <2>1, AdvancedStack DEF Depth
  <2>3. \A k \in 1 .. Depth - 1 :
          /\ stack'[k] = stack[k] /\ stack'[k+1].node = stack[k+1].node
    BY <1>0, <2>1, AdvancedStack
  <2> QED
    BY <2>1, <2>2, <2>3 DEF LinkInv
<1>6. CASE Backtrack
  <2>1. /\ stack' = SubSeq(stack, 1, Depth - 1) /\ stack # <<>> /\ adj' = adj
        /\ answer' = "running"
    BY <1>6 DEF Backtrack
  <2>2. Depth >= 1
    BY <1>0, <2>1 DEF IInv, TypeOK, Depth
  <2>3. Depth' = Depth - 1 /\ \A k \in 1 .. Depth - 1 : stack'[k] = stack[k]
    BY <1>0, <2>1, <2>2 DEF TypeOK, Depth
  <2> QED
    BY <1>0, <2>1, <2>2, <2>3 DEF LinkInv
<1> QED
  BY <1>1, <1>2, <1>3, <1>4, <1>5, <1>6 DEF Next

LEMMA LinkInvariance == Spec => []LinkInv
<1>1. Init => LinkInv
  <2> SUFFICES ASSUME Init PROVE LinkInv
    OBVIOUS
  <2>1. Depth = 0 /\ answer # "cycle"
    BY DEF Init, Depth
  <2> QED
    BY <2>1 DEF LinkInv
<1>2. IInv /\ LinkInv /\ [Next]_vars => LinkInv'
  BY LinkStep
<1> QED
  BY <1>1, <1>2, Invariance, PTL DEF Spec

LEMMA LinksMakeCycle == ASSUME IInv, LinkInv PROVE ReportsCycle
<1> DEFINE at == CHOOSE k \in 1 .. Depth : OnStack[k] = witness
<1> SUFFICES ASSUME answer = "cycle"
             PROVE  LET length == Len(Reported) - 1
                    IN  /\ length >= 1 /\ Reported[length + 1] = Reported[1]
                        /\ \A i \in 1 .. length : Reported[i+1] \in Successors(adj, Reported[i])
                        /\ \A i, j \in 1 .. length : Reported[i] = Reported[j] => i = j
  BY DEF ReportsCycle
<1>1. /\ Depth \in Nat /\ Depth >= 1 /\ \A k \in 1 .. Depth : stack[k].node \in Nodes
      /\ witness \in Nodes
  <2>1. TypeOK /\ Depth >= 1 /\ witness \in Nodes
    BY DEF IInv, LinkInv
  <2>2. stack \in Seq(Frame) /\ Depth = Len(stack)
    BY <2>1 DEF TypeOK, Depth
  <2>3. Depth \in Nat /\ \A k \in 1 .. Depth : stack[k] \in Frame
    BY <2>2
  <2>4. \A f \in Frame : f.node \in Nodes
    BY DEF Frame
  <2> QED
    BY <2>1, <2>3, <2>4
<1>2. \A k \in 1 .. Depth : OnStack[k] = stack[k].node
  BY DEF OnStack
<1>3. at \in 1 .. Depth /\ OnStack[at] = witness
  <2>1. \E k \in 1 .. Depth : OnStack[k] = witness
    BY <1>2 DEF IInv, StackIsPath, LinkInv
  <2> QED
    BY <2>1
<1> HIDE DEF at
<1> DEFINE length == Depth - at + 1
<1>4. /\ OnStack \in Seq(Nodes) /\ Len(OnStack) = Depth
  BY <1>1, <1>2 DEF OnStack
<1>5. /\ SubSeq(OnStack, at, Depth) \in Seq(Nodes) /\ Len(SubSeq(OnStack, at, Depth)) = length
      /\ \A i \in 1 .. length : SubSeq(OnStack, at, Depth)[i] = OnStack[at + i - 1]
  BY <1>1, <1>3, <1>4
<1>6. Reported = Append(SubSeq(OnStack, at, Depth), witness)
  BY DEF Reported, at
<1>7. /\ length \in Nat /\ length >= 1 /\ Len(Reported) = length + 1
      /\ \A i \in 1 .. length : at + i - 1 \in 1 .. Depth /\ Reported[i] = stack[at + i - 1].node
      /\ Reported[length + 1] = witness
  <2>1. length \in Nat /\ length >= 1 /\ \A i \in 1 .. length : at + i - 1 \in 1 .. Depth
    BY <1>1, <1>3
  <2>2. /\ Len(Reported) = length + 1 /\ Reported[length + 1] = witness
        /\ \A i \in 1 .. length : Reported[i] = OnStack[at + i - 1]
    BY <1>1, <1>5, <1>6, <2>1
  <2> QED
    BY <1>2, <2>1, <2>2
<1>8. Reported[1] = witness
  BY <1>1, <1>2, <1>3, <1>7
<1>9. ASSUME NEW i \in 1 .. length
      PROVE  Reported[i+1] \in Successors(adj, Reported[i])
  <2> DEFINE k == at + i - 1
  <2>1. k \in 1 .. Depth /\ Reported[i] = stack[k].node
    BY <1>7
  <2>2. stack[k].edge \in 1 .. Len(adj[stack[k].node])
        /\ adj[stack[k].node][stack[k].edge] = Reported[i+1]
    <3>1. CASE i = length
      <4>1. k = Depth /\ i + 1 = length + 1
        BY <1>1, <1>3, <3>1
      <4> QED
        BY <1>7, <4>1 DEF LinkInv, Top
    <3>2. CASE i # length
      <4>1. k \in 1 .. Depth - 1 /\ i + 1 \in 1 .. length /\ at + (i + 1) - 1 = k + 1
        BY <1>1, <1>3, <3>2
      <4> QED
        BY <1>7, <4>1 DEF LinkInv
    <3> QED
      BY <3>1, <3>2
  <2> QED
    BY <2>1, <2>2 DEF Successors
<1>10. ASSUME NEW i \in 1 .. length, NEW j \in 1 .. length, Reported[i] = Reported[j]
       PROVE  i = j
  <2>1. /\ at + i - 1 \in 1 .. Depth /\ at + j - 1 \in 1 .. Depth
        /\ stack[at + i - 1].node = stack[at + j - 1].node
    BY <1>7, <1>10
  <2>2. at + i - 1 = at + j - 1
    BY <1>1, <2>1 DEF IInv, StackIsPath
  <2> QED
    BY <1>1, <1>3, <2>2
<1> QED
  BY <1>7, <1>8, <1>9, <1>10

\* The planner names the members of a cycle in the order they wait on each other,
\* whatever the manifest relates (org.rs:398, 410-415).
THEOREM CycleReported == Spec => []ReportsCycle
<1>1. IInv /\ LinkInv => ReportsCycle
  BY LinksMakeCycle
<1> QED
  BY <1>1, Invariance, LinkInvariance, PTL
=============================================================================
