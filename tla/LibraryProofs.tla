---------------------------- MODULE LibraryProofs ----------------------------
(***************************************************************************)
(* Proofs about `Library` and the tools, for every directory, release,     *)
(* number of clients, query, limit and measure of words and meaning.       *)
(*                                                                         *)
(* Most of it is about the tables of a file (in order): that skills lie    *)
(* one after another in pre-order, so that a node is in the subtree of the *)
(* skill it was written for and of no other; that the n-th segment has the *)
(* n-th record; that an edge's ends belong to the skills it was drawn      *)
(* between; that the commitment over a skill's root is the file's; that    *)
(* the catalogue and the vectors are laid out alike; and that the blend    *)
(* rises with either score, so the list is in order.                       *)
(*                                                                         *)
(* The invariant then says that every answer is right when it is given,    *)
(* and stays so: what is held and the catalogue change only before the     *)
(* first call, and a release written over a file changes neither.  A       *)
(* search carries the scores of meaning between its steps: zeros until it  *)
(* has had the model, and then zeros or the meaning for every skill.       *)
(***************************************************************************)
EXTENDS Library, FiniteSetTheorems, WellFoundedInduction, TLAPS

-----------------------------------------------------------------------------
(***************************************************************************)
(* Numbers, sequences and orders                                           *)
(***************************************************************************)
\* A set of numbers has a least.
LEMMA Smallest ==
  ASSUME NEW S, S \subseteq Nat, S # {}
  PROVE  \E n \in S : \A m \in S : n <= m
<1>1. IsWellFoundedOn(OpToRel(<, Nat), Nat)
  BY NatLessThanWellFounded
<1>2. PICK n \in S : \A m \in S : ~ (<<m, n>> \in OpToRel(<, Nat))
  BY <1>1, WFMin
<1>3. \A m \in S : ~ (m < n)
  BY <1>2 DEF OpToRel
<1> QED
  BY <1>3

\* What concatenation is made of.
LEMMA ConcatIs ==
  ASSUME NEW S, NEW s \in Seq(S), NEW t \in Seq(S)
  PROVE  /\ s \o t \in Seq(S) /\ Len(s \o t) = Len(s) + Len(t)
         /\ Len(s) \in Nat /\ Len(t) \in Nat
         /\ \A i \in 1 .. Len(s) : (s \o t)[i] = s[i]
         /\ \A i \in 1 .. Len(t) : (s \o t)[Len(s) + i] = t[i]
OBVIOUS

\* The equation Upward is defined by has a solution.
LEMMA PathsExist ==
  ASSUME NEW n \in Nat, NEW nodes,
         \A i \in 1 .. n : nodes[i].parent = 0 \/ nodes[i].parent \in 1 .. i-1
  PROVE  \E p : p = [i \in 1 .. n |-> {i} \cup (IF nodes[i].parent = 0 THEN {} ELSE p[nodes[i].parent])]
<1> DEFINE Follows(p, k) ==
             \A i \in 1 .. k : p[i] = {i} \cup (IF nodes[i].parent = 0 THEN {} ELSE p[nodes[i].parent])
           Without == {k \in 0 .. n : ~ \E p : Follows(p, k)}
<1>1. Without = {}
  <2> SUFFICES ASSUME Without # {} PROVE FALSE
    OBVIOUS
  <2>1. PICK k \in Without : \A m \in Without : k <= m
    <3>1. Without \subseteq Nat
      OBVIOUS
    <3> HIDE DEF Without
    <3> QED
      BY <3>1, Smallest
  <2>2. k \in 0 .. n /\ ~ \E p : Follows(p, k)
    BY <2>1
  <2>3. k # 0
    <3>1. \A p : Follows(p, 0)
      OBVIOUS
    <3> HIDE DEF Follows
    <3> QED
      BY <2>2, <3>1
  <2>4. k - 1 \in 0 .. n /\ k - 1 \notin Without
    <3>1. k \in Nat /\ k - 1 \in 0 .. n /\ ~ (k <= k - 1)
      BY <2>2, <2>3
    <3> HIDE DEF Without
    <3> QED
      BY <2>1, <3>1
  <2>5. PICK p : Follows(p, k-1)
    <3> HIDE DEF Follows
    <3> QED
      BY <2>4
  <2> DEFINE q == [i \in 1 .. k |->
                     {i} \cup (IF nodes[i].parent = 0 THEN {} ELSE p[nodes[i].parent])]
  <2>6. ASSUME NEW i \in 1 .. k
        PROVE  q[i] = {i} \cup (IF nodes[i].parent = 0 THEN {} ELSE q[nodes[i].parent])
    <3>1. CASE nodes[i].parent = 0
      BY <3>1
    <3>2. CASE nodes[i].parent # 0
      <4>1. nodes[i].parent \in 1 .. i-1 /\ nodes[i].parent \in 1 .. k-1 /\ nodes[i].parent \in 1 .. k
        BY <2>2, <3>2
      <4> DEFINE j == nodes[i].parent
      <4>2. p[j] = {j} \cup (IF nodes[j].parent = 0 THEN {} ELSE p[nodes[j].parent])
        BY <2>5, <4>1
      <4>3. q[j] = {j} \cup (IF nodes[j].parent = 0 THEN {} ELSE p[nodes[j].parent])
        BY <4>1
      <4>4. q[i] = {i} \cup p[j]
        BY <3>2
      <4> QED
        BY <3>2, <4>2, <4>3, <4>4
    <3> QED
      BY <3>1, <3>2
  <2> HIDE DEF q
  <2>7. Follows(q, k)
    BY <2>6
  <2> HIDE DEF Follows
  <2> QED
    BY <2>2, <2>7
<1>2. PICK p : Follows(p, n)
  <2>1. n \notin Without
    <3> HIDE DEF Without
    <3> QED
      BY <1>1
  <2>2. n \in 0 .. n
    OBVIOUS
  <2> HIDE DEF Follows
  <2> QED
    BY <2>1, <2>2
<1> DEFINE q == [i \in 1 .. n |-> p[i]]
<1>3. ASSUME NEW i \in 1 .. n
      PROVE  q[i] = {i} \cup (IF nodes[i].parent = 0 THEN {} ELSE q[nodes[i].parent])
  <2>1. nodes[i].parent # 0 => nodes[i].parent \in 1 .. n
    OBVIOUS
  <2> QED
    BY <1>2, <2>1
<1>4. q = [i \in 1 .. n |-> {i} \cup (IF nodes[i].parent = 0 THEN {} ELSE q[nodes[i].parent])]
  <2>1. q = [i \in 1 .. n |-> q[i]]
    OBVIOUS
  <2> HIDE DEF q
  <2> QED
    BY <1>3, <2>1
<1> HIDE DEF q
<1> QED
  BY <1>4

\* The equation FlattenSeq is defined by has a solution.
LEMMA FlattenExists ==
  ASSUME NEW n \in Nat, NEW parts
  PROVE  \E f : f = [i \in 1 .. n |-> IF i = 1 THEN parts[i] ELSE f[i-1] \o parts[i]]
<1> DEFINE Follows(f, k) ==
             \A i \in 1 .. k : f[i] = IF i = 1 THEN parts[i] ELSE f[i-1] \o parts[i]
           Without == {k \in 0 .. n : ~ \E f : Follows(f, k)}
<1>1. Without = {}
  <2> SUFFICES ASSUME Without # {} PROVE FALSE
    OBVIOUS
  <2>1. PICK k \in Without : \A m \in Without : k <= m
    <3>1. Without \subseteq Nat
      OBVIOUS
    <3> HIDE DEF Without
    <3> QED
      BY <3>1, Smallest
  <2>2. k \in 0 .. n /\ ~ \E f : Follows(f, k)
    BY <2>1
  <2>3. k # 0
    <3>1. \A f : Follows(f, 0)
      OBVIOUS
    <3> HIDE DEF Follows
    <3> QED
      BY <2>2, <3>1
  <2>4. k - 1 \in 0 .. n /\ k - 1 \notin Without
    <3>1. k \in Nat /\ k - 1 \in 0 .. n /\ ~ (k <= k - 1)
      BY <2>2, <2>3
    <3> HIDE DEF Without
    <3> QED
      BY <2>1, <3>1
  <2>5. PICK f : Follows(f, k-1)
    <3> HIDE DEF Follows
    <3> QED
      BY <2>4
  <2> DEFINE g == [i \in 1 .. k |-> IF i = k THEN (IF k = 1 THEN parts[k] ELSE f[k-1] \o parts[k])
                                             ELSE f[i]]
  <2>6. ASSUME NEW i \in 1 .. k
        PROVE  g[i] = IF i = 1 THEN parts[i] ELSE g[i-1] \o parts[i]
    <3>1. CASE i = k
      <4>1. k # 1 => k - 1 \in 1 .. k /\ k - 1 # k
        BY <2>2
      <4>2. k # 1 => g[k-1] = f[k-1]
        BY <4>1
      <4>3. g[k] = IF k = 1 THEN parts[k] ELSE f[k-1] \o parts[k]
        BY <3>1
      <4> HIDE DEF g
      <4> QED
        BY <3>1, <4>2, <4>3
    <3>2. CASE i # k
      <4>1. i \in 1 .. k-1 /\ (i # 1 => i-1 \in 1 .. k /\ i-1 # k)
        BY <2>2, <3>2
      <4>2. g[i] = f[i] /\ (i # 1 => g[i-1] = f[i-1])
        BY <3>2, <4>1
      <4>3. f[i] = IF i = 1 THEN parts[i] ELSE f[i-1] \o parts[i]
        BY <2>5, <4>1
      <4> HIDE DEF g
      <4> QED
        BY <4>2, <4>3
    <3> QED
      BY <3>1, <3>2
  <2> HIDE DEF g
  <2>7. Follows(g, k)
    BY <2>6
  <2> HIDE DEF Follows
  <2> QED
    BY <2>2, <2>7
<1>2. PICK f : Follows(f, n)
  <2>1. n \notin Without /\ n \in 0 .. n
    <3> HIDE DEF Without
    <3> QED
      BY <1>1
  <2> HIDE DEF Follows
  <2> QED
    BY <2>1
<1> DEFINE g == [i \in 1 .. n |-> f[i]]
<1>3. ASSUME NEW i \in 1 .. n
      PROVE  g[i] = IF i = 1 THEN parts[i] ELSE g[i-1] \o parts[i]
  <2>1. g[i] = f[i] /\ (i # 1 => i-1 \in 1 .. n /\ g[i-1] = f[i-1])
    OBVIOUS
  <2>2. f[i] = IF i = 1 THEN parts[i] ELSE f[i-1] \o parts[i]
    BY <1>2
  <2> HIDE DEF g
  <2> QED
    BY <2>1, <2>2
<1>4. g = [i \in 1 .. n |-> IF i = 1 THEN parts[i] ELSE g[i-1] \o parts[i]]
  <2>1. g = [i \in 1 .. n |-> g[i]]
    OBVIOUS
  <2> HIDE DEF g
  <2> QED
    BY <1>3, <2>1
<1> HIDE DEF g
<1> QED
  BY <1>4


\* Pairs of a number up to k and an element of its set.
Under(B, k) == UNION {{j} \X B[j] : j \in 1 .. k}

\* Counting such pairs adds up the sizes of the sets.
LEMMA CountNext ==
  ASSUME NEW B, NEW k \in Nat, \A j \in 1 .. k+1 : IsFiniteSet(B[j]), IsFiniteSet(Under(B, k))
  PROVE  /\ IsFiniteSet(Under(B, k+1))
         /\ Cardinality(Under(B, k+1)) = Cardinality(Under(B, k)) + Cardinality(B[k+1])
<1> DEFINE old == Under(B, k)
           new == {k+1} \X B[k+1]
<1>1. Under(B, k+1) = old \cup new
  <2>1. 1 .. k+1 = (1 .. k) \cup {k+1}
    OBVIOUS
  <2> QED
    BY <2>1 DEF Under
<1>2. old \cap new = {}
  <2>1. \A x \in old : x[1] \in 1 .. k
    BY DEF Under
  <2>2. \A x \in new : x[1] = k+1
    OBVIOUS
  <2>3. k+1 \notin 1 .. k
    OBVIOUS
  <2> HIDE DEF old, new
  <2> QED
    BY <2>1, <2>2, <2>3
<1>3. IsFiniteSet(new) /\ Cardinality(new) = Cardinality(B[k+1])
  <2> DEFINE b == B[k+1]
             one == {k+1}
  <2>1. IsFiniteSet(b)
    OBVIOUS
  <2>2. IsFiniteSet(one) /\ Cardinality(one) = 1
    BY FS_Singleton
  <2>4. Cardinality(b) \in Nat
    BY <2>1, FS_CardinalityType
  <2> HIDE DEF b, one
  <2>3. IsFiniteSet(one \X b) /\ Cardinality(one \X b) = Cardinality(one) * Cardinality(b)
    BY <2>1, <2>2, FS_Product
  <2> DEFINE c == Cardinality(b)
  <2>5. Cardinality(one) * c = c
    <3> HIDE DEF c
    <3>1. c \in Nat
      BY <2>4 DEF c
    <3> QED
      BY <2>2, <3>1
  <2> QED
    BY <2>3, <2>5 DEF b, one
<1>4. IsFiniteSet(old)
  OBVIOUS
<1> HIDE DEF old, new
<1>5. /\ IsFiniteSet(old \cup new)
      /\ Cardinality(old \cup new) = Cardinality(old) + Cardinality(new) - Cardinality(old \cap new)
  BY <1>3, <1>4, FS_Union
<1>6. Cardinality(old \cap new) = 0 /\ Cardinality(old) \in Nat /\ Cardinality(new) \in Nat
  BY <1>2, <1>3, <1>4, FS_EmptySet, FS_CardinalityType
<1> DEFINE o == Cardinality(old)
           m == Cardinality(new)
           z == Cardinality(old \cap new)
<1>7. o + m - z = o + m
  <2> HIDE DEF o, m, z
  <2>1. z = 0 /\ o \in Nat /\ m \in Nat
    BY <1>6 DEF o, m, z
  <2> QED
    BY <2>1
<1>8. Cardinality(old \cup new) = Cardinality(old) + Cardinality(new)
  BY <1>5, <1>7
<1> QED
  BY <1>1, <1>3, <1>5, <1>8 DEF old

\* There are finitely many such pairs.
LEMMA CountFinite ==
  ASSUME NEW B, NEW n \in Nat, \A j \in 1 .. n : IsFiniteSet(B[j])
  PROVE  \A k \in 0 .. n : IsFiniteSet(Under(B, k))
<1> DEFINE Wrong == {k \in 0 .. n : ~ IsFiniteSet(Under(B, k))}
<1> SUFFICES ASSUME Wrong # {} PROVE FALSE
  OBVIOUS
<1>1. PICK k \in Wrong : \A m \in Wrong : k <= m
  <2>1. Wrong \subseteq Nat
    OBVIOUS
  <2> HIDE DEF Wrong
  <2> QED
    BY <2>1, Smallest
<1>2. k \in 0 .. n /\ ~ IsFiniteSet(Under(B, k))
  BY <1>1
<1>3. k # 0
  <2>1. Under(B, 0) = {}
    BY DEF Under
  <2> QED
    BY <1>2, <2>1, FS_EmptySet
<1> DEFINE j == k - 1
<1>4. j \in Nat /\ j \in 0 .. n /\ k = j+1 /\ ~ (k <= j) /\ \A i \in 1 .. j+1 : i \in 1 .. n
  BY <1>2, <1>3
<1> HIDE DEF j
<1>5. IsFiniteSet(Under(B, j))
  <2>1. j \notin Wrong
    <3> HIDE DEF Wrong
    <3> QED
      BY <1>1, <1>4
  <2> QED
    BY <1>4, <2>1
<1>6. \A i \in 1 .. j+1 : IsFiniteSet(B[i])
  BY <1>4
<1>7. IsFiniteSet(Under(B, j+1))
  BY <1>4, <1>5, <1>6, CountNext
<1> QED
  BY <1>2, <1>4, <1>7

\* Where each part of a sequence of parts begins, counted from 0.
Begins(parts, n, start) ==
  /\ start[1] = 0
  /\ \A k \in 1 .. n : start[k+1] = start[k] + Len(parts[k])

\* The parts of all follow one another.
Laid(all, parts, n, start) ==
  /\ Len(all) = start[n+1]
  /\ \A k \in 1 .. n : start[k] \in Nat /\ start[k+1] \in Nat
  /\ \A k \in 1 .. n : \A p \in 1 .. Len(parts[k]) :
       start[k] + p \in 1 .. Len(all) /\ all[start[k] + p] = parts[k][p]

\* Another part is laid at the end.
LEMMA LaidNext ==
  ASSUME NEW S, NEW n \in Nat \ {0}, NEW parts, NEW all \in Seq(S), NEW start,
         Laid(all, parts, n, start), parts[n+1] \in Seq(S),
         start[n+2] = start[n+1] + Len(parts[n+1])
  PROVE  Laid(all \o parts[n+1], parts, n+1, start)
<1> DEFINE more == parts[n+1]
           whole == all \o more
           L == Len(all)
           K == Len(more)
<1>1. /\ whole \in Seq(S) /\ Len(whole) = L + K /\ L \in Nat /\ K \in Nat
      /\ \A i \in 1 .. L : whole[i] = all[i]
      /\ \A i \in 1 .. K : whole[L + i] = more[i]
  BY ConcatIs
<1> HIDE DEF more, whole, L, K
<1>2. start[n+1] = L /\ start[n+2] = L + K
  BY DEF Laid, L, K, more
<1>3. ASSUME NEW k \in 1 .. n+1
      PROVE  start[k] \in Nat /\ start[k+1] \in Nat
  <2>1. CASE k = n + 1
    BY <1>1, <1>2, <2>1
  <2>2. CASE k # n + 1
    <3>1. k \in 1 .. n
      BY <2>2
    <3> QED
      BY <3>1 DEF Laid
  <2> QED
    BY <2>1, <2>2
<1>4. ASSUME NEW k \in 1 .. n+1, NEW p \in 1 .. Len(parts[k])
      PROVE  start[k] + p \in 1 .. L + K /\ whole[start[k] + p] = parts[k][p]
  <2>1. CASE k = n + 1
    <3>1. start[k] = L /\ parts[k] = more /\ p \in 1 .. K
      BY <1>2, <2>1 DEF more, K
    <3>2. L + p \in 1 .. L + K
      BY <1>1, <3>1
    <3> QED
      BY <1>1, <3>1, <3>2
  <2>2. CASE k # n + 1
    <3>1. k \in 1 .. n
      BY <2>2
    <3>2. start[k] + p \in 1 .. L /\ all[start[k] + p] = parts[k][p]
      BY <3>1 DEF Laid, L
    <3>3. \A i \in 1 .. L : i \in 1 .. L+K
      BY <1>1
    <3> QED
      BY <1>1, <3>2, <3>3
  <2> QED
    BY <2>1, <2>2
<1>5. Len(whole) = start[n+1+1]
  BY <1>1, <1>2
<1>6. Len(whole) = L + K
  BY <1>1
<1>7. Laid(whole, parts, n+1, start)
  BY ONLY <1>3, <1>4, <1>5, <1>6 DEF Laid
<1> QED
  BY <1>7 DEF whole, more

\* The parts of a flattened sequence, one after the other.
LEMMA FlattenLays ==
  ASSUME NEW S, NEW n \in Nat \ {0}, NEW parts, Len(parts) = n,
         \A k \in 1 .. n : parts[k] \in Seq(S),
         NEW start, Begins(parts, n, start)
  PROVE  FlattenSeq(parts) \in Seq(S) /\ Laid(FlattenSeq(parts), parts, n, start)
<1> DEFINE flat == CHOOSE f : f = [i \in 1 .. n |-> IF i = 1 THEN parts[i] ELSE f[i-1] \o parts[i]]
           Right(k) == flat[k] \in Seq(S) /\ Laid(flat[k], parts, k, start)
           Wrong == {k \in 1 .. n : ~ Right(k)}
<1>1. FlattenSeq(parts) = flat[n]
  BY DEF FlattenSeq
<1>2. flat = [i \in 1 .. n |-> IF i = 1 THEN parts[i] ELSE flat[i-1] \o parts[i]]
  BY FlattenExists
<1> HIDE DEF flat
<1>3. /\ flat[1] = parts[1]
      /\ \A k \in 2 .. n : flat[k] = flat[k-1] \o parts[k]
  <2>1. \A k \in 1 .. n : flat[k] = IF k = 1 THEN parts[k] ELSE flat[k-1] \o parts[k]
    BY <1>2, Zenon
  <2>2. 1 \in 1 .. n /\ \A k \in 2 .. n : k \in 1 .. n /\ k # 1
    OBVIOUS
  <2> QED
    BY <2>1, <2>2, Zenon
<1>4. Wrong = {}
  <2> SUFFICES ASSUME Wrong # {} PROVE FALSE
    OBVIOUS
  <2>1. PICK k \in Wrong : \A m \in Wrong : k <= m
    <3>1. Wrong \subseteq Nat
      OBVIOUS
    <3> HIDE DEF Wrong
    <3> QED
      BY <3>1, Smallest
  <2>2. k \in 1 .. n /\ ~ Right(k)
    BY <2>1
  <2>3. CASE k = 1
    <3> DEFINE one == parts[1]
    <3>1. /\ flat[1] = one /\ one \in Seq(S) /\ Len(one) \in Nat
          /\ start[1] = 0 /\ start[2] = start[1] + Len(one)
      BY <1>3 DEF Begins
    <3> HIDE DEF one
    <3>2. Laid(one, parts, 1, start)
      <4>1. start[2] = Len(one) /\ start[1+1] = Len(one)
        BY <3>1
      <4>2. \A p \in 1 .. Len(one) : start[1] + p \in 1 .. Len(one) /\ one[start[1] + p] = one[p]
        BY <3>1
      <4>3. \A j \in 1 .. 1 : j = 1 /\ parts[j] = one
        BY DEF one
      <4> QED
        BY <3>1, <4>1, <4>2, <4>3 DEF Laid
    <3> QED
      BY <2>2, <2>3, <3>1, <3>2
  <2>4. CASE k # 1
    <3>1. k-1 \in 1 .. n /\ k-1 \in Nat \ {0} /\ ~ (k <= k-1) /\ k = (k-1) + 1 /\ k \in 2 .. n
      BY <2>2, <2>4
    <3>2. Right(k-1)
      <4>1. k-1 \notin Wrong
        <5> HIDE DEF Wrong
        <5> QED
          BY <2>1, <3>1
      <4> HIDE DEF Right
      <4> QED
        BY <3>1, <4>1
    <3> DEFINE j == k - 1
    <3>3. flat[k] = flat[j] \o parts[j+1]
      BY <1>3, <2>2, <3>1
    <3>4. /\ j \in Nat \ {0} /\ k = j + 1 /\ j + 1 \in 1 .. n /\ j + 2 = j + 1 + 1
          /\ parts[j+1] \in Seq(S)
          /\ flat[j] \in Seq(S) /\ Laid(flat[j], parts, j, start)
      BY <2>2, <3>1, <3>2
    <3> HIDE DEF j
    <3>5. start[j+2] = start[j+1] + Len(parts[j+1])
      BY <3>4 DEF Begins
    <3>6. k = j + 1
      BY <3>4
    <3>7. flat[j] \o parts[j+1] \in Seq(S)
      BY <3>4, ConcatIs
    <3>8. Laid(flat[j] \o parts[j+1], parts, j+1, start)
      BY ONLY <3>4, <3>5, LaidNext
    <3>9. Right(k)
      BY <3>3, <3>6, <3>7, <3>8, Zenon
    <3> HIDE DEF Right
    <3> QED
      BY <2>2, <3>9
  <2> QED
    BY <2>3, <2>4
<1>5. Right(n)
  <2>1. n \in 1 .. n /\ n \notin Wrong
    <3> HIDE DEF Wrong
    <3> QED
      BY <1>4
  <2> HIDE DEF Right
  <2> QED
    BY <2>1
<1> QED
  BY <1>1, <1>5

\* Where parts begin is determined by their lengths, and every place is in one.
LEMMA BeginsUnder ==
  ASSUME NEW n \in Nat \ {0}, NEW B, \A j \in 1 .. n : IsFiniteSet(B[j])
  PROVE  \E start :
           /\ start = [k \in 1 .. n+1 |-> Cardinality(Under(B, k-1))]
           /\ start[1] = 0
           /\ \A k \in 1 .. n : start[k+1] = start[k] + Cardinality(B[k])
<1> DEFINE start == [k \in 1 .. n+1 |-> Cardinality(Under(B, k-1))]
<1>1. start[1] = 0
  <2>1. Under(B, 0) = {} /\ 1 \in 1 .. n+1 /\ 1 - 1 = 0
    BY DEF Under
  <2> QED
    BY <2>1, FS_EmptySet
<1>2. ASSUME NEW k \in 1 .. n PROVE start[k+1] = start[k] + Cardinality(B[k])
  <2> DEFINE j == k - 1
  <2>1. j \in Nat /\ k = j+1 /\ j \in 0 .. n /\ k \in 1 .. n+1 /\ k+1 \in 1 .. n+1 /\ k+1-1 = k
        /\ \A i \in 1 .. j+1 : i \in 1 .. n
    OBVIOUS
  <2>2. start[k+1] = Cardinality(Under(B, k)) /\ start[k] = Cardinality(Under(B, j))
    BY <2>1
  <2> HIDE DEF j
  <2>3. IsFiniteSet(Under(B, j))
    BY <2>1, CountFinite
  <2>4. Cardinality(Under(B, j+1)) = Cardinality(Under(B, j)) + Cardinality(B[j+1])
    BY <2>1, <2>3, CountNext
  <2> HIDE DEF start
  <2> QED
    BY <2>1, <2>2, <2>4
<1> HIDE DEF start
<1> QED
  BY <1>1, <1>2 DEF start

\* Consecutive stretches of numbers: every number is in one, and they are apart.
Stretches(n, start, size) ==
  /\ start[1] = 0
  /\ \A k \in 1 .. n : size[k] \in Nat /\ start[k] \in Nat /\ start[k+1] = start[k] + size[k]

\* Every place lies in one of the stretches.
LEMMA Covered ==
  ASSUME NEW n \in Nat \ {0}, NEW start, NEW size, Stretches(n, start, size),
         NEW i \in 1 .. start[n+1]
  PROVE  \E k \in 1 .. n : i - start[k] \in 1 .. size[k]
<1> DEFINE Beyond == {k \in 1 .. n : i <= start[k+1]}
<1>1. \A k \in 1 .. n : start[k+1] \in Nat
  <2> HIDE DEF Beyond
  <2> TAKE k \in 1 .. n
  <2>1. size[k] \in Nat /\ start[k] \in Nat /\ start[k+1] = start[k] + size[k]
    BY DEF Stretches
  <2>2. start[k] + size[k] \in Nat
    BY <2>1
  <2> QED
    BY <2>1, <2>2
<1>2. n \in Beyond
  <2>1. start[n+1] \in Nat /\ n \in 1 .. n
    BY <1>1
  <2> QED
    BY <2>1
<1>3. PICK k \in Beyond : \A m \in Beyond : k <= m
  <2>1. Beyond \subseteq Nat
    OBVIOUS
  <2> HIDE DEF Beyond
  <2> QED
    BY <1>2, <2>1, Smallest
<1>4. k \in 1 .. n /\ i <= start[k+1]
  BY <1>3
<1>5. start[k] < i
  <2>1. CASE k = 1
    BY <1>4, <2>1 DEF Stretches
  <2>2. CASE k # 1
    <3> DEFINE j == k - 1
    <3>1. j \in 1 .. n /\ k = j + 1 /\ ~ (k <= j)
      BY <1>4, <2>2
    <3> HIDE DEF j
    <3>2. ~ (i <= start[j+1])
      <4>1. j \notin Beyond
        <5> HIDE DEF Beyond
        <5> QED
          BY <1>3, <3>1
      <4> QED
        BY <3>1, <4>1
    <3> QED
      BY <1>1, <3>1, <3>2
  <2> QED
    BY <2>1, <2>2
<1>6. i - start[k] \in 1 .. size[k]
  <2>1. start[k+1] = start[k] + size[k] /\ start[k] \in Nat /\ size[k] \in Nat
    BY <1>4 DEF Stretches
  <2> QED
    BY <1>4, <1>5, <2>1
<1> QED
  BY <1>4, <1>6

\* And in no other: each ends before the next begins.
LEMMA Apart ==
  ASSUME NEW n \in Nat \ {0}, NEW start, NEW size, Stretches(n, start, size)
  PROVE  \A k, m \in 1 .. n : k < m => start[k] + size[k] <= start[m]
<1> SUFFICES ASSUME NEW k \in 1 .. n
             PROVE  \A m \in 1 .. n : k < m => start[k] + size[k] <= start[m]
  OBVIOUS
<1> DEFINE Wrong == {m \in 1 .. n : k < m /\ ~ (start[k] + size[k] <= start[m])}
<1> SUFFICES ASSUME Wrong # {} PROVE FALSE
  OBVIOUS
<1>1. PICK m \in Wrong : \A i \in Wrong : m <= i
  <2>1. Wrong \subseteq Nat
    OBVIOUS
  <2> HIDE DEF Wrong
  <2> QED
    BY <2>1, Smallest
<1>2. m \in 1 .. n /\ k < m /\ ~ (start[k] + size[k] <= start[m])
  BY <1>1
<1> DEFINE j == m - 1
<1>3. j \in 1 .. n /\ m = j + 1 /\ ~ (m <= j) /\ (k = j \/ k < j)
  BY <1>2
<1> HIDE DEF j
<1>4. start[m] = start[j] + size[j]
  BY <1>3 DEF Stretches
<1>5. /\ start[j] \in Nat /\ size[j] \in Nat /\ start[k] \in Nat /\ size[k] \in Nat
  BY <1>3 DEF Stretches
<1>6. CASE k = j
  BY <1>2, <1>4, <1>5, <1>6
<1>7. CASE k < j
  <2>1. start[k] + size[k] <= start[j]
    <3>1. j \notin Wrong
      <4> HIDE DEF Wrong
      <4> QED
        BY <1>1, <1>3
    <3> QED
      BY <1>3, <1>7, <3>1
  <2> QED
    BY <1>2, <1>4, <1>5, <2>1
<1> QED
  BY <1>3, <1>6, <1>7

\* A strict total order on a finite set puts one element at each place.
Orders(R, S) ==
  /\ \A x \in S : <<x, x>> \notin R
  /\ \A x, y, z \in S : <<x, y>> \in R /\ <<y, z>> \in R => <<x, z>> \in R
  /\ \A x, y \in S : x = y \/ <<x, y>> \in R \/ <<y, x>> \in R

Ahead(R, S, x) == Cardinality({j \in S : <<j, x>> \in R})

\* In a total order every member of a finite set has a rank of its own, and
\* every rank below the number of members has a member.
LEMMA Ranked ==
  ASSUME NEW S, IsFiniteSet(S), NEW R, Orders(R, S)
  PROVE  /\ Cardinality(S) \in Nat
         /\ \A x \in S : Ahead(R, S, x) \in 0 .. Cardinality(S) - 1
         /\ \A x, y \in S : <<x, y>> \in R => Ahead(R, S, x) < Ahead(R, S, y)
         /\ \A x, y \in S : Ahead(R, S, x) = Ahead(R, S, y) => x = y
         /\ \A i \in 1 .. Cardinality(S) : \E x \in S : Ahead(R, S, x) = i - 1
<1> DEFINE n == Cardinality(S)
           Before(c) == Ahead(R, S, c)
           ranks == 0 .. n-1
           rank == [c \in S |-> Before(c)]
<1>1. n \in Nat
  BY FS_CardinalityType
<1>2. ASSUME NEW c \in S
      PROVE  Before(c) \in ranks
  <2> DEFINE less == {d \in S : <<d, c>> \in R}
  <2>1. less \in SUBSET S /\ less # S
    BY DEF Orders
  <2>2. IsFiniteSet(less) /\ Cardinality(less) <= n /\ n # Cardinality(less)
    <3> HIDE DEF less
    <3> QED
      BY <2>1, FS_Subset
  <2>3. Cardinality(less) \in Nat
    BY <2>2, FS_CardinalityType
  <2>4. Before(c) = Cardinality(less)
    BY DEF Ahead
  <2> HIDE DEF less, n, Before
  <2> DEFINE q == Cardinality(less)
  <2>5. q \in Nat /\ n \in Nat /\ q <= n /\ n # q
    BY <1>1, <2>2, <2>3
  <2> HIDE DEF q
  <2>6. q \in 0 .. n-1
    BY ONLY <2>5
  <2> QED
    BY <2>4, <2>6 DEF q
<1>3. ASSUME NEW x \in S, NEW y \in S, <<x, y>> \in R
      PROVE  Before(x) < Before(y)
  <2> DEFINE lessX == {e \in S : <<e, x>> \in R}
             lessY == {e \in S : <<e, y>> \in R}
  <2>1. lessX \in SUBSET lessY /\ lessX # lessY /\ lessY \in SUBSET S
    <3>1. x \in lessY /\ x \notin lessX
      BY <1>3 DEF Orders
    <3>2. \A e \in S : <<e, x>> \in R => <<e, y>> \in R
      BY <1>3 DEF Orders
    <3> QED
      BY <3>1, <3>2
  <2>2. Cardinality(lessX) \in Nat /\ Cardinality(lessY) \in Nat
        /\ Cardinality(lessX) <= Cardinality(lessY) /\ Cardinality(lessX) # Cardinality(lessY)
    <3> HIDE DEF lessX, lessY
    <3>1. IsFiniteSet(lessY)
      BY <2>1, FS_Subset
    <3> QED
      BY <2>1, <3>1, FS_Subset, FS_CardinalityType
  <2> DEFINE m == Cardinality(lessX)
             k == Cardinality(lessY)
  <2>3. m \in Nat /\ k \in Nat /\ m <= k /\ m # k
    BY <2>2
  <2>4. Before(x) = m /\ Before(y) = k
    BY DEF Ahead
  <2> HIDE DEF m, k, Before
  <2>5. m < k
    BY ONLY <2>3
  <2> QED
    BY <2>4, <2>5
<1>4. ASSUME NEW c \in S, NEW d \in S, Before(c) = Before(d)
      PROVE  c = d
  <2>1. Before(c) \in Nat
    BY <1>1, <1>2
  <2>2. ~ (Before(c) < Before(d)) /\ ~ (Before(d) < Before(c))
    <3> HIDE DEF Before
    <3> QED
      BY <1>4, <2>1
  <2>3. <<c, d>> \notin R /\ <<d, c>> \notin R
    <3> HIDE DEF Before
    <3> QED
      BY <1>3, <2>2
  <2> QED
    BY <2>3 DEF Orders
<1>5. rank \in [S -> ranks] /\ \A c \in S : rank[c] = Before(c)
  BY <1>2
<1> HIDE DEF Before, rank
<1>6. rank \in Surjection(S, ranks)
  <2>1. rank \in Injection(S, ranks)
    <3> HIDE DEF ranks
    <3> QED
      BY <1>4, <1>5 DEF Injection, IsInjective
  <2>2. IsFiniteSet(ranks) /\ Cardinality(ranks) = n
    <3> HIDE DEF n
    <3>1. n - 1 \in Int /\ 0 \in Int
      BY <1>1
    <3>2. IsFiniteSet(0 .. n-1) /\ Cardinality(0 .. n-1) = IF 0 > n-1 THEN 0 ELSE n-1 - 0 + 1
      BY ONLY <3>1, FS_Interval
    <3> QED
      BY <1>1, <3>2
  <2> HIDE DEF ranks
  <2> QED
    BY <2>1, <2>2, FS_Injection
<1>7. ASSUME NEW k \in 1 .. n
      PROVE  \E x \in S : Before(x) = k - 1
  <2>1. k - 1 \in ranks
    BY <1>1
  <2> QED
    BY <1>5, <1>6, <2>1 DEF Surjection
<1> HIDE DEF n
<1>8. /\ n \in Nat
      /\ \A x \in S : Before(x) \in 0 .. n-1
      /\ \A x, y \in S : <<x, y>> \in R => Before(x) < Before(y)
      /\ \A x, y \in S : Before(x) = Before(y) => x = y
      /\ \A i \in 1 .. n : \E x \in S : Before(x) = i - 1
  BY <1>1, <1>2, <1>3, <1>4, <1>7
<1> QED
  BY ONLY <1>8 DEF Before, n

-----------------------------------------------------------------------------
(***************************************************************************)
(* The nodes of a file                                                     *)
(***************************************************************************)
GoodBook(b) == b \in Book /\ WellFormed(b)

PartRoles == {"section", "segment", "artifact", "gate"}
NodeRecord == [parent : Nat, role : PartRoles \cup {"bundle", "charter", "skill"}]

\* What a good book holds.
LEMMA BookIs ==
  ASSUME NEW b, GoodBook(b)
  PROVE  /\ Len(b.skills) \in Nat \ {0} /\ DOMAIN b.skills = 1 .. Len(b.skills)
         /\ b.org \in BOOLEAN /\ b.vectors \in BOOLEAN
         /\ \A k \in 1 .. Len(b.skills) :
              /\ b.skills[k].name \in Names
              /\ Len(b.skills[k].parts) \in Nat
              /\ DOMAIN b.skills[k].parts = 1 .. Len(b.skills[k].parts)
              /\ \A p \in 1 .. Len(b.skills[k].parts) :
                   /\ b.skills[k].parts[p].role \in PartRoles
                   /\ b.skills[k].parts[p].under \in 0 .. p-1
<1>1. b.skills \in Seq(Skill) /\ b.skills # <<>> /\ b.org \in BOOLEAN /\ b.vectors \in BOOLEAN
  BY DEF GoodBook, Book, WellFormed
<1>2. Len(b.skills) \in Nat \ {0} /\ DOMAIN b.skills = 1 .. Len(b.skills)
      /\ \A k \in 1 .. Len(b.skills) : b.skills[k] \in Skill
  BY <1>1
<1>3. ASSUME NEW k \in 1 .. Len(b.skills)
      PROVE  /\ b.skills[k].name \in Names
             /\ Len(b.skills[k].parts) \in Nat
             /\ DOMAIN b.skills[k].parts = 1 .. Len(b.skills[k].parts)
             /\ \A p \in 1 .. Len(b.skills[k].parts) :
                  /\ b.skills[k].parts[p].role \in PartRoles
                  /\ b.skills[k].parts[p].under \in 0 .. p-1
  <2>1. b.skills[k].name \in Names /\ b.skills[k].parts \in Seq(Part)
    BY <1>2 DEF Skill
  <2>2. \A p \in DOMAIN b.skills[k].parts : b.skills[k].parts[p].under < p
    BY <1>2 DEF GoodBook, WellFormed
  <2> DEFINE s == b.skills[k].parts
  <2>3. Len(s) \in Nat /\ DOMAIN s = 1 .. Len(s) /\ \A p \in 1 .. Len(s) : s[p] \in Part
    BY <2>1
  <2>4. \A p \in 1 .. Len(s) : s[p].under < p
    BY <2>2, <2>3
  <2> HIDE DEF s
  <2>5. \A p \in 1 .. Len(s) : s[p].role \in PartRoles /\ s[p].under \in 0 .. p-1
    BY <2>3, <2>4 DEF Part, PartRoles
  <2> QED
    BY <2>1, <2>3, <2>5 DEF s
<1> QED
  BY <1>1, <1>2, <1>3

\* The nodes of skill k, as written.
RootOf(b, k) == [parent |-> 1, role |-> IF b.org /\ k = 1 THEN "charter" ELSE "skill"]
PartsOf(b, k) ==
  [p \in DOMAIN b.skills[k].parts |->
     [parent |-> Place(b, k) + b.skills[k].parts[p].under, role |-> b.skills[k].parts[p].role]]
Tree(b, k) == <<RootOf(b, k)>> \o PartsOf(b, k)

\* The numbers of a node within its skill.
Within(b) == [k \in DOMAIN b.skills |-> 0 .. Len(b.skills[k].parts)]
Sizes(b) == [k \in DOMAIN b.skills |-> 1 + Len(b.skills[k].parts)]
Starts(b) == [k \in 1 .. Len(b.skills) + 1 |-> Cardinality(Under(Within(b), k-1))]

\* The nodes of the first skills, as pairs of that kind.
LEMMA NodesUnder ==
  ASSUME NEW b, GoodBook(b), NEW k \in 0 .. Len(b.skills)
  PROVE  NodesUpTo(b, k) = Under(Within(b), k)
<1>1. \A j \in 1 .. k : j \in DOMAIN b.skills
  BY BookIs
<1> QED
  BY <1>1 DEF NodesUpTo, Under, Within

\* The skills follow one another from node 2 on.
LEMMA Placed ==
  ASSUME NEW b, GoodBook(b)
  PROVE  /\ Stretches(Len(b.skills), Starts(b), Sizes(b))
         /\ \A k \in 1 .. Len(b.skills) : Place(b, k) = 2 + Starts(b)[k] /\ Place(b, k) \in Nat
<1> DEFINE n == Len(b.skills)
           B == Within(b)
<1>1. n \in Nat \ {0} /\ DOMAIN b.skills = 1 .. n
  BY BookIs
<1>2. ASSUME NEW k \in 1 .. n
      PROVE  IsFiniteSet(B[k]) /\ Cardinality(B[k]) = Sizes(b)[k] /\ Sizes(b)[k] \in Nat
  <2> DEFINE L == Len(b.skills[k].parts)
  <2>1. L \in Nat /\ B[k] = 0 .. L /\ Sizes(b)[k] = 1 + L
    BY <1>1, BookIs DEF Within, Sizes
  <2> HIDE DEF L, B
  <2>2. IsFiniteSet(0 .. L) /\ Cardinality(0 .. L) = IF 0 > L THEN 0 ELSE L - 0 + 1
    BY <2>1, FS_Interval
  <2> QED
    BY <2>1, <2>2
<1> HIDE DEF n, B
<1>3. PICK start : /\ start = [k \in 1 .. n+1 |-> Cardinality(Under(B, k-1))]
                   /\ start[1] = 0
                   /\ \A k \in 1 .. n : start[k+1] = start[k] + Cardinality(B[k])
  <2>1. n \in Nat \ {0} /\ \A j \in 1 .. n : IsFiniteSet(B[j])
    BY <1>1, <1>2
  <2> QED
    BY ONLY <2>1, BeginsUnder
<1>4. Starts(b) = [k \in 1 .. n+1 |-> Cardinality(Under(B, k-1))]
  BY DEF Starts, n, B
<1>5. Starts(b)[1] = 0 /\ \A k \in 1 .. n : Starts(b)[k+1] = Starts(b)[k] + Sizes(b)[k]
  BY <1>2, <1>3, <1>4
<1>6. ASSUME NEW k \in 1 .. n
      PROVE  /\ Starts(b)[k] \in Nat /\ Starts(b)[k] = Cardinality(Under(B, k-1))
             /\ Place(b, k) = 2 + Cardinality(Under(B, k-1))
  <2>1. k \in 1 .. n+1 /\ k-1 \in 0 .. n
    BY <1>1
  <2>2. Starts(b)[k] = Cardinality(Under(B, k-1))
    BY <1>4, <2>1
  <2>3. IsFiniteSet(Under(B, k-1))
    BY <1>1, <1>2, <2>1, CountFinite
  <2>4. NodesUpTo(b, k-1) = Under(B, k-1)
    BY <2>1, NodesUnder DEF n, B
  <2> QED
    BY <2>2, <2>3, <2>4, FS_CardinalityType DEF Place
<1>7. Stretches(n, Starts(b), Sizes(b))
  BY <1>2, <1>5, <1>6 DEF Stretches
<1>8. ASSUME NEW k \in 1 .. n
      PROVE  Place(b, k) = 2 + Starts(b)[k] /\ Place(b, k) \in Nat
  BY <1>6
<1> QED
  BY <1>7, <1>8 DEF n

\* The pieces of the node table.
LEMMA TreeIs ==
  ASSUME NEW b, GoodBook(b), NEW k \in 1 .. Len(b.skills)
  PROVE  /\ Tree(b, k) \in Seq(NodeRecord)
         /\ Len(Tree(b, k)) = Sizes(b)[k]
         /\ Tree(b, k)[1] = RootOf(b, k)
         /\ \A p \in 1 .. Len(b.skills[k].parts) : Tree(b, k)[1 + p] = PartsOf(b, k)[p]
<1> DEFINE L == Len(b.skills[k].parts)
           r == RootOf(b, k)
           s == PartsOf(b, k)
<1>1. L \in Nat /\ DOMAIN b.skills[k].parts = 1 .. L /\ k \in DOMAIN b.skills
  BY BookIs
<1>2. r \in NodeRecord
  BY DEF RootOf, NodeRecord
<1>3. s \in [1 .. L -> NodeRecord]
  <2>1. Place(b, k) \in Nat
    BY Placed
  <2>2. \A p \in 1 .. L : /\ b.skills[k].parts[p].role \in PartRoles
                          /\ b.skills[k].parts[p].under \in Nat
    <3>1. \A p \in 1 .. L : \A u \in 0 .. p-1 : u \in Nat
      BY <1>1
    <3>2. \A p \in 1 .. L : /\ b.skills[k].parts[p].role \in PartRoles
                            /\ b.skills[k].parts[p].under \in 0 .. p-1
      BY BookIs
    <3> HIDE DEF L
    <3> QED
      BY <3>1, <3>2
  <2> HIDE DEF L
  <2>3. ASSUME NEW p \in 1 .. L
        PROVE  [parent |-> Place(b, k) + b.skills[k].parts[p].under,
                role |-> b.skills[k].parts[p].role] \in NodeRecord
    BY <2>1, <2>2 DEF NodeRecord
  <2> QED
    BY <1>1, <2>3 DEF PartsOf
<1>4. s \in Seq(NodeRecord) /\ Len(s) = L
  BY <1>1, <1>3
<1>5. <<r>> \in Seq(NodeRecord) /\ Len(<<r>>) = 1 /\ <<r>>[1] = r
  BY <1>2
<1>6. Sizes(b)[k] = 1 + L
  BY <1>1 DEF Sizes
<1> HIDE DEF L, r, s
<1>7. /\ <<r>> \o s \in Seq(NodeRecord) /\ Len(<<r>> \o s) = 1 + L
      /\ (<<r>> \o s)[1] = r
      /\ \A p \in 1 .. L : (<<r>> \o s)[1 + p] = s[p]
  <2>1. /\ <<r>> \o s \in Seq(NodeRecord) /\ Len(<<r>> \o s) = Len(<<r>>) + Len(s)
        /\ \A i \in 1 .. Len(<<r>>) : (<<r>> \o s)[i] = <<r>>[i]
        /\ \A i \in 1 .. Len(s) : (<<r>> \o s)[Len(<<r>>) + i] = s[i]
    BY ONLY <1>4, <1>5, ConcatIs
  <2> DEFINE w == <<r>> \o s
  <2> HIDE DEF w
  <2> QED
    BY <1>4, <1>5, <2>1
<1> QED
  BY <1>6, <1>7 DEF Tree, r, s, L

\* The node table: the bundle, then each skill's root and parts where they are placed.
LEMMA NodesAre ==
  ASSUME NEW b, GoodBook(b)
  PROVE  /\ NodesOf(b) \in Seq(NodeRecord)
         /\ Len(NodesOf(b)) \in Nat \ {0} /\ DOMAIN NodesOf(b) = 1 .. Len(NodesOf(b))
         /\ NodesOf(b)[1] = [parent |-> 0, role |-> "bundle"]
         /\ \A k \in 1 .. Len(b.skills) :
              /\ Place(b, k) \in 2 .. Len(NodesOf(b))
              /\ NodesOf(b)[Place(b, k)] = RootOf(b, k)
              /\ \A p \in 1 .. Len(b.skills[k].parts) :
                   /\ Place(b, k) + p \in 2 .. Len(NodesOf(b))
                   /\ NodesOf(b)[Place(b, k) + p] = PartsOf(b, k)[p]
         /\ \A i \in 2 .. Len(NodesOf(b)) :
              \E k \in 1 .. Len(b.skills) : i \in NodesOfSkill(b, k)
         /\ \A k, m \in 1 .. Len(b.skills) :
              k < m => Place(b, k) + Len(b.skills[k].parts) < Place(b, m)
<1> DEFINE n == Len(b.skills)
           trees == [k \in DOMAIN b.skills |-> Tree(b, k)]
           flat == FlattenSeq(trees)
           start == Starts(b)
           size == Sizes(b)
           root == <<[parent |-> 0, role |-> "bundle"]>>
           N == root \o flat
           M == Len(flat)
<1>1. n \in Nat \ {0} /\ DOMAIN b.skills = 1 .. n
  BY BookIs
<1>2. NodesOf(b) = N
  BY DEF NodesOf, Tree, RootOf, PartsOf
<1>3. /\ Stretches(n, start, size)
      /\ \A k \in 1 .. n : Place(b, k) = 2 + start[k] /\ Place(b, k) \in Nat
  BY Placed
<1>4. \A k \in 1 .. n : /\ trees[k] = Tree(b, k) /\ trees[k] \in Seq(NodeRecord)
                        /\ Len(trees[k]) = size[k]
                        /\ trees[k][1] = RootOf(b, k)
                        /\ \A p \in 1 .. Len(b.skills[k].parts) : trees[k][1 + p] = PartsOf(b, k)[p]
  BY <1>1, TreeIs
<1>5. \A k \in 1 .. n : /\ Len(b.skills[k].parts) \in Nat
                        /\ size[k] = 1 + Len(b.skills[k].parts)
  BY <1>1, BookIs DEF Sizes
<1>6. Len(trees) = n
  BY <1>1
<1> HIDE DEF trees, start, size
<1>7. Begins(trees, n, start)
  BY <1>3, <1>4 DEF Begins, Stretches
<1>8. flat \in Seq(NodeRecord) /\ Laid(flat, trees, n, start)
  <2>1. \A k \in 1 .. n : trees[k] \in Seq(NodeRecord)
    BY <1>4
  <2> HIDE DEF n
  <2> QED
    BY ONLY <1>1, <1>6, <1>7, <2>1, FlattenLays
<1> HIDE DEF flat, n
<1>9. /\ root \in Seq(NodeRecord) /\ Len(root) = 1
      /\ root[1] = [parent |-> 0, role |-> "bundle"]
  BY DEF NodeRecord
<1> HIDE DEF root
<1>10. /\ N \in Seq(NodeRecord) /\ Len(N) = 1 + M /\ M \in Nat
       /\ N[1] = [parent |-> 0, role |-> "bundle"]
       /\ \A i \in 1 .. M : N[1 + i] = flat[i]
  <2>1. /\ N \in Seq(NodeRecord) /\ Len(N) = Len(root) + Len(flat) /\ Len(flat) \in Nat
        /\ \A i \in 1 .. Len(root) : N[i] = root[i]
        /\ \A i \in 1 .. Len(flat) : N[Len(root) + i] = flat[i]
    <3>1. root \in Seq(NodeRecord) /\ flat \in Seq(NodeRecord)
      BY <1>8, <1>9
    <3> QED
      BY ONLY <3>1, ConcatIs
  <2> HIDE DEF N
  <2> QED
    BY <1>9, <2>1
<1>11. DOMAIN N = 1 .. Len(N)
  BY <1>10
<1> HIDE DEF N, M
<1>12. M = start[n+1]
  BY <1>8 DEF Laid, M
<1>13. ASSUME NEW k \in 1 .. n, NEW p \in 1 .. size[k]
       PROVE  start[k] + p \in 1 .. M /\ N[1 + (start[k] + p)] = trees[k][p]
  <2>1. start[k] + p \in 1 .. M /\ flat[start[k] + p] = trees[k][p]
    BY <1>4, <1>8 DEF Laid, M
  <2> QED
    BY <1>10, <2>1
<1>14. ASSUME NEW k \in 1 .. n
       PROVE  /\ Place(b, k) \in 2 .. Len(N)
              /\ N[Place(b, k)] = RootOf(b, k)
  <2>1. 1 \in 1 .. size[k]
    BY <1>5
  <2>2. start[k] + 1 \in 1 .. M /\ N[1 + (start[k] + 1)] = trees[k][1]
    BY <1>13, <2>1
  <2>3. Place(b, k) = 2 + start[k] /\ start[k] \in Nat
    BY <1>3 DEF Stretches
  <2>4. 1 + (start[k] + 1) = Place(b, k)
    BY <2>3
  <2> QED
    BY <1>4, <1>10, <2>2, <2>3, <2>4
<1>15. ASSUME NEW k \in 1 .. n, NEW p \in 1 .. Len(b.skills[k].parts)
       PROVE  /\ Place(b, k) + p \in 2 .. Len(N)
              /\ N[Place(b, k) + p] = PartsOf(b, k)[p]
  <2>1. 1 + p \in 1 .. size[k]
    BY <1>5
  <2>2. start[k] + (1 + p) \in 1 .. M /\ N[1 + (start[k] + (1 + p))] = trees[k][1 + p]
    BY <1>13, <2>1
  <2>3. Place(b, k) = 2 + start[k] /\ start[k] \in Nat
    BY <1>3 DEF Stretches
  <2>4. 1 + (start[k] + (1 + p)) = Place(b, k) + p
    <3>1. p \in Nat
      <4> DEFINE L == Len(b.skills[k].parts)
      <4>1. L \in Nat /\ p \in 1 .. L
        BY <1>5
      <4> HIDE DEF L
      <4> QED
        BY <4>1
    <3> QED
      BY ONLY <2>3, <3>1
  <2> DEFINE x == start[k] + (1 + p)
  <2>5. Place(b, k) + p = 1 + x /\ x \in 1 .. M /\ N[1 + x] = PartsOf(b, k)[p]
    BY <1>4, <2>2, <2>4
  <2> HIDE DEF x
  <2>6. 1 + x \in 2 .. Len(N)
    BY <1>10, <2>5
  <2> QED
    BY <2>5, <2>6
<1>16. ASSUME NEW i \in 2 .. Len(N)
       PROVE  \E k \in 1 .. n : i \in NodesOfSkill(b, k)
  <2> DEFINE j == i - 1
  <2>1. j \in 1 .. start[n+1] /\ i = 1 + j
    BY <1>10, <1>12
  <2> HIDE DEF j
  <2>2. PICK k \in 1 .. n : j - start[k] \in 1 .. size[k]
    BY <1>1, <1>3, <2>1, Covered
  <2> DEFINE L == Len(b.skills[k].parts)
  <2>3. size[k] = 1 + L /\ L \in Nat /\ Place(b, k) = 2 + start[k] /\ start[k] \in Nat
    BY <1>3, <1>5 DEF Stretches
  <2>4. j \in Nat
    BY <1>10, <1>12, <2>1
  <2> HIDE DEF L
  <2>5. i \in Place(b, k) .. Place(b, k) + L
    BY <2>1, <2>2, <2>3, <2>4
  <2> QED
    BY <2>5 DEF NodesOfSkill, L
<1>17. ASSUME NEW k \in 1 .. n, NEW m \in 1 .. n, k < m
       PROVE  Place(b, k) + Len(b.skills[k].parts) < Place(b, m)
  <2>1. start[k] + size[k] <= start[m]
    BY <1>1, <1>3, <1>17, Apart
  <2>2. /\ Place(b, k) = 2 + start[k] /\ Place(b, m) = 2 + start[m]
        /\ start[k] \in Nat /\ start[m] \in Nat
    BY <1>3 DEF Stretches
  <2> DEFINE L == Len(b.skills[k].parts)
  <2>3. size[k] = 1 + L /\ L \in Nat
    BY <1>5
  <2> HIDE DEF L
  <2>4. Place(b, k) + L < Place(b, m)
    BY <2>1, <2>2, <2>3
  <2> QED
    BY <2>4 DEF L
<1>18. Len(N) \in Nat \ {0}
  BY <1>10
<1> QED
  BY <1>2, <1>10, <1>11, <1>14, <1>15, <1>16, <1>17, <1>18 DEF n

\* Each node is the bundle's or one skill's.
LEMMA OneSkill ==
  ASSUME NEW b, GoodBook(b), NEW k \in 1 .. Len(b.skills), NEW m \in 1 .. Len(b.skills),
         NEW i \in NodesOfSkill(b, k), i \in NodesOfSkill(b, m)
  PROVE  k = m
<1> DEFINE Lk == Len(b.skills[k].parts)
           Lm == Len(b.skills[m].parts)
<1>1. Place(b, k) \in Nat /\ Place(b, m) \in Nat /\ Lk \in Nat /\ Lm \in Nat
  BY Placed, BookIs
<1>2. /\ k < m => Place(b, k) + Lk < Place(b, m)
      /\ m < k => Place(b, m) + Lm < Place(b, k)
  BY NodesAre
<1>3. i \in Place(b, k) .. Place(b, k) + Lk /\ i \in Place(b, m) .. Place(b, m) + Lm
  BY DEF NodesOfSkill
<1>4. k \in Nat /\ m \in Nat
  BY BookIs
<1> HIDE DEF Lk, Lm
<1>5. ~ (k < m) /\ ~ (m < k)
  BY <1>1, <1>2, <1>3
<1> QED
  BY <1>4, <1>5

-----------------------------------------------------------------------------
(***************************************************************************)
(* What lies above a node, and under one                                   *)
(***************************************************************************)
LEMMA ParentsAre ==
  ASSUME NEW b, GoodBook(b)
  PROVE  /\ NodesOf(b)[1].parent = 0
         /\ \A k \in 1 .. Len(b.skills) :
              /\ NodesOf(b)[Place(b, k)].parent = 1
              /\ \A p \in 1 .. Len(b.skills[k].parts) :
                   \E u \in 0 .. p-1 : NodesOf(b)[Place(b, k) + p].parent = Place(b, k) + u
         /\ \A i \in 2 .. Len(NodesOf(b)) : NodesOf(b)[i].parent \in 1 .. i-1
<1> DEFINE N == NodesOf(b)
<1>1. N[1].parent = 0
  BY NodesAre
<1>2. ASSUME NEW k \in 1 .. Len(b.skills)
      PROVE  N[Place(b, k)].parent = 1
  <2>1. N[Place(b, k)] = RootOf(b, k)
    BY NodesAre
  <2>2. RootOf(b, k).parent = 1
    BY DEF RootOf
  <2> HIDE DEF N
  <2> QED
    BY <2>1, <2>2
<1>3. ASSUME NEW k \in 1 .. Len(b.skills), NEW p \in 1 .. Len(b.skills[k].parts)
      PROVE  \E u \in 0 .. p-1 : N[Place(b, k) + p].parent = Place(b, k) + u
  <2> DEFINE u == b.skills[k].parts[p].under
  <2>1. u \in 0 .. p-1 /\ p \in DOMAIN b.skills[k].parts
    BY BookIs
  <2>2. N[Place(b, k) + p] = PartsOf(b, k)[p]
    BY NodesAre
  <2>3. PartsOf(b, k)[p].parent = Place(b, k) + u
    BY <2>1 DEF PartsOf
  <2> HIDE DEF u, N
  <2> QED
    BY <2>1, <2>2, <2>3
<1> HIDE DEF N
<1>4. ASSUME NEW i \in 2 .. Len(N)
      PROVE  N[i].parent \in 1 .. i-1
  <2>1. PICK k \in 1 .. Len(b.skills) : i \in NodesOfSkill(b, k)
    BY NodesAre DEF N
  <2> DEFINE L == Len(b.skills[k].parts)
             r == Place(b, k)
  <2>2. L \in Nat /\ r \in 2 .. Len(N) /\ r \in Nat /\ i \in r .. r + L
    BY <2>1, BookIs, NodesAre, Placed DEF NodesOfSkill, N
  <2>3. CASE i = r
    <3>1. N[r].parent = 1
      BY <1>2
    <3> HIDE DEF r
    <3> QED
      BY <2>2, <2>3, <3>1
  <2>4. CASE i # r
    <3> DEFINE p == i - r
    <3> HIDE DEF r, L
    <3>1. p \in 1 .. L /\ i = r + p
      BY <2>2, <2>4
    <3> HIDE DEF p
    <3>2. PICK u \in 0 .. p-1 : N[r + p].parent = r + u
      BY <1>3, <3>1 DEF r, L
    <3>3. p \in Nat
      BY <2>2, <3>1
    <3>4. r + u \in 1 .. i-1
      BY <2>2, <3>1, <3>2, <3>3
    <3> QED
      BY <3>1, <3>2, <3>4
  <2> QED
    BY <2>3, <2>4
<1> QED
  BY <1>1, <1>2, <1>3, <1>4 DEF N

\* The walk upward is what its recursion says.
LEMMA UpwardIs ==
  ASSUME NEW b, GoodBook(b), NEW n \in 1 .. Len(NodesOf(b))
  PROVE  Upward(Written(b), n) =
           {n} \cup (IF NodesOf(b)[n].parent = 0 THEN {}
                     ELSE Upward(Written(b), NodesOf(b)[n].parent))
<1> DEFINE N == NodesOf(b)
           M == Len(N)
           up == CHOOSE p : p = [i \in 1 .. M |->
                                  {i} \cup (IF N[i].parent = 0 THEN {} ELSE p[N[i].parent])]
<1>1. Written(b).nodes = N /\ DOMAIN N = 1 .. M /\ M \in Nat
  BY NodesAre DEF Written
<1>2. \A m : Upward(Written(b), m) = up[m]
  BY <1>1 DEF Upward
<1>3. \A i \in 1 .. M : N[i].parent = 0 \/ N[i].parent \in 1 .. i-1
  <2>1. \A i \in 1 .. M : i = 1 \/ i \in 2 .. M
    BY <1>1
  <2> HIDE DEF M
  <2> QED
    BY <2>1, ParentsAre DEF M
<1> HIDE DEF N, M
<1>4. up = [i \in 1 .. M |-> {i} \cup (IF N[i].parent = 0 THEN {} ELSE up[N[i].parent])]
  <2>1. \E p : p = [i \in 1 .. M |-> {i} \cup (IF N[i].parent = 0 THEN {} ELSE p[N[i].parent])]
    <3>1. M \in Nat
      BY <1>1
    <3> QED
      BY ONLY <3>1, <1>3, PathsExist
  <2> QED
    BY <2>1 DEF up
<1> HIDE DEF up
<1>5. n \in 1 .. M
  BY DEF M, N
<1>6. up[n] = {n} \cup (IF N[n].parent = 0 THEN {} ELSE up[N[n].parent])
  BY <1>4, <1>5, Zenon
<1> QED
  BY <1>2, <1>6 DEF N

\* Above a node of a skill lie the bundle, the skill's root, and else only parts of the skill.
LEMMA UpwardOf ==
  ASSUME NEW b, GoodBook(b), NEW k \in 1 .. Len(b.skills)
  PROVE  /\ Upward(Written(b), 1) = {1}
         /\ Upward(Written(b), Place(b, k)) = {1, Place(b, k)}
         /\ \A p \in 0 .. Len(b.skills[k].parts) :
              /\ {1, Place(b, k)} \subseteq Upward(Written(b), Place(b, k) + p)
              /\ Upward(Written(b), Place(b, k) + p)
                   \subseteq {1} \cup NodesOfSkill(b, k)
<1> DEFINE N == NodesOf(b)
           f == Written(b)
           r == Place(b, k)
           L == Len(b.skills[k].parts)
           Right(p) == /\ {1, r} \subseteq Upward(f, r + p)
                       /\ Upward(f, r + p) \subseteq {1} \cup NodesOfSkill(b, k)
           Wrong == {p \in 0 .. L : ~ Right(p)}
<1>1. /\ Len(N) \in Nat \ {0} /\ r \in 2 .. Len(N) /\ r \in Nat /\ L \in Nat
      /\ \A p \in 0 .. L : r + p \in 1 .. Len(N) /\ r + p \in NodesOfSkill(b, k)
  <2>1. Len(N) \in Nat \ {0} /\ r \in 2 .. Len(N) /\ r \in Nat /\ L \in Nat
    BY NodesAre, Placed, BookIs
  <2>2. \A p \in 1 .. L : r + p \in 2 .. Len(N)
    BY NodesAre
  <2>3. NodesOfSkill(b, k) = r .. r + L
    BY DEF NodesOfSkill
  <2> HIDE DEF r, L, N
  <2> QED
    BY <2>1, <2>2, <2>3
<1>2. /\ N[1].parent = 0 /\ N[r].parent = 1
      /\ \A p \in 1 .. L : \E u \in 0 .. p-1 : N[r + p].parent = r + u
  BY ParentsAre
<1>3. \A n \in 1 .. Len(N) :
        Upward(f, n) = {n} \cup (IF N[n].parent = 0 THEN {} ELSE Upward(f, N[n].parent))
  BY UpwardIs
<1> HIDE DEF N, f, r, L
<1>4. Upward(f, 1) = {1}
  <2>1. 1 \in 1 .. Len(N)
    BY <1>1
  <2> QED
    BY <1>2, <1>3, <2>1
<1>5. Upward(f, r) = {1, r}
  <2>1. r \in 1 .. Len(N)
    BY <1>1
  <2> QED
    BY <1>2, <1>3, <1>4, <2>1
<1>6. Wrong = {}
  <2> SUFFICES ASSUME Wrong # {} PROVE FALSE
    OBVIOUS
  <2>1. PICK p \in Wrong : \A q \in Wrong : p <= q
    <3>1. Wrong \subseteq Nat
      OBVIOUS
    <3> HIDE DEF Wrong
    <3> QED
      BY <3>1, Smallest
  <2>2. p \in 0 .. L /\ ~ Right(p)
    BY <2>1
  <2>3. p # 0
    <3>1. Right(0)
      <4>1. r + 0 = r /\ r \in NodesOfSkill(b, k)
        <5>1. 0 \in 0 .. L /\ r + 0 = r
          BY <1>1
        <5> QED
          BY <1>1, <5>1
      <4> QED
        BY <1>5, <4>1
    <3> QED
      BY <2>2, <3>1
  <2>4. p \in 1 .. L
    BY <1>1, <2>2, <2>3
  <2>5. PICK u \in 0 .. p-1 : N[r + p].parent = r + u
    BY <1>2, <2>4
  <2>6. u \in 0 .. L /\ ~ (p <= u) /\ r + u # 0
    BY <1>1, <2>4, <2>5
  <2>7. Right(u)
    <3>1. u \notin Wrong
      <4> HIDE DEF Wrong
      <4> QED
        BY <2>1, <2>6
    <3> HIDE DEF Right
    <3> QED
      BY <2>6, <3>1
  <2>8. Upward(f, r + p) = {r + p} \cup Upward(f, r + u)
    BY <1>1, <1>3, <2>2, <2>5, <2>6
  <2>9. r + p \in NodesOfSkill(b, k)
    BY <1>1, <2>2
  <2> QED
    BY <2>2, <2>7, <2>8, <2>9
<1>7. ASSUME NEW p \in 0 .. L PROVE Right(p)
  <2> HIDE DEF Right
  <2> QED
    BY <1>6
<1> QED
  BY <1>4, <1>5, <1>7 DEF f, r, L

\* The nodes of a skill are its root and its parts.
LEMMA SkillNodes ==
  ASSUME NEW b, GoodBook(b), NEW k \in 1 .. Len(b.skills)
  PROVE  /\ NodesOfSkill(b, k) \subseteq 2 .. Len(NodesOf(b))
         /\ \A i \in NodesOfSkill(b, k) : i = Place(b, k) \/ \E p \in 1 .. Len(b.skills[k].parts) : i = Place(b, k) + p
         /\ \A p \in 0 .. Len(b.skills[k].parts) : Place(b, k) + p \in NodesOfSkill(b, k)
         /\ Place(b, k) \in NodesOfSkill(b, k) /\ Place(b, k) + 0 = Place(b, k)
<1> DEFINE r == Place(b, k)
           L == Len(b.skills[k].parts)
           M == Len(NodesOf(b))
<1>1. r \in 2 .. M /\ r \in Nat /\ L \in Nat /\ M \in Nat
  BY NodesAre, Placed, BookIs
<1>2. \A p \in 1 .. L : r + p \in 2 .. M
  BY NodesAre
<1>3. NodesOfSkill(b, k) = r .. r + L
  BY DEF NodesOfSkill
<1> HIDE DEF r, L, M
<1>4. ASSUME NEW i \in r .. r + L
      PROVE  i \in 2 .. M /\ (i = r \/ \E p \in 1 .. L : i = r + p)
  <2>1. CASE i = r
    BY <1>1, <2>1
  <2>2. CASE i # r
    <3> DEFINE p == i - r
    <3>1. p \in 1 .. L /\ i = r + p
      BY <1>1, <2>2
    <3> HIDE DEF p
    <3> QED
      BY <1>2, <3>1
  <2> QED
    BY <2>1, <2>2
<1>5. \A p \in 0 .. L : r + p \in r .. r + L
  BY <1>1
<1>6. r \in r .. r + L /\ r + 0 = r
  BY <1>1
<1>7. /\ NodesOfSkill(b, k) \subseteq 2 .. M
      /\ \A i \in NodesOfSkill(b, k) : i = r \/ \E p \in 1 .. L : i = r + p
      /\ \A p \in 0 .. L : r + p \in NodesOfSkill(b, k)
      /\ r \in NodesOfSkill(b, k) /\ r + 0 = r
  BY <1>3, <1>4, <1>5, <1>6
<1> QED
  BY ONLY <1>7 DEF r, L, M

\* A skill's subtree is its nodes; the bundle's is all of them.
LEMMA SubtreeIs ==
  ASSUME NEW b, GoodBook(b), NEW k \in 1 .. Len(b.skills)
  PROVE  /\ Subtree(Written(b), 1) = 1 .. Len(NodesOf(b))
         /\ Subtree(Written(b), Place(b, k)) = NodesOfSkill(b, k)
<1> DEFINE f == Written(b)
           M == Len(NodesOf(b))
           r == Place(b, k)
<1>1. DOMAIN f.nodes = 1 .. M /\ M \in Nat \ {0}
  BY NodesAre DEF Written
<1>2. ASSUME NEW m \in 1 .. Len(b.skills), NEW i \in NodesOfSkill(b, m)
      PROVE  /\ {1, Place(b, m)} \subseteq Upward(f, i)
             /\ Upward(f, i) \subseteq {1} \cup NodesOfSkill(b, m)
  <2>1. \E p \in 0 .. Len(b.skills[m].parts) : i = Place(b, m) + p
    <3>1. i = Place(b, m) \/ \E p \in 1 .. Len(b.skills[m].parts) : i = Place(b, m) + p
      BY SkillNodes
    <3> DEFINE L == Len(b.skills[m].parts)
    <3>2. 0 \in 0 .. L /\ \A p \in 1 .. L : p \in 0 .. L
      <4>1. L \in Nat
        BY BookIs
      <4> HIDE DEF L
      <4> QED
        BY <4>1
    <3>3. Place(b, m) + 0 = Place(b, m)
      BY SkillNodes
    <3> HIDE DEF L
    <3> QED
      BY <3>1, <3>2, <3>3 DEF L
  <2> HIDE DEF f
  <2> QED
    BY <2>1, UpwardOf DEF f
<1>3. Upward(f, 1) = {1}
  BY UpwardOf
<1>4. \A i \in 2 .. M : \E m \in 1 .. Len(b.skills) : i \in NodesOfSkill(b, m)
  BY NodesAre
<1> HIDE DEF f
<1>5. r \in NodesOfSkill(b, k) /\ r \in 2 .. M /\ NodesOfSkill(b, k) \subseteq 2 .. M
  BY SkillNodes DEF r
<1> HIDE DEF r, M
<1>6. \A i \in 1 .. M : i = 1 \/ i \in 2 .. M
  BY <1>1
<1>7. ASSUME NEW i \in 1 .. M
      PROVE  1 \in Upward(f, i)
  BY <1>2, <1>3, <1>4, <1>6
<1>8. ASSUME NEW i \in 1 .. M
      PROVE  r \in Upward(f, i) <=> i \in NodesOfSkill(b, k)
  <2>1. CASE i = 1
    <3>1. 1 \notin 2 .. M
      OBVIOUS
    <3> QED
      BY <1>3, <1>5, <2>1, <3>1
  <2>2. CASE i # 1
    <3>1. PICK m \in 1 .. Len(b.skills) : i \in NodesOfSkill(b, m)
      BY <1>4, <1>6, <2>2
    <3>2. i \in NodesOfSkill(b, k) => m = k
      BY <3>1, OneSkill
    <3>3. r \in NodesOfSkill(b, m) => m = k
      BY <1>5, OneSkill
    <3>4. r # 1
      BY <1>5
    <3>5. CASE m = k
      BY <1>2, <3>1, <3>5 DEF r
    <3>6. CASE m # k
      BY <1>2, <3>1, <3>2, <3>3, <3>4, <3>6
    <3> QED
      BY <3>5, <3>6
  <2> QED
    BY <2>1, <2>2
<1>9. Subtree(f, 1) = 1 .. M
  BY <1>1, <1>7 DEF Subtree, InSubtree
<1>10. Subtree(f, r) = NodesOfSkill(b, k)
  <2>1. \A i \in 2 .. M : i \in 1 .. M
    BY <1>1
  <2> QED
    BY <1>1, <1>5, <1>8, <2>1 DEF Subtree, InSubtree
<1> QED
  BY <1>9, <1>10 DEF f, r, M

\* The roles of nodes.
LEMMA RolesAre ==
  ASSUME NEW b, GoodBook(b), NEW k \in 1 .. Len(b.skills)
  PROVE  /\ NodesOf(b)[1].role = "bundle"
         /\ NodesOf(b)[Place(b, k)].role = IF b.org /\ k = 1 THEN "charter" ELSE "skill"
         /\ \A p \in 1 .. Len(b.skills[k].parts) :
              NodesOf(b)[Place(b, k) + p].role = b.skills[k].parts[p].role
<1> DEFINE N == NodesOf(b)
<1>1. N[1] = [parent |-> 0, role |-> "bundle"]
  BY NodesAre
<1>2. N[Place(b, k)] = RootOf(b, k)
  BY NodesAre
<1>3. ASSUME NEW p \in 1 .. Len(b.skills[k].parts)
      PROVE  N[Place(b, k) + p].role = b.skills[k].parts[p].role
  <2>1. N[Place(b, k) + p] = PartsOf(b, k)[p]
    BY NodesAre
  <2>2. p \in DOMAIN b.skills[k].parts
    BY BookIs
  <2> HIDE DEF N
  <2> QED
    BY <2>1, <2>2 DEF PartsOf
<1> HIDE DEF N
<1>4. N[1].role = "bundle"
  BY <1>1
<1>5. N[Place(b, k)].role = IF b.org /\ k = 1 THEN "charter" ELSE "skill"
  BY <1>2 DEF RootOf
<1> QED
  BY <1>3, <1>4, <1>5 DEF N

\* The commitment a skill's root is verified under is the root of the file's.
LEMMA CommitmentIsRoot ==
  ASSUME NEW b, GoodBook(b), NEW k \in 1 .. Len(b.skills)
  PROVE  CommitmentFor(Written(b), Place(b, k)) = 1
<1> DEFINE f == Written(b)
           r == Place(b, k)
<1>1. Upward(f, r) = {1, r}
  BY UpwardOf
<1>2. f.nodes[r].role \in {"charter", "skill"}
  BY RolesAre DEF Written
<1>3. r \in Nat /\ r # 1
  BY NodesAre, Placed
<1> HIDE DEF f, r
<1>4. ~ Committed(f, r)
  BY <1>2, <1>3 DEF Committed, Routing
<1>5. Committed(f, 1)
  BY DEF Committed
<1> QED
  BY <1>1, <1>4, <1>5 DEF CommitmentFor, f, r

SegmentNodes(b) == {i \in DOMAIN NodesOf(b) : NodesOf(b)[i].role = "segment"}

\* The record of a segment is at the place its node has among the segments.
LEMMA RecordIs ==
  ASSUME NEW b, GoodBook(b), NEW i \in SegmentNodes(b), NEW root
  PROVE  Written(b).records[SegmentIndex(Written(b), i, root)] = i
<1> DEFINE N == NodesOf(b)
           M == Len(N)
           S == SegmentNodes(b)
           R == {p \in S \X S : p[1] < p[2]}
           c == Cardinality(S)
           placed == {<<k, Cardinality({j \in S : j < k})>> : k \in S}
           At(m) == CHOOSE k \in S : <<k, m>> \in placed
<1>1. M \in Nat /\ DOMAIN N = 1 .. M
  BY NodesAre
<1>2. S \subseteq 1 .. M /\ S \subseteq Nat
  BY <1>1 DEF SegmentNodes
<1>3. IsFiniteSet(S)
  <2>1. IsFiniteSet(1 .. M)
    BY <1>1, FS_Interval
  <2> QED
    BY <1>2, <2>1, FS_Subset
<1>4. Written(b).records = [m \in 1 .. c |-> At(m - 1)]
  BY DEF Written, RecordsOf, Foremost, SegmentNodes
<1>5. SegmentIndex(Written(b), i, root) = Cardinality({m \in 1 .. i : N[m].role = "segment"})
  BY DEF SegmentIndex, Written
<1>6. {m \in 1 .. i : N[m].role = "segment"} = {j \in S : j < i} \cup {i}
  <2>1. i \in 1 .. M /\ N[i].role = "segment"
    BY <1>1 DEF SegmentNodes
  <2>2. \A m : m \in 1 .. i <=> m \in 1 .. M /\ (m < i \/ m = i)
    BY <1>1, <2>1
  <2>3. \A m : m \in S <=> m \in 1 .. M /\ N[m].role = "segment"
    BY <1>1 DEF SegmentNodes
  <2> HIDE DEF S, N, M
  <2> QED
    BY <2>1, <2>2, <2>3
<1>7. \A k \in S : {j \in S : <<j, k>> \in R} = {j \in S : j < k}
  <2>1. \A j, k \in S : <<j, k>> \in R <=> j < k
    BY Zenon
  <2> HIDE DEF S, R
  <2> QED
    BY <2>1
<1>8. Orders(R, S)
  <2>1. \A j, k \in S : <<j, k>> \in R <=> j < k
    BY Zenon
  <2>5. \A x \in S : x \in Nat
    BY <1>2
  <2> HIDE DEF S, R
  <2>2. \A x \in S : <<x, x>> \notin R
    BY <2>1, <2>5
  <2>3. \A x, y, z \in S : <<x, y>> \in R /\ <<y, z>> \in R => <<x, z>> \in R
    BY <2>1, <2>5
  <2>4. ASSUME NEW x \in S, NEW y \in S
        PROVE  x = y \/ <<x, y>> \in R \/ <<y, x>> \in R
    <3>1. x < y \/ y < x \/ x = y
      BY ONLY <2>5
    <3> QED
      BY <2>1, <3>1
  <2> QED
    BY <2>2, <2>3, <2>4 DEF Orders
<1> DEFINE before == {j \in S : j < i}
           a == Cardinality(before)
<1>9. /\ c \in Nat /\ a \in 0 .. c-1
      /\ \A k \in S : Cardinality({j \in S : j < k}) = a => k = i
  <2>1. /\ c \in Nat /\ \A x \in S : Ahead(R, S, x) \in 0 .. c - 1
        /\ \A x, y \in S : Ahead(R, S, x) = Ahead(R, S, y) => x = y
    <3> HIDE DEF S, R
    <3> QED
      BY <1>3, <1>8, Ranked
  <2>2. \A x \in S : Ahead(R, S, x) = Cardinality({j \in S : j < x})
    <3> HIDE DEF S, R
    <3> QED
      BY <1>7 DEF Ahead
  <2>3. i \in S
    OBVIOUS
  <2> HIDE DEF S, R, c
  <2> QED
    BY <2>1, <2>2, <2>3
<1>10. IsFiniteSet(before) /\ i \notin before
  <2>1. before \subseteq S
    OBVIOUS
  <2>2. i \notin before
    BY <1>2
  <2> HIDE DEF S, before
  <2> QED
    BY <1>3, <2>1, <2>2, FS_Subset
<1>11. Cardinality(before \cup {i}) = a + 1
  <2> HIDE DEF before
  <2> QED
    BY <1>10, FS_AddElement
<1>12. SegmentIndex(Written(b), i, root) = a + 1
  BY <1>5, <1>6, <1>11
<1>13. i \in S /\ a = Cardinality({j \in S : j < i})
  OBVIOUS
<1> HIDE DEF a, c, S
<1>14. a + 1 \in 1 .. c /\ (a + 1) - 1 = a
  BY <1>9
<1>15. \A k \in S : <<k, a>> \in placed <=> k = i
  <2>1. \A k \in S : <<k, a>> \in placed => Cardinality({j \in S : j < k}) = a
    BY Zenon
  <2>2. <<i, a>> \in placed
    BY <1>13
  <2> HIDE DEF placed
  <2> QED
    BY <1>9, <2>1, <2>2
<1> HIDE DEF placed
<1>16. At(a) = i
  BY <1>13, <1>15
<1> HIDE DEF At
<1>17. Written(b).records[a + 1] = At(a)
  BY <1>4, <1>14
<1> QED
  BY <1>12, <1>16, <1>17

\* The entries of a file.
LEMMA EntriesAre ==
  ASSUME NEW b, GoodBook(b)
  PROVE  /\ Len(Written(b).entries) = Len(b.skills)
         /\ DOMAIN Written(b).entries = 1 .. Len(b.skills)
         /\ \A k \in 1 .. Len(b.skills) :
              /\ Written(b).entries[k].name = b.skills[k].name
              /\ Written(b).entries[k].root = Place(b, k)
<1>1. Len(b.skills) \in Nat /\ DOMAIN b.skills = 1 .. Len(b.skills)
  BY BookIs
<1>2. Written(b).entries = [k \in 1 .. Len(b.skills) |->
                             [name |-> b.skills[k].name, root |-> Place(b, k)]]
  BY <1>1 DEF Written
<1> QED
  BY <1>1, <1>2

\* What the library takes for the least of a set is its least.
LEMMA LeastIs ==
  ASSUME NEW S, S \subseteq Nat, NEW n \in S
  PROVE  /\ Min(S) \in S /\ \A m \in S : Min(S) <= m
         /\ (\A m \in S : n <= m) => Min(S) = n
<1>1. \E k \in S : \A m \in S : k <= m
  BY Smallest
<1>2. Min(S) \in S /\ \A m \in S : Min(S) <= m
  BY <1>1 DEF Min
<1>3. ASSUME \A m \in S : n <= m PROVE Min(S) = n
  <2>1. n <= Min(S) /\ Min(S) <= n
    BY <1>2, <1>3
  <2>2. n \in Nat /\ Min(S) \in Nat
    BY <1>2
  <2> QED
    BY ONLY <2>1, <2>2
<1> QED
  BY <1>2, <1>3

\* A name is looked up at the first skill so called.
LEMMA RootInIs ==
  ASSUME NEW b, GoodBook(b), NEW name, NEW j \in DOMAIN b.skills, b.skills[j].name = name
  PROVE  /\ SkillAt(b, name) \in 1 .. Len(b.skills)
         /\ RootIn(Written(b), name) = Place(b, SkillAt(b, name))
<1> DEFINE n == Len(b.skills)
           E == Written(b).entries
           I == {i \in 1 .. n : b.skills[i].name = name}
<1>1. n \in Nat /\ DOMAIN b.skills = 1 .. n
  BY BookIs
<1>2. /\ Len(E) = n
      /\ \A k \in 1 .. n : E[k].name = b.skills[k].name /\ E[k].root = Place(b, k)
  BY EntriesAre
<1>3. j \in I /\ I \subseteq Nat
  BY <1>1
<1>4. SkillAt(b, name) = Min(I)
  BY <1>3 DEF SkillAt, SelectInSeq
<1> DEFINE J == {i \in 1 .. Len(E) : E[i].name = name}
<1>5. J = I
  BY <1>2
<1>6. RootIn(Written(b), name) = E[IF J # {} THEN Min(J) ELSE 0].root
  BY DEF RootIn, SelectInSeq
<1> HIDE DEF E, J
<1>7. RootIn(Written(b), name) = E[Min(I)].root
  BY <1>3, <1>5, <1>6
<1>8. Min(I) \in I
  <2> HIDE DEF I
  <2> QED
    BY <1>3, LeastIs
<1>9. Min(I) \in 1 .. n
  BY <1>8
<1> HIDE DEF I
<1> QED
  BY <1>2, <1>4, <1>7, <1>9 DEF n

-----------------------------------------------------------------------------
(***************************************************************************)
(* Relations and members                                                   *)
(***************************************************************************)

\* The part of a skill with a role is the first that has it.
LEMMA PartIs ==
  ASSUME NEW b, GoodBook(b), NEW k \in 1 .. Len(b.skills), NEW role, Holds(b, k, role)
  PROVE  \E q \in 1 .. Len(b.skills[k].parts) :
           /\ PartOf(b, k, role) = Place(b, k) + q
           /\ b.skills[k].parts[q].role = role
           /\ \A p \in 1 .. Len(b.skills[k].parts) : b.skills[k].parts[p].role = role => q <= p
<1> DEFINE s == b.skills[k].parts
           I == {i \in 1 .. Len(s) : s[i].role = role}
<1>1. Len(s) \in Nat /\ DOMAIN s = 1 .. Len(s)
  BY BookIs
<1>2. I # {} /\ I \subseteq Nat
  BY <1>1 DEF Holds
<1>3. PartOf(b, k, role) = Place(b, k) + Min(I)
  BY <1>2 DEF PartOf, SelectInSeq
<1>4. Min(I) \in I /\ \A m \in I : Min(I) <= m
  <2> HIDE DEF I
  <2>1. PICK i : i \in I
    BY <1>2
  <2> QED
    BY <1>2, <2>1, LeastIs
<1> DEFINE q == Min(I)
<1>5. q \in 1 .. Len(s) /\ s[q].role = role /\ \A p \in 1 .. Len(s) : s[p].role = role => q <= p
  <2>1. \A p \in 1 .. Len(s) : s[p].role = role => p \in I
    OBVIOUS
  <2>2. q \in 1 .. Len(s) /\ s[q].role = role
    BY <1>4
  <2> HIDE DEF q, I
  <2> QED
    BY <1>4, <2>1, <2>2 DEF q
<1> HIDE DEF I
<1> QED
  BY <1>3, <1>5

\* An edge joins a node of the one skill to a node of the other.
LEMMA EndsAre ==
  ASSUME NEW b, GoodBook(b), NEW e \in b.edges
  PROVE  /\ e.from \in 1 .. Len(b.skills) /\ Source(b, e) \in NodesOfSkill(b, e.from)
         /\ ~ e.external => /\ e.to \in 1 .. Len(b.skills)
                            /\ Target(b, e) \in NodesOfSkill(b, e.to)
         /\ e.external => e.kind = "cites"
<1>1. /\ e.from \in DOMAIN b.skills
      /\ IF e.external THEN e.kind = "cites" ELSE e.to \in DOMAIN b.skills
      /\ e.kind = "guards" => Holds(b, e.from, "gate")
      /\ e.kind = "needs" => Holds(b, e.to, "artifact")
  BY DEF GoodBook, WellFormed
<1>2. DOMAIN b.skills = 1 .. Len(b.skills)
  BY BookIs
<1>3. ASSUME NEW k \in 1 .. Len(b.skills), NEW role, Holds(b, k, role)
      PROVE  PartOf(b, k, role) \in NodesOfSkill(b, k)
  <2>1. PICK q \in 1 .. Len(b.skills[k].parts) : PartOf(b, k, role) = Place(b, k) + q
    BY <1>3, PartIs
  <2>2. q \in 0 .. Len(b.skills[k].parts)
    <3> DEFINE L == Len(b.skills[k].parts)
    <3>1. L \in Nat /\ q \in 1 .. L
      BY BookIs
    <3> HIDE DEF L
    <3>2. q \in 0 .. L
      BY <3>1
    <3> QED
      BY <3>2 DEF L
  <2> QED
    BY <2>1, <2>2, SkillNodes
<1>4. \A k \in 1 .. Len(b.skills) : Place(b, k) \in NodesOfSkill(b, k)
  BY SkillNodes
<1>5. Source(b, e) \in NodesOfSkill(b, e.from)
  BY <1>1, <1>2, <1>3, <1>4 DEF Source
<1>6. ~ e.external => Target(b, e) \in NodesOfSkill(b, e.to)
  BY <1>1, <1>2, <1>3, <1>4 DEF Target
<1> QED
  BY <1>1, <1>2, <1>5, <1>6

\* The walk upward of a node of a skill, in the table of the file.
LEMMA InTree ==
  ASSUME NEW b, GoodBook(b), NEW k \in 1 .. Len(b.skills), NEW i \in NodesOfSkill(b, k)
  PROVE  /\ {1, Place(b, k)} \subseteq Upward(Written(b), i)
         /\ Upward(Written(b), i) \subseteq {1} \cup NodesOfSkill(b, k)
         /\ i \in DOMAIN Written(b).nodes
<1> DEFINE f == Written(b)
           L == Len(b.skills[k].parts)
           r == Place(b, k)
<1>1. \E p \in 0 .. L : i = r + p
  <2>1. i = r \/ \E p \in 1 .. L : i = r + p
    BY SkillNodes
  <2>2. 0 \in 0 .. L /\ \A p \in 1 .. L : p \in 0 .. L
    <3>1. L \in Nat
      BY BookIs
    <3> HIDE DEF L
    <3> QED
      BY <3>1
  <2>3. r + 0 = r
    BY SkillNodes
  <2> HIDE DEF L, r
  <2> QED
    BY <2>1, <2>2, <2>3
<1>2. \A p \in 0 .. L : /\ {1, r} \subseteq Upward(f, r + p)
                        /\ Upward(f, r + p) \subseteq {1} \cup NodesOfSkill(b, k)
  BY UpwardOf
<1>3. i \in DOMAIN f.nodes
  <2> DEFINE M == Len(NodesOf(b))
  <2>1. i \in 2 .. M /\ M \in Nat /\ DOMAIN f.nodes = 1 .. M
    BY SkillNodes, NodesAre DEF Written
  <2> HIDE DEF M, f
  <2> QED
    BY <2>1
<1> HIDE DEF f, r, L
<1> QED
  BY <1>1, <1>2, <1>3 DEF f, r

\* The owner of a skill's node is the skill.
LEMMA OwnerIs ==
  ASSUME NEW b, GoodBook(b), NEW k \in 1 .. Len(b.skills), NEW i \in NodesOfSkill(b, k)
  PROVE  Owner(Written(b), i) = b.skills[k].name
<1> DEFINE f == Written(b)
           n == Len(b.skills)
           E == f.entries
           roots == {E[m].root : m \in DOMAIN E}
           above == Upward(f, i) \cap roots
           r == Place(b, k)
           I == {m \in 1 .. Len(E) : E[m].root \in above /\ \A x \in above : x <= E[m].root}
<1>1. /\ Len(E) = n /\ DOMAIN E = 1 .. n /\ n \in Nat
      /\ \A m \in 1 .. n : E[m].name = b.skills[m].name /\ E[m].root = Place(b, m)
  BY EntriesAre, BookIs
<1>2. /\ {1, r} \subseteq Upward(f, i) /\ Upward(f, i) \subseteq {1} \cup NodesOfSkill(b, k)
      /\ i \in DOMAIN f.nodes
  BY InTree
<1>3. \A m \in 1 .. n : Place(b, m) # 1 /\ (Place(b, m) \in NodesOfSkill(b, k) => m = k)
  <2>1. \A m \in 1 .. n : Place(b, m) \in NodesOfSkill(b, m) /\ Place(b, m) \in 2 .. Len(NodesOf(b))
    BY SkillNodes, NodesAre
  <2>2. \A m \in 1 .. n : Place(b, m) \in NodesOfSkill(b, k) => m = k
    BY <2>1, OneSkill
  <2> QED
    BY <2>1, <2>2
<1>4. Owner(f, i) = IF above = {} THEN "node" ELSE E[IF I # {} THEN Min(I) ELSE 0].name
  BY <1>2 DEF Owner, SelectInSeq
<1> HIDE DEF f, E
<1>5. roots = {Place(b, m) : m \in 1 .. n}
  BY <1>1
<1> HIDE DEF roots
<1>6. above = {r}
  <2>1. r \in above
    BY <1>2, <1>5 DEF r
  <2>2. ASSUME NEW x \in above PROVE x = r
    <3>1. PICK m \in 1 .. n : x = Place(b, m)
      BY <1>5
    <3>2. m = k
      BY <1>2, <1>3, <3>1
    <3> QED
      BY <3>1, <3>2 DEF r
  <2> QED
    BY <2>1, <2>2
<1>7. r \in Nat /\ k \in 1 .. n
  BY Placed
<1> HIDE DEF above
<1>8. I = {k}
  <2>1. \A m \in 1 .. n : E[m].root = r => m = k
    <3>1. r \in NodesOfSkill(b, k)
      BY SkillNodes DEF r
    <3> HIDE DEF r
    <3> QED
      BY <1>1, <1>3, <3>1
  <2>2. E[k].root = r /\ r <= r
    BY <1>1, <1>7 DEF r
  <2> HIDE DEF r
  <2> QED
    BY <1>1, <1>6, <1>7, <2>1, <2>2
<1>9. Min(I) = k
  <2>1. {k} \subseteq Nat /\ k \in {k} /\ \A m \in {k} : k <= m
    BY <1>7
  <2>2. Min({k}) = k
    BY <2>1, LeastIs
  <2> QED
    BY <1>8, <2>2
<1>10. I # {} /\ above # {}
  BY <1>6, <1>8
<1> HIDE DEF I
<1>11. Owner(f, i) = E[k].name
  BY <1>4, <1>9, <1>10
<1> QED
  BY <1>1, <1>7, <1>11 DEF f

\* Relations of a file and of its book.
LEMMA RelationsAre ==
  ASSUME NEW b, GoodBook(b), NEW kind
  PROVE  /\ Related(b, kind) \subseteq Relations(Written(b), kind)
         /\ kind # "cites" \/ (\A e \in b.edges : ~ e.external)
              => Relations(Written(b), kind) = Related(b, kind)
<1> DEFINE f == Written(b)
           W(e) == [kind |-> e.kind, src |-> Source(b, e), dst |-> Target(b, e)]
           name(k) == b.skills[k].name
<1>1. f.edges = {W(e) : e \in b.edges}
  BY DEF Written
<1>2. \A e \in b.edges : W(e).kind = e.kind /\ W(e).src = Source(b, e) /\ W(e).dst = Target(b, e)
  OBVIOUS
<1>3. ASSUME NEW e \in b.edges, ~ e.external
      PROVE  <<Owner(f, W(e).src), Owner(f, W(e).dst)>> = <<name(e.from), name(e.to)>>
  BY <1>3, EndsAre, OwnerIs
<1>4. Relations(f, kind) = {<<Owner(f, x.src), Owner(f, x.dst)>> : x \in {y \in f.edges : y.kind = kind}}
  BY DEF Relations
<1>5. Related(b, kind) =
        {<<name(e.from), name(e.to)>> : e \in {x \in b.edges : x.kind = kind /\ ~ x.external}}
  BY DEF Related
<1> HIDE DEF f, W, name
<1>6. ASSUME NEW e \in b.edges, e.kind = kind, ~ e.external
      PROVE  <<name(e.from), name(e.to)>> \in Relations(f, kind)
  <2>1. W(e) \in {y \in f.edges : y.kind = kind}
    BY <1>1, <1>2, <1>6
  <2> QED
    BY <1>3, <1>4, <1>6, <2>1
<1>7. Related(b, kind) \subseteq Relations(f, kind)
  BY <1>5, <1>6
<1>8. ASSUME kind # "cites" \/ (\A e \in b.edges : ~ e.external)
      PROVE  Relations(f, kind) \subseteq Related(b, kind)
  <2> SUFFICES ASSUME NEW t \in Relations(f, kind) PROVE t \in Related(b, kind)
    OBVIOUS
  <2>1. PICK x \in {y \in f.edges : y.kind = kind} : t = <<Owner(f, x.src), Owner(f, x.dst)>>
    BY <1>4
  <2>2. PICK e \in b.edges : x = W(e)
    BY <1>1, <2>1
  <2>3. e.kind = kind
    BY <1>2, <2>1, <2>2
  <2>4. ~ e.external
    BY <1>8, <2>3, EndsAre
  <2>5. t = <<name(e.from), name(e.to)>>
    BY <1>3, <2>1, <2>2, <2>4
  <2> QED
    BY <1>5, <2>3, <2>4, <2>5
<1> QED
  BY <1>7, <1>8 DEF f

\* What is read for a role is the skill's own part of that role.
LEMMA OwnPartIs ==
  ASSUME NEW b, GoodBook(b), NEW k \in 1 .. Len(b.skills), NEW role \in {"artifact", "gate"},
         b.health # "frame"
  PROVE  WithRole(Written(b), Place(b, k), role) = OwnPart(b, k, role)
<1> DEFINE f == Written(b)
           r == Place(b, k)
           s == b.skills[k].parts
           there == {n \in Subtree(f, r) : f.nodes[n].role = role}
<1>1. Len(s) \in Nat /\ DOMAIN s = 1 .. Len(s) /\ r \in Nat
  BY BookIs, Placed
<1>2. Subtree(f, r) = NodesOfSkill(b, k)
  BY SubtreeIs
<1>3. /\ f.nodes[r].role # role
      /\ \A p \in 1 .. Len(s) : f.nodes[r + p].role = s[p].role
  BY RolesAre DEF Written
<1>4. /\ \A i \in NodesOfSkill(b, k) : i = r \/ \E p \in 1 .. Len(s) : i = r + p
      /\ \A p \in 1 .. Len(s) : r + p \in NodesOfSkill(b, k)
  <2>1. \A p \in 1 .. Len(s) : p \in 0 .. Len(s)
    BY <1>1
  <2> HIDE DEF s
  <2> QED
    BY <2>1, SkillNodes DEF s
<1>5. f.book.health # "frame"
  BY DEF Written
<1>6. WithRole(f, r, role) =
        IF there = {} THEN 0 ELSE CHOOSE n \in there : \A m \in there : n <= m
  BY <1>5 DEF WithRole
<1>7. OwnPart(b, k, role) = IF Holds(b, k, role) THEN PartOf(b, k, role) ELSE 0
  BY DEF OwnPart
<1>9. Holds(b, k, role) <=> \E p \in 1 .. Len(s) : s[p].role = role
  BY <1>1 DEF Holds
<1> SUFFICES WithRole(f, r, role) = OwnPart(b, k, role)
  OBVIOUS
<1> HIDE DEF f, r, s
<1>8. \A n : n \in there <=> \E p \in 1 .. Len(s) : n = r + p /\ s[p].role = role
  BY <1>2, <1>3, <1>4
<1> HIDE DEF there
<1>10. CASE ~ Holds(b, k, role)
  BY <1>6, <1>7, <1>8, <1>9, <1>10
<1>11. CASE Holds(b, k, role)
  <2>1. PICK q \in 1 .. Len(s) :
          /\ PartOf(b, k, role) = r + q /\ s[q].role = role
          /\ \A p \in 1 .. Len(s) : s[p].role = role => q <= p
    BY <1>11, PartIs DEF s, r
  <2>2. r + q \in there /\ \A m \in there : r + q <= m
    BY <1>1, <1>8, <2>1
  <2>3. there \subseteq Nat
    BY <1>1, <1>8
  <2>4. ASSUME NEW n \in there, \A m \in there : n <= m
        PROVE  n = r + q
    <3> DEFINE x == r + q
    <3>1. x \in there /\ \A m \in there : x <= m
      BY <2>2
    <3> HIDE DEF x
    <3>2. n <= x /\ x <= n /\ n \in Nat /\ x \in Nat
      BY <2>3, <2>4, <3>1
    <3>3. n = x
      BY ONLY <3>2
    <3> QED
      BY <3>3 DEF x
  <2>5. (CHOOSE n \in there : \A m \in there : n <= m) = r + q
    BY <2>2, <2>4
  <2>6. there # {}
    BY <2>2
  <2> QED
    BY <1>6, <1>7, <1>11, <2>1, <2>5, <2>6
<1> QED
  BY <1>10, <1>11

MembersRight(members, b) ==
  LET first == IF b.org THEN 1 ELSE 0
  IN  /\ [k \in DOMAIN members |-> members[k].name]
           = [k \in 1 .. Len(b.skills) - first |-> b.skills[k + first].name]
      /\ b.health # "frame" =>
           \A k \in DOMAIN members : \A role \in {"artifact", "gate"} :
             members[k][role] = OwnPart(b, k + first, role)

\* Members are named in their order, with their own artifact and gate.
LEMMA MembersAre ==
  ASSUME NEW b, GoodBook(b)
  PROVE  MembersRight(MembersOf(Written(b)), b)
<1> DEFINE first == IF b.org THEN 1 ELSE 0
           f == Written(b)
           n == Len(b.skills)
           E == f.entries
           Entry(k) == E[IF Chartered(f) THEN k + 1 ELSE k]
           mem == MembersOf(f)
<1>1. /\ Len(E) = n /\ n \in Nat \ {0}
      /\ \A m \in 1 .. n : E[m].name = b.skills[m].name /\ E[m].root = Place(b, m)
  BY EntriesAre, BookIs
<1>2. Chartered(f) <=> b.org
  <2>1. 1 \in 1 .. n
    BY <1>1
  <2>2. f.nodes[Place(b, 1)].role = IF b.org /\ 1 = 1 THEN "charter" ELSE "skill"
    BY <2>1, RolesAre DEF Written
  <2>3. E[1].root = Place(b, 1)
    BY <1>1, <2>1
  <2> HIDE DEF f
  <2> QED
    BY <2>2, <2>3 DEF Chartered
<1>3. mem = [k \in 1 .. n - (IF Chartered(f) THEN 1 ELSE 0) |->
               [name |-> Entry(k).name, artifact |-> WithRole(f, Entry(k).root, "artifact"),
                gate |-> WithRole(f, Entry(k).root, "gate")]]
  BY <1>1 DEF MembersOf
<1>4. (IF Chartered(f) THEN 1 ELSE 0) = first /\ first \in {0, 1}
  BY <1>2
<1>5. \A k \in Nat : (IF Chartered(f) THEN k + 1 ELSE k) = k + first
  BY <1>2
<1> HIDE DEF first, f, E, n, mem
<1>6. DOMAIN mem = 1 .. n - first
  BY <1>3, <1>4
<1>7. ASSUME NEW k \in 1 .. n - first
      PROVE  /\ k + first \in 1 .. n
             /\ mem[k].name = b.skills[k + first].name
             /\ mem[k].artifact = WithRole(f, Place(b, k + first), "artifact")
             /\ mem[k].gate = WithRole(f, Place(b, k + first), "gate")
  <2>1. k \in Nat /\ k + first \in 1 .. n
    BY <1>1, <1>4
  <2>2. Entry(k) = E[k + first]
    BY <1>5, <2>1
  <2>3. mem[k] = [name |-> Entry(k).name, artifact |-> WithRole(f, Entry(k).root, "artifact"),
                  gate |-> WithRole(f, Entry(k).root, "gate")]
    BY <1>3, <1>4
  <2> HIDE DEF Entry
  <2> QED
    BY <1>1, <2>1, <2>2, <2>3
<1>8. [k \in DOMAIN mem |-> mem[k].name]
        = [k \in 1 .. n - first |-> b.skills[k + first].name]
  BY <1>6, <1>7
<1>9. ASSUME b.health # "frame", NEW k \in DOMAIN mem
      PROVE  \A role \in {"artifact", "gate"} : mem[k][role] = OwnPart(b, k + first, role)
  <2>1. k + first \in 1 .. Len(b.skills)
    BY <1>6, <1>7 DEF n
  <2>2. \A role \in {"artifact", "gate"} :
          WithRole(f, Place(b, k + first), role) = OwnPart(b, k + first, role)
    BY <1>9, <2>1, OwnPartIs DEF f
  <2> QED
    BY <1>6, <1>7, <2>2
<1> QED
  BY <1>8, <1>9, Zenon DEF MembersRight, mem, f, n, first

-----------------------------------------------------------------------------
(***************************************************************************)
(* The catalogue                                                           *)
(***************************************************************************)
GoodBooks == {b \in Book : WellFormed(b)}
GoodFiles == {Written(b) : b \in GoodBooks}

\* A file held is written from the book it carries.
LEMMA GoodFilesAre ==
  ASSUME NEW f \in GoodFiles
  PROVE  GoodBook(f.book) /\ f = Written(f.book)
<1>1. PICK b \in GoodBooks : f = Written(b)
  BY DEF GoodFiles
<1>2. Written(b).book = b
  BY DEF Written
<1> QED
  BY <1>1, <1>2 DEF GoodBook, GoodBooks

\* Each skill listed is in the container it says, and has its own vector or none.
Catalogued(h, cat, vec) ==
  /\ Len(cat) \in Nat /\ DOMAIN cat = 1 .. Len(cat)
  /\ Len(vec) = Len(cat) /\ DOMAIN vec = DOMAIN cat
  /\ \A k \in DOMAIN cat :
       /\ cat[k].container \in DOMAIN h /\ cat[k].name \in Names
       /\ vec[k] = IF h[cat[k].container].book.vectors THEN cat[k].name ELSE NONE

\* A function on the first numbers is a sequence.
LEMMA ListIs ==
  ASSUME NEW S, NEW m \in Nat, NEW f \in [1 .. m -> S]
  PROVE  f \in Seq(S) /\ Len(f) = m
OBVIOUS

\* What the start puts together is the catalogue of what is held, and the
\* vectors stand beside it one for one.
LEMMA ParseCatalogues ==
  ASSUME NEW h \in Seq(GoodFiles), h # <<>>
  PROVE  Catalogued(h,
           FlattenSeq([i \in DOMAIN h |->
             [k \in DOMAIN h[i].entries |-> [container |-> i, name |-> h[i].entries[k].name]]]),
           FlattenSeq([i \in DOMAIN h |-> VectorsOf(h[i])]))
<1> DEFINE n == Len(h)
           L(i) == Len(h[i].book.skills)
           C == [i \in DOMAIN h |-> [k \in DOMAIN h[i].entries |->
                                      [container |-> i, name |-> h[i].entries[k].name]]]
           V == [i \in DOMAIN h |-> VectorsOf(h[i])]
           cat == FlattenSeq(C)
           vec == FlattenSeq(V)
           B == [i \in 1 .. n |-> 1 .. L(i)]
           size == [i \in 1 .. n |-> L(i)]
           Listings == [container : DOMAIN h, name : Names]
           Named == Names \cup {NONE}
<1>1. n \in Nat \ {0} /\ DOMAIN h = 1 .. n /\ \A i \in 1 .. n : h[i] \in GoodFiles
  OBVIOUS
<1>2. ASSUME NEW i \in 1 .. n
      PROVE  /\ L(i) \in Nat
             /\ DOMAIN h[i].entries = 1 .. L(i)
             /\ \A k \in 1 .. L(i) : h[i].entries[k].name \in Names
             /\ h[i].book.vectors \in BOOLEAN
  <2> DEFINE b == h[i].book
  <2>1. GoodBook(b) /\ h[i] = Written(b)
    BY <1>1, GoodFilesAre
  <2> HIDE DEF b
  <2>2. /\ Len(b.skills) \in Nat /\ b.vectors \in BOOLEAN
        /\ \A k \in 1 .. Len(b.skills) : b.skills[k].name \in Names
    BY <2>1, BookIs
  <2>3. /\ DOMAIN Written(b).entries = 1 .. Len(b.skills)
        /\ \A k \in 1 .. Len(b.skills) : Written(b).entries[k].name = b.skills[k].name
    BY <2>1, EntriesAre
  <2> QED
    BY <2>1, <2>2, <2>3 DEF b
<1> HIDE DEF L, n
<1>3. ASSUME NEW i \in 1 .. n
      PROVE  /\ C[i] = [k \in 1 .. L(i) |-> [container |-> i, name |-> h[i].entries[k].name]]
             /\ V[i] = [k \in 1 .. L(i) |->
                          IF h[i].book.vectors THEN h[i].entries[k].name ELSE NONE]
             /\ C[i] \in Seq(Listings) /\ Len(C[i]) = L(i)
             /\ V[i] \in Seq(Named) /\ Len(V[i]) = L(i)
  <2>1. C[i] = [k \in 1 .. L(i) |-> [container |-> i, name |-> h[i].entries[k].name]]
    BY <1>1, <1>2
  <2>2. V[i] = [k \in 1 .. L(i) |-> IF h[i].book.vectors THEN h[i].entries[k].name ELSE NONE]
    BY <1>1, <1>2 DEF VectorsOf
  <2>3. C[i] \in [1 .. L(i) -> Listings]
    BY <1>1, <1>2, <2>1
  <2>4. V[i] \in [1 .. L(i) -> Named]
    BY <1>2, <2>2
  <2>5. L(i) \in Nat
    BY <1>2
  <2> HIDE DEF C, V, Listings, Named
  <2>6. C[i] \in Seq(Listings) /\ Len(C[i]) = L(i)
    BY ONLY <2>3, <2>5, ListIs
  <2>7. V[i] \in Seq(Named) /\ Len(V[i]) = L(i)
    BY ONLY <2>4, <2>5, ListIs
  <2> QED
    BY <2>1, <2>2, <2>6, <2>7, Zenon
<1>4. Len(C) = n /\ Len(V) = n
  BY <1>1
<1> HIDE DEF C, V
<1>5. \A i \in 1 .. n : IsFiniteSet(B[i]) /\ Cardinality(B[i]) = L(i)
  <2> SUFFICES ASSUME NEW i \in 1 .. n PROVE IsFiniteSet(B[i]) /\ Cardinality(B[i]) = L(i)
    OBVIOUS
  <2>1. L(i) \in Nat /\ B[i] = 1 .. L(i)
    BY <1>2
  <2> HIDE DEF B
  <2> DEFINE m == L(i)
  <2>2. m \in Nat /\ m \in Int /\ 1 \in Int /\ B[i] = 1 .. m
    BY <2>1
  <2> HIDE DEF m
  <2>3. IsFiniteSet(1 .. m) /\ Cardinality(1 .. m) = IF 1 > m THEN 0 ELSE m - 1 + 1
    BY ONLY <2>2, FS_Interval
  <2>4. Cardinality(1 .. m) = m
    BY <2>2, <2>3
  <2> QED
    BY <2>2, <2>3, <2>4 DEF m
<1>6. PICK start : /\ start = [k \in 1 .. n+1 |-> Cardinality(Under(B, k-1))]
                   /\ start[1] = 0
                   /\ \A k \in 1 .. n : start[k+1] = start[k] + Cardinality(B[k])
  <2> HIDE DEF B
  <2>1. n \in Nat \ {0} /\ \A j \in 1 .. n : IsFiniteSet(B[j])
    BY <1>1, <1>5
  <2> QED
    BY ONLY <2>1, BeginsUnder
<1>7. Begins(C, n, start) /\ Begins(V, n, start)
  <2>1. \A k \in 1 .. n : Len(C[k]) = L(k) /\ Len(V[k]) = L(k)
    BY <1>3
  <2>2. \A k \in 1 .. n : start[k+1] = start[k] + L(k)
    BY <1>5, <1>6, Zenon
  <2> QED
    BY <1>6, <2>1, <2>2, Zenon DEF Begins
<1> HIDE DEF B, Listings, Named
<1>8. cat \in Seq(Listings) /\ Laid(cat, C, n, start)
  <2>1. \A k \in 1 .. n : C[k] \in Seq(Listings)
    BY <1>3
  <2> QED
    BY ONLY <1>1, <1>4, <1>7, <2>1, FlattenLays
<1>9. vec \in Seq(Named) /\ Laid(vec, V, n, start)
  <2>1. \A k \in 1 .. n : V[k] \in Seq(Named)
    BY <1>3
  <2> QED
    BY ONLY <1>1, <1>4, <1>7, <2>1, FlattenLays
<1> HIDE DEF cat, vec
<1>10. Len(cat) = start[n+1] /\ Len(vec) = start[n+1]
  BY <1>8, <1>9 DEF Laid
<1>11. /\ Len(cat) \in Nat /\ DOMAIN cat = 1 .. Len(cat)
       /\ DOMAIN vec = 1 .. Len(vec)
  BY <1>8, <1>9
<1>12. Stretches(n, start, size)
  <2>1. \A i \in 1 .. n : size[i] = L(i) /\ L(i) \in Nat
    BY <1>2
  <2>2. \A i \in 1 .. n : start[i] \in Nat
    BY <1>8 DEF Laid
  <2> HIDE DEF size
  <2> QED
    BY <1>5, <1>6, <2>1, <2>2 DEF Stretches
<1>13. ASSUME NEW k \in 1 .. Len(cat)
       PROVE  /\ cat[k].container \in DOMAIN h /\ cat[k].name \in Names
              /\ vec[k] = IF h[cat[k].container].book.vectors THEN cat[k].name ELSE NONE
  <2>1. PICK i \in 1 .. n : k - start[i] \in 1 .. size[i]
    <3> HIDE DEF size
    <3> QED
      BY <1>1, <1>10, <1>12, Covered
  <2> DEFINE p == k - start[i]
  <2>2. p \in 1 .. L(i) /\ L(i) \in Nat
    BY <1>2, <2>1
  <2>3. start[i] \in Nat
    BY <1>8 DEF Laid
  <2>4. k = start[i] + p
    BY <1>11, <2>3
  <2> HIDE DEF p, size
  <2>5. cat[k] = C[i][p] /\ vec[k] = V[i][p]
    BY <1>3, <1>8, <1>9, <2>2, <2>4 DEF Laid
  <2>6. C[i][p] = [container |-> i, name |-> h[i].entries[p].name]
    <3>1. C[i] = [m \in 1 .. L(i) |-> [container |-> i, name |-> h[i].entries[m].name]]
      BY <1>3
    <3> QED
      BY ONLY <2>2, <3>1
  <2>7. V[i][p] = IF h[i].book.vectors THEN h[i].entries[p].name ELSE NONE
    BY <1>3, <2>2
  <2>8. cat[k].container = i /\ cat[k].name = h[i].entries[p].name
    BY <2>5, <2>6
  <2> QED
    BY <1>1, <1>2, <2>2, <2>5, <2>7, <2>8
<1>14. Catalogued(h, cat, vec)
  BY <1>10, <1>11, <1>13 DEF Catalogued
<1> QED
  BY <1>14 DEF cat, vec, C, V

-----------------------------------------------------------------------------
(***************************************************************************)
(* The ranking of a search                                                 *)
(***************************************************************************)
LEMMA ShareIs ==
  ASSUME NEW m \in 0 .. 2, NEW x \in 0 .. m, NEW y \in 0 .. m
  PROVE  /\ Share(x, m) \in 0 .. 2
         /\ x = 0 => Share(x, m) = 0
         /\ x < y => Share(x, m) < Share(y, m)
         /\ x <= y => Share(x, m) <= Share(y, m)
<1>1. /\ m = 0 \/ m = 1 \/ m = 2
      /\ x = 0 \/ x = 1 \/ x = 2
      /\ y = 0 \/ y = 1 \/ y = 2
      /\ x <= m /\ y <= m
  OBVIOUS
<1>2. /\ (2 * 0) \div 1 = 0 /\ (2 * 1) \div 1 = 2
      /\ (2 * 0) \div 2 = 0 /\ (2 * 1) \div 2 = 1 /\ (2 * 2) \div 2 = 2
  OBVIOUS
<1>3. /\ \A z : Share(z, 0) = 0
      /\ Share(0, 1) = 0 /\ Share(1, 1) = 2
      /\ Share(0, 2) = 0 /\ Share(1, 2) = 1 /\ Share(2, 2) = 2
  BY <1>2 DEF Share
<1>4. CASE m = 0
  BY <1>1, <1>3, <1>4
<1>5. CASE m = 1
  BY <1>1, <1>3, <1>5
<1>6. CASE m = 2
  BY <1>1, <1>3, <1>6
<1> QED
  BY <1>1, <1>4, <1>5, <1>6

\* The blend rises with either score.
LEMMA BlendRises ==
  ASSUME NEW bs \in 0 .. 2, NEW bl \in 0 .. 2,
         NEW s1 \in 0 .. bs, NEW s2 \in 0 .. bs, NEW l1 \in 0 .. bl, NEW l2 \in 0 .. bl
  PROVE  /\ 7 * Share(s1, bs) + 3 * Share(l1, bl) \in Nat
         /\ 7 * Share(s1, bs) + 3 * Share(l1, bl) > 0 => l1 + s1 > 0
         /\ (l1 >= l2 /\ s1 >= s2 /\ (l1 > l2 \/ s1 > s2)) =>
              7 * Share(s1, bs) + 3 * Share(l1, bl) > 7 * Share(s2, bs) + 3 * Share(l2, bl)
<1> DEFINE a == Share(s1, bs)
           b == Share(s2, bs)
           c == Share(l1, bl)
           d == Share(l2, bl)
<1>1. /\ s2 < s1 => b < a
      /\ s2 <= s1 => b <= a
  BY ShareIs
<1>2. /\ l2 < l1 => d < c
      /\ l2 <= l1 => d <= c
  BY ShareIs
<1> HIDE DEF a, b, c, d
<1>3. a \in Nat /\ b \in Nat /\ c \in Nat /\ d \in Nat
      /\ s1 \in Nat /\ s2 \in Nat /\ l1 \in Nat /\ l2 \in Nat
  <2>1. a \in 0 .. 2 /\ b \in 0 .. 2 /\ c \in 0 .. 2 /\ d \in 0 .. 2
    BY ShareIs DEF a, b, c, d
  <2> QED
    BY <2>1
<1>4. 7 * a + 3 * c \in Nat
  BY <1>3
<1>5. 7 * a + 3 * c > 0 => l1 + s1 > 0
  <2>1. s1 = 0 => a = 0
    BY ShareIs DEF a
  <2>2. l1 = 0 => c = 0
    BY ShareIs DEF c
  <2> QED
    BY <1>3, <2>1, <2>2
<1>6. (l1 >= l2 /\ s1 >= s2 /\ (l1 > l2 \/ s1 > s2)) => 7 * a + 3 * c > 7 * b + 3 * d
  BY <1>1, <1>2, <1>3
<1> QED
  BY <1>4, <1>5, <1>6 DEF a, b, c, d

\* The list of the first m: what comes before one of them is listed before it.
FirstOf(m, S, R) ==
  [i \in 1 .. m |-> CHOOSE k \in S : <<k, i - 1>> \in {<<x, Ahead(R, S, x)>> : x \in S}]

\* Whatever comes before a listed one in the order is listed before it.
LEMMA ListRanked ==
  ASSUME NEW S, IsFiniteSet(S), NEW R, Orders(R, S), NEW m \in Nat, m <= Cardinality(S)
  PROVE  \A i \in 1 .. m :
           /\ FirstOf(m, S, R)[i] \in S
           /\ \A j \in S : <<j, FirstOf(m, S, R)[i]>> \in R =>
                \E l \in 1 .. i - 1 : FirstOf(m, S, R)[l] = j
<1> DEFINE list == FirstOf(m, S, R)
           c == Cardinality(S)
           A(x) == Ahead(R, S, x)
           placed == {<<x, A(x)>> : x \in S}
           At(n) == CHOOSE k \in S : <<k, n>> \in placed
<1>1. /\ c \in Nat
      /\ \A x \in S : A(x) \in 0 .. c - 1
      /\ \A x, y \in S : <<x, y>> \in R => A(x) < A(y)
      /\ \A x, y \in S : A(x) = A(y) => x = y
      /\ \A i \in 1 .. c : \E x \in S : A(x) = i - 1
  BY Ranked
<1>2. \A x \in S : \A n : <<x, n>> \in placed <=> n = A(x)
  <2>1. \A x \in S : \A n : <<x, n>> \in placed => n = A(x)
    BY Zenon
  <2>2. \A x \in S : <<x, A(x)>> \in placed
    BY Zenon
  <2> HIDE DEF A, placed
  <2> QED
    BY <2>1, <2>2
<1>3. \A i \in 1 .. m : list[i] = At(i - 1)
  BY DEF FirstOf
<1> HIDE DEF c, A, placed, list
<1>4. ASSUME NEW i \in 1 .. m
      PROVE  At(i - 1) \in S /\ A(At(i - 1)) = i - 1
  <2>1. i \in 1 .. c
    BY <1>1 DEF c
  <2> DEFINE n == i - 1
  <2>2. \E x \in S : A(x) = n
    BY <1>1, <2>1
  <2> HIDE DEF n
  <2>3. \E x \in S : <<x, n>> \in placed
    BY <1>2, <2>2
  <2>4. At(n) \in S /\ <<At(n), n>> \in placed
    BY <2>3
  <2> HIDE DEF At
  <2>5. A(At(n)) = n
    BY <1>2, <2>4
  <2> QED
    BY <2>4, <2>5 DEF n
<1> HIDE DEF At
<1>5. ASSUME NEW i \in 1 .. m, NEW j \in S, <<j, list[i]>> \in R
      PROVE  \E l \in 1 .. i - 1 : list[l] = j
  <2>1. list[i] \in S /\ A(list[i]) = i - 1
    BY <1>3, <1>4
  <2>2. A(j) < i - 1 /\ A(j) \in 0 .. c - 1
    BY <1>1, <1>5, <2>1
  <2> DEFINE l == A(j) + 1
  <2>3. l \in 1 .. i - 1 /\ l \in 1 .. m /\ l - 1 = A(j)
    BY <1>1, <2>2
  <2> HIDE DEF l
  <2>4. list[l] \in S /\ A(list[l]) = A(j)
    BY <1>3, <1>4, <2>3
  <2>5. list[l] = j
    BY <1>1, <2>4
  <2> QED
    BY <2>3, <2>5
<1>6. \A i \in 1 .. m : list[i] \in S
  BY <1>3, <1>4
<1> QED
  BY <1>5, <1>6 DEF list

-----------------------------------------------------------------------------
(***************************************************************************)
(* What an answer has to be, of a call, a catalogue and the containers     *)
(***************************************************************************)
ZerosOf(cat) == [k \in DOMAIN cat |-> 0]
MeaningOf(q, cat, vec) ==
  [k \in DOMAIN cat |-> IF k \notin DOMAIN vec \/ vec[k] = NONE THEN 0
                        ELSE Positive(Similar[q][vec[k]])]

WorthOf(q, s, h, meant) ==
  [lexical |-> Lexical[q][s.name],
   semantic |-> IF meant /\ h[s.container].book.vectors THEN Positive(Similar[q][s.name]) ELSE 0]

\* The two scores of every skill are its own.
Valued(lex, sem, q, cat, h) ==
  \E meant \in BOOLEAN : \A k \in DOMAIN cat :
    [lexical |-> lex[k], semantic |-> sem[k]] = WorthOf(q, cat[k], h, meant)

Beats(lex, sem, j, k) ==
  /\ lex[j] >= lex[k] /\ sem[j] >= sem[k]
  /\ lex[j] > lex[k] \/ sem[j] > sem[k]

\* No hit is worth nothing, and whatever beats it comes before it.
Earned(hits, lex, sem, cat) ==
  \A i \in DOMAIN hits :
    /\ lex[hits[i]] + sem[hits[i]] > 0
    /\ \A j \in DOMAIN cat : Beats(lex, sem, j, hits[i]) =>
         \E l \in 1 .. i - 1 : hits[l] = j

SearchRight(r, cat, h) ==
  /\ Valued(r.answer.lexical, r.answer.semantic, r.query, cat, h)
  /\ Earned(r.answer.hits, r.answer.lexical, r.answer.semantic, cat)

\* The scores a search ranks by.
LEMMA ScoresAre ==
  ASSUME NEW q \in Queries, NEW h, NEW cat, NEW vec, Catalogued(h, cat, vec),
         NEW sem, sem = ZerosOf(cat) \/ sem = MeaningOf(q, cat, vec),
         NEW lex, lex = [k \in DOMAIN cat |-> Lexical[q][cat[k].name]]
  PROVE  /\ \A k \in DOMAIN cat : sem[k] \in 0 .. 2 /\ lex[k] \in 0 .. 2
         /\ Valued(lex, sem, q, cat, h)
<1>1. /\ Lexical[q] \in [Names -> 0 .. 2] /\ Similar[q] \in [Names -> -2 .. 2]
      /\ NONE \notin Names
  BY LibraryAssumption
<1>2. \A x \in Names : Lexical[q][x] \in 0 .. 2 /\ Positive(Similar[q][x]) \in 0 .. 2
  <2>1. \A n \in -2 .. 2 : Positive(n) \in 0 .. 2
    BY DEF Positive
  <2> QED
    BY <1>1, <2>1
<1>3. /\ DOMAIN vec = DOMAIN cat
      /\ \A k \in DOMAIN cat :
           /\ cat[k].name \in Names
           /\ vec[k] = IF h[cat[k].container].book.vectors THEN cat[k].name ELSE NONE
  BY DEF Catalogued
<1>4. \A k \in DOMAIN cat : lex[k] = Lexical[q][cat[k].name]
  OBVIOUS
<1>5. CASE sem = ZerosOf(cat)
  <2>1. \A k \in DOMAIN cat : sem[k] = 0
    BY <1>5 DEF ZerosOf
  <2>2. \A k \in DOMAIN cat :
          [lexical |-> lex[k], semantic |-> sem[k]] = WorthOf(q, cat[k], h, FALSE)
    BY <1>4, <2>1 DEF WorthOf
  <2>3. \A k \in DOMAIN cat : sem[k] \in 0 .. 2 /\ lex[k] \in 0 .. 2
    BY <1>2, <1>3, <1>4, <2>1
  <2> QED
    BY <2>2, <2>3 DEF Valued
<1>6. CASE sem = MeaningOf(q, cat, vec)
  <2>1. \A k \in DOMAIN cat :
          sem[k] = IF vec[k] = NONE THEN 0 ELSE Positive(Similar[q][vec[k]])
    BY <1>3, <1>6 DEF MeaningOf
  <2>2. \A k \in DOMAIN cat :
          sem[k] = IF h[cat[k].container].book.vectors
                   THEN Positive(Similar[q][cat[k].name]) ELSE 0
    BY <1>1, <1>3, <2>1
  <2>3. \A k \in DOMAIN cat :
          [lexical |-> lex[k], semantic |-> sem[k]] = WorthOf(q, cat[k], h, TRUE)
    BY <1>4, <2>2 DEF WorthOf
  <2>4. \A k \in DOMAIN cat : sem[k] \in 0 .. 2 /\ lex[k] \in 0 .. 2
    BY <1>2, <1>3, <1>4, <2>2
  <2> QED
    BY <2>3, <2>4 DEF Valued
<1> QED
  BY <1>5, <1>6

\* The list of a search with those scores.
Ranking(score, limit) ==
  Best(LAMBDA k : score[k] > 0,
       LAMBDA j, k : score[j] > score[k] \/ (score[j] = score[k] /\ ByName(j, k)),
       limit)

\* No skill that beats a hit is missing before it, and no hit is worth nothing.
LEMMA HitsRight ==
  ASSUME NEW h, Catalogued(h, catalogue, vectors),
         NEW sem, NEW lex,
         \A k \in DOMAIN catalogue : sem[k] \in 0 .. 2 /\ lex[k] \in 0 .. 2,
         NEW bs \in 0 .. 2, NEW bl \in 0 .. 2, IsMost(bs, sem), IsMost(bl, lex),
         NEW limit \in Nat,
         NEW score, score = [k \in Skills |-> 7 * Share(sem[k], bs) + 3 * Share(lex[k], bl)],
         NEW hits, hits = Ranking(score, limit)
  PROVE  Earned(hits, lex, sem, catalogue)
<1> DEFINE D == DOMAIN catalogue
           S == {k \in D : score[k] > 0}
           Before(j, k) == score[j] > score[k] \/ (score[j] = score[k] /\ ByName(j, k))
           R == {p \in S \X S : Before(p[1], p[2])}
           n == Cardinality(S)
           m == IF n < limit THEN n ELSE limit
           rank(k) == Rank[catalogue[k].name]
<1>1. /\ D = 1 .. Len(catalogue) /\ Len(catalogue) \in Nat
      /\ \A k \in D : rank(k) \in Nat
  BY LibraryAssumption DEF Catalogued
<1>2. \A k \in D : sem[k] \in 0 .. bs /\ lex[k] \in 0 .. bl
  <2>1. \A k \in D : sem[k] <= bs /\ lex[k] <= bl
    BY DEF IsMost, Skills
  <2> HIDE DEF D
  <2>2. \A k \in D : sem[k] \in 0 .. 2 /\ lex[k] \in 0 .. 2
    BY DEF D
  <2> QED
    BY ONLY <2>1, <2>2, bs \in 0 .. 2, bl \in 0 .. 2
<1>3. \A k \in D : score[k] = 7 * Share(sem[k], bs) + 3 * Share(lex[k], bl)
  BY DEF Skills
<1>4. ASSUME NEW j \in D, NEW k \in D
      PROVE  /\ score[j] \in Nat
             /\ score[j] > 0 => lex[j] + sem[j] > 0
             /\ Beats(lex, sem, j, k) => score[j] > score[k]
  <2>1. sem[j] \in 0 .. bs /\ sem[k] \in 0 .. bs /\ lex[j] \in 0 .. bl /\ lex[k] \in 0 .. bl
    BY <1>2
  <2> DEFINE s1 == sem[j]
             s2 == sem[k]
             l1 == lex[j]
             l2 == lex[k]
  <2>2. /\ 7 * Share(s1, bs) + 3 * Share(l1, bl) \in Nat
        /\ 7 * Share(s1, bs) + 3 * Share(l1, bl) > 0 => l1 + s1 > 0
        /\ (l1 >= l2 /\ s1 >= s2 /\ (l1 > l2 \/ s1 > s2)) =>
              7 * Share(s1, bs) + 3 * Share(l1, bl) > 7 * Share(s2, bs) + 3 * Share(l2, bl)
    <3>1. /\ s1 \in 0 .. bs /\ s2 \in 0 .. bs /\ l1 \in 0 .. bl /\ l2 \in 0 .. bl
          /\ bs \in 0 .. 2 /\ bl \in 0 .. 2
      BY <2>1
    <3> HIDE DEF s1, s2, l1, l2
    <3> QED
      BY ONLY <3>1, BlendRises
  <2>3. /\ score[j] = 7 * Share(s1, bs) + 3 * Share(l1, bl)
        /\ score[k] = 7 * Share(s2, bs) + 3 * Share(l2, bl)
    BY <1>3
  <2>4. Beats(lex, sem, j, k) => l1 >= l2 /\ s1 >= s2 /\ (l1 > l2 \/ s1 > s2)
    BY DEF Beats
  <2> DEFINE x == 7 * Share(s1, bs) + 3 * Share(l1, bl)
             y == 7 * Share(s2, bs) + 3 * Share(l2, bl)
  <2>5. /\ x \in Nat /\ (x > 0 => l1 + s1 > 0)
        /\ (l1 >= l2 /\ s1 >= s2 /\ (l1 > l2 \/ s1 > s2)) => x > y
        /\ score[j] = x /\ score[k] = y
    BY <2>2, <2>3
  <2> HIDE DEF x, y
  <2>6. score[j] \in Nat /\ (score[j] > 0 => l1 + s1 > 0)
        /\ (Beats(lex, sem, j, k) => score[j] > score[k])
    BY ONLY <2>4, <2>5
  <2> QED
    BY <2>6
<1>5. IsFiniteSet(S)
  <2>1. IsFiniteSet(1 .. Len(catalogue))
    <3> DEFINE L == Len(catalogue)
    <3>1. L \in Nat
      BY Zenon DEF Catalogued
    <3> HIDE DEF L
    <3>2. 1 \in Int /\ L \in Int
      BY ONLY <3>1
    <3>3. IsFiniteSet(1 .. L)
      BY ONLY <3>2, FS_Interval
    <3> QED
      BY <3>3 DEF L
  <2>2. S \subseteq 1 .. Len(catalogue)
    BY <1>1
  <2> HIDE DEF S
  <2> QED
    BY <2>1, <2>2, FS_Subset
<1>6. \A j, k \in S : <<j, k>> \in R <=> Before(j, k)
  <2> HIDE DEF S, Before
  <2> QED
    BY Zenon
<1>7. S \subseteq D /\ \A k \in S : score[k] > 0
  BY Zenon
<1>8. \A j, k \in D : ByName(j, k) <=> rank(j) < rank(k) \/ (rank(j) = rank(k) /\ j < k)
  BY DEF ByName
<1>9. \A k \in D : score[k] \in Nat /\ k \in Nat
  <2>1. \A k \in D : score[k] \in Nat
    BY <1>4
  <2>2. \A k \in D : k \in Nat
    <3> DEFINE L == Len(catalogue)
    <3>1. D = 1 .. L /\ L \in Nat
      BY Zenon DEF Catalogued
    <3> HIDE DEF D, L
    <3> QED
      BY ONLY <3>1
  <2> HIDE DEF D
  <2> QED
    BY <2>1, <2>2
<1>10. \A j, k \in S : <<j, k>> \in R <=>
         \/ score[j] > score[k]
         \/ score[j] = score[k] /\ (rank(j) < rank(k) \/ (rank(j) = rank(k) /\ j < k))
  <2> HIDE DEF D, S, R, rank
  <2> QED
    BY <1>6, <1>7, <1>8
<1>11. Orders(R, S)
  <2>1. \A x \in S : score[x] \in Nat /\ rank(x) \in Nat /\ x \in Nat
    BY <1>1, <1>7, <1>9
  <2> HIDE DEF D, S, R, rank
  <2>2. \A x \in S : <<x, x>> \notin R
    BY ONLY <1>10, <2>1
  <2>3. \A x, y, z \in S : <<x, y>> \in R /\ <<y, z>> \in R => <<x, z>> \in R
    BY ONLY <1>10, <2>1
  <2>4. ASSUME NEW x \in S, NEW y \in S
        PROVE  x = y \/ <<x, y>> \in R \/ <<y, x>> \in R
    <3> DEFINE sx == score[x]
               sy == score[y]
               rx == rank(x)
               ry == rank(y)
    <3>1. /\ <<x, y>> \in R <=> sx > sy \/ (sx = sy /\ (rx < ry \/ (rx = ry /\ x < y)))
          /\ <<y, x>> \in R <=> sy > sx \/ (sy = sx /\ (ry < rx \/ (ry = rx /\ y < x)))
      BY ONLY <1>10, x \in S, y \in S
    <3>2. sx \in Nat /\ sy \in Nat /\ rx \in Nat /\ ry \in Nat /\ x \in Nat /\ y \in Nat
      BY <2>1
    <3> HIDE DEF sx, sy, rx, ry
    <3> QED
      BY ONLY <3>1, <3>2
  <2> QED
    BY <2>2, <2>3, <2>4 DEF Orders
<1>12. hits = FirstOf(m, S, R)
  <2>1. hits = [i \in 1 .. m |-> CHOOSE k \in S :
                  <<k, i - 1>> \in {<<x, Cardinality({j \in S : Before(j, x)})>> : x \in S}]
    BY DEF Ranking, Best, Foremost, Skills
  <2>2. \A x \in S : {j \in S : Before(j, x)} = {j \in S : <<j, x>> \in R}
    <3> HIDE DEF S, R, Before
    <3> QED
      BY <1>6
  <2> HIDE DEF S, R, Before, m
  <2>3. \A x \in S : Cardinality({j \in S : Before(j, x)}) = Ahead(R, S, x)
    BY <2>2 DEF Ahead
  <2>4. {<<x, Cardinality({j \in S : Before(j, x)})>> : x \in S} = {<<x, Ahead(R, S, x)>> : x \in S}
    BY <2>3
  <2> QED
    BY <2>1, <2>4 DEF FirstOf
<1>13. n \in Nat
  <2> HIDE DEF S
  <2> QED
    BY <1>5, FS_CardinalityType
<1>14. m \in Nat /\ m <= n
  <2>1. n \in Nat /\ limit \in Nat
    BY <1>13
  <2> HIDE DEF n
  <2>2. CASE n < limit
    BY ONLY <2>1, <2>2
  <2>3. CASE ~ (n < limit)
    BY ONLY <2>1, <2>3
  <2> QED
    BY <2>2, <2>3
<1>15. \A i \in 1 .. m :
         /\ hits[i] \in S
         /\ \A j \in S : <<j, hits[i]>> \in R => \E l \in 1 .. i - 1 : hits[l] = j
  <2>1. m <= Cardinality(S) /\ m \in Nat
    BY <1>14
  <2> HIDE DEF S, R, m, n
  <2> QED
    BY ONLY <1>5, <1>11, <1>12, <2>1, ListRanked
<1>16. DOMAIN hits = 1 .. m
  <2> HIDE DEF S, R, m
  <2> QED
    BY <1>12 DEF FirstOf
<1> SUFFICES ASSUME NEW i \in DOMAIN hits
             PROVE  /\ lex[hits[i]] + sem[hits[i]] > 0
                    /\ \A j \in DOMAIN catalogue : Beats(lex, sem, j, hits[i]) =>
                         \E l \in 1 .. i - 1 : hits[l] = j
  BY DEF Earned
<1> HIDE DEF S, R, m, n, rank, Before
<1>17. hits[i] \in S /\ hits[i] \in D /\ score[hits[i]] > 0
  BY <1>7, <1>15, <1>16
<1>18. lex[hits[i]] + sem[hits[i]] > 0
  BY <1>4, <1>17
<1>19. ASSUME NEW j \in D, Beats(lex, sem, j, hits[i])
       PROVE  \E l \in 1 .. i - 1 : hits[l] = j
  <2>1. score[j] > score[hits[i]]
    BY <1>4, <1>17, <1>19
  <2> DEFINE x == score[j]
             y == score[hits[i]]
  <2>a. x \in Nat /\ y \in Nat /\ x > y
    BY <1>9, <1>17, <2>1
  <2>2. x > 0
    <3> HIDE DEF x, y
    <3> QED
      BY ONLY <2>a
  <2>3. j \in S
    BY <2>2 DEF S
  <2>4. <<j, hits[i]>> \in R
    BY <1>10, <1>17, <2>1, <2>3
  <2> QED
    BY <1>15, <1>16, <2>3, <2>4
<1> QED
  BY <1>18, <1>19

-----------------------------------------------------------------------------
(***************************************************************************)
(* The tools' answers                                                      *)
(***************************************************************************)
CarriesIn(h, i, name) ==
  \E k \in DOMAIN h[i].book.skills : h[i].book.skills[k].name = name
MeantIn(h, i, name) == CarriesIn(h, i, name) /\ \A j \in 1 .. i - 1 : ~ CarriesIn(h, j, name)

LoadRight(r, h) ==
  /\ MeantIn(h, r.answer.from, r.name)
  /\ r.answer.text = NodesOfSkill(h[r.answer.from].book, SkillAt(h[r.answer.from].book, r.name))
  /\ r.answer.text \cap h[r.answer.from].book.altered = {}

\* The segments of a skill, each with its own record.
OwnSegments(b, k) ==
  {<<Place(b, k) + p, Place(b, k) + p>> :
     p \in {q \in DOMAIN b.skills[k].parts : b.skills[k].parts[q].role = "segment"}}

SegmentsRight(r, h) ==
  /\ MeantIn(h, r.answer.from, r.name)
  /\ r.answer.segments = OwnSegments(h[r.answer.from].book, SkillAt(h[r.answer.from].book, r.name))

RelationsRight(a, b) ==
  /\ a.gates = Related(b, "guards") /\ a.handoffs = Related(b, "needs")
  /\ Related(b, "cites") \subseteq a.rework
  /\ (\A e \in b.edges : ~ e.external) => a.rework = Related(b, "cites")

\* `flat` of a plan says there is no pipeline either, and then nothing more is said.
TablesRight(r, h) ==
  LET a == r.answer
      b == h[r.answer.from].book
  IN  /\ r.name # NONE => MeantIn(h, a.from, r.name)
      /\ a.flat => Related(b, "guards") = {}
      /\ r.tool = "plan" /\ a.flat => Related(b, "seq") = {}
      /\ ~ (r.tool = "plan" /\ a.flat) => RelationsRight(a, b) /\ MembersRight(a.members, b)

Right(r, cat, h) ==
  r.at = "answered" =>
    /\ r.tool = "search" /\ r.query \notin Wordless => SearchRight(r, cat, h)
    /\ r.tool = "load" => LoadRight(r, h)
    /\ r.tool = "segments" => SegmentsRight(r, h)
    /\ r.tool \in {"org", "plan"} => TablesRight(r, h)

\* The answers being right is what the two properties say.
LEMMA RightIsTrue ==
  ASSUME \A c \in Clients : Right(call[c], catalogue, held)
  PROVE  SearchTrue /\ ToolsAnswerTruly
<1>1. SearchTrue
  <2> SUFFICES ASSUME NEW c \in Clients, Answered(c, "search"), call[c].query \notin Wordless
               PROVE  SearchRight(call[c], catalogue, held)
    BY DEF SearchTrue, SearchRight, Valued, Earned, Skills, Worth, WorthOf, Beats
  <2> QED
    BY DEF Right, Answered
<1>2. LoadTrue
  <2> SUFFICES ASSUME NEW c \in Clients, Answered(c, "load")
               PROVE  LoadRight(call[c], held)
    BY DEF LoadTrue, LoadRight, Meant, MeantIn, Carries, CarriesIn
  <2> QED
    BY DEF Right, Answered
<1>3. SegmentsTrue
  <2> SUFFICES ASSUME NEW c \in Clients, Answered(c, "segments")
               PROVE  SegmentsRight(call[c], held)
    BY DEF SegmentsTrue, SegmentsRight, OwnSegments, Meant, MeantIn, Carries, CarriesIn
  <2> QED
    BY DEF Right, Answered
<1>4. RelationsTrue
  <2> SUFFICES ASSUME NEW c \in Clients, Answered(c, "org") \/ Answered(c, "plan")
               PROVE  TablesRight(call[c], held)
    BY DEF RelationsTrue, TablesRight, RelationsRight, MembersRight, Answered,
           Meant, MeantIn, Carries, CarriesIn
  <2> QED
    BY DEF Right, Answered
<1> QED
  BY <1>1, <1>2, <1>3, <1>4 DEF ToolsAnswerTruly

\* A name is found in the first container that carries it.
LEMMA FoundIs ==
  ASSUME held \in Seq(GoodFiles), NEW name, Listing(name) # {}
  PROVE  /\ Find(name) \in DOMAIN held
         /\ MeantIn(held, Find(name), name)
         /\ GoodBook(held[Find(name)].book)
         /\ held[Find(name)] = Written(held[Find(name)].book)
         /\ SkillAt(held[Find(name)].book, name) \in 1 .. Len(held[Find(name)].book.skills)
         /\ RootIn(held[Find(name)], name)
              = Place(held[Find(name)].book, SkillAt(held[Find(name)].book, name))
<1> DEFINE i == Find(name)
           b == held[i].book
<1>1. Len(held) \in Nat /\ DOMAIN held = 1 .. Len(held)
      /\ \A j \in DOMAIN held : held[j] \in GoodFiles
  OBVIOUS
<1>2. ASSUME NEW j \in DOMAIN held
      PROVE  /\ GoodBook(held[j].book) /\ held[j] = Written(held[j].book)
             /\ j \in Listing(name) <=> CarriesIn(held, j, name)
  <2> DEFINE w == held[j].book
  <2>1. GoodBook(w) /\ held[j] = Written(w)
    BY <1>1, GoodFilesAre
  <2> HIDE DEF w
  <2>2. /\ DOMAIN Written(w).entries = DOMAIN w.skills
        /\ \A k \in DOMAIN w.skills : Written(w).entries[k].name = w.skills[k].name
    <3>1. DOMAIN w.skills = 1 .. Len(w.skills)
      BY <2>1, BookIs
    <3> QED
      BY <2>1, <3>1, EntriesAre
  <2>3. j \in Listing(name) <=> \E e \in DOMAIN Written(w).entries : Written(w).entries[e].name = name
    BY <2>1 DEF Listing
  <2>4. CarriesIn(held, j, name) <=> \E k \in DOMAIN w.skills : w.skills[k].name = name
    BY DEF CarriesIn, w
  <2> QED
    BY <2>1, <2>2, <2>3, <2>4 DEF w
<1>3. Listing(name) \subseteq DOMAIN held /\ Listing(name) \subseteq Nat
  <2>1. Listing(name) \subseteq DOMAIN held
    BY DEF Listing
  <2>2. \A j \in DOMAIN held : j \in Nat
    BY <1>1
  <2> QED
    BY <2>1, <2>2
<1>4. i \in Listing(name) /\ \A j \in Listing(name) : i <= j
  <2> DEFINE S == Listing(name)
  <2> HIDE DEF S
  <2>1. \E x \in S : \A y \in S : x <= y
    BY <1>3, Smallest DEF S
  <2> QED
    BY <2>1 DEF Find, S
<1> HIDE DEF i
<1>5. i \in DOMAIN held /\ CarriesIn(held, i, name) /\ GoodBook(b) /\ held[i] = Written(b)
  BY <1>2, <1>3, <1>4
<1>6. ASSUME NEW j \in 1 .. i - 1 PROVE ~ CarriesIn(held, j, name)
  <2>1. i \in 1 .. Len(held) /\ Len(held) \in Nat
    BY <1>1, <1>5
  <2> DEFINE L == Len(held)
  <2>2. j \in 1 .. L /\ ~ (i <= j)
    <3>1. i \in 1 .. L /\ L \in Nat
      BY <2>1
    <3> HIDE DEF L
    <3> QED
      BY ONLY <3>1, j \in 1 .. i - 1
  <2>3. j \in DOMAIN held /\ j \notin Listing(name)
    BY <1>1, <1>4, <2>2
  <2> QED
    BY <1>2, <2>3
<1>7. PICK k \in DOMAIN b.skills : b.skills[k].name = name
  BY <1>5 DEF CarriesIn
<1>8. /\ SkillAt(b, name) \in 1 .. Len(b.skills)
      /\ RootIn(Written(b), name) = Place(b, SkillAt(b, name))
  <2> HIDE DEF b
  <2> QED
    BY <1>5, <1>7, RootInIs
<1>9. MeantIn(held, i, name)
  BY <1>5, <1>6 DEF MeantIn
<1> QED
  BY <1>5, <1>8, <1>9 DEF i

\* A load that verifies gives the skill, all of it as it was committed.
LEMMA LoadGives ==
  ASSUME held \in Seq(GoodFiles), NEW name, Listing(name) # {},
         Verifies(held[Find(name)], RootIn(held[Find(name)], name)),
         NEW r, r.name = name,
         r.answer = [from |-> Find(name),
                     text |-> Subtree(held[Find(name)], RootIn(held[Find(name)], name))]
  PROVE  LoadRight(r, held)
<1> DEFINE i == Find(name)
           b == held[i].book
           k == SkillAt(b, name)
<1>1. /\ MeantIn(held, i, name) /\ GoodBook(b) /\ held[i] = Written(b)
      /\ k \in 1 .. Len(b.skills) /\ RootIn(held[i], name) = Place(b, k)
  BY FoundIs
<1>2. r.answer.from = i /\ r.answer.text = Subtree(held[i], RootIn(held[i], name))
  OBVIOUS
<1>3. Subtree(held[i], CommitmentFor(held[i], RootIn(held[i], name))) \cap held[i].book.altered = {}
  BY DEF Verifies
<1> HIDE DEF i
<1>5. CommitmentFor(Written(b), Place(b, k)) = 1
  <2> HIDE DEF b, k
  <2> QED
    BY <1>1, CommitmentIsRoot
<1>6. /\ Subtree(Written(b), 1) = 1 .. Len(NodesOf(b))
      /\ Subtree(Written(b), Place(b, k)) = NodesOfSkill(b, k)
      /\ NodesOfSkill(b, k) \subseteq 2 .. Len(NodesOf(b))
      /\ Len(NodesOf(b)) \in Nat
  <2> HIDE DEF b, k
  <2> QED
    BY <1>1, SubtreeIs, SkillNodes, NodesAre
<1>7. NodesOfSkill(b, k) \subseteq 1 .. Len(NodesOf(b))
  <2> DEFINE M == Len(NodesOf(b))
  <2>1. M \in Nat /\ NodesOfSkill(b, k) \subseteq 2 .. M
    BY <1>6
  <2> HIDE DEF M
  <2> QED
    BY <2>1 DEF M
<1>8. r.answer.text = NodesOfSkill(b, k)
  BY <1>1, <1>2, <1>6
<1>9. (1 .. Len(NodesOf(b))) \cap b.altered = {}
  BY <1>1, <1>3, <1>5, <1>6
<1>10. r.answer.text \cap b.altered = {}
  BY <1>7, <1>8, <1>9
<1> QED
  BY <1>1, <1>2, <1>8, <1>10 DEF LoadRight

\* The segments of a skill's subtree stand with their own records.
LEMMA SegmentsAre ==
  ASSUME NEW b, GoodBook(b), NEW k \in 1 .. Len(b.skills), NEW f, f = Written(b),
         NEW root, root = Place(b, k)
  PROVE  {<<n, f.records[SegmentIndex(f, n, root)]>> :
            n \in {m \in Subtree(f, root) : f.nodes[m].role = "segment"}} = OwnSegments(b, k)
<1> DEFINE segs == {m \in Subtree(f, root) : f.nodes[m].role = "segment"}
           s == b.skills[k].parts
           nodes == NodesOf(b)
<1>1. /\ Subtree(f, root) = NodesOfSkill(b, k)
      /\ f.nodes = nodes
  <2>1. Subtree(Written(b), Place(b, k)) = NodesOfSkill(b, k)
    BY SubtreeIs
  <2>2. Written(b).nodes = nodes
    BY DEF Written
  <2> QED
    BY ONLY <2>1, <2>2, f = Written(b), root = Place(b, k), Zenon
<1>2. /\ Len(s) \in Nat /\ DOMAIN s = 1 .. Len(s)
      /\ \A n \in NodesOfSkill(b, k) : n = root \/ \E p \in 1 .. Len(s) : n = root + p
      /\ \A p \in 0 .. Len(s) : root + p \in NodesOfSkill(b, k)
      /\ NodesOfSkill(b, k) \subseteq 2 .. Len(nodes)
  BY BookIs, SkillNodes
<1>3. /\ nodes[root].role # "segment"
      /\ \A p \in 1 .. Len(s) : nodes[root + p].role = s[p].role
  BY RolesAre
<1>4. \A p \in 1 .. Len(s) : p \in 0 .. Len(s)
  BY <1>2
<1>5. \A n \in NodesOfSkill(b, k) : n \in SegmentNodes(b) <=> nodes[n].role = "segment"
  <2> DEFINE M == Len(nodes)
  <2>1. M \in Nat /\ DOMAIN nodes = 1 .. M /\ NodesOfSkill(b, k) \subseteq 2 .. M
    BY <1>2, NodesAre
  <2> HIDE DEF M, nodes
  <2>2. NodesOfSkill(b, k) \subseteq DOMAIN nodes
    BY ONLY <2>1
  <2> QED
    BY <2>2 DEF SegmentNodes, nodes
<1>6. \A n \in segs : n \in NodesOfSkill(b, k) /\ nodes[n].role = "segment"
  BY <1>1
<1>7. \A n \in segs : f.records[SegmentIndex(f, n, root)] = n
  <2> SUFFICES ASSUME NEW n \in segs PROVE f.records[SegmentIndex(f, n, root)] = n
    OBVIOUS
  <2>1. n \in SegmentNodes(b)
    BY <1>5, <1>6
  <2> HIDE DEF segs
  <2> QED
    BY <2>1, RecordIs
<1>8. \A n : n \in segs <=> n \in NodesOfSkill(b, k) /\ nodes[n].role = "segment"
  BY <1>1
<1> HIDE DEF segs, s, nodes
<1>9. ASSUME NEW n \in segs
      PROVE  \E p \in 1 .. Len(s) : n = root + p /\ s[p].role = "segment"
  <2>1. n \in NodesOfSkill(b, k) /\ nodes[n].role = "segment"
    BY <1>8
  <2>2. n # root
    BY <1>3, <2>1
  <2>3. PICK p \in 1 .. Len(s) : n = root + p
    BY <1>2, <2>1, <2>2
  <2>4. s[p].role = "segment"
    BY <1>3, <2>1, <2>3
  <2> QED
    BY <2>3, <2>4
<1>10. \A p \in 1 .. Len(s) : s[p].role = "segment" => root + p \in segs
  BY <1>2, <1>3, <1>4, <1>8
<1>11. OwnSegments(b, k) = {<<root + p, root + p>> : p \in {q \in 1 .. Len(s) : s[q].role = "segment"}}
  BY <1>2, Zenon DEF OwnSegments, s
<1>12. {<<n, f.records[SegmentIndex(f, n, root)]>> : n \in segs} = {<<n, n>> : n \in segs}
  BY <1>7
<1>13. {<<n, n>> : n \in segs}
        = {<<root + p, root + p>> : p \in {q \in 1 .. Len(s) : s[q].role = "segment"}}
  BY <1>9, <1>10
<1> QED
  BY <1>11, <1>12, <1>13 DEF segs

\* Each segment comes with its own record.
LEMMA SegmentsGive ==
  ASSUME held \in Seq(GoodFiles), NEW name, Listing(name) # {},
         NEW f, f = held[Find(name)], NEW root, root = RootIn(f, name),
         NEW r, r.name = name,
         r.answer = [from |-> Find(name),
                     segments |-> {<<n, f.records[SegmentIndex(f, n, root)]>> :
                          n \in {m \in Subtree(f, root) : f.nodes[m].role = "segment"}}]
  PROVE  SegmentsRight(r, held)
<1> DEFINE i == Find(name)
           b == held[i].book
           k == SkillAt(b, name)
<1>1. /\ MeantIn(held, i, name) /\ GoodBook(b) /\ f = Written(b)
      /\ k \in 1 .. Len(b.skills) /\ root = Place(b, k)
  BY FoundIs
<1>2. r.answer.segments = OwnSegments(b, k) /\ r.answer.from = i
  <2> HIDE DEF b, k
  <2> QED
    BY <1>1, SegmentsAre
<1> QED
  BY <1>1, <1>2 DEF SegmentsRight

\* Tables read out of a container say what its book says.
LEMMA TablesAre ==
  ASSUME NEW b, GoodBook(b), NEW f, f = Written(b), NEW a,
         a.members = MembersOf(f), a.gates = Relations(f, "guards"),
         a.handoffs = Relations(f, "needs"), a.rework = Relations(f, "cites")
  PROVE  RelationsRight(a, b) /\ MembersRight(a.members, b)
<1>1. RelationsRight(a, b)
  <2>1. /\ Relations(Written(b), "guards") = Related(b, "guards")
        /\ Relations(Written(b), "needs") = Related(b, "needs")
    BY RelationsAre
  <2>2. /\ Related(b, "cites") \subseteq Relations(Written(b), "cites")
        /\ (\A e \in b.edges : ~ e.external) => Relations(Written(b), "cites") = Related(b, "cites")
    BY RelationsAre
  <2> QED
    BY ONLY <2>1, <2>2, f = Written(b), a.gates = Relations(f, "guards"),
       a.handoffs = Relations(f, "needs"), a.rework = Relations(f, "cites") DEF RelationsRight
<1>2. MembersRight(a.members, b)
  BY MembersAre
<1> QED
  BY <1>1, <1>2

\* The container meant: the first if no skill is named.
LEMMA AskedIs ==
  ASSUME held \in Seq(GoodFiles), held # << >>, NEW name, name = NONE \/ Listing(name) # {},
         NEW i, i = IF name = NONE THEN 1 ELSE Find(name)
  PROVE  /\ name # NONE => MeantIn(held, i, name)
         /\ GoodBook(held[i].book) /\ held[i] = Written(held[i].book)
<1>1. CASE name = NONE
  <2>1. held[1] \in GoodFiles
    OBVIOUS
  <2> QED
    BY <1>1, <2>1, GoodFilesAre
<1>2. CASE name # NONE
  BY <1>2, FoundIs
<1> QED
  BY <1>1, <1>2

Asked(name) == IF name = NONE THEN 1 ELSE Find(name)

\* The server's reading of the edges is the book's.
LEMMA OrganizationGives ==
  ASSUME held \in Seq(GoodFiles), held # << >>,
         NEW name, name = NONE \/ Listing(name) # {},
         NEW i, i = Asked(name), NEW f, f = held[i],
         NEW flat \in BOOLEAN,
         flat <=> Relations(f, "guards") \cup Relations(f, "needs") = {},
         NEW r, r.name = name, r.tool = "org",
         r.answer = [from |-> i, members |-> MembersOf(f),
                     gates |-> Relations(f, "guards"),
                     handoffs |-> Relations(f, "needs"),
                     rework |-> Relations(f, "cites"),
                     flat |-> flat]
  PROVE  TablesRight(r, held)
<1> DEFINE b == held[i].book
           a == r.answer
<1>1. /\ name # NONE => MeantIn(held, i, name)
      /\ GoodBook(b) /\ f = Written(b)
  BY AskedIs DEF Asked
<1>2. /\ a.from = i /\ a.members = MembersOf(f) /\ a.gates = Relations(f, "guards")
      /\ a.handoffs = Relations(f, "needs") /\ a.rework = Relations(f, "cites")
      /\ a.flat = flat
  OBVIOUS
<1> HIDE DEF b, a
<1>3. RelationsRight(a, b) /\ MembersRight(a.members, b)
  BY <1>1, <1>2, TablesAre
<1>4. Related(b, "guards") \subseteq Relations(f, "guards")
  BY <1>1, RelationsAre
<1>5. flat => Related(b, "guards") = {}
  BY <1>2, <1>4
<1>6. held[a.from].book = b
  BY <1>2 DEF b
<1> QED
  BY <1>1, <1>2, <1>3, <1>5, <1>6 DEF TablesRight, a

\* And so is that of `skillc plan`.
LEMMA PlanGives ==
  ASSUME held \in Seq(GoodFiles), held # << >>, NEW f, f = held[1], NEW flat \in BOOLEAN,
         flat <=> Relations(f, "seq") \cup Relations(f, "guards") = {},
         NEW r, r.name = NONE, r.tool = "plan",
         r.answer = [from |-> 1, flat |-> flat,
                     members |-> IF flat THEN << >> ELSE MembersOf(f),
                     gates |-> IF flat THEN {} ELSE Relations(f, "guards"),
                     handoffs |-> IF flat THEN {} ELSE Relations(f, "needs"),
                     rework |-> IF flat THEN {} ELSE Relations(f, "cites")]
  PROVE  TablesRight(r, held)
<1> DEFINE b == held[1].book
           a == r.answer
<1>1. GoodBook(b) /\ f = Written(b)
  BY AskedIs
<1>2. /\ a.from = 1 /\ a.flat = flat
      /\ ~ flat => /\ a.members = MembersOf(f) /\ a.gates = Relations(f, "guards")
                   /\ a.handoffs = Relations(f, "needs") /\ a.rework = Relations(f, "cites")
  OBVIOUS
<1> HIDE DEF b, a
<1>3. ~ flat => RelationsRight(a, b) /\ MembersRight(a.members, b)
  BY <1>1, <1>2, TablesAre
<1>4. /\ Related(b, "guards") \subseteq Relations(f, "guards")
      /\ Related(b, "seq") \subseteq Relations(f, "seq")
  BY <1>1, RelationsAre
<1>5. flat => Related(b, "guards") = {} /\ Related(b, "seq") = {}
  BY <1>4
<1>6. held[a.from].book = b
  BY <1>2 DEF b
<1> QED
  BY <1>2, <1>3, <1>5, <1>6 DEF TablesRight, a

\* A search that ranks reports what is true of every skill.
LEMMA RankGives ==
  ASSUME Catalogued(held, catalogue, vectors), NEW q \in Queries, NEW limit \in Nat,
         NEW sem, sem = ZerosOf(catalogue) \/ sem = MeaningOf(q, catalogue, vectors),
         NEW lex, lex = [k \in Skills |-> Lexical[q][catalogue[k].name]],
         NEW bs \in 0 .. 2, NEW bl \in 0 .. 2, IsMost(bs, sem), IsMost(bl, lex),
         NEW score, score = [k \in Skills |-> 7 * Share(sem[k], bs) + 3 * Share(lex[k], bl)],
         NEW r, r.query = q,
         r.answer = [hits |-> Ranking(score, limit), lexical |-> lex, semantic |-> sem]
  PROVE  SearchRight(r, catalogue, held)
<1> DEFINE hits == Ranking(score, limit)
<1>1. r.answer.hits = hits /\ r.answer.lexical = lex /\ r.answer.semantic = sem
  OBVIOUS
<1>2. /\ \A k \in DOMAIN catalogue : sem[k] \in 0 .. 2 /\ lex[k] \in 0 .. 2
      /\ Valued(lex, sem, q, catalogue, held)
  BY ScoresAre, Zenon DEF Skills
<1>3. Earned(hits, lex, sem, catalogue)
  BY <1>2, HitsRight, Zenon
<1> QED
  BY ONLY <1>1, <1>2, <1>3, r.query = q, Zenon DEF SearchRight

-----------------------------------------------------------------------------
(***************************************************************************)
(* The invariant.  What is held is what good books write, and the          *)
(* catalogue is of it; a call carries what its stage has to carry, and its *)
(* answer is right; whoever is at the model holds the lock.                *)
(***************************************************************************)
HeldInv ==
  /\ pc \in {"metadata", "read", "serving", "refused"}
  /\ files \in Seq(File) /\ held \in Seq(GoodFiles)
  /\ total \in Nat /\ (pc # "refused" => total <= MaxBytes)
  /\ pc = "read" => Len(held) < Len(files)
  /\ pc # "serving" => catalogue = << >> /\ vectors = << >>
  /\ pc = "serving" => held # << >> /\ Catalogued(held, catalogue, vectors)

Fields == {"tool", "query", "limit", "name", "at", "semantic", "answer"}
Stages == {"idle", "called", "match", "lock", "load model", "embed", "rank",
           "answered", "failed", "lost"}

\* What a call has come to, with the catalogue and the containers held.
Stands(r, cat, vec, h) ==
  /\ DOMAIN r = Fields
  /\ r.at \in Stages
  /\ r.at = "idle" => r.name = NONE
  /\ r.at = "called" /\ r.tool = "plan" => r.name = NONE
  /\ r.at \in {"match", "lock", "load model", "embed", "rank"} =>
       r.tool = "search" /\ r.query \in Queries /\ r.limit \in Nat
  /\ r.at \in {"lock", "load model", "embed"} => r.semantic = ZerosOf(cat)
  /\ r.at = "rank" => r.semantic = ZerosOf(cat) \/ r.semantic = MeaningOf(r.query, cat, vec)
  /\ Right(r, cat, h)

CallInv ==
  /\ DOMAIN call = Clients
  /\ \A c \in Clients : Stands(call[c], catalogue, vectors, held)
  /\ pc # "serving" => \A c \in Clients : call[c].at = "idle"

LockInv ==
  /\ lock \in Clients \cup {"free", "poisoned"}
  /\ \A c \in Clients : /\ (lock = c) <=> call[c].at \in {"load model", "embed"}
                        /\ call[c].at = "embed" => model

LibraryInv == HeldInv /\ CallInv /\ LockInv

\* What the invariant is for.
LEMMA InvHolds ==
  ASSUME LibraryInv
  PROVE  TypeOK /\ SearchTrue /\ ToolsAnswerTruly
<1>1. Len(vectors) = Len(catalogue)
  <2>1. CASE pc = "serving"
    BY <2>1, Zenon DEF LibraryInv, HeldInv, Catalogued
  <2>2. CASE pc # "serving"
    BY <2>2, Zenon DEF LibraryInv, HeldInv
  <2> QED
    BY <2>1, <2>2
<1>2. TypeOK
  BY <1>1 DEF LibraryInv, HeldInv, CallInv, LockInv, Stands, Stages, TypeOK
<1>3. \A c \in Clients : Right(call[c], catalogue, held)
  BY DEF LibraryInv, CallInv, Stands
<1> QED
  BY <1>2, <1>3, RightIsTrue

\* It holds before anything is read.
LEMMA InvStarts == Init => LibraryInv
<1> SUFFICES ASSUME Init PROVE LibraryInv
  OBVIOUS
<1>1. HeldInv
  <2>1. MaxBytes \in Nat /\ files \in Seq(File)
    BY LibraryAssumption DEF Init
  <2>2. held = << >> /\ total = 0 /\ pc = "metadata" /\ catalogue = << >> /\ vectors = << >>
    BY DEF Init
  <2> QED
    BY <2>1, <2>2 DEF HeldInv
<1>2. DOMAIN call = Clients /\ \A c \in Clients : call[c] = Idle
  BY DEF Init
<1>3. DOMAIN Idle = Fields /\ Idle.at = "idle" /\ Idle.name = NONE
  BY DEF Idle, Fields
<1>4. CallInv
  BY <1>2, <1>3, Zenon DEF CallInv, Stands, Right, Stages
<1>5. LockInv
  <2>1. lock = "free" /\ \A c \in Clients : lock # c
    BY LibraryAssumption DEF Init
  <2> QED
    BY <1>2, <1>3, <2>1 DEF LockInv
<1> QED
  BY <1>1, <1>4, <1>5 DEF LibraryInv

\* A step of one call, while the containers and the catalogue stay.
LEMMA OneCall ==
  ASSUME CallInv, UNCHANGED opened, NEW c \in Clients, NEW r,
         call' = [call EXCEPT ![c] = r],
         pc = "serving", Stands(r, catalogue, vectors, held)
  PROVE  /\ CallInv' /\ call'[c] = r /\ \A d \in Clients : d # c => call'[d] = call[d]
<1>1. DOMAIN call' = Clients /\ call'[c] = r /\ \A d \in Clients : d # c => call'[d] = call[d]
  BY DEF CallInv
<1>2. pc' = "serving" /\ catalogue' = catalogue /\ vectors' = vectors /\ held' = held
  BY DEF opened
<1>3. \A d \in Clients : Stands(call'[d], catalogue, vectors, held)
  BY <1>1 DEF CallInv
<1>4. \A d \in Clients : Stands(call'[d], catalogue', vectors', held')
  BY <1>2, <1>3
<1> HIDE DEF Stands
<1>5. CallInv'
  BY <1>1, <1>2, <1>4, Zenon DEF CallInv
<1> QED
  BY <1>1, <1>5

\* Calls leave alone what the start has made.
LEMMA SameStart ==
  ASSUME HeldInv, UNCHANGED opened
  PROVE  HeldInv'
BY Zenon DEF HeldInv, opened, Catalogued

\* The lock with such a step: the call enters, leaves or stays.
LEMMA OneLock ==
  ASSUME LockInv, NEW c \in Clients, \A d \in Clients : d # c => call'[d] = call[d],
         model => model' \/ \A d \in Clients : d # c => call[d].at # "embed",
         \/ /\ lock' = lock
            /\ call'[c].at \in {"load model", "embed"} <=> call[c].at \in {"load model", "embed"}
            /\ call'[c].at = "embed" => model'
         \/ /\ lock = "free" /\ lock' = c
            /\ call'[c].at \in {"load model", "embed"}
            /\ call'[c].at = "embed" => model'
         \/ /\ lock = c /\ lock' \in {"free", "poisoned"}
            /\ call'[c].at \notin {"load model", "embed"}
  PROVE  LockInv'
<1>1. "free" \notin Clients /\ "poisoned" \notin Clients
  BY LibraryAssumption
<1> SUFFICES /\ lock' \in Clients \cup {"free", "poisoned"}
             /\ \A d \in Clients : /\ (lock' = d) <=> call'[d].at \in {"load model", "embed"}
                                   /\ call'[d].at = "embed" => model'
  BY DEF LockInv
<1>2. lock' \in Clients \cup {"free", "poisoned"}
  BY DEF LockInv
<1>3. ASSUME NEW d \in Clients, d # c
      PROVE  /\ (lock' = d) <=> call'[d].at \in {"load model", "embed"}
             /\ call'[d].at = "embed" => model'
  <2>1. /\ (lock = d) <=> call[d].at \in {"load model", "embed"}
        /\ call[d].at = "embed" => model
        /\ call'[d] = call[d]
    BY <1>3 DEF LockInv
  <2>2. \/ lock' = lock
        \/ lock = "free" /\ lock' = c
        \/ lock = c /\ lock' \in {"free", "poisoned"}
    BY Zenon
  <2>3. (lock' = d) <=> (lock = d)
    BY ONLY <1>1, <1>3, <2>2, d \in Clients, c \in Clients
  <2> QED
    BY <1>3, <2>1, <2>3
<1>4. /\ (lock' = c) <=> call'[c].at \in {"load model", "embed"}
      /\ call'[c].at = "embed" => model'
  BY <1>1 DEF LockInv
<1> QED
  BY <1>2, <1>3, <1>4

-----------------------------------------------------------------------------
(***************************************************************************)
(* The steps of the start: no call has been made.                          *)
(***************************************************************************)
LEMMA Waiting ==
  ASSUME LibraryInv, pc # "serving", UNCHANGED <<model, lock, call>>,
         HeldInv'
  PROVE  LibraryInv'
<1>1. \A c \in Clients : call[c].at = "idle"
  BY DEF LibraryInv, CallInv
<1>2. \A c \in Clients : Stands(call[c], catalogue', vectors', held')
  BY <1>1 DEF LibraryInv, CallInv, Stands, Right
<1>3. CallInv'
  BY <1>1, <1>2, Zenon DEF LibraryInv, CallInv
<1>4. LockInv'
  BY Zenon DEF LibraryInv, LockInv
<1> QED
  BY <1>3, <1>4 DEF LibraryInv

LEMMA MetadataStep ==
  ASSUME LibraryInv, Metadata
  PROVE  LibraryInv'
<1>1. /\ pc = "metadata" /\ pc # "serving" /\ Len(held) < Len(files)
      /\ UNCHANGED <<model, lock, call>>
      /\ UNCHANGED <<files, held, catalogue, vectors>>
  BY DEF Metadata
<1>2. /\ files \in Seq(File) /\ held \in Seq(GoodFiles) /\ total \in Nat
      /\ catalogue = << >> /\ vectors = << >>
  BY <1>1, Zenon DEF LibraryInv, HeldInv
<1>3. PICK n \in {0, files[Len(held) + 1].size} : total' = total + n
  BY DEF Metadata
<1>4. n \in Nat
  <2>1. Len(held) + 1 \in 1 .. Len(files)
    BY <1>1, <1>2
  <2>2. files[Len(held) + 1] \in File
    BY <1>2, <2>1
  <2>3. \A f \in File : f.size \in Nat
    BY DEF File
  <2> QED
    BY <2>2, <2>3
<1>5. total' \in Nat
  BY <1>2, <1>3, <1>4
<1>6. pc' = IF total' > MaxBytes THEN "refused" ELSE "read"
  BY DEF Metadata
<1>7. pc' \in {"read", "refused"} /\ (pc' # "refused" => total' <= MaxBytes)
  BY <1>5, <1>6, LibraryAssumption
<1>8. HeldInv'
  <2>1. Len(held') < Len(files')
    BY <1>1
  <2> QED
    BY <1>1, <1>2, <1>5, <1>7, <2>1 DEF HeldInv
<1> QED
  BY <1>1, <1>8, Waiting

LEMMA ReadStep ==
  ASSUME LibraryInv, Read
  PROVE  LibraryInv'
<1>1. /\ pc = "read" /\ pc # "serving"
      /\ UNCHANGED <<model, lock, call>>
      /\ UNCHANGED <<files, total, catalogue, vectors>>
      /\ pc' \in {"metadata", "refused"}
      /\ held' = held \/ held' = Append(held, Written(files[Len(held) + 1].book))
  BY DEF Read
<1>2. /\ files \in Seq(File) /\ held \in Seq(GoodFiles) /\ total \in Nat
      /\ catalogue = << >> /\ vectors = << >> /\ total <= MaxBytes
      /\ Len(held) < Len(files)
  BY <1>1, Zenon DEF LibraryInv, HeldInv
<1>3. Written(files[Len(held) + 1].book) \in GoodFiles
  <2>1. Len(held) + 1 \in 1 .. Len(files)
    BY <1>2
  <2>2. files[Len(held) + 1] \in File
    BY <1>2, <2>1
  <2>3. \A f \in File : f.book \in GoodBooks
    BY DEF File, GoodBooks
  <2> QED
    BY <2>2, <2>3 DEF GoodFiles
<1>4. held' \in Seq(GoodFiles)
  <2> DEFINE w == Written(files[Len(held) + 1].book)
  <2> HIDE DEF w
  <2>1. w \in GoodFiles /\ (held' = held \/ held' = Append(held, w))
    BY <1>1, <1>3 DEF w
  <2> QED
    BY <1>2, <2>1
<1>5. HeldInv'
  BY <1>1, <1>2, <1>4 DEF HeldInv
<1> QED
  BY <1>1, <1>5, Waiting

LEMMA ParseStep ==
  ASSUME LibraryInv, Parse
  PROVE  LibraryInv'
<1>1. /\ pc = "metadata" /\ pc # "serving"
      /\ UNCHANGED <<model, lock, call>>
      /\ UNCHANGED <<files, held>> /\ total' = 0
  BY DEF Parse
<1>2. /\ files \in Seq(File) /\ held \in Seq(GoodFiles)
      /\ catalogue = << >> /\ vectors = << >> /\ MaxBytes \in Nat
  BY <1>1, LibraryAssumption, Zenon DEF LibraryInv, HeldInv
<1>3. CASE pc' = "refused" /\ UNCHANGED <<catalogue, vectors>>
  BY <1>1, <1>2, <1>3, Waiting DEF HeldInv
<1>4. CASE ~ (pc' = "refused" /\ UNCHANGED <<catalogue, vectors>>)
  <2>1. /\ held # << >> /\ pc' = "serving"
        /\ catalogue' = FlattenSeq([i \in DOMAIN held |->
                          [k \in DOMAIN held[i].entries |->
                             [container |-> i, name |-> held[i].entries[k].name]]])
        /\ vectors' = FlattenSeq([i \in DOMAIN held |-> VectorsOf(held[i])])
    BY <1>4, Zenon DEF Parse
  <2>2. Catalogued(held, catalogue', vectors')
    BY <1>2, <2>1, ParseCatalogues
  <2>3. Catalogued(held', catalogue', vectors')
    BY <1>1, <2>2
  <2>4. HeldInv'
    BY <1>1, <1>2, <2>1, <2>3 DEF HeldInv
  <2> QED
    BY <1>1, <2>4, Waiting
<1> QED
  BY <1>3, <1>4

LEMMA ReleaseStep ==
  ASSUME LibraryInv, Release
  PROVE  LibraryInv'
<1>1. UNCHANGED <<pc, total, held, catalogue, vectors, model, lock, call>>
  BY DEF Release
<1>2. PICK i \in DOMAIN files, f \in Releases : files' = [files EXCEPT ![i] = f]
  BY DEF Release
<1>3. files \in Seq(File) /\ f \in File
  BY LibraryAssumption DEF LibraryInv, HeldInv
<1>4. files' \in Seq(File) /\ Len(files') = Len(files)
  BY <1>2, <1>3
<1>5. HeldInv'
  <2>1. HeldInv
    BY DEF LibraryInv
  <2>2. (pc' = "read" => Len(held') < Len(files'))
    BY <1>1, <1>4, <2>1 DEF HeldInv
  <2>3. Catalogued(held, catalogue, vectors) => Catalogued(held', catalogue', vectors')
    BY <1>1, Zenon
  <2> QED
    BY <1>1, <1>4, <2>1, <2>2, <2>3, Zenon DEF HeldInv
<1>6. CallInv' /\ LockInv'
  BY <1>1, Zenon DEF LibraryInv, CallInv, LockInv
<1> QED
  BY <1>5, <1>6 DEF LibraryInv

-----------------------------------------------------------------------------
(***************************************************************************)
(* The steps of the calls                                                  *)
(***************************************************************************)
AtModel == {"load model", "embed"}

\* A step of one call keeps the invariant, if what the call then carries is right
\* and the lock is taken, given back or left as the step says.
LEMMA CallStep ==
  ASSUME LibraryInv, UNCHANGED opened, pc = "serving", NEW c \in Clients, NEW r,
         call' = [call EXCEPT ![c] = r], Stands(r, catalogue, vectors, held),
         model' = model \/ lock = c,
         r.at = "embed" => model',
         \/ lock' = lock /\ (r.at \in AtModel <=> call[c].at \in AtModel)
         \/ lock = "free" /\ lock' = c /\ r.at \in AtModel
         \/ lock = c /\ lock' \in {"free", "poisoned"} /\ r.at \notin AtModel
  PROVE  LibraryInv'
<1>1. HeldInv'
  BY SameStart DEF LibraryInv
<1>2. /\ CallInv'
      /\ call'[c] = r /\ \A d \in Clients : d # c => call'[d] = call[d]
  BY OneCall DEF LibraryInv
<1>3. LockInv'
  <2>1. lock = c => \A d \in Clients : d # c => call[d].at # "embed"
    BY DEF LibraryInv, LockInv
  <2>2. (model => model') \/ \A d \in Clients : d # c => call[d].at # "embed"
    BY <2>1
  <2> QED
    BY <1>2, <2>2, OneLock, Zenon DEF LibraryInv, AtModel
<1> QED
  BY <1>1, <1>2, <1>3 DEF LibraryInv

\* A call that has been made is served; its answer does not change what was asked.
LEMMA CalledIs ==
  ASSUME LibraryInv, NEW c \in Clients, call[c].at # "idle"
  PROVE  /\ pc = "serving" /\ held \in Seq(GoodFiles) /\ held # << >>
         /\ Catalogued(held, catalogue, vectors)
         /\ Stands(call[c], catalogue, vectors, held)
         /\ DOMAIN call[c] = Fields
BY Zenon DEF LibraryInv, HeldInv, CallInv, Stands

Ended(q, at, a) == [q EXCEPT !.at = at, !.answer = a]

\* An ended call was asked what it was asked before.
LEMMA EndIs ==
  ASSUME NEW q, DOMAIN q = Fields, NEW at, NEW a
  PROVE  /\ DOMAIN Ended(q, at, a) = Fields
         /\ Ended(q, at, a).at = at /\ Ended(q, at, a).answer = a
         /\ Ended(q, at, a).tool = q.tool /\ Ended(q, at, a).query = q.query
         /\ Ended(q, at, a).name = q.name
BY DEF Ended, Fields

\* A call ends, with an answer that is right or with none.
LEMMA EndStep ==
  ASSUME LibraryInv, NEW c \in Clients, NEW at \in {"answered", "failed"}, NEW a, NEW r,
         r = Ended(call[c], at, a),
         call' = [call EXCEPT ![c] = r], UNCHANGED <<opened, model, lock>>,
         call[c].at \in {"called", "match", "rank"},
         Right(r, catalogue, held)
  PROVE  LibraryInv'
<1>1. pc = "serving" /\ DOMAIN call[c] = Fields
  BY CalledIs
<1>2. DOMAIN r = Fields /\ r.at = at
  BY <1>1, EndIs
<1>3. Stands(r, catalogue, vectors, held)
  <2>1. r.at \in {"answered", "failed"}
    BY <1>2
  <2> QED
    BY ONLY <1>2, <2>1, Right(r, catalogue, held) DEF Stands, Stages
<1>4. r.at \notin AtModel /\ call[c].at \notin AtModel /\ r.at # "embed"
  BY <1>2 DEF AtModel
<1> QED
  BY <1>1, <1>3, <1>4, CallStep

LEMMA FailStep ==
  ASSUME LibraryInv, NEW c \in Clients, NEW why, Fail(c, why),
         UNCHANGED <<opened, model, lock>>, call[c].at \in {"called", "match", "rank"}
  PROVE  LibraryInv'
<1> DEFINE r == Ended(call[c], "failed", why)
<1>1. call' = [call EXCEPT ![c] = r]
  BY DEF Fail, Ended
<1>2. r.at = "failed"
  BY CalledIs, EndIs
<1> HIDE DEF r
<1>3. Right(r, catalogue, held)
  BY <1>2 DEF Right
<1> QED
  BY <1>1, <1>3, EndStep DEF r

LEMMA ReplyStep ==
  ASSUME LibraryInv, NEW c \in Clients, NEW a, Reply(c, a),
         UNCHANGED <<opened, model, lock>>, call[c].at \in {"called", "match", "rank"},
         NEW r, r = Ended(call[c], "answered", a),
         Right(r, catalogue, held)
  PROVE  LibraryInv'
<1>1. call' = [call EXCEPT ![c] = r]
  BY DEF Reply, Ended
<1> QED
  BY <1>1, EndStep

LEMMA AskStep ==
  ASSUME LibraryInv, NEW c \in Clients, Ask(c)
  PROVE  LibraryInv'
<1>1. /\ pc = "serving" /\ call[c].at = "idle" /\ UNCHANGED <<opened, model, lock>>
  BY DEF Ask
<1>2. DOMAIN call[c] = Fields /\ call[c].name = NONE
  BY <1>1 DEF LibraryInv, CallInv, Stands
<1>3. PICK r : /\ call' = [call EXCEPT ![c] = r]
               /\ \/ \E q \in Queries, n \in Limits :
                       r = [call[c] EXCEPT !.tool = "search", !.query = q, !.limit = n, !.at = "match"]
                  \/ \E tool \in {"load", "segments", "org"}, n \in Names :
                       r = [call[c] EXCEPT !.tool = tool, !.name = n, !.at = "called"]
                  \/ \E tool \in {"org", "plan"} :
                       r = [call[c] EXCEPT !.tool = tool, !.at = "called"]
  <2>1. CASE \E q \in Queries, n \in Limits :
               call' = [call EXCEPT ![c] =
                 [@ EXCEPT !.tool = "search", !.query = q, !.limit = n, !.at = "match"]]
    BY <2>1
  <2>2. CASE \E tool \in Tools[c] \cap {"load", "segments", "org"}, n \in Names :
               call' = [call EXCEPT ![c] = [@ EXCEPT !.tool = tool, !.name = n, !.at = "called"]]
    BY <2>2
  <2>3. CASE \E tool \in Tools[c] \cap {"org", "plan"} :
               call' = [call EXCEPT ![c] = [@ EXCEPT !.tool = tool, !.at = "called"]]
    BY <2>3
  <2> QED
    BY <2>1, <2>2, <2>3 DEF Ask
<1>4. /\ DOMAIN r = Fields /\ r.at \in {"match", "called"}
      /\ r.at = "match" => r.tool = "search" /\ r.query \in Queries /\ r.limit \in Limits
      /\ r.at = "called" /\ r.tool = "plan" => r.name = NONE
  <2>1. CASE \E q \in Queries, n \in Limits :
               r = [call[c] EXCEPT !.tool = "search", !.query = q, !.limit = n, !.at = "match"]
    BY ONLY <1>2, <2>1 DEF Fields
  <2>2. CASE \E tool \in {"load", "segments", "org"}, n \in Names :
               r = [call[c] EXCEPT !.tool = tool, !.name = n, !.at = "called"]
    BY ONLY <1>2, <2>2 DEF Fields
  <2>3. CASE \E tool \in {"org", "plan"} : r = [call[c] EXCEPT !.tool = tool, !.at = "called"]
    BY ONLY <1>2, <2>3 DEF Fields
  <2> QED
    BY ONLY <1>3, <2>1, <2>2, <2>3
<1>5. Limits \subseteq Nat
  BY LibraryAssumption
<1>6. Stands(r, catalogue, vectors, held)
  BY ONLY <1>4, <1>5 DEF Stands, Stages, Right
<1>7. r.at \notin AtModel /\ call[c].at \notin AtModel /\ r.at # "embed"
  BY <1>1, <1>4 DEF AtModel
<1> QED
  BY <1>1, <1>3, <1>6, <1>7, CallStep

LEMMA MatchStep ==
  ASSUME LibraryInv, NEW c \in Clients, Match(c)
  PROVE  LibraryInv'
<1>1. call[c].at = "match" /\ UNCHANGED <<opened, model, lock>>
  BY DEF Match
<1>2. /\ pc = "serving" /\ Stands(call[c], catalogue, vectors, held) /\ DOMAIN call[c] = Fields
  BY <1>1, CalledIs
<1>3. CASE call[c].query \in Wordless
  <2> DEFINE a == [hits |-> Best(LAMBDA k : TRUE, ByName, call[c].limit),
                   lexical |-> Zeros, semantic |-> Zeros]
             r == Ended(call[c], "answered", a)
  <2>1. Reply(c, a)
    BY <1>3, Zenon DEF Match
  <2> HIDE DEF a
  <2>2. r.query = call[c].query /\ r.tool = call[c].tool /\ r.at = "answered"
    BY <1>2, EndIs
  <2>3. call[c].tool = "search"
    BY <1>1, <1>2 DEF Stands
  <2> HIDE DEF r
  <2>4. Right(r, catalogue, held)
    BY <1>3, <2>2, <2>3 DEF Right
  <2> QED
    BY <1>1, <2>1, <2>4, ReplyStep DEF r
<1>4. CASE call[c].query \notin Wordless
  <2>1. PICK at \in {"lock", "rank"} :
          call' = [call EXCEPT ![c] = [@ EXCEPT !.semantic = Zeros, !.at = at]]
    BY <1>4 DEF Match
  <2> DEFINE r == [call[c] EXCEPT !.semantic = Zeros, !.at = at]
  <2>2. call' = [call EXCEPT ![c] = r]
    BY <2>1
  <2>3. /\ DOMAIN r = Fields /\ r.at = at /\ r.semantic = Zeros
        /\ r.tool = call[c].tool /\ r.query = call[c].query /\ r.limit = call[c].limit
    BY <1>2 DEF Fields
  <2>4. Zeros = ZerosOf(catalogue)
    BY DEF Zeros, ZerosOf, Skills
  <2>5. call[c].tool = "search" /\ call[c].query \in Queries /\ call[c].limit \in Nat
    BY <1>1, <1>2 DEF Stands
  <2> HIDE DEF r
  <2>6. Stands(r, catalogue, vectors, held)
    BY ONLY <2>3, <2>4, <2>5, at \in {"lock", "rank"} DEF Stands, Stages, Right
  <2>7. r.at \notin AtModel /\ call[c].at \notin AtModel /\ r.at # "embed"
    BY <1>1, <2>3 DEF AtModel
  <2> QED
    BY <1>1, <1>2, <2>2, <2>6, <2>7, CallStep
<1> QED
  BY <1>3, <1>4

\* A call moves on, and carries on what it carries.
Moved(q, at) == [q EXCEPT !.at = at]

LEMMA MovedIs ==
  ASSUME NEW q, DOMAIN q = Fields, NEW at
  PROVE  /\ DOMAIN Moved(q, at) = Fields /\ Moved(q, at).at = at
         /\ Moved(q, at).tool = q.tool /\ Moved(q, at).query = q.query
         /\ Moved(q, at).limit = q.limit /\ Moved(q, at).semantic = q.semantic
BY DEF Moved, Fields

\* A search moves on to its next stage.
LEMMA MovedStands ==
  ASSUME LibraryInv, NEW c \in Clients, call[c].at \in {"lock", "load model", "embed"},
         NEW at \in {"load model", "embed", "rank", "lost"}
  PROVE  /\ Stands(Moved(call[c], at), catalogue, vectors, held)
         /\ Moved(call[c], at).at = at /\ pc = "serving"
<1>1. /\ pc = "serving" /\ Stands(call[c], catalogue, vectors, held) /\ DOMAIN call[c] = Fields
  BY CalledIs
<1>2. /\ call[c].tool = "search" /\ call[c].query \in Queries /\ call[c].limit \in Nat
      /\ call[c].semantic = ZerosOf(catalogue)
  BY <1>1 DEF Stands
<1> DEFINE r == Moved(call[c], at)
<1>3. /\ DOMAIN r = Fields /\ r.at = at
      /\ r.tool = call[c].tool /\ r.query = call[c].query
      /\ r.limit = call[c].limit /\ r.semantic = call[c].semantic
  BY <1>1, MovedIs
<1> HIDE DEF r
<1>4. Stands(r, catalogue, vectors, held)
  BY ONLY <1>2, <1>3, at \in {"load model", "embed", "rank", "lost"} DEF Stands, Stages, Right
<1> QED
  BY <1>1, <1>3, <1>4 DEF r

LEMMA LockStep ==
  ASSUME LibraryInv, NEW c \in Clients, Lock(c)
  PROVE  LibraryInv'
<1>1. call[c].at = "lock" /\ UNCHANGED <<opened, model>>
  BY DEF Lock
<1>2. call[c].at \notin AtModel
  BY <1>1 DEF AtModel
<1>3. CASE lock = "free"
  <2>1. \/ lock' = c /\ call' = [call EXCEPT ![c].at = IF model THEN "embed" ELSE "load model"]
    BY <1>3 DEF Lock
  <2> DEFINE at == IF model THEN "embed" ELSE "load model"
             r == Moved(call[c], at)
  <2>2. call' = [call EXCEPT ![c] = r] /\ at \in {"load model", "embed"} /\ (at = "embed" => model)
    BY <2>1 DEF Moved
  <2> HIDE DEF at
  <2>3. Stands(r, catalogue, vectors, held) /\ r.at = at /\ pc = "serving"
    BY <1>1, <2>2, MovedStands
  <2> HIDE DEF r
  <2>4. r.at \in AtModel /\ (r.at = "embed" => model')
    BY <1>1, <2>2, <2>3 DEF AtModel
  <2> QED
    BY <1>1, <1>3, <2>1, <2>2, <2>3, <2>4, CallStep
<1>4. CASE lock # "free"
  <2> DEFINE r == Moved(call[c], "rank")
  <2>1. call' = [call EXCEPT ![c] = r] /\ lock' = lock
    BY <1>4 DEF Lock, Moved
  <2>2. Stands(r, catalogue, vectors, held) /\ r.at = "rank" /\ pc = "serving"
    BY <1>1, MovedStands
  <2> HIDE DEF r
  <2>3. r.at \notin AtModel /\ r.at # "embed"
    BY <2>2 DEF AtModel
  <2> QED
    BY <1>1, <1>2, <2>1, <2>2, <2>3, CallStep
<1> QED
  BY <1>3, <1>4

\* Who is at the model has the lock.
LEMMA HasLock ==
  ASSUME LibraryInv, NEW c \in Clients, call[c].at \in AtModel
  PROVE  lock = c
BY DEF LibraryInv, LockInv, AtModel

LEMMA LoadModelStep ==
  ASSUME LibraryInv, NEW c \in Clients, LoadModel(c)
  PROVE  LibraryInv'
<1>1. call[c].at = "load model" /\ UNCHANGED opened
  BY DEF LoadModel
<1>2. lock = c /\ call[c].at \in AtModel
  BY <1>1, HasLock DEF AtModel
<1>3. PICK loaded \in BOOLEAN :
        /\ model' = loaded
        /\ call' = [call EXCEPT ![c].at = IF loaded THEN "embed" ELSE "rank"]
        /\ lock' = IF loaded THEN c ELSE "free"
  BY DEF LoadModel
<1> DEFINE at == IF loaded THEN "embed" ELSE "rank"
           r == Moved(call[c], at)
<1>4. call' = [call EXCEPT ![c] = r] /\ at \in {"embed", "rank"}
  BY <1>3 DEF Moved
<1>5. Stands(r, catalogue, vectors, held) /\ r.at = at /\ pc = "serving"
  <2> HIDE DEF at
  <2> QED
    BY <1>1, <1>4, MovedStands
<1> HIDE DEF r
<1>6. CASE loaded
  <2>1. r.at = "embed" /\ model' /\ lock' = lock
    BY <1>2, <1>3, <1>5, <1>6
  <2> HIDE DEF at
  <2> QED
    BY <1>1, <1>2, <1>4, <1>5, <2>1, CallStep DEF AtModel
<1>7. CASE ~ loaded
  <2>1. r.at = "rank" /\ lock' = "free"
    BY <1>2, <1>3, <1>5, <1>7
  <2>2. r.at \notin AtModel /\ r.at # "embed"
    BY <2>1 DEF AtModel
  <2> HIDE DEF at
  <2> QED
    BY <1>1, <1>2, <1>4, <1>5, <2>1, <2>2, CallStep
<1> QED
  BY <1>6, <1>7

LEMMA EmbedStep ==
  ASSUME LibraryInv, NEW c \in Clients, Embed(c)
  PROVE  LibraryInv'
<1>1. call[c].at = "embed" /\ UNCHANGED <<opened, model>>
  BY DEF Embed
<1>2. lock = c /\ call[c].at \in AtModel
  BY <1>1, HasLock DEF AtModel
<1> DEFINE meaning == [k \in Skills |->
                         IF k \notin DOMAIN vectors \/ vectors[k] = NONE THEN 0
                         ELSE Positive(Similar[call[c].query][vectors[k]])]
<1>3. \/ /\ call' = [call EXCEPT ![c] = [@ EXCEPT !.at = "rank", !.semantic = meaning]]
         /\ lock' = "free"
      \/ \E at \in {"rank", "lost"} :
           /\ call' = [call EXCEPT ![c] = [@ EXCEPT !.at = at]]
           /\ lock' \in {"free", "poisoned"}
  BY DEF Embed
<1>4. CASE /\ call' = [call EXCEPT ![c] = [@ EXCEPT !.at = "rank", !.semantic = meaning]]
           /\ lock' = "free"
  <2> DEFINE r == [call[c] EXCEPT !.at = "rank", !.semantic = meaning]
  <2>1. call' = [call EXCEPT ![c] = r]
    BY <1>4
  <2>2. /\ pc = "serving" /\ Stands(call[c], catalogue, vectors, held)
        /\ DOMAIN call[c] = Fields
    BY <1>1, CalledIs
  <2>3. meaning = MeaningOf(call[c].query, catalogue, vectors)
    BY DEF MeaningOf, Skills
  <2> HIDE DEF meaning
  <2>4. /\ DOMAIN r = Fields /\ r.at = "rank" /\ r.semantic = meaning
        /\ r.tool = call[c].tool /\ r.query = call[c].query /\ r.limit = call[c].limit
    BY ONLY <2>2 DEF Fields
  <2>5. call[c].tool = "search" /\ call[c].query \in Queries /\ call[c].limit \in Nat
    BY <1>1, <2>2 DEF Stands
  <2> HIDE DEF r
  <2>6. Stands(r, catalogue, vectors, held)
    BY ONLY <2>3, <2>4, <2>5 DEF Stands, Stages, Right
  <2>7. r.at \notin AtModel /\ r.at # "embed"
    BY <2>4 DEF AtModel
  <2> QED
    BY <1>1, <1>2, <1>4, <2>1, <2>2, <2>6, <2>7, CallStep
<1>5. CASE \E at \in {"rank", "lost"} :
             /\ call' = [call EXCEPT ![c] = [@ EXCEPT !.at = at]]
             /\ lock' \in {"free", "poisoned"}
  <2>1. PICK at \in {"rank", "lost"} :
             /\ call' = [call EXCEPT ![c] = [@ EXCEPT !.at = at]]
             /\ lock' \in {"free", "poisoned"}
    BY <1>5
  <2> DEFINE r == Moved(call[c], at)
  <2>2. call' = [call EXCEPT ![c] = r]
    BY <2>1 DEF Moved
  <2>3. Stands(r, catalogue, vectors, held) /\ r.at = at /\ pc = "serving"
    BY <1>1, MovedStands
  <2> HIDE DEF r
  <2>4. r.at \notin AtModel /\ r.at # "embed"
    BY <2>3 DEF AtModel
  <2> QED
    BY <1>1, <1>2, <2>1, <2>2, <2>3, <2>4, CallStep
<1> QED
  BY <1>3, <1>4, <1>5

LEMMA RankHitsStep ==
  ASSUME LibraryInv, NEW c \in Clients, RankHits(c)
  PROVE  LibraryInv'
<1>1. call[c].at = "rank" /\ UNCHANGED <<opened, model, lock>>
  BY DEF RankHits
<1>2. /\ Catalogued(held, catalogue, vectors)
      /\ Stands(call[c], catalogue, vectors, held) /\ DOMAIN call[c] = Fields
  BY <1>1, CalledIs
<1> DEFINE q == call[c].query
           sem == call[c].semantic
           limit == call[c].limit
           lex == [k \in Skills |-> Lexical[call[c].query][catalogue[k].name]]
<1>3. /\ q \in Queries /\ limit \in Nat /\ call[c].tool = "search"
      /\ sem = ZerosOf(catalogue) \/ sem = MeaningOf(q, catalogue, vectors)
  BY <1>1, <1>2 DEF Stands
<1>4. PICK bs \in 0 .. 2, bl \in 0 .. 2 :
        /\ IsMost(bs, sem) /\ IsMost(bl, lex)
        /\ LET score == [k \in Skills |-> 7 * Share(sem[k], bs) + 3 * Share(lex[k], bl)]
           IN  Reply(c, [hits |-> Ranking(score, limit), lexical |-> lex, semantic |-> sem])
  BY Zenon DEF RankHits, Ranking
<1> DEFINE score == [k \in Skills |-> 7 * Share(sem[k], bs) + 3 * Share(lex[k], bl)]
           a == [hits |-> Ranking(score, limit), lexical |-> lex, semantic |-> sem]
           r == Ended(call[c], "answered", a)
<1>5. Reply(c, a)
  BY <1>4
<1>6. r.answer = a /\ r.query = q /\ r.tool = "search" /\ r.at = "answered"
  <2> HIDE DEF a
  <2> QED
    BY <1>2, <1>3, EndIs
<1> HIDE DEF r
<1>7. SearchRight(r, catalogue, held)
  <2>1. lex = [k \in Skills |-> Lexical[q][catalogue[k].name]]
    OBVIOUS
  <2>2. score = [k \in Skills |-> 7 * Share(sem[k], bs) + 3 * Share(lex[k], bl)]
    OBVIOUS
  <2>3. r.answer = [hits |-> Ranking(score, limit), lexical |-> lex, semantic |-> sem] /\ r.query = q
    BY <1>6
  <2>4. IsMost(bs, sem) /\ IsMost(bl, lex) /\ bs \in 0 .. 2 /\ bl \in 0 .. 2
    BY <1>4
  <2> HIDE DEF score, lex, sem, q, limit
  <2> QED
    BY ONLY <1>2, <1>3, <2>1, <2>2, <2>3, <2>4, RankGives, Zenon
<1>8. Right(r, catalogue, held)
  BY <1>6, <1>7, Zenon DEF Right
<1> HIDE DEF a
<1> QED
  BY <1>1, <1>5, <1>8, ReplyStep DEF r

LEMMA LoadStep ==
  ASSUME LibraryInv, NEW c \in Clients, Load(c)
  PROVE  LibraryInv'
<1>1. call[c].at = "called" /\ call[c].tool = "load" /\ UNCHANGED <<opened, model, lock>>
  BY DEF Load, Called
<1>2. held \in Seq(GoodFiles) /\ DOMAIN call[c] = Fields
  BY <1>1, CalledIs
<1>3. CASE \E why : Fail(c, why)
  BY <1>1, <1>3, FailStep
<1>4. CASE ~ \E why : Fail(c, why)
  <2> DEFINE name == call[c].name
             f == held[Find(name)]
             a == [from |-> Find(name), text |-> Subtree(f, RootIn(f, name))]
             r == Ended(call[c], "answered", a)
  <2>1. Listing(name) # {} /\ Verifies(f, RootIn(f, name)) /\ Reply(c, a)
    BY <1>4, Zenon DEF Load
  <2>2. r.answer = a /\ r.name = name /\ r.tool = "load" /\ r.at = "answered"
    <3> HIDE DEF a
    <3> QED
      BY <1>1, <1>2, EndIs
  <2> HIDE DEF r, name
  <2>3. LoadRight(r, held)
    BY <1>2, <2>1, <2>2, LoadGives
  <2>4. Right(r, catalogue, held)
    BY <2>2, <2>3, Zenon DEF Right
  <2> HIDE DEF a
  <2> QED
    BY <1>1, <2>1, <2>4, ReplyStep DEF r
<1> QED
  BY <1>3, <1>4

LEMMA SegmentsStep ==
  ASSUME LibraryInv, NEW c \in Clients, Segments(c)
  PROVE  LibraryInv'
<1>1. call[c].at = "called" /\ call[c].tool = "segments" /\ UNCHANGED <<opened, model, lock>>
  BY DEF Segments, Called
<1>2. held \in Seq(GoodFiles) /\ DOMAIN call[c] = Fields
  BY <1>1, CalledIs
<1>3. CASE \E why : Fail(c, why)
  BY <1>1, <1>3, FailStep
<1>4. CASE ~ \E why : Fail(c, why)
  <2> DEFINE name == call[c].name
             f == held[Find(name)]
             root == RootIn(f, name)
             a == [from |-> Find(name),
                   segments |-> {<<n, f.records[SegmentIndex(f, n, root)]>> :
                     n \in {m \in Subtree(f, root) : f.nodes[m].role = "segment"}}]
             r == Ended(call[c], "answered", a)
  <2>1. Listing(name) # {} /\ Reply(c, a)
    BY <1>4, Zenon DEF Segments
  <2>2. r.answer = a /\ r.name = name /\ r.tool = "segments" /\ r.at = "answered"
    <3> HIDE DEF a
    <3> QED
      BY <1>1, <1>2, EndIs
  <2> HIDE DEF r, name
  <2>3. SegmentsRight(r, held)
    BY ONLY <1>2, <2>1, <2>2, SegmentsGive
  <2>4. Right(r, catalogue, held)
    BY <2>2, <2>3, Zenon DEF Right
  <2> HIDE DEF a
  <2> QED
    BY <1>1, <2>1, <2>4, ReplyStep DEF r
<1> QED
  BY <1>3, <1>4

LEMMA OrganizationStep ==
  ASSUME LibraryInv, NEW c \in Clients, Organization(c)
  PROVE  LibraryInv'
<1>1. call[c].at = "called" /\ call[c].tool = "org" /\ UNCHANGED <<opened, model, lock>>
  BY DEF Organization, Called
<1>2. held \in Seq(GoodFiles) /\ held # << >> /\ DOMAIN call[c] = Fields
  BY <1>1, CalledIs
<1>3. CASE \E why : Fail(c, why)
  BY <1>1, <1>3, FailStep
<1>4. CASE ~ \E why : Fail(c, why)
  <2> DEFINE name == call[c].name
             i == IF name = NONE THEN 1 ELSE Find(name)
             f == held[i]
             flat == Relations(f, "guards") \cup Relations(f, "needs") = {}
             a == [from |-> i, members |-> MembersOf(f),
                   gates |-> Relations(f, "guards"),
                   handoffs |-> Relations(f, "needs"),
                   rework |-> Relations(f, "cites"),
                   flat |-> flat]
             r == Ended(call[c], "answered", a)
  <2>1. (name = NONE \/ Listing(name) # {}) /\ Reply(c, a)
    BY <1>4, Zenon DEF Organization
  <2>2. r.answer = a /\ r.name = name /\ r.tool = "org" /\ r.at = "answered"
    <3> HIDE DEF a
    <3> QED
      BY <1>1, <1>2, EndIs
  <2> HIDE DEF r, name
  <2>3. TablesRight(r, held)
    <3>1. i = Asked(name) /\ f = held[i]
      BY DEF Asked
    <3>2. flat \in BOOLEAN /\ (flat <=> Relations(f, "guards") \cup Relations(f, "needs") = {})
      OBVIOUS
    <3> HIDE DEF i, f, flat
    <3> QED
      BY ONLY <1>2, <2>1, <2>2, <3>1, <3>2, OrganizationGives, Zenon
  <2>4. Right(r, catalogue, held)
    BY <2>2, <2>3, Zenon DEF Right
  <2> HIDE DEF a
  <2> QED
    BY <1>1, <2>1, <2>4, ReplyStep DEF r
<1> QED
  BY <1>3, <1>4

LEMMA PlanStep ==
  ASSUME LibraryInv, NEW c \in Clients, Plan(c)
  PROVE  LibraryInv'
<1>1. call[c].at = "called" /\ call[c].tool = "plan" /\ UNCHANGED <<opened, model, lock>>
  BY DEF Plan, Called
<1>2. held \in Seq(GoodFiles) /\ held # << >> /\ DOMAIN call[c] = Fields /\ call[c].name = NONE
  BY <1>1, CalledIs DEF Stands
<1>3. CASE \E why : Fail(c, why)
  BY <1>1, <1>3, FailStep
<1>4. CASE ~ \E why : Fail(c, why)
  <2> DEFINE f == held[1]
             flat == Relations(f, "seq") \cup Relations(f, "guards") = {}
             a == [from |-> 1, flat |-> flat,
                   members |-> IF flat THEN << >> ELSE MembersOf(f),
                   gates |-> IF flat THEN {} ELSE Relations(f, "guards"),
                   handoffs |-> IF flat THEN {} ELSE Relations(f, "needs"),
                   rework |-> IF flat THEN {} ELSE Relations(f, "cites")]
             r == Ended(call[c], "answered", a)
  <2>1. Reply(c, a)
    BY <1>4, Zenon DEF Plan
  <2>2. r.answer = a /\ r.name = NONE /\ r.tool = "plan" /\ r.at = "answered"
    <3> HIDE DEF a
    <3> QED
      BY <1>1, <1>2, EndIs
  <2> HIDE DEF r
  <2>3. TablesRight(r, held)
    <3>1. flat \in BOOLEAN /\ (flat <=> Relations(f, "seq") \cup Relations(f, "guards") = {})
          /\ f = held[1]
      OBVIOUS
    <3> HIDE DEF flat, f
    <3> QED
      BY ONLY <1>2, <2>2, <3>1, PlanGives, Zenon
  <2>4. Right(r, catalogue, held)
    BY <2>2, <2>3, Zenon DEF Right
  <2> HIDE DEF a
  <2> QED
    BY <1>1, <2>1, <2>4, ReplyStep DEF r
<1> QED
  BY <1>3, <1>4

-----------------------------------------------------------------------------
\* Every step keeps the invariant.
LEMMA InvKept ==
  ASSUME LibraryInv, [Next]_vars
  PROVE  LibraryInv'
<1>1. CASE UNCHANGED vars
  <2>1. UNCHANGED <<opened, model, lock, call>>
    BY <1>1 DEF vars
  <2>2. HeldInv'
    BY <2>1, SameStart DEF LibraryInv
  <2>3. CallInv' /\ LockInv'
    BY <2>1, Zenon DEF LibraryInv, CallInv, LockInv, opened
  <2> QED
    BY <2>2, <2>3 DEF LibraryInv
<1>2. CASE Open
  BY <1>2, MetadataStep, ReadStep, ParseStep, Zenon DEF Open
<1>3. CASE Release
  BY <1>3, ReleaseStep
<1>4. CASE \E c \in Clients : Ask(c) \/ Serve(c)
  <2> PICK c \in Clients : Ask(c) \/ Serve(c)
    BY <1>4
  <2>1. CASE Ask(c)
    BY <2>1, AskStep
  <2>2. CASE Search(c)
    BY <2>2, MatchStep, LockStep, LoadModelStep, EmbedStep, RankHitsStep, Zenon DEF Search
  <2>3. CASE Load(c)
    BY <2>3, LoadStep
  <2>4. CASE Segments(c)
    BY <2>4, SegmentsStep
  <2>5. CASE Organization(c)
    BY <2>5, OrganizationStep
  <2>6. CASE Plan(c)
    BY <2>6, PlanStep
  <2> QED
    BY <2>1, <2>2, <2>3, <2>4, <2>5, <2>6, Zenon DEF Serve
<1> QED
  BY <1>1, <1>2, <1>3, <1>4, Zenon DEF Next

\* What is held, what each call carries, who holds the lock, and that each
\* answer is right, is kept by every step of the start, of a release written
\* meanwhile and of the calls (library.rs, server.rs).
THEOREM LibraryInvariant == Spec => []LibraryInv
<1>1. Init => LibraryInv
  BY InvStarts
<1>2. LibraryInv /\ [Next]_vars => LibraryInv'
  BY InvKept
<1> QED
  BY <1>1, <1>2, PTL DEF Spec

\* The start stays within MAX_LIBRARY_BYTES unless it refuses, vectors stand
\* beside the skills one for one, and the lock is held by exactly the search
\* that is at the model (library.rs 88-176, 318-349).
THEOREM LibraryTypes == Spec => []TypeOK
<1>1. LibraryInv => TypeOK
  BY InvHolds
<1> QED
  BY <1>1, LibraryInvariant, PTL

\* A search reports of every hit its own words and its own vector, and leaves
\* out no skill that beats a hit (library.rs 156-176, 222-271, 318-349).
THEOREM SearchesAreTrue == Spec => []SearchTrue
<1>1. LibraryInv => SearchTrue
  BY InvHolds
<1> QED
  BY <1>1, LibraryInvariant, PTL

\* What load, segments, organization and plan say of a container is what was
\* compiled into it (library.rs 357-545, skillc.rs 722-803).
THEOREM ToolsTellTrue == Spec => []ToolsAnswerTruly
<1>1. LibraryInv => ToolsAnswerTruly
  BY InvHolds
<1> QED
  BY <1>1, LibraryInvariant, PTL

=============================================================================
