---------------------------- MODULE ScoringProofs ----------------------------
(***************************************************************************)
(* Proofs about Scoring: for any declared features and policies and any    *)
(* rows, which values reach the trees, and for any trees, what they score. *)
(*                                                                         *)
(* The first half is about the trees: every walk through a tree ends at    *)
(* the leaf its row is meant for, in the tree's own nodes, in the flat     *)
(* forest and at a fixed depth, and sums shared out to a pool are the sum. *)
(***************************************************************************)
EXTENDS Scoring, Loops, FiniteSetTheorems

-----------------------------------------------------------------------------
(***************************************************************************)
(* Paths and sums                                                          *)
(***************************************************************************)

\* A run of steps is the path.
StepsOf(p, n, S, root, step) ==
  /\ p \in [0 .. n -> S] /\ p[0] = root
  /\ \A k \in 1 .. n : p[k] = step[p[k - 1]]

LEMMA PathIs ==
  ASSUME NEW n \in Nat, NEW S, NEW root, NEW step, NEW p, StepsOf(p, n, S, root, step)
  PROVE  Path(root, step, n) = p[n]
  <1>0. /\ p \in [0 .. n -> S] /\ p[0] = root
        /\ \A k \in 1 .. n : p[k] = step[p[k - 1]]
    BY DEF StepsOf
  <1> DEFINE at == CHOOSE f : f = [d \in 0 .. n |-> IF d = 0 THEN root ELSE step[f[d - 1]]]
  <1>1. Path(root, step, n) = at[n]
    BY Zenon DEF Path
  <1>2. p = [d \in 0 .. n |-> IF d = 0 THEN root ELSE step[p[d - 1]]]
    <2>1. \A d \in 0 .. n : p[d] = IF d = 0 THEN root ELSE step[p[d - 1]]
      <3>1. TAKE d \in 0 .. n
      <3>2. d = 0 \/ d \in 1 .. n
        OBVIOUS
      <3>3. QED
        BY <1>0, <3>2
    <2>2. p = [d \in 0 .. n |-> p[d]]
      BY <1>0
    <2>3. QED
      BY <2>1, <2>2
  <1>3. at = [d \in 0 .. n |-> IF d = 0 THEN root ELSE step[at[d - 1]]]
    BY <1>2, Zenon
  <1> HIDE DEF at
  <1> DEFINE T == {d \in 0 .. n : at[d] = p[d]}
  <1>4. 0 \in T
    BY <1>0, <1>3
  <1>5. ASSUME NEW k \in 1 .. n, k - 1 \in T PROVE k \in T
    <2>1. k \in 0 .. n /\ k # 0
      OBVIOUS
    <2>2. at[k] = step[at[k - 1]]
      BY <1>3, <2>1
    <2>3. QED
      BY <1>0, <1>5, <2>1, <2>2
  <1>6. 0 .. n \subseteq T
    <2> HIDE DEF T
    <2>1. QED
      BY <1>4, <1>5, LoopInvariant
  <1>7. n \in 0 .. n
    OBVIOUS
  <1>8. QED
    BY <1>1, <1>6, <1>7

Closed(S, step) == \A x \in S : step[x] \in S

\* Where steps stay in a set, a path is one step after the other.
LEMMA PathSteps ==
  ASSUME NEW S, NEW root \in S, NEW step, Closed(S, step)
  PROVE  /\ Path(root, step, 0) = root
         /\ \A n \in Nat : /\ Path(root, step, n) \in S
                           /\ Path(root, step, n + 1) = step[Path(root, step, n)]
  <1>1. ASSUME NEW n \in Nat
        PROVE  /\ Path(root, step, n) \in S
               /\ Path(root, step, n + 1) = step[Path(root, step, n)]
    <2> DEFINE move == [q \in (1 .. n + 1) \X S |-> step[q[2]]]
               m == n + 1
    <2>1. \A k \in 1 .. m, x \in S : move[<<k, x>>] = step[x]
      OBVIOUS
    <2>2. StaysIn(S, m, move)
      BY <2>1 DEF StaysIn, Closed
    <2>3. m \in Nat
      OBVIOUS
    <2> HIDE DEF move, m
    <2>4. PICK p \in [0 .. m -> S] : RunOf(p, m, root, move)
      BY <2>2, <2>3, LoopRuns
    <2>5. p[0] = root
      BY <2>4 DEF RunOf
    <2>6. ASSUME NEW k \in 1 .. m PROVE p[k] = step[p[k - 1]]
      <3>1. k - 1 \in 0 .. m
        BY <2>3
      <3>2. p[k - 1] \in S
        BY <3>1
      <3>3. p[k] = move[<<k, p[k - 1]>>]
        BY <2>4 DEF RunOf
      <3>4. QED
        BY <2>1, <3>2, <3>3
    <2>7. Path(root, step, m) = p[m]
      <3>1. StepsOf(p, m, S, root, step)
        BY <2>5, <2>6 DEF StepsOf
      <3>2. QED
        BY <2>3, <3>1, PathIs
    <2> DEFINE q == [k \in 0 .. n |-> p[k]]
    <2>8. q \in [0 .. n -> S] /\ q[0] = root /\ q[n] = p[n]
      BY <2>5 DEF m
    <2>9. ASSUME NEW k \in 1 .. n PROVE q[k] = step[q[k - 1]]
      <3>1. k \in 1 .. m /\ k \in 0 .. n /\ k - 1 \in 0 .. n
        BY DEF m
      <3>2. QED
        BY <2>6, <3>1
    <2> HIDE DEF q
    <2>10. Path(root, step, n) = q[n]
      <3>1. StepsOf(q, n, S, root, step)
        BY <2>8, <2>9 DEF StepsOf
      <3>2. QED
        BY <3>1, PathIs
    <2>11. n \in 0 .. m /\ m \in 1 .. m /\ m - 1 = n
      BY DEF m
    <2>12. q[n] = p[n] /\ p[n] \in S /\ p[m] = step[p[n]]
      BY <2>6, <2>8, <2>11
    <2>13. QED
      BY <2>7, <2>10, <2>12 DEF m
  <1>2. Path(root, step, 0) = root
    <2> DEFINE p == [k \in 0 .. 0 |-> root]
    <2>1. StepsOf(p, 0, S, root, step) /\ p[0] = root
      BY DEF StepsOf
    <2> HIDE DEF p
    <2>2. 0 \in Nat
      OBVIOUS
    <2>3. Path(root, step, 0) = p[0]
      BY <2>1, <2>2, PathIs
    <2>4. QED
      BY <2>1, <2>3
  <1>3. QED
    BY <1>1, <1>2

\* A running total is the sum.
TotalsOf(p, n, S, f) ==
  /\ p \in [0 .. n -> Int] /\ p[0] = 0
  /\ \A k \in 1 .. n : p[k] = p[k - 1] + (IF k \in S THEN f[k] ELSE 0)

LEMMA SumIs ==
  ASSUME NEW n \in Nat, NEW S, NEW f, NEW p, TotalsOf(p, n, S, f)
  PROVE  SumOver(n, S, f) = p[n]
  <1> DEFINE total == CHOOSE g : g = [k \in 0 .. n |->
                        IF k = 0 THEN 0 ELSE g[k - 1] + (IF k \in S THEN f[k] ELSE 0)]
  <1>1. SumOver(n, S, f) = total[n]
    BY Zenon DEF SumOver
  <1>2. p = [k \in 0 .. n |-> IF k = 0 THEN 0 ELSE p[k - 1] + (IF k \in S THEN f[k] ELSE 0)]
    <2>1. \A k \in 0 .. n : p[k] = IF k = 0 THEN 0 ELSE p[k - 1] + (IF k \in S THEN f[k] ELSE 0)
      <3>1. TAKE k \in 0 .. n
      <3>2. k = 0 \/ k \in 1 .. n
        OBVIOUS
      <3>3. QED
        BY <3>2 DEF TotalsOf
    <2>2. p = [k \in 0 .. n |-> p[k]]
      BY DEF TotalsOf
    <2>3. QED
      BY <2>1, <2>2
  <1>3. total = [k \in 0 .. n |->
                   IF k = 0 THEN 0 ELSE total[k - 1] + (IF k \in S THEN f[k] ELSE 0)]
    BY <1>2, Zenon
  <1> HIDE DEF total
  <1> DEFINE T == {k \in 0 .. n : total[k] = p[k]}
  <1>4. 0 \in T
    BY <1>3 DEF TotalsOf
  <1>5. ASSUME NEW k \in 1 .. n, k - 1 \in T PROVE k \in T
    <2>1. k \in 0 .. n /\ k # 0
      OBVIOUS
    <2>2. total[k] = total[k - 1] + (IF k \in S THEN f[k] ELSE 0)
      BY <1>3, <2>1
    <2>3. QED
      BY <1>5, <2>1, <2>2 DEF TotalsOf
  <1>6. 0 .. n \subseteq T
    <2> HIDE DEF T
    <2>1. QED
      BY <1>4, <1>5, LoopInvariant
  <1>7. n \in 0 .. n
    OBVIOUS
  <1>8. QED
    BY <1>1, <1>6, <1>7

\* A sum of integers grows term by term.
Whole(f, n, S) == \A k \in S : k \in 1 .. n => f[k] \in Int

LEMMA SumSteps ==
  ASSUME NEW n \in Nat, NEW S, NEW f, Whole(f, n, S)
  PROVE  /\ SumOver(0, S, f) = 0
         /\ \A k \in 0 .. n : SumOver(k, S, f) \in Int
         /\ \A k \in 1 .. n :
              SumOver(k, S, f) = SumOver(k - 1, S, f) + (IF k \in S THEN f[k] ELSE 0)
  <1> DEFINE Term(k) == IF k \in S THEN f[k] ELSE 0
             move == [q \in (1 .. n) \X Int |-> q[2] + Term(q[1])]
  <1>1. \A k \in 1 .. n : Term(k) \in Int
    BY DEF Whole
  <1>2. \A k \in 1 .. n, x \in Int : move[<<k, x>>] = x + Term(k)
    OBVIOUS
  <1>3. StaysIn(Int, n, move)
    <2>1. ASSUME NEW k \in 1 .. n, NEW x \in Int PROVE move[<<k, x>>] \in Int
      <3>1. Term(k) \in Int
        BY <1>1
      <3> HIDE DEF Term, move
      <3>2. QED
        BY <1>2, <3>1
    <2> HIDE DEF move
    <2>2. QED
      BY <2>1 DEF StaysIn
  <1> HIDE DEF move
  <1>4. PICK p \in [0 .. n -> Int] : RunOf(p, n, 0, move)
    <2>1. 0 \in Int
      OBVIOUS
    <2>2. QED
      BY <1>3, <2>1, LoopRuns
  <1>5. p[0] = 0
    BY <1>4 DEF RunOf
  <1>6. ASSUME NEW k \in 1 .. n PROVE p[k] = p[k - 1] + Term(k)
    <2>1. k - 1 \in 0 .. n
      OBVIOUS
    <2>2. p[k - 1] \in Int
      BY <2>1
    <2>3. p[k] = move[<<k, p[k - 1]>>]
      BY <1>4 DEF RunOf
    <2>4. QED
      BY <1>2, <2>2, <2>3
  <1>7. ASSUME NEW m \in 0 .. n PROVE SumOver(m, S, f) = p[m]
    <2> DEFINE q == [k \in 0 .. m |-> p[k]]
    <2>1. q \in [0 .. m -> Int] /\ q[0] = 0 /\ q[m] = p[m]
      BY <1>5
    <2>2. ASSUME NEW k \in 1 .. m PROVE q[k] = q[k - 1] + Term(k)
      <3>1. k \in 1 .. n /\ k \in 0 .. m /\ k - 1 \in 0 .. m
        OBVIOUS
      <3>2. QED
        BY <1>6, <3>1
    <2> HIDE DEF q
    <2>3. TotalsOf(q, m, S, f)
      BY <2>1, <2>2 DEF TotalsOf
    <2>4. m \in Nat
      OBVIOUS
    <2>5. SumOver(m, S, f) = q[m]
      BY <2>3, <2>4, SumIs
    <2>6. QED
      BY <2>1, <2>5
  <1>8. 0 \in 0 .. n /\ \A k \in 1 .. n : k \in 0 .. n /\ k - 1 \in 0 .. n
    OBVIOUS
  <1>9. QED
    BY <1>5, <1>6, <1>7, <1>8

\* Sums over two sets that have nothing in common.
LEMMA SumOfUnion ==
  ASSUME NEW n \in Nat, NEW A, NEW B, NEW f, A \cap B = {}, Whole(f, n, A), Whole(f, n, B)
  PROVE  SumOver(n, A \cup B, f) = SumOver(n, A, f) + SumOver(n, B, f)
  <1> DEFINE C == A \cup B
             T == {k \in 0 .. n : SumOver(k, C, f) = SumOver(k, A, f) + SumOver(k, B, f)}
  <1>1. Whole(f, n, C)
    BY DEF Whole
  <1> DEFINE a(k) == SumOver(k, A, f)
             b(k) == SumOver(k, B, f)
             c(k) == SumOver(k, C, f)
  <1>2. /\ a(0) = 0 /\ \A k \in 0 .. n : a(k) \in Int
        /\ \A k \in 1 .. n : a(k) = a(k - 1) + (IF k \in A THEN f[k] ELSE 0)
    BY SumSteps
  <1>3. /\ b(0) = 0 /\ \A k \in 0 .. n : b(k) \in Int
        /\ \A k \in 1 .. n : b(k) = b(k - 1) + (IF k \in B THEN f[k] ELSE 0)
    BY SumSteps
  <1>4. /\ c(0) = 0
        /\ \A k \in 1 .. n : c(k) = c(k - 1) + (IF k \in C THEN f[k] ELSE 0)
    <2> HIDE DEF C
    <2>1. QED
      BY <1>1, SumSteps
  <1> HIDE DEF a, b, c
  <1>5. 0 \in T
    BY <1>2, <1>3, <1>4 DEF a, b, c
  <1>6. ASSUME NEW k \in 1 .. n, k - 1 \in T PROVE k \in T
    <2>1. k \in 0 .. n /\ k - 1 \in 0 .. n
      OBVIOUS
    <2>2. c(k - 1) = a(k - 1) + b(k - 1)
      BY <1>6 DEF a, b, c
    <2>3. a(k - 1) \in Int /\ b(k - 1) \in Int
      BY <1>2, <1>3, <2>1
    <2>4. \/ k \in A /\ k \notin B /\ k \in C /\ f[k] \in Int
          \/ k \notin A /\ k \in B /\ k \in C /\ f[k] \in Int
          \/ k \notin A /\ k \notin B /\ k \notin C
      BY DEF Whole
    <2> HIDE DEF C
    <2>5. c(k) = a(k) + b(k)
      BY <1>2, <1>3, <1>4, <2>2, <2>3, <2>4
    <2>6. QED
      BY <2>1, <2>5 DEF a, b, c
  <1>7. 0 .. n \subseteq T
    <2> HIDE DEF T
    <2>1. QED
      BY <1>5, <1>6, LoopInvariant
  <1>8. n \in 0 .. n
    OBVIOUS
  <1>9. QED
    BY <1>7, <1>8

\* A sum over nothing.
LEMMA SumOfNone ==
  ASSUME NEW n \in Nat, NEW f PROVE SumOver(n, {}, f) = 0
  <1> DEFINE T == {k \in 0 .. n : SumOver(k, {}, f) = 0}
  <1>1. Whole(f, n, {})
    BY DEF Whole
  <1>2. /\ SumOver(0, {}, f) = 0
        /\ \A k \in 1 .. n : SumOver(k, {}, f) = SumOver(k - 1, {}, f) + 0
    BY <1>1, SumSteps
  <1>3. 0 \in T
    BY <1>2
  <1>4. ASSUME NEW k \in 1 .. n, k - 1 \in T PROVE k \in T
    BY <1>2, <1>4
  <1>5. 0 .. n \subseteq T
    <2> HIDE DEF T
    <2>1. QED
      BY <1>3, <1>4, LoopInvariant
  <1>6. n \in 0 .. n
    OBVIOUS
  <1>7. QED
    BY <1>5, <1>6

-----------------------------------------------------------------------------
(***************************************************************************)
(* Walks through a tree                                                    *)
(***************************************************************************)

LEMMA TreeShape ==
  ASSUME NEW tree, NEW w, TreeOK(tree, w)
  PROVE  /\ Len(tree.nodes) \in Nat \ {0}
         /\ DOMAIN tree.nodes = 1 .. Len(tree.nodes) /\ 1 \in DOMAIN tree.nodes
         /\ \A i \in DOMAIN tree.nodes : tree.nodes[i] \in Nodes
         /\ Internal(tree) \subseteq DOMAIN tree.nodes
         /\ \A i \in DOMAIN tree.nodes : i \in Internal(tree) <=> ~IsLeaf(tree.nodes[i])
         /\ \A i \in Internal(tree) : Behind(tree.nodes[i]) \subseteq DOMAIN tree.nodes
  <1>1. tree.nodes \in Seq(Nodes) /\ tree.nodes # << >>
    BY DEF TreeOK
  <1>2. Len(tree.nodes) \in Nat \ {0} /\ DOMAIN tree.nodes = 1 .. Len(tree.nodes)
    BY <1>1
  <1>3. \A i \in DOMAIN tree.nodes : tree.nodes[i] \in Nodes
    BY <1>1
  <1>4. QED
    BY <1>2, <1>3 DEF TreeOK, Internal

\* The steps of a walk, which stays at a leaf, and where it is after d of them.
Steps(tree, step) ==
  [i \in DOMAIN tree.nodes |-> IF i \in Internal(tree) THEN step[i] ELSE i]
At(tree, step, d) == Path(1, Steps(tree, step), d)

\* Every step goes to a node behind.
Descends(tree, step) == \A i \in Internal(tree) : step[i] \in Behind(tree.nodes[i])

LEMMA Walking ==
  ASSUME NEW tree, NEW w, TreeOK(tree, w), NEW step, Descends(tree, step)
  PROVE  /\ At(tree, step, 0) = 1
         /\ \A d \in Nat : /\ At(tree, step, d) \in DOMAIN tree.nodes
                           /\ At(tree, step, d + 1) = IF At(tree, step, d) \in Internal(tree)
                                                      THEN step[At(tree, step, d)]
                                                      ELSE At(tree, step, d)
  <1> DEFINE s == Steps(tree, step)
  <1>1. /\ 1 \in DOMAIN tree.nodes
        /\ \A i \in Internal(tree) : Behind(tree.nodes[i]) \subseteq DOMAIN tree.nodes
    BY TreeShape
  <1>2. \A i \in DOMAIN tree.nodes : s[i] = IF i \in Internal(tree) THEN step[i] ELSE i
    BY DEF Steps
  <1>3. Closed(DOMAIN tree.nodes, s)
    <2> HIDE DEF s
    <2>1. QED
      BY <1>1, <1>2 DEF Closed, Descends
  <1> HIDE DEF s
  <1>4. /\ Path(1, s, 0) = 1
        /\ \A d \in Nat : /\ Path(1, s, d) \in DOMAIN tree.nodes
                          /\ Path(1, s, d + 1) = s[Path(1, s, d)]
    BY <1>1, <1>3, PathSteps
  <1>5. QED
    BY <1>2, <1>4 DEF At, s

\* A walk comes to a leaf after e steps, and stays there.
EndsAfter(tree, step, e) ==
  /\ e \in 0 .. Len(tree.nodes)
  /\ \A d \in 0 .. e - 1 : At(tree, step, d) \in Internal(tree)
  /\ At(tree, step, e) \in DOMAIN tree.nodes \ Internal(tree)
  /\ \A d \in Nat : d >= e => At(tree, step, d) = At(tree, step, e)

\* A walk ends: with more steps than nodes it would come back to one.
LEMMA WalkEnds ==
  ASSUME NEW tree, NEW w, TreeOK(tree, w), NEW step, Descends(tree, step)
  PROVE  \E e \in 0 .. Len(tree.nodes) : EndsAfter(tree, step, e)
  <1> DEFINE n == Len(tree.nodes)
             p(d) == At(tree, step, d)
             I == Internal(tree)
  <1>1. n \in Nat \ {0} /\ DOMAIN tree.nodes = 1 .. n /\ I \subseteq 1 .. n
    BY TreeShape
  <1>2. /\ \A d \in Nat : p(d) \in 1 .. n
        /\ \A d \in Nat : p(d + 1) = IF p(d) \in I THEN step[p(d)] ELSE p(d)
    BY <1>1, Walking
  <1>3. \A i \in I : step[i] \in Behind(tree.nodes[i])
    BY DEF Descends
  <1>4. \A S \in SUBSET I : S # {} => \E i \in S : Behind(tree.nodes[i]) \cap S = {}
    BY DEF TreeOK
  <1> HIDE DEF n, p, I
  <1>5. \E d \in 0 .. n : p(d) \notin I
    <2>1. SUFFICES ASSUME \A d \in 0 .. n : p(d) \in I PROVE FALSE
      OBVIOUS
    <2> DEFINE f == [d \in 0 .. n |-> p(d)]
    <2>2. f \in [0 .. n -> 1 .. n]
      <3>1. \A d \in 0 .. n : d \in Nat
        BY <1>1
      <3>2. \A d \in 0 .. n : p(d) \in 1 .. n
        BY <1>2, <3>1
      <3>3. QED
        BY <3>2
    <2>3. /\ IsFiniteSet(0 .. n) /\ IsFiniteSet(1 .. n)
          /\ Cardinality(1 .. n) < Cardinality(0 .. n)
      <3>1. n \in Nat /\ n \in Int /\ 0 \in Int /\ 1 \in Int /\ ~(0 > n) /\ ~(1 > n)
        BY <1>1
      <3>2. IsFiniteSet(0 .. n) /\ Cardinality(0 .. n) = n - 0 + 1
        BY <3>1, FS_Interval
      <3>3. IsFiniteSet(1 .. n) /\ Cardinality(1 .. n) = n - 1 + 1
        BY <3>1, FS_Interval
      <3>4. QED
        BY <3>1, <3>2, <3>3
    <2> HIDE DEF f
    <2>4. PICK x \in 0 .. n, y \in 0 .. n : x # y /\ f[x] = f[y]
      BY <2>2, <2>3, FS_PigeonHole
    <2>5. PICK a \in 0 .. n, b \in 0 .. n : a < b /\ p(a) = p(b)
      BY <1>1, <2>4 DEF f
    <2> DEFINE S == {p(d) : d \in a .. b - 1}
    <2>6. S \in SUBSET I /\ S # {}
      <3>1. \A d \in a .. b - 1 : d \in 0 .. n
        BY <1>1
      <3>2. a \in a .. b - 1
        BY <1>1, <2>5
      <3>3. QED
        BY <2>1, <3>1, <3>2
    <2>7. PICK i \in S : Behind(tree.nodes[i]) \cap S = {}
      <3> HIDE DEF S
      <3>1. QED
        BY <1>4, <2>6
    <2>8. PICK d \in a .. b - 1 : i = p(d)
      BY <2>7
    <2>9. d \in Nat /\ d \in 0 .. n
      BY <1>1
    <2>10. p(d + 1) = step[i] /\ i \in I
      BY <1>2, <2>1, <2>8, <2>9
    <2>11. p(d + 1) \in S
      <3>1. CASE d + 1 = b
        <4>1. a \in a .. b - 1
          BY <1>1, <2>5
        <4>2. QED
          BY <2>5, <3>1, <4>1
      <3>2. CASE d + 1 # b
        <4>1. d + 1 \in a .. b - 1
          BY <1>1, <3>2
        <4>2. QED
          BY <4>1
      <3>3. QED
        BY <3>1, <3>2
    <2> HIDE DEF S
    <2>12. QED
      BY <1>3, <2>7, <2>10, <2>11
  <1> DEFINE D == {d \in 0 .. n : p(d) \notin I}
  <1>6. PICK e \in D : \A d \in D : e <= d
    <2>1. D \subseteq Nat /\ D # {}
      BY <1>1, <1>5
    <2> HIDE DEF D
    <2>2. QED
      BY <2>1, LeastOf
  <1>7. e \in 0 .. n /\ e \in Nat /\ p(e) \notin I
    BY <1>1, <1>6
  <1>8. \A d \in 0 .. e - 1 : p(d) \in I
    <2>1. TAKE d \in 0 .. e - 1
    <2>2. d \in 0 .. n /\ ~(e <= d)
      BY <1>1, <1>7
    <2>3. QED
      BY <1>6, <2>2
  <1>9. \A d \in Nat : d >= e => p(d) = p(e)
    <2> DEFINE T == {k \in Nat : p(e + k) = p(e)}
    <2>1. 0 \in T
      BY <1>7
    <2>2. ASSUME NEW k \in Nat, k \in T PROVE k + 1 \in T
      <3>1. e + k \in Nat /\ (e + k) + 1 = e + (k + 1)
        BY <1>7
      <3>2. p(e + k) = p(e)
        BY <2>2
      <3>3. p((e + k) + 1) = p(e)
        BY <1>2, <1>7, <3>1, <3>2
      <3>4. QED
        BY <3>1, <3>3
    <2>3. Nat \subseteq T
      <3> HIDE DEF T
      <3>1. QED
        BY <2>1, <2>2, NatSetInduction
    <2>4. TAKE d \in Nat
    <2>5. HAVE d >= e
    <2>6. d - e \in Nat /\ e + (d - e) = d
      BY <1>7, <2>5
    <2>7. d - e \in T
      BY <2>3, <2>6
    <2>8. QED
      BY <2>6, <2>7
  <1>10. p(e) \in DOMAIN tree.nodes \ I
    BY <1>1, <1>2, <1>7
  <1>11. EndsAfter(tree, step, e)
    BY <1>7, <1>8, <1>9, <1>10 DEF EndsAfter, n, p, I
  <1>12. QED
    BY <1>7, <1>11 DEF n

-----------------------------------------------------------------------------
(***************************************************************************)
(* Where a row is meant to go                                              *)
(***************************************************************************)

LEMMA GoesOnce ==
  ASSUME NEW tree, NEW row, NEW i, NEW j, NEW k,
         GoesTo(tree, row, i, j), GoesTo(tree, row, i, k)
  PROVE  j = k
  BY DEF GoesTo

LEMMA GoesBehind ==
  ASSUME NEW tree, NEW w, TreeOK(tree, w), NEW row, NEW i \in Internal(tree), NEW j,
         GoesTo(tree, row, i, j)
  PROVE  j \in Behind(tree.nodes[i])
  <1>1. tree.nodes[i].left # 0 /\ tree.nodes[i].right # 0
    BY DEF TreeOK
  <1>2. QED
    BY <1>1 DEF GoesTo, Behind

\* A walk that goes where the row is meant to go ends at the leaf it is meant for.
Follows(tree, row, step) == \A i \in Internal(tree) : GoesTo(tree, row, i, step[i])

LEMMA FollowingDescends ==
  ASSUME NEW tree, NEW w, TreeOK(tree, w), NEW row, NEW step, Follows(tree, row, step)
  PROVE  Descends(tree, step)
  BY GoesBehind DEF Follows, Descends

LEMMA EndIsMeant ==
  ASSUME NEW tree, NEW w, TreeOK(tree, w), NEW row, NEW step, Follows(tree, row, step),
         NEW e, EndsAfter(tree, step, e)
  PROVE  At(tree, step, e) = MeantLeaf(tree, row)
  <1> DEFINE p(d) == At(tree, step, d)
             I == Internal(tree)
             Among(S, j) == /\ 1 \in S \cup {j}
                            /\ \A i \in S : \E k \in S \cup {j} : GoesTo(tree, row, i, k)
             Meant(j) == \E S \in SUBSET I : Among(S, j)
  <1>1. MeantLeaf(tree, row) = CHOOSE j \in DOMAIN tree.nodes \ I : Meant(j)
    BY Zenon DEF MeantLeaf
  <1>2. Descends(tree, step)
    BY FollowingDescends
  <1>3. /\ p(0) = 1
        /\ \A d \in Nat : p(d) \in I => p(d + 1) = step[p(d)]
    BY <1>2, Walking
  <1>4. \A i \in I : GoesTo(tree, row, i, step[i])
    BY DEF Follows
  <1>5. /\ e \in Nat /\ p(e) \in DOMAIN tree.nodes \ I
        /\ \A d \in 0 .. e - 1 : p(d) \in I
    <2>1. Len(tree.nodes) \in Nat
      BY TreeShape
    <2>2. QED
      BY <2>1 DEF EndsAfter
  <1> HIDE DEF p, I, Among
  <1>6. Meant(p(e))
    <2> DEFINE S == {p(d) : d \in 0 .. e - 1}
    <2>1. S \in SUBSET I
      BY <1>5
    <2>2. 1 \in S \cup {p(e)}
      <3>1. e = 0 \/ 0 \in 0 .. e - 1
        BY <1>5
      <3>2. QED
        BY <1>3, <3>1
    <2>3. ASSUME NEW i \in S PROVE \E k \in S \cup {p(e)} : GoesTo(tree, row, i, k)
      <3>1. PICK d \in 0 .. e - 1 : i = p(d)
        OBVIOUS
      <3>2. d \in Nat /\ (d + 1 = e \/ d + 1 \in 0 .. e - 1)
        BY <1>5
      <3>3. p(d + 1) = step[i] /\ GoesTo(tree, row, i, step[i])
        BY <1>3, <1>4, <1>5, <3>1, <3>2
      <3>4. p(d + 1) \in S \cup {p(e)}
        BY <3>2
      <3>5. QED
        BY <3>3, <3>4
    <2> HIDE DEF S
    <2>4. Among(S, p(e))
      BY <2>2, <2>3 DEF Among
    <2>5. QED
      BY <2>1, <2>4
  <1>7. ASSUME NEW j \in DOMAIN tree.nodes \ I, Meant(j) PROVE j = p(e)
    <2>1. PICK S \in SUBSET I : Among(S, j)
      BY <1>7
    <2> DEFINE T == {d \in 0 .. e : p(d) \in S \cup {j}}
    <2>2. 0 \in T
      BY <1>3, <1>5, <2>1 DEF Among
    <2>3. ASSUME NEW d \in 1 .. e, d - 1 \in T PROVE d \in T
      <3>1. d - 1 \in 0 .. e - 1 /\ d - 1 \in Nat /\ (d - 1) + 1 = d /\ d \in 0 .. e
        BY <1>5
      <3>2. p(d - 1) \in I
        BY <1>5, <3>1
      <3>3. p(d - 1) \in S
        BY <2>3, <3>2
      <3>4. p(d) = step[p(d - 1)]
        BY <1>3, <3>1, <3>2
      <3>5. PICK k \in S \cup {j} : GoesTo(tree, row, p(d - 1), k)
        BY <2>1, <3>3 DEF Among
      <3>6. GoesTo(tree, row, p(d - 1), step[p(d - 1)])
        BY <1>4, <3>2
      <3>7. k = p(d)
        BY <3>4, <3>5, <3>6, GoesOnce
      <3>8. QED
        BY <3>1, <3>7
    <2>4. 0 .. e \subseteq T
      <3> HIDE DEF T
      <3>1. QED
        BY <1>5, <2>2, <2>3, LoopInvariant
    <2>5. e \in 0 .. e
      BY <1>5
    <2>6. p(e) \in S \cup {j}
      BY <2>4, <2>5
    <2>7. QED
      BY <1>5, <2>6
  <1> HIDE DEF Meant
  <1>8. (CHOOSE j \in DOMAIN tree.nodes \ I : Meant(j)) = p(e)
    BY <1>5, <1>6, <1>7
  <1>9. QED
    BY <1>1, <1>8 DEF p

LEMMA WalkIsMeant ==
  ASSUME NEW tree, NEW w, TreeOK(tree, w), NEW row, NEW step, Follows(tree, row, step)
  PROVE  Walk(tree, step) = MeantLeaf(tree, row)
  <1>1. Descends(tree, step)
    BY FollowingDescends
  <1>2. PICK e \in 0 .. Len(tree.nodes) : EndsAfter(tree, step, e)
    BY <1>1, WalkEnds
  <1>3. Len(tree.nodes) \in Nat /\ Len(tree.nodes) >= e
    BY TreeShape
  <1>4. At(tree, step, Len(tree.nodes)) = At(tree, step, e)
    BY <1>2, <1>3 DEF EndsAfter
  <1>5. At(tree, step, e) = MeantLeaf(tree, row)
    BY <1>2, EndIsMeant
  <1>6. Walk(tree, step) = At(tree, step, Len(tree.nodes))
    BY Zenon DEF Walk, At, Steps
  <1>7. QED
    BY <1>4, <1>5, <1>6

-----------------------------------------------------------------------------
(***************************************************************************)
(* Depths                                                                  *)
(***************************************************************************)

\* A walk that takes one of a split's children ends at the depth of a leaf.
ToChildren(tree, step) ==
  \A i \in Internal(tree) : step[i] \in {tree.nodes[i].left, tree.nodes[i].right}

LEMMA EndIsDepth ==
  ASSUME NEW tree, NEW w, TreeOK(tree, w), NEW step, Descends(tree, step),
         ToChildren(tree, step), NEW e, EndsAfter(tree, step, e)
  PROVE  e \in LeafDepths(tree)
  <1> DEFINE N == DOMAIN tree.nodes
             I == Internal(tree)
             M == SUBSET N
             kids(S) == UNION {{tree.nodes[i].left, tree.nodes[i].right} : i \in S \cap I}
             below == [S \in M |-> kids(S)]
             level(d) == Path({1}, below, d)
             p(d) == At(tree, step, d)
  <1>1. 1 \in N /\ I \subseteq N /\ Len(tree.nodes) \in Nat
        /\ \A i \in I : tree.nodes[i].left \in N /\ tree.nodes[i].right \in N
    <2>1. 1 \in N /\ I \subseteq N /\ Len(tree.nodes) \in Nat
      BY TreeShape
    <2>2. \A i \in I : Behind(tree.nodes[i]) \subseteq N /\ tree.nodes[i].left # 0 /\ tree.nodes[i].right # 0
      BY DEF TreeOK
    <2>3. QED
      BY <2>1, <2>2 DEF Behind
  <1>2. \A d : Level(tree, d) = level(d)
    BY Zenon DEF Level
  <1>3. Closed(M, below)
    BY <1>1 DEF Closed
  <1>4. {1} \in M
    BY <1>1
  <1>5. \A S \in M : below[S] = kids(S)
    OBVIOUS
  <1> HIDE DEF below, N, I, M
  <1>6. /\ level(0) = {1}
        /\ \A d \in Nat : level(d) \in M /\ level(d + 1) = below[level(d)]
    BY <1>3, <1>4, PathSteps
  <1>7. /\ p(0) = 1
        /\ \A d \in Nat : p(d) \in I => p(d + 1) = step[p(d)]
    BY Walking DEF I
  <1>8. /\ e \in 0 .. Len(tree.nodes) /\ e \in Nat /\ p(e) \notin I
        /\ \A d \in 0 .. e - 1 : p(d) \in I
    BY <1>1 DEF EndsAfter, I
  <1> HIDE DEF level, p
  <1> DEFINE T == {d \in 0 .. e : p(d) \in level(d)}
  <1>9. 0 \in T
    BY <1>6, <1>7, <1>8
  <1>10. ASSUME NEW d \in 1 .. e, d - 1 \in T PROVE d \in T
    <2>1. d - 1 \in 0 .. e - 1 /\ d - 1 \in Nat /\ (d - 1) + 1 = d /\ d \in 0 .. e
      BY <1>8
    <2>2. p(d - 1) \in I /\ p(d - 1) \in level(d - 1) /\ p(d) = step[p(d - 1)]
      BY <1>7, <1>8, <1>10, <2>1
    <2>3. p(d) \in {tree.nodes[p(d - 1)].left, tree.nodes[p(d - 1)].right}
      BY <2>2 DEF ToChildren, I
    <2>4. p(d) \in kids(level(d - 1))
      BY <2>2, <2>3
    <2>5. level(d) = kids(level(d - 1))
      <3> HIDE DEF kids
      <3>1. QED
        BY <1>5, <1>6, <2>1
    <2>6. QED
      BY <2>1, <2>4, <2>5
  <1>11. 0 .. e \subseteq T
    <2> HIDE DEF T
    <2>1. QED
      BY <1>8, <1>9, <1>10, LoopInvariant
  <1>12. e \in 0 .. e
    BY <1>8
  <1>13. p(e) \in level(e)
    BY <1>11, <1>12
  <1>14. QED
    BY <1>2, <1>8, <1>13 DEF LeafDepths, I

LEMMA DeepestLeaf ==
  ASSUME NEW tree, NEW w, TreeOK(tree, w), NEW e \in LeafDepths(tree)
  PROVE  MaxDepth(tree) \in LeafDepths(tree) /\ MaxDepth(tree) \in Nat /\ e <= MaxDepth(tree)
  <1> DEFINE D == LeafDepths(tree)
  <1>1. Len(tree.nodes) \in Nat
    BY TreeShape
  <1>2. D \subseteq Nat /\ D # {} /\ \A d \in D : d <= Len(tree.nodes)
    BY <1>1 DEF LeafDepths
  <1>3. MaxDepth(tree) = CHOOSE x \in D : \A y \in D : x >= y
    BY Zenon DEF MaxDepth, Max
  <1>4. e \in D
    OBVIOUS
  <1> HIDE DEF D
  <1>5. \E x \in D : \A y \in D : x >= y
    BY <1>1, <1>2, GreatestOf
  <1>6. MaxDepth(tree) \in D /\ \A y \in D : MaxDepth(tree) >= y
    BY <1>3, <1>5
  <1>7. e \in Nat /\ MaxDepth(tree) \in Nat /\ MaxDepth(tree) >= e
    BY <1>2, <1>4, <1>6
  <1>8. QED
    BY <1>6, <1>7 DEF D

-----------------------------------------------------------------------------
(***************************************************************************)
(* Walks that look for no missing value                                    *)
(***************************************************************************)

PlainSteps(tree, row, op) == [i \in Internal(tree) |-> PlainStep(tree, row, op, i)]

LEMMA PlainDescends ==
  ASSUME NEW tree, NEW w, TreeOK(tree, w), NEW row, NEW op
  PROVE  /\ ToChildren(tree, PlainSteps(tree, row, op))
         /\ Descends(tree, PlainSteps(tree, row, op))
  <1> DEFINE s == PlainSteps(tree, row, op)
  <1>1. ASSUME NEW i \in Internal(tree)
        PROVE  s[i] \in {tree.nodes[i].left, tree.nodes[i].right}
    BY DEF PlainSteps, PlainStep, Child
  <1>2. \A i \in Internal(tree) : tree.nodes[i].left # 0 /\ tree.nodes[i].right # 0
    BY DEF TreeOK
  <1> HIDE DEF s
  <1>3. QED
    BY <1>1, <1>2 DEF ToChildren, Descends, Behind, s

\* A tree has more nodes than it is deep.
LEMMA DepthIsBounded ==
  ASSUME NEW tree, NEW w, TreeOK(tree, w)
  PROVE  MaxDepth(tree) \in Nat /\ MaxDepth(tree) <= Len(tree.nodes)
  <1> DEFINE s == PlainSteps(tree, << >>, "own")
  <1>1. Descends(tree, s) /\ ToChildren(tree, s)
    BY PlainDescends
  <1> HIDE DEF s
  <1>2. PICK e \in 0 .. Len(tree.nodes) : EndsAfter(tree, s, e)
    BY <1>1, WalkEnds
  <1>3. e \in LeafDepths(tree)
    BY <1>1, <1>2, EndIsDepth
  <1>4. MaxDepth(tree) \in LeafDepths(tree) /\ MaxDepth(tree) \in Nat
    BY <1>3, DeepestLeaf
  <1>5. Len(tree.nodes) \in Nat
    BY TreeShape
  <1>6. QED
    BY <1>4, <1>5 DEF LeafDepths

\* As many steps as the tree is deep, where all leaves are as deep, are the walk.
LEMMA FixedIsPlain ==
  ASSUME NEW tree, NEW w, TreeOK(tree, w), NEW row, NEW op, UniformDepth(tree) # 0
  PROVE  FixedLeaf(tree, row, op, UniformDepth(tree)) = PlainLeaf(tree, row, op)
  <1> DEFINE s == PlainSteps(tree, row, op)
             N == DOMAIN tree.nodes
             I == Internal(tree)
             M == 0 .. Len(tree.nodes)
             fix == [i \in M |-> IF i \in I THEN PlainStep(tree, row, op, i) ELSE 0]
             p(d) == At(tree, s, d)
             q(d) == Path(1, fix, d)
  <1>1. Descends(tree, s) /\ ToChildren(tree, s)
    BY PlainDescends
  <1>2. PICK e \in 0 .. Len(tree.nodes) : EndsAfter(tree, s, e)
    <2> HIDE DEF s
    <2>1. QED
      BY <1>1, WalkEnds
  <1>3. e \in LeafDepths(tree)
    <2> HIDE DEF s
    <2>1. QED
      BY <1>1, <1>2, EndIsDepth
  <1>4. e = UniformDepth(tree)
    BY <1>3 DEF UniformDepth
  <1>5. FixedLeaf(tree, row, op, e) = q(e)
    BY Zenon DEF FixedLeaf
  <1>6. PlainLeaf(tree, row, op) = p(Len(tree.nodes))
    BY Zenon DEF PlainLeaf, PlainSteps, At, Walk, Steps
  <1>7. /\ Len(tree.nodes) \in Nat /\ N = 1 .. Len(tree.nodes) /\ 1 \in N /\ I \subseteq N
        /\ \A i \in I : Behind(tree.nodes[i]) \subseteq N
    BY TreeShape
  <1>8. \A i \in M : fix[i] = IF i \in I THEN s[i] ELSE 0
    BY DEF PlainSteps
  <1> HIDE DEF s, N, I, fix
  <1>9. /\ p(0) = 1
        /\ \A d \in Nat : p(d) \in N /\ (p(d) \in I => p(d + 1) = s[p(d)])
    BY <1>1, Walking DEF N, I
  <1>10. /\ e \in Nat /\ \A d \in 0 .. e - 1 : p(d) \in I
         /\ p(Len(tree.nodes)) = p(e)
    BY <1>2, <1>7 DEF EndsAfter, I
  <1>11. Closed(M, fix) /\ 1 \in M
    <2>1. \A i \in I : s[i] \in N
      BY <1>1, <1>7 DEF Descends, I
    <2>2. N \subseteq M /\ 0 \in M
      BY <1>7
    <2>3. QED
      BY <1>7, <1>8, <2>1, <2>2 DEF Closed
  <1> HIDE DEF M
  <1>12. /\ q(0) = 1
         /\ \A d \in Nat : q(d) \in M /\ q(d + 1) = fix[q(d)]
    BY <1>11, PathSteps
  <1> HIDE DEF p, q
  <1> DEFINE T == {d \in 0 .. e : q(d) = p(d)}
  <1>13. 0 \in T
    BY <1>9, <1>10, <1>12
  <1>14. ASSUME NEW d \in 1 .. e, d - 1 \in T PROVE d \in T
    <2>1. d - 1 \in 0 .. e - 1 /\ d - 1 \in Nat /\ (d - 1) + 1 = d /\ d \in 0 .. e
      BY <1>10
    <2>2. p(d - 1) \in I /\ p(d) = s[p(d - 1)] /\ q(d - 1) = p(d - 1)
      BY <1>9, <1>10, <1>14, <2>1
    <2>3. q(d - 1) \in M /\ q(d) = fix[q(d - 1)]
      BY <1>12, <2>1
    <2>4. q(d) = p(d)
      BY <1>8, <2>2, <2>3
    <2>5. QED
      BY <2>1, <2>4
  <1>15. 0 .. e \subseteq T
    <2> HIDE DEF T
    <2>1. QED
      BY <1>10, <1>13, <1>14, LoopInvariant
  <1>16. e \in 0 .. e
    BY <1>10
  <1>17. q(e) = p(e)
    BY <1>15, <1>16
  <1>18. QED
    BY <1>4, <1>5, <1>6, <1>10, <1>17

-----------------------------------------------------------------------------
(***************************************************************************)
(* The flat forest                                                         *)
(***************************************************************************)

TreesOK(m, w) ==
  /\ DOMAIN m.trees = 1 .. Len(m.trees) /\ Len(m.trees) \in Nat
  /\ \A t \in DOMAIN m.trees : TreeOK(m.trees[t], w)

\* The trees lie one behind the other.
LEMMA Roots ==
  ASSUME NEW m, NEW w, TreesOK(m, w)
  PROVE  LET n == Len(m.trees)
         IN  /\ Root(m, 1) = 1
             /\ \A t \in 1 .. n : Root(m, t + 1) = Root(m, t) + Len(m.trees[t].nodes)
             /\ \A t \in 1 .. n + 1 : Root(m, t) \in Nat
             /\ \A s, t \in 1 .. n + 1 : s <= t => Root(m, s) <= Root(m, t)
  <1> DEFINE n == Len(m.trees)
             len == [s \in DOMAIN m.trees |-> Len(m.trees[s].nodes)]
             D == DOMAIN m.trees
             sum(k) == SumOver(k, D, len)
             R(t) == Root(m, t)
  <1>1. n \in Nat /\ D = 1 .. n /\ \A t \in D : TreeOK(m.trees[t], w)
    BY DEF TreesOK
  <1>2. \A t \in 1 .. n : len[t] \in Nat /\ len[t] = Len(m.trees[t].nodes)
    BY <1>1, TreeShape
  <1>3. Whole(len, n, D)
    BY <1>2 DEF Whole
  <1>4. \A t : R(t) = 1 + sum(t - 1)
    BY Zenon DEF Root
  <1> HIDE DEF len, D, n
  <1>5. /\ sum(0) = 0 /\ \A k \in 0 .. n : sum(k) \in Int
        /\ \A k \in 1 .. n : sum(k) = sum(k - 1) + (IF k \in D THEN len[k] ELSE 0)
    <2>1. n \in Nat
      BY <1>1
    <2>2. QED
      BY <1>3, <2>1, SumSteps
  <1> HIDE DEF sum, R
  <1>6. R(1) = 1
    <2>1. 1 - 1 = 0
      OBVIOUS
    <2>2. QED
      BY <1>4, <1>5, <2>1
  <1>7. \A t \in 1 .. n + 1 : R(t) \in Int
    BY <1>1, <1>4, <1>5
  <1>8. ASSUME NEW t \in 1 .. n PROVE R(t + 1) = R(t) + len[t]
    <2>1. (t + 1) - 1 = t /\ t - 1 \in 0 .. n /\ t \in D
      BY <1>1
    <2>2. sum(t) = sum(t - 1) + len[t] /\ sum(t - 1) \in Int
      BY <1>5, <2>1
    <2>3. R(t + 1) = 1 + sum(t) /\ R(t) = 1 + sum(t - 1)
      BY <1>4, <2>1
    <2>4. QED
      BY <1>2, <2>2, <2>3
  <1>9. ASSUME NEW s \in 1 .. n + 1, NEW t \in 1 .. n + 1, s <= t PROVE R(s) <= R(t)
    <2> DEFINE k == t - s
               T == {x \in 0 .. k : R(s) <= R(s + x)}
    <2>1. k \in Nat /\ s + k = t /\ s + 0 = s
      BY <1>1, <1>9
    <2>2. 0 \in T
      BY <1>7, <2>1
    <2>3. ASSUME NEW x \in 1 .. k, x - 1 \in T PROVE x \in T
      <3>1. s + (x - 1) \in 1 .. n /\ (s + (x - 1)) + 1 = s + x /\ x \in 0 .. k
            /\ s + (x - 1) \in 1 .. n + 1
        BY <1>1, <2>1
      <3>2. R(s + x) = R(s + (x - 1)) + len[s + (x - 1)]
        BY <1>8, <3>1
      <3>3. R(s) <= R(s + (x - 1)) /\ R(s) \in Int /\ R(s + (x - 1)) \in Int
        BY <1>7, <2>3, <3>1
      <3>4. len[s + (x - 1)] \in Nat
        BY <1>2, <3>1
      <3>5. R(s) <= R(s + x)
        BY <3>2, <3>3, <3>4
      <3>6. QED
        BY <3>1, <3>5
    <2>4. 0 .. k \subseteq T
      <3> HIDE DEF T, k
      <3>1. QED
        BY <2>1, <2>2, <2>3, LoopInvariant
    <2>5. k \in 0 .. k
      BY <2>1
    <2>6. QED
      BY <2>1, <2>4, <2>5
  <1>10. ASSUME NEW t \in 1 .. n + 1 PROVE R(t) \in Nat
    <2>1. 1 \in 1 .. n + 1 /\ 1 <= t
      BY <1>1
    <2>2. R(1) <= R(t)
      BY <1>9, <2>1
    <2>3. QED
      BY <1>6, <1>7, <2>2
  <1>11. QED
    BY <1>2, <1>6, <1>8, <1>9, <1>10 DEF R, n

\* Node i of tree t in the forest.
LEMMA ForestNodeIs ==
  ASSUME NEW m, NEW w, TreesOK(m, w), NEW t \in DOMAIN m.trees,
         NEW i \in DOMAIN m.trees[t].nodes
  PROVE  LET off  == Root(m, t) - 1
             node == m.trees[t].nodes[i]
             f    == ForestNodes(m)[off + i]
         IN  /\ off \in Nat /\ off + i \in DOMAIN ForestNodes(m)
             /\ f.feature = node.feature /\ f.threshold = node.threshold /\ f.leaf = node.leaf
             /\ f.left = IF IsLeaf(node) THEN off + i ELSE off + node.left
             /\ f.right = IF IsLeaf(node) THEN off + i ELSE off + node.right
  <1> DEFINE R(u) == Root(m, u)
             n == Len(m.trees)
             off == R(t) - 1
             k == off + i
             node == m.trees[t].nodes[i]
             Has(u) == R(u) <= k /\ k < R(u + 1)
  <1>1. n \in Nat /\ DOMAIN m.trees = 1 .. n /\ TreeOK(m.trees[t], w)
    BY DEF TreesOK
  <1>2. /\ i \in 1 .. Len(m.trees[t].nodes) /\ Len(m.trees[t].nodes) \in Nat
        /\ node \in Nodes
    BY <1>1, TreeShape
  <1>3. /\ R(1) = 1
        /\ \A u \in 1 .. n : R(u + 1) = R(u) + Len(m.trees[u].nodes)
        /\ \A u \in 1 .. n + 1 : R(u) \in Nat
        /\ \A u, v \in 1 .. n + 1 : u <= v => R(u) <= R(v)
    BY Roots
  <1>4. ForestNodes(m)
          = [q \in 1 .. R(n + 1) - 1 |->
               LET u    == CHOOSE u \in DOMAIN m.trees : R(u) <= q /\ q < R(u + 1)
                   base == R(u) - 1
                   it   == m.trees[u].nodes[q - base]
               IN  [it EXCEPT !.left  = IF IsLeaf(it) THEN q ELSE base + @,
                              !.right = IF IsLeaf(it) THEN q ELSE base + @]]
    BY Zenon DEF ForestNodes
  <1> HIDE DEF R, n
  <1>5. /\ t \in 1 .. n /\ t \in 1 .. n + 1 /\ t + 1 \in 1 .. n + 1 /\ n + 1 \in 1 .. n + 1
        /\ 1 \in 1 .. n + 1 /\ 1 <= t /\ t + 1 <= n + 1
    BY <1>1
  <1>6. R(t) \in Nat /\ R(t) >= 1 /\ R(t + 1) = R(t) + Len(m.trees[t].nodes)
        /\ R(t + 1) <= R(n + 1) /\ R(n + 1) \in Nat
    BY <1>3, <1>5
  <1>7. off \in Nat /\ k \in 1 .. R(n + 1) - 1 /\ Has(t) /\ k - off = i
    <2> DEFINE r == R(t)
               l == Len(m.trees[t].nodes)
    <2>1. r \in Nat /\ r >= 1 /\ l \in Nat /\ i \in 1 .. l /\ r + l <= R(n + 1) /\ R(n + 1) \in Nat
          /\ R(t + 1) = r + l
      BY <1>2, <1>6
    <2> HIDE DEF l
    <2>2. QED
      BY <2>1
  <1>8. ASSUME NEW u \in 1 .. n, Has(u) PROVE u = t
    <2>1. u \in 1 .. n + 1 /\ u + 1 \in 1 .. n + 1 /\ u \in Nat /\ t \in Nat
      BY <1>1
    <2>2. R(u) \in Nat /\ R(u + 1) \in Nat /\ R(t + 1) \in Nat
      BY <1>3, <1>5, <2>1
    <2>3. ~(u < t)
      <3>1. u < t => R(u + 1) <= R(t)
        BY <1>3, <1>5, <2>1
      <3>2. QED
        BY <1>7, <1>8, <3>1, <1>6, <2>2
    <2>4. ~(t < u)
      <3>1. t < u => R(t + 1) <= R(u)
        BY <1>3, <1>5, <2>1
      <3>2. QED
        BY <1>7, <1>8, <3>1, <1>6, <2>2
    <2>5. QED
      BY <2>1, <2>3, <2>4
  <1> HIDE DEF k
  <1>9. (CHOOSE u \in DOMAIN m.trees : R(u) <= k /\ k < R(u + 1)) = t
    BY <1>1, <1>7, <1>8
  <1>10. ForestNodes(m)[k] = [node EXCEPT !.left  = IF IsLeaf(node) THEN k ELSE off + @,
                                          !.right = IF IsLeaf(node) THEN k ELSE off + @]
    BY <1>4, <1>7, <1>9
  <1>11. k \in DOMAIN ForestNodes(m)
    BY <1>4, <1>7
  <1> HIDE DEF off, node
  <1>12. /\ ForestNodes(m)[k].feature = node.feature
         /\ ForestNodes(m)[k].threshold = node.threshold /\ ForestNodes(m)[k].leaf = node.leaf
         /\ ForestNodes(m)[k].left = IF IsLeaf(node) THEN k ELSE off + node.left
         /\ ForestNodes(m)[k].right = IF IsLeaf(node) THEN k ELSE off + node.right
    BY <1>2, <1>10 DEF Nodes
  <1>13. QED
    BY <1>7, <1>11, <1>12 DEF off, node, k, R

\* The depth of the forest is that of its deepest tree.
LEMMA DepthOfForest ==
  ASSUME NEW m, NEW w, TreesOK(m, w), NEW t \in DOMAIN m.trees
  PROVE  ForestDepth(m) \in Nat /\ MaxDepth(m.trees[t]) <= ForestDepth(m)
  <1> DEFINE D == {0} \cup {MaxDepth(m.trees[u]) : u \in DOMAIN m.trees}
             n == Len(m.trees)
             b == Root(m, n + 1)
  <1>1. n \in Nat /\ DOMAIN m.trees = 1 .. n /\ \A u \in 1 .. n : TreeOK(m.trees[u], w)
    BY DEF TreesOK
  <1>2. b \in Nat
    <2>1. n + 1 \in 1 .. n + 1
      BY <1>1
    <2>2. QED
      BY <2>1, Roots
  <1>3. ASSUME NEW u \in 1 .. n
        PROVE  MaxDepth(m.trees[u]) \in Nat /\ MaxDepth(m.trees[u]) <= b
    <2> DEFINE tree == m.trees[u]
    <2>1. TreeOK(tree, w)
      BY <1>1
    <2> HIDE DEF tree
    <2>2. MaxDepth(tree) \in Nat /\ MaxDepth(tree) <= Len(tree.nodes)
      BY <2>1, DepthIsBounded
    <2>6. Len(tree.nodes) \in Nat
      BY <2>1, TreeShape
    <2>8. u \in 1 .. n + 1 /\ u + 1 \in 1 .. n + 1 /\ n + 1 \in 1 .. n + 1 /\ u + 1 <= n + 1
      BY <1>1
    <2> HIDE DEF n
    <2>9. /\ Root(m, u + 1) = Root(m, u) + Len(tree.nodes) /\ Root(m, u) \in Nat
          /\ Root(m, u + 1) <= Root(m, n + 1)
      BY <2>8, Roots DEF n, tree
    <2>10. QED
      BY <1>2, <2>2, <2>6, <2>9 DEF tree
  <1>4. D \subseteq Nat /\ D # {} /\ \A x \in D : x <= b
    BY <1>1, <1>2, <1>3
  <1>5. ForestDepth(m) = CHOOSE x \in D : \A y \in D : x >= y
    BY Zenon DEF ForestDepth, Max
  <1>6. MaxDepth(m.trees[t]) \in D
    OBVIOUS
  <1> HIDE DEF D, b
  <1>7. \E x \in D : \A y \in D : x >= y
    BY <1>2, <1>4, GreatestOf
  <1>8. ForestDepth(m) \in D /\ ForestDepth(m) >= MaxDepth(m.trees[t])
    BY <1>5, <1>6, <1>7
  <1>9. QED
    BY <1>4, <1>6, <1>8

\* A walk through the forest of enough steps is the walk through the tree.
LEMMA ForestPath ==
  ASSUME NEW w, TreesOK(ensemble, w), forest.nodes = ForestNodes(ensemble), forest.op # "own",
         NEW t \in DOMAIN ensemble.trees, NEW row,
         NEW d \in Nat, d >= MaxDepth(ensemble.trees[t])
  PROVE  LET tree == ensemble.trees[t]
             j    == PlainLeaf(tree, row, forest.op)
         IN  /\ j \in DOMAIN tree.nodes
             /\ Path(Root(ensemble, t), ForestSteps(row), d) = Root(ensemble, t) - 1 + j
  <1> DEFINE tree == ensemble.trees[t]
             off == Root(ensemble, t) - 1
             s == PlainSteps(tree, row, forest.op)
             move == ForestSteps(row)
             N == DOMAIN tree.nodes
             I == Internal(tree)
             K == {off + i : i \in N}
             p(x) == At(tree, s, x)
             q(x) == Path(Root(ensemble, t), move, x)
  <1>1. TreeOK(tree, w)
    BY DEF TreesOK
  <1>2. /\ N = 1 .. Len(tree.nodes) /\ Len(tree.nodes) \in Nat /\ 1 \in N /\ I \subseteq N
        /\ \A i \in I : Behind(tree.nodes[i]) \subseteq N
        /\ \A i \in N : i \in I <=> ~IsLeaf(tree.nodes[i])
    BY <1>1, TreeShape
  <1>3. Descends(tree, s) /\ ToChildren(tree, s)
    BY <1>1, PlainDescends
  <1>4. off \in Nat
    BY <1>2, ForestNodeIs
  <1>5. ASSUME NEW i \in N
        PROVE  move[off + i] = off + (IF i \in I THEN s[i] ELSE i)
    <2> DEFINE node == tree.nodes[i]
               f == forest.nodes[off + i]
    <2>1. /\ off + i \in DOMAIN forest.nodes
          /\ f.feature = node.feature /\ f.threshold = node.threshold
          /\ f.left = IF IsLeaf(node) THEN off + i ELSE off + node.left
          /\ f.right = IF IsLeaf(node) THEN off + i ELSE off + node.right
      BY ForestNodeIs
    <2>2. move[off + i] = ForestStep(row, off + i)
      BY <2>1 DEF ForestSteps
    <2>3. CASE i \in I
      <3>1. ~IsLeaf(node) /\ ~IsLeaf(f)
        BY <1>2, <2>1, <2>3 DEF IsLeaf
      <3>2. s[i] = Child(node, Compares(row[node.feature], forest.op, node.threshold))
        BY <2>3 DEF PlainSteps, PlainStep
      <3>3. ForestStep(row, off + i)
              = Child(f, Compares(row[f.feature], forest.op, f.threshold))
        BY <3>1, Zenon DEF ForestStep
      <3> HIDE DEF node, f
      <3>4. Compares(row[f.feature], forest.op, f.threshold)
              = Compares(row[node.feature], forest.op, node.threshold)
        BY <2>1
      <3> DEFINE left == Compares(row[node.feature], forest.op, node.threshold)
      <3>5. Child(f, left) = off + Child(node, left)
        <4> HIDE DEF left
        <4>1. QED
          BY <2>1, <3>1 DEF Child
      <3>6. QED
        BY <2>2, <2>3, <3>2, <3>3, <3>4, <3>5, Zenon
    <2>4. CASE i \notin I
      <3>1. IsLeaf(node) /\ IsLeaf(f)
        BY <1>2, <2>1, <2>4 DEF IsLeaf
      <3>2. ForestStep(row, off + i) = off + i
        BY <3>1, Zenon DEF ForestStep
      <3>3. QED
        BY <2>2, <2>4, <3>2
    <2>5. QED
      BY <2>3, <2>4
  <1>6. \A i \in I : s[i] \in N
    BY <1>2, <1>3 DEF Descends
  <1>7. Closed(K, move)
    <2>1. ASSUME NEW i \in N PROVE move[off + i] \in K
      <3>1. (IF i \in I THEN s[i] ELSE i) \in N
        BY <1>6
      <3>2. QED
        BY <1>5, <3>1
    <2> HIDE DEF move, off, N
    <2>2. QED
      BY <2>1 DEF Closed
  <1>8. Root(ensemble, t) = off + 1 /\ Root(ensemble, t) \in K
    <2>1. Root(ensemble, t) \in Nat
      <3>1. t \in 1 .. Len(ensemble.trees) + 1
        BY DEF TreesOK
      <3>2. QED
        BY <3>1, Roots
    <2>2. Root(ensemble, t) = off + 1
      BY <2>1
    <2>3. QED
      BY <1>2, <2>2
  <1> HIDE DEF K, move
  <1>9. /\ q(0) = Root(ensemble, t)
        /\ \A x \in Nat : q(x + 1) = move[q(x)]
    BY <1>7, <1>8, PathSteps
  <1> HIDE DEF s
  <1>10. PICK e \in 0 .. Len(tree.nodes) : EndsAfter(tree, s, e)
    BY <1>1, <1>3, WalkEnds
  <1>11. /\ p(0) = 1
         /\ \A x \in Nat : /\ p(x) \in N
                           /\ p(x + 1) = IF p(x) \in I THEN s[p(x)] ELSE p(x)
    BY <1>1, <1>3, Walking
  <1> HIDE DEF p, q, N, I, off
  <1> DEFINE T == {x \in Nat : q(x) = off + p(x)}
  <1>12. 0 \in T
    BY <1>8, <1>9, <1>11
  <1>13. ASSUME NEW x \in Nat, x \in T PROVE x + 1 \in T
    <2>1. p(x) \in N
      BY <1>11
    <2>2. q(x + 1) = move[off + p(x)]
      BY <1>9, <1>13
    <2>3. move[off + p(x)] = off + (IF p(x) \in I THEN s[p(x)] ELSE p(x))
      BY <1>5, <2>1
    <2>4. p(x + 1) = IF p(x) \in I THEN s[p(x)] ELSE p(x)
      BY <1>11
    <2>5. q(x + 1) = off + p(x + 1)
      BY <2>2, <2>3, <2>4
    <2>6. QED
      BY <2>5
  <1>14. Nat \subseteq T
    <2> HIDE DEF T
    <2>1. QED
      BY <1>12, <1>13, NatSetInduction
  <1>15. q(d) = off + p(d)
    BY <1>14
  <1>16. e \in LeafDepths(tree)
    BY <1>1, <1>3, <1>10, EndIsDepth
  <1>17. e <= MaxDepth(tree) /\ MaxDepth(tree) \in Nat
    BY <1>1, <1>16, DeepestLeaf
  <1>18. e \in Nat /\ d >= e /\ Len(tree.nodes) >= e
    BY <1>2, <1>17
  <1>19. p(d) = p(e) /\ p(Len(tree.nodes)) = p(e) /\ p(e) \in N
    BY <1>2, <1>10, <1>11, <1>18 DEF EndsAfter, p
  <1>20. PlainLeaf(tree, row, forest.op) = p(Len(tree.nodes))
    BY Zenon DEF PlainLeaf, PlainSteps, At, Walk, Steps, p, s
  <1>21. QED
    BY <1>15, <1>19, <1>20 DEF q, N, off, move

\* Both walks through the forest come to the values of the walk through the tree.
LEMMA ForestIsPlain ==
  ASSUME NEW w, TreesOK(ensemble, w), forest = BuildForest(ensemble), forest.valid,
         NEW t \in DOMAIN ensemble.trees, NEW row
  PROVE  LET tree == ensemble.trees[t]
             leaf == LeafAt(tree.nodes, PlainLeaf(tree, row, ForestOp(ensemble)))
         IN  /\ LeafAt(forest.nodes, ForestLeaf(t, row)) = leaf
             /\ LeafAt(forest.nodes, ForestWalk(t, row)) = leaf
  <1> DEFINE tree == ensemble.trees[t]
             j == PlainLeaf(tree, row, forest.op)
             off == Root(ensemble, t) - 1
             k == off + j
  <1>1. /\ forest.nodes = ForestNodes(ensemble) /\ forest.op = ForestOp(ensemble)
        /\ forest.depth = ForestDepth(ensemble)
    BY DEF BuildForest
  <1>2. forest.op # "own"
    BY <1>1 DEF ForestOp
  <1>3. forest.depth \in Nat /\ forest.depth >= MaxDepth(tree)
    <2>1. ForestDepth(ensemble) \in Nat /\ MaxDepth(tree) <= ForestDepth(ensemble)
      BY DepthOfForest
    <2>2. MaxDepth(tree) \in Nat
      <3>1. TreeOK(tree, w)
        BY DEF TreesOK
      <3>2. QED
        BY <3>1, DepthIsBounded
    <2>3. QED
      BY <1>1, <2>1, <2>2
  <1>4. Len(forest.nodes) \in Nat /\ Len(forest.nodes) >= MaxDepth(tree)
    <2> DEFINE R(u) == Root(ensemble, u)
               n == Len(ensemble.trees)
    <2>1. n \in Nat /\ t \in 1 .. n /\ TreeOK(tree, w)
      BY DEF TreesOK
    <2>2. MaxDepth(tree) \in Nat /\ MaxDepth(tree) <= Len(tree.nodes) /\ Len(tree.nodes) \in Nat
      BY <2>1, DepthIsBounded, TreeShape
    <2>3. /\ t \in 1 .. n + 1 /\ t + 1 \in 1 .. n + 1 /\ n + 1 \in 1 .. n + 1 /\ t + 1 <= n + 1
          /\ 1 \in 1 .. n + 1 /\ 1 <= t
      BY <2>1
    <2> HIDE DEF n
    <2>4. /\ R(1) = 1 /\ R(1) <= R(t) /\ R(t + 1) = R(t) + Len(tree.nodes)
          /\ R(t + 1) <= R(n + 1) /\ R(t) \in Nat /\ R(n + 1) \in Nat
      BY <2>1, <2>3, Roots DEF n
    <2> DEFINE z == R(n + 1) - 1
    <2>5. z \in Nat /\ z >= MaxDepth(tree)
      <3> HIDE DEF R
      <3>1. QED
        BY <2>2, <2>4
    <2>6. \E f : forest.nodes = [x \in 1 .. z |-> f[x]]
      <3>1. forest.nodes = [x \in 1 .. z |-> ForestNodes(ensemble)[x]]
        BY <1>1, Zenon DEF ForestNodes, n
      <3>2. QED
        BY <3>1
    <2> HIDE DEF z
    <2>7. Len(forest.nodes) = z
      BY <2>5, <2>6
    <2>8. QED
      BY <2>5, <2>7
  <1>5. j \in DOMAIN tree.nodes /\ ForestLeaf(t, row) = k
    BY <1>1, <1>2, <1>3, ForestPath DEF ForestLeaf
  <1>6. ForestWalk(t, row) = k
    BY <1>1, <1>2, <1>4, ForestPath DEF ForestWalk
  <1>7. LeafAt(forest.nodes, k) = LeafAt(tree.nodes, j)
    <2>1. /\ forest.nodes[k].feature = tree.nodes[j].feature
          /\ forest.nodes[k].leaf = tree.nodes[j].leaf
          /\ off \in Nat
      BY <1>1, <1>5, ForestNodeIs
    <2>2. j \in Nat /\ j # 0
      <3>1. DOMAIN tree.nodes = 1 .. Len(tree.nodes) /\ Len(tree.nodes) \in Nat
        BY TreeShape DEF TreesOK
      <3> HIDE DEF j, tree
      <3>2. QED
        BY <1>5, <3>1
    <2> HIDE DEF j, tree, off
    <2>3. k # 0
      BY <2>1, <2>2
    <2>4. QED
      BY <2>1, <2>2, <2>3 DEF LeafAt, IsLeaf
  <1>8. QED
    BY <1>1, <1>5, <1>6, <1>7

-----------------------------------------------------------------------------
(***************************************************************************)
(* Trees as the node has them, and the walks of predict_impl               *)
(***************************************************************************)

\* A converted tree has the same nodes but for the default children.
LEMMA ConvertedTree ==
  ASSUME NEW tree, NEW w, TreeOK(tree, w)
  PROVE  LET c == ConvertTree(tree)
         IN  /\ TreeOK(c, w) /\ c.width = tree.width /\ c.complex = tree.complex
             /\ DOMAIN c.nodes = DOMAIN tree.nodes /\ Len(c.nodes) = Len(tree.nodes)
             /\ Internal(c) = Internal(tree)
             /\ \A i \in DOMAIN tree.nodes :
                  LET node == tree.nodes[i]
                  IN  c.nodes[i] = [node EXCEPT !.default = IF node.default = 0 THEN node.right
                                                            ELSE node.default]
  <1> DEFINE c == ConvertTree(tree)
             node(i) == tree.nodes[i]
             made(i) == [node(i) EXCEPT !.default = IF node(i).default = 0 THEN node(i).right
                                                    ELSE node(i).default]
             n == Len(tree.nodes)
  <1>1. /\ n \in Nat \ {0} /\ DOMAIN tree.nodes = 1 .. n /\ 1 \in DOMAIN tree.nodes
        /\ \A i \in 1 .. n : node(i) \in Nodes
        /\ Internal(tree) \subseteq 1 .. n
    BY TreeShape
  <1>2. tree = [nodes |-> tree.nodes, width |-> tree.width, complex |-> tree.complex]
    BY DEF TreeOK
  <1>3. c = [nodes |-> [i \in 1 .. n |-> made(i)], width |-> tree.width, complex |-> tree.complex]
    <2> DEFINE nodes == [i \in DOMAIN tree.nodes |-> made(i)]
    <2>1. c = [tree EXCEPT !.nodes = nodes]
      BY DEF ConvertTree
    <2> HIDE DEF made, c
    <2>2. nodes = [i \in 1 .. n |-> made(i)]
      BY <1>1
    <2> HIDE DEF nodes
    <2>3. c = [nodes |-> nodes, width |-> tree.width, complex |-> tree.complex]
      BY <1>2, <2>1
    <2>4. QED
      BY <2>2, <2>3
  <1> HIDE DEF made
  <1>4. /\ c.nodes = [i \in 1 .. n |-> made(i)] /\ c.width = tree.width /\ c.complex = tree.complex
        /\ c = [nodes |-> c.nodes, width |-> c.width, complex |-> c.complex]
    BY <1>3
  <1> HIDE DEF c
  <1>5. \A i \in 1 .. n : /\ made(i) \in Nodes /\ made(i).feature = node(i).feature
                          /\ made(i).left = node(i).left /\ made(i).right = node(i).right
                          /\ made(i).leaf = node(i).leaf
                          /\ Behind(made(i)) = Behind(node(i))
    <2>1. TAKE i \in 1 .. n
    <2>2. node(i) \in Nodes
      BY <1>1
    <2>3. /\ made(i) \in Nodes /\ made(i).feature = node(i).feature
          /\ made(i).left = node(i).left /\ made(i).right = node(i).right
          /\ made(i).leaf = node(i).leaf
          /\ made(i).default = IF node(i).default = 0 THEN node(i).right ELSE node(i).default
      BY <2>2 DEF made, Nodes
    <2>4. Behind(made(i)) = Behind(node(i))
      BY <2>3 DEF Behind
    <2>5. QED
      BY <2>3, <2>4
  <1>6. /\ c.nodes \in Seq(Nodes) /\ Len(c.nodes) = n /\ DOMAIN c.nodes = 1 .. n
        /\ c.nodes # << >> /\ \A i \in 1 .. n : c.nodes[i] = made(i)
    <2>1. c.nodes \in [1 .. n -> Nodes]
      BY <1>4, <1>5
    <2>2. c.nodes \in Seq(Nodes) /\ Len(c.nodes) = n
      BY <1>1, <2>1
    <2>3. QED
      BY <1>1, <1>4, <2>2
  <1>7. Internal(c) = Internal(tree)
    BY <1>1, <1>5, <1>6 DEF Internal, IsLeaf
  <1>8. /\ tree.width \in Nat \ {0}
        /\ \A i \in DOMAIN tree.nodes \ Internal(tree) : Len(node(i).leaf) = tree.width
        /\ \A i \in Internal(tree) : /\ node(i).feature \in 1 .. w
                                     /\ Behind(node(i)) \subseteq DOMAIN tree.nodes
                                     /\ node(i).left # 0 /\ node(i).right # 0
        /\ \A S \in SUBSET Internal(tree) : S # {} => \E i \in S : Behind(node(i)) \cap S = {}
    BY DEF TreeOK
  <1> HIDE DEF n, node
  <1>9. \A i \in DOMAIN c.nodes \ Internal(c) : Len(c.nodes[i].leaf) = c.width
    BY <1>1, <1>4, <1>5, <1>6, <1>7, <1>8
  <1>10. \A i \in Internal(c) : /\ c.nodes[i].feature \in 1 .. w
                                /\ Behind(c.nodes[i]) \subseteq DOMAIN c.nodes
                                /\ c.nodes[i].left # 0 /\ c.nodes[i].right # 0
    BY <1>1, <1>5, <1>6, <1>7, <1>8
  <1>11. \A S \in SUBSET Internal(c) : S # {} => \E i \in S : Behind(c.nodes[i]) \cap S = {}
    <2>1. TAKE S \in SUBSET Internal(c)
    <2>2. HAVE S # {}
    <2>3. PICK i \in S : Behind(node(i)) \cap S = {}
      BY <1>7, <1>8, <2>2
    <2>4. Behind(c.nodes[i]) = Behind(node(i))
      BY <1>1, <1>5, <1>6, <1>7
    <2>5. QED
      BY <2>3, <2>4
  <1>12. TreeOK(c, w)
    BY <1>4, <1>6, <1>8, <1>9, <1>10, <1>11 DEF TreeOK
  <1>13. QED
    BY <1>1, <1>4, <1>6, <1>7, <1>12 DEF c, made, n, node

\* The fields of a converted split.
LEMMA ConvertedSplit ==
  ASSUME NEW tree, NEW w, TreeOK(tree, w), NEW i \in Internal(tree)
  PROVE  LET node == tree.nodes[i]
             c    == ConvertTree(tree).nodes[i]
         IN  /\ node.feature \in 1 .. w /\ node.right # 0
             /\ c.feature = node.feature /\ c.threshold = node.threshold /\ c.op = node.op
             /\ c.set = node.set /\ c.left = node.left /\ c.right = node.right
             /\ c.default = IF node.default = 0 THEN node.right ELSE node.default
  <1>1. i \in DOMAIN tree.nodes /\ tree.nodes[i] \in Nodes
    BY TreeShape
  <1> DEFINE node == tree.nodes[i]
  <1>2. ConvertTree(tree).nodes[i]
          = [node EXCEPT !.default = IF node.default = 0 THEN node.right ELSE node.default]
    BY <1>1, ConvertedTree
  <1>3. tree.nodes[i].feature \in 1 .. w /\ tree.nodes[i].right # 0
    BY DEF TreeOK
  <1>4. QED
    BY <1>1, <1>2, <1>3 DEF Nodes

\* A walk through the converted tree that goes where the row is meant to go in
\* the declared one.
LEMMA ConvertedWalk ==
  ASSUME NEW tree, NEW w, TreeOK(tree, w), NEW row, NEW step, Follows(tree, row, step)
  PROVE  Walk(ConvertTree(tree), step) = MeantLeaf(tree, row)
  <1> DEFINE c == ConvertTree(tree)
  <1>1. /\ DOMAIN c.nodes = DOMAIN tree.nodes /\ Len(c.nodes) = Len(tree.nodes)
        /\ Internal(c) = Internal(tree)
    BY ConvertedTree
  <1> HIDE DEF c
  <1>2. Walk(c, step) = Walk(tree, step)
    BY <1>1 DEF Walk
  <1>3. QED
    BY <1>2, WalkIsMeant DEF c

NoneMissing(row, w) == \A k \in 1 .. w : row[k] # NaN
RightByDefault(tree) ==
  \A i \in Internal(tree) : tree.nodes[i].default \in {0, tree.nodes[i].right}

\* The walks with a default child go where the row is meant to go.
LEMMA ComplexIsMeant ==
  ASSUME NEW tree, NEW w, TreeOK(tree, w), NEW row
  PROVE  /\ ComplexLeaf(ConvertTree(tree), row) = MeantLeaf(tree, row)
         /\ ~HasComplex(tree) => DefaultLeaf(ConvertTree(tree), row) = MeantLeaf(tree, row)
  <1> DEFINE c == ConvertTree(tree)
             special == [i \in Internal(c) |-> ComplexStep(c, row, i)]
             plain == [i \in Internal(c) |-> DefaultStep(c, row, i)]
  <1>1. Internal(c) = Internal(tree) /\ c.complex = tree.complex
    BY ConvertedTree
  <1>2. ASSUME NEW i \in Internal(tree), i \notin DOMAIN tree.complex
        PROVE  GoesTo(tree, row, i, DefaultStep(c, row, i))
    <2> DEFINE node == tree.nodes[i]
               made == c.nodes[i]
               v == row[node.feature]
    <2>1. /\ node.right # 0 /\ made.feature = node.feature
          /\ made.threshold = node.threshold /\ made.op = node.op
          /\ made.set = node.set /\ made.left = node.left /\ made.right = node.right
          /\ made.default = IF node.default = 0 THEN node.right ELSE node.default
      BY ConvertedSplit
    <2>2. DefaultStep(c, row, i)
            = IF row[made.feature] = NaN THEN made.default
              ELSE Child(made, EvalSplit(made, row[made.feature]))
      BY Zenon DEF DefaultStep
    <2>3. EvalSplit(made, v) = EvalSplit(node, v)
      <3> HIDE DEF made, node, v
      <3>1. QED
        BY <2>1 DEF EvalSplit
    <2> DEFINE holds == EvalSplit(node, v)
    <2>4. DefaultStep(c, row, i) = IF v = NaN THEN made.default
                                   ELSE IF holds THEN node.left ELSE node.right
      <3> HIDE DEF made, node, holds
      <3>1. QED
        BY <2>1, <2>2, <2>3 DEF Child, holds
    <2>5. \A j : GoesTo(tree, row, i, j) <=>
            \/ v = NaN /\ node.default # 0 /\ j = node.default
            \/ v = NaN /\ node.default = 0 /\ j = node.right
            \/ v # NaN /\ holds /\ j = node.left
            \/ v # NaN /\ ~holds /\ j = node.right
      <3> HIDE DEF holds
      <3>1. QED
        BY <1>2 DEF GoesTo, holds
    <2> HIDE DEF made, node, v, holds
    <2>6. QED
      BY <2>1, <2>4, <2>5
  <1>3. ASSUME NEW i \in Internal(tree), i \in DOMAIN tree.complex
        PROVE  GoesTo(tree, row, i, ComplexStep(c, row, i))
    <2> DEFINE node == tree.nodes[i]
               made == c.nodes[i]
               v == row[node.feature]
    <2>1. made.feature = node.feature /\ made.left = node.left /\ made.right = node.right
      BY ConvertedSplit
    <2>2. ComplexStep(c, row, i) = Child(made, row[made.feature] \in tree.complex[i])
      BY <1>1, <1>3 DEF ComplexStep
    <2>3. ComplexStep(c, row, i) = IF v \in tree.complex[i] THEN node.left ELSE node.right
      <3> HIDE DEF made
      <3>1. QED
        BY <2>1, <2>2 DEF Child
    <2>4. QED
      BY <1>3, <2>3 DEF GoesTo
  <1>4. Follows(tree, row, special)
    <2>1. ASSUME NEW i \in Internal(tree) PROVE GoesTo(tree, row, i, special[i])
      <3>1. special[i] = ComplexStep(c, row, i)
        BY <1>1
      <3>2. i \notin DOMAIN tree.complex => ComplexStep(c, row, i) = DefaultStep(c, row, i)
        BY <1>1 DEF ComplexStep
      <3> HIDE DEF special, c
      <3>3. QED
        BY <1>2, <1>3, <3>1, <3>2
    <2> HIDE DEF special
    <2>2. QED
      BY <2>1 DEF Follows
  <1>5. ~HasComplex(tree) => Follows(tree, row, plain)
    <2>1. ASSUME ~HasComplex(tree), NEW i \in Internal(tree) PROVE GoesTo(tree, row, i, plain[i])
      <3>1. plain[i] = DefaultStep(c, row, i)
        BY <1>1
      <3>2. i \notin DOMAIN tree.complex
        BY <2>1 DEF HasComplex
      <3> HIDE DEF plain, c
      <3>3. QED
        BY <1>2, <3>1, <3>2
    <2> HIDE DEF plain
    <2>2. QED
      BY <2>1 DEF Follows
  <1>6. ComplexLeaf(c, row) = Walk(c, special) /\ DefaultLeaf(c, row) = Walk(c, plain)
    BY Zenon DEF ComplexLeaf, DefaultLeaf
  <1> HIDE DEF special, plain
  <1>7. QED
    BY <1>4, <1>5, <1>6, ConvertedWalk

\* So do those that look for no missing value, where there is none, or where it
\* goes right anyway: no comparison with it holds.
LEMMA PlainIsMeant ==
  ASSUME NEW tree, NEW w, TreeOK(tree, w), NEW row, NEW op,
         \/ op = "own" /\ ~HasComplex(tree) /\ NoneMissing(row, w)
         \/ op \in {"lt", "le"} /\ AllAre(tree, op)
            /\ (NoneMissing(row, w) \/ RightByDefault(tree))
  PROVE  PlainLeaf(ConvertTree(tree), row, op) = MeantLeaf(tree, row)
  <1> DEFINE c == ConvertTree(tree)
             s == PlainSteps(c, row, op)
  <1>1. Internal(c) = Internal(tree)
    BY ConvertedTree
  <1>2. ASSUME NEW i \in Internal(tree) PROVE GoesTo(tree, row, i, s[i])
    <2> DEFINE node == tree.nodes[i]
               made == c.nodes[i]
               v == row[node.feature]
               holds == EvalSplit(node, v)
    <2>1. /\ node.feature \in 1 .. w /\ made.feature = node.feature
          /\ made.threshold = node.threshold /\ made.op = node.op
          /\ made.set = node.set /\ made.left = node.left /\ made.right = node.right
      BY ConvertedSplit
    <2>2. i \notin DOMAIN tree.complex
      BY DEF HasComplex, AllAre
    <2>3. s[i] = Child(made, IF op = "own" THEN EvalSplit(made, row[made.feature])
                             ELSE Compares(row[made.feature], op, made.threshold))
      BY <1>1 DEF PlainSteps, PlainStep
    <2>4. EvalSplit(made, v) = holds
      <3> HIDE DEF made, node, v
      <3>1. QED
        BY <2>1 DEF EvalSplit
    <2>5. op # "own" => /\ Compares(v, op, node.threshold) = holds
                        /\ v = NaN => holds = FALSE
      <3>1. SUFFICES ASSUME op # "own"
                     PROVE  /\ Compares(v, op, node.threshold) = holds
                            /\ v = NaN => holds = FALSE
        OBVIOUS
      <3>2. op \in {"lt", "le"} /\ node.op = op
        BY <3>1 DEF AllAre
      <3> HIDE DEF node, v
      <3>3. holds = Compares(v, op, node.threshold)
        BY <3>2 DEF EvalSplit
      <3> HIDE DEF holds
      <3>4. v = NaN => Compares(v, op, node.threshold) = FALSE
        BY <3>2 DEF Compares
      <3>5. QED
        BY <3>3, <3>4
    <2>6. s[i] = IF holds THEN node.left ELSE node.right
      <3> HIDE DEF made, node, v, holds, s
      <3>1. row[made.feature] = v
        BY <2>1 DEF v
      <3>2. s[i] = Child(made, holds)
        BY <2>1, <2>3, <2>4, <2>5, <3>1
      <3>3. QED
        BY <2>1, <3>2 DEF Child
    <2>7. v # NaN \/ (op # "own" /\ node.default \in {0, node.right})
      BY <2>1 DEF NoneMissing, RightByDefault
    <2>8. \A j : GoesTo(tree, row, i, j) <=>
            \/ v = NaN /\ node.default # 0 /\ j = node.default
            \/ v = NaN /\ node.default = 0 /\ j = node.right
            \/ v # NaN /\ holds /\ j = node.left
            \/ v # NaN /\ ~holds /\ j = node.right
      <3> HIDE DEF holds
      <3>1. QED
        BY <2>2 DEF GoesTo, holds
    <2> HIDE DEF made, node, v, holds, s
    <2>9. QED
      BY <2>5, <2>6, <2>7, <2>8
  <1>3. PlainLeaf(c, row, op) = Walk(c, s)
    BY Zenon DEF PlainLeaf, PlainSteps
  <1> HIDE DEF s
  <1>4. QED
    BY <1>2, <1>3, ConvertedWalk DEF Follows

\* What the walks ask of a tree is not changed by its conversion.
LEMMA ConvertedAsks ==
  ASSUME NEW tree, NEW w, TreeOK(tree, w)
  PROVE  LET c == ConvertTree(tree)
         IN  /\ HasComplex(c) = HasComplex(tree)
             /\ \A op : AllAre(c, op) = AllAre(tree, op)
  <1> DEFINE c == ConvertTree(tree)
  <1>1. Internal(c) = Internal(tree) /\ c.complex = tree.complex
    BY ConvertedTree
  <1>2. \A i \in Internal(tree) : c.nodes[i].op = tree.nodes[i].op
    BY ConvertedSplit
  <1> HIDE DEF c
  <1>3. QED
    BY <1>1, <1>2 DEF HasComplex, AllAre, c

\* traverse_single comes to the leaf the row is meant for.
LEMMA SingleIsMeant ==
  ASSUME NEW tree, NEW w, TreeOK(tree, w), NEW row, HasNaN \/ NoneMissing(row, w)
  PROVE  SingleLeaf(ConvertTree(tree), row) = MeantLeaf(tree, row)
  <1> DEFINE c == ConvertTree(tree)
             op == IF AllLessEqual(c) THEN "le" ELSE IF AllLess(c) THEN "lt" ELSE "own"
  <1>1. /\ TreeOK(c, w) /\ HasComplex(c) = HasComplex(tree)
        /\ \A x : AllAre(c, x) = AllAre(tree, x)
    BY ConvertedTree, ConvertedAsks
  <1>2. CASE HasComplex(c)
    BY <1>2, ComplexIsMeant DEF SingleLeaf
  <1>3. CASE ~HasComplex(c) /\ HasNaN
    BY <1>1, <1>3, ComplexIsMeant DEF SingleLeaf
  <1>4. CASE ~HasComplex(c) /\ ~HasNaN
    <2>1. SingleLeaf(c, row)
            = IF op # "own" /\ ~forest.valid /\ UniformDepth(c) \in 1 .. MaxUnrolled
              THEN FixedLeaf(c, row, op, UniformDepth(c))
              ELSE PlainLeaf(c, row, op)
      BY <1>4, Zenon DEF SingleLeaf
    <2>2. \/ op = "own" /\ ~HasComplex(tree)
          \/ op \in {"lt", "le"} /\ AllAre(tree, op)
      BY <1>1, <1>4 DEF AllLess, AllLessEqual
    <2>3. NoneMissing(row, w)
      BY <1>4
    <2> HIDE DEF op
    <2>4. PlainLeaf(c, row, op) = MeantLeaf(tree, row)
      BY <2>2, <2>3, PlainIsMeant
    <2>5. UniformDepth(c) \in 1 .. MaxUnrolled =>
            FixedLeaf(c, row, op, UniformDepth(c)) = PlainLeaf(c, row, op)
      <3>1. UniformDepth(c) \in 1 .. MaxUnrolled => UniformDepth(c) # 0
        BY DEF MaxUnrolled
      <3> HIDE DEF c
      <3>2. QED
        BY <1>1, <3>1, FixedIsPlain
    <2>6. QED
      BY <2>1, <2>4, <2>5
  <1>5. QED
    BY <1>2, <1>3, <1>4

\* dispatch_batch too, but where a stump has to send a missing value left.
LEMMA BatchIsMeant ==
  ASSUME NEW tree, NEW w, TreeOK(tree, w), NEW row,
         NoneMissing(row, w) \/ RightByDefault(tree)
  PROVE  BatchLeaf(ConvertTree(tree), row) = MeantLeaf(tree, row)
  <1> DEFINE c == ConvertTree(tree)
             stump == Len(c.nodes) = 3 /\ AllLess(c) /\ c.width = 1
  <1>1. HasComplex(c) = HasComplex(tree) /\ AllAre(c, "lt") = AllAre(tree, "lt")
    BY ConvertedAsks
  <1>2. BatchLeaf(c, row) = IF HasComplex(c) THEN ComplexLeaf(c, row)
                            ELSE IF stump THEN PlainLeaf(c, row, "lt") ELSE DefaultLeaf(c, row)
    BY DEF BatchLeaf
  <1>3. ComplexLeaf(c, row) = MeantLeaf(tree, row)
    BY ComplexIsMeant
  <1>4. ~HasComplex(c) => DefaultLeaf(c, row) = MeantLeaf(tree, row)
    BY <1>1, ComplexIsMeant
  <1>5. stump => PlainLeaf(c, row, "lt") = MeantLeaf(tree, row)
    <2>1. stump => AllAre(tree, "lt")
      BY <1>1 DEF AllLess
    <2> HIDE DEF stump
    <2>2. QED
      BY <2>1, PlainIsMeant
  <1>6. QED
    BY <1>2, <1>3, <1>4, <1>5

\* The values read at the leaf are those of the declared one, as many as the
\* tree is wide.
LEMMA LeafIsMeant ==
  ASSUME NEW tree, NEW w, TreeOK(tree, w), NEW row
  PROVE  LET leaf == tree.nodes[MeantLeaf(tree, row)].leaf
         IN  /\ LeafAt(ConvertTree(tree).nodes, MeantLeaf(tree, row)) = leaf
             /\ leaf \in Seq(Int) /\ Len(leaf) = tree.width
             /\ tree.nodes[MeantLeaf(tree, row)] \in Range(tree.nodes)
  <1> DEFINE c == ConvertTree(tree)
             s == [i \in Internal(c) |-> ComplexStep(c, row, i)]
             j == MeantLeaf(tree, row)
  <1>1. /\ DOMAIN c.nodes = DOMAIN tree.nodes /\ Internal(c) = Internal(tree)
        /\ \A i \in DOMAIN tree.nodes :
             LET node == tree.nodes[i]
             IN  c.nodes[i] = [node EXCEPT !.default = IF node.default = 0 THEN node.right
                                                       ELSE node.default]
    BY ConvertedTree
  <1>2. j \in DOMAIN tree.nodes \ Internal(tree)
    <2>1. TreeOK(c, w)
      BY ConvertedTree
    <2>2. ComplexLeaf(c, row) = j
      BY ComplexIsMeant
    <2>3. ComplexLeaf(c, row) = Walk(c, s)
      BY Zenon DEF ComplexLeaf
    <2>4. Descends(c, s)
      <3>1. ASSUME NEW i \in Internal(c) PROVE s[i] \in Behind(c.nodes[i])
        <4>1. /\ c.nodes[i].left # 0 /\ c.nodes[i].right # 0
          BY <2>1 DEF TreeOK
        <4>2. c.nodes[i].default # 0
          BY <1>1, ConvertedSplit
        <4>3. s[i] \in {c.nodes[i].left, c.nodes[i].right, c.nodes[i].default}
          BY DEF ComplexStep, DefaultStep, Child
        <4> HIDE DEF s, c
        <4>4. QED
          BY <4>1, <4>2, <4>3 DEF Behind
      <3> HIDE DEF s, c
      <3>2. QED
        BY <3>1 DEF Descends
    <2> HIDE DEF s, c
    <2>5. PICK e \in 0 .. Len(c.nodes) : EndsAfter(c, s, e)
      BY <2>1, <2>4, WalkEnds
    <2>6. Len(c.nodes) \in Nat /\ Len(c.nodes) >= e
      BY <2>1, TreeShape
    <2>7. Walk(c, s) = At(c, s, Len(c.nodes))
      BY Zenon DEF Walk, At, Steps
    <2>8. Walk(c, s) = At(c, s, e) /\ At(c, s, e) \in DOMAIN c.nodes \ Internal(c)
      BY <2>5, <2>6, <2>7 DEF EndsAfter
    <2>9. QED
      BY <1>1, <2>2, <2>3, <2>8
  <1> HIDE DEF j
  <1>3. /\ DOMAIN tree.nodes = 1 .. Len(tree.nodes) /\ j \in DOMAIN tree.nodes
        /\ tree.nodes[j] \in Nodes /\ IsLeaf(tree.nodes[j])
        /\ Len(tree.nodes[j].leaf) = tree.width
    BY <1>2, TreeShape DEF TreeOK
  <1>4. c.nodes[j].feature = tree.nodes[j].feature /\ c.nodes[j].leaf = tree.nodes[j].leaf
    BY <1>1, <1>3 DEF Nodes
  <1>5. j # 0
    BY <1>3
  <1>6. LeafAt(c.nodes, j) = tree.nodes[j].leaf
    <2> HIDE DEF c
    <2>1. QED
      BY <1>3, <1>4, <1>5 DEF LeafAt, IsLeaf
  <1>7. tree.nodes[j].leaf \in Seq(Int)
    BY <1>3 DEF Nodes
  <1>8. tree.nodes[j] \in Range(tree.nodes)
    BY <1>3 DEF Range
  <1>9. QED
    BY <1>3, <1>6, <1>7, <1>8 DEF j

-----------------------------------------------------------------------------
(***************************************************************************)
(* The scores of a row                                                     *)
(***************************************************************************)

\* What the node makes of a model differs from it in default children only.
LEMMA ConvertedModel ==
  ASSUME NEW m, NEW w, EnsembleOK(m, w)
  PROVE  LET c == Converted(m)
         IN  /\ TreesOK(m, w) /\ TreesOK(c, w)
             /\ DOMAIN c.trees = DOMAIN m.trees /\ Len(c.trees) = Len(m.trees)
             /\ \A t \in DOMAIN m.trees : /\ c.trees[t] = ConvertTree(m.trees[t])
                                          /\ c.trees[t].width = m.trees[t].width
             /\ c.aggregation = m.aggregation /\ c.weights = m.weights /\ c.group = m.group
             /\ c.base = m.base /\ c.transform = m.transform
  <1> DEFINE c == Converted(m)
             n == Len(m.trees)
             made == [t \in 1 .. n |-> ConvertTree(m.trees[t])]
  <1>1. /\ m = [trees |-> m.trees, aggregation |-> m.aggregation, weights |-> m.weights,
                group |-> m.group, base |-> m.base, transform |-> m.transform]
        /\ m.trees \in Seq(Range(m.trees))
        /\ \A t \in DOMAIN m.trees : TreeOK(m.trees[t], w)
    BY DEF EnsembleOK
  <1>2. n \in Nat /\ DOMAIN m.trees = 1 .. n
    BY <1>1
  <1>3. c = [m EXCEPT !.trees = made]
    BY <1>2 DEF Converted
  <1> HIDE DEF c, made
  <1>4. /\ c.trees = made /\ c.aggregation = m.aggregation /\ c.weights = m.weights
        /\ c.group = m.group /\ c.base = m.base /\ c.transform = m.transform
    BY <1>1, <1>3
  <1> HIDE DEF n
  <1>5. DOMAIN made = 1 .. n /\ \A t \in 1 .. n : made[t] = ConvertTree(m.trees[t])
    BY DEF made
  <1>6. Len(made) = n
    BY <1>2 DEF made
  <1>7. \A t \in 1 .. n : TreeOK(made[t], w) /\ made[t].width = m.trees[t].width
    BY <1>1, <1>2, <1>5, ConvertedTree
  <1>8. TreesOK(m, w)
    BY <1>1, <1>2 DEF TreesOK, n
  <1>9. TreesOK(c, w)
    BY <1>2, <1>4, <1>5, <1>6, <1>7 DEF TreesOK
  <1>10. QED
    BY <1>2, <1>4, <1>5, <1>6, <1>7, <1>8, <1>9 DEF c, n

\* So what is made of the trees' values is the same for both.
LEMMA ConvertedSums ==
  ASSUME NEW m, NEW w, EnsembleOK(m, w)
  PROVE  LET c == Converted(m)
         IN  /\ NOutputs(c) = NOutputs(m)
             /\ \A k : Seed(c, k) = Seed(m, k) /\ TreesOf(c, k) = TreesOf(m, k)
             /\ \A t : Weight(c, t) = Weight(m, t)
             /\ \A x : Scale(c, x) = Scale(m, x) /\ Transform(c, x) = Transform(m, x)
  <1> DEFINE c == Converted(m)
  <1>1. /\ DOMAIN c.trees = DOMAIN m.trees /\ Len(c.trees) = Len(m.trees)
        /\ \A t \in DOMAIN m.trees : c.trees[t].width = m.trees[t].width
        /\ c.aggregation = m.aggregation /\ c.weights = m.weights /\ c.group = m.group
        /\ c.base = m.base /\ c.transform = m.transform
    BY ConvertedModel
  <1>2. (c.trees = << >>) = (m.trees = << >>) /\ (m.trees # << >> => 1 \in DOMAIN m.trees)
    <2>1. m.trees \in Seq(Range(m.trees))
      BY DEF EnsembleOK
    <2>2. c.trees = [t \in DOMAIN m.trees |-> ConvertTree(m.trees[t])]
      <3>1. m = [trees |-> m.trees, aggregation |-> m.aggregation, weights |-> m.weights,
                 group |-> m.group, base |-> m.base, transform |-> m.transform]
        BY DEF EnsembleOK
      <3> DEFINE made == [t \in DOMAIN m.trees |-> ConvertTree(m.trees[t])]
      <3>2. c = [m EXCEPT !.trees = made]
        BY Zenon DEF Converted
      <3> HIDE DEF made, c
      <3>3. c.trees = made
        BY <3>1, <3>2
      <3>4. QED
        BY <3>3 DEF made
    <2> HIDE DEF c
    <2>3. c.trees = << >> <=> DOMAIN m.trees = {}
      BY <2>2
    <2>4. m.trees = << >> <=> DOMAIN m.trees = {}
      <3> DEFINE R == Range(m.trees)
                 s == m.trees
      <3>1. s \in Seq(R)
        BY <2>1
      <3> HIDE DEF R, s
      <3>2. s = << >> <=> DOMAIN s = {}
        BY <3>1
      <3>3. QED
        BY <3>2 DEF s
    <2>5. m.trees # << >> => 1 \in DOMAIN m.trees
      BY <2>1
    <2>6. QED
      BY <2>3, <2>4, <2>5
  <1> HIDE DEF c
  <1>3. NOutputs(c) = NOutputs(m)
    BY <1>1, <1>2 DEF NOutputs
  <1>4. \A k : Seed(c, k) = Seed(m, k)
    BY <1>1 DEF Seed
  <1>5. \A k : TreesOf(c, k) = TreesOf(m, k)
    BY <1>1 DEF TreesOf, Group
  <1>6. \A t : Weight(c, t) = Weight(m, t)
    BY <1>1 DEF Weight
  <1>7. \A x : Scale(c, x) = Scale(m, x)
    BY <1>1, <1>3 DEF Scale
  <1>8. \A x : Transform(c, x) = Transform(m, x)
    BY <1>1 DEF Transform
  <1>9. QED
    BY <1>3, <1>4, <1>5, <1>6, <1>7, <1>8 DEF c

\* The least and the greatest of values within a bound, with the bound in front.
LEMMA LeastValue ==
  ASSUME NEW b \in Nat, NEW S, S \subseteq -b .. b, S # {}
  PROVE  Min(S) \in S /\ \A y \in S : Min(S) <= y
  <1> DEFINE T == {y + b : y \in S}
  <1>1. T \subseteq Nat /\ T # {}
    <2>1. ASSUME NEW y \in S PROVE y + b \in Nat
      <3>1. y \in Int /\ -b <= y /\ y <= b
        OBVIOUS
      <3>2. QED
        BY <3>1
    <2>2. QED
      BY <2>1
  <1>2. \E x \in T : \A y \in T : x <= y
    <2> HIDE DEF T
    <2>1. QED
      BY <1>1, LeastOf
  <1>3. PICK x \in S : \A y \in S : x + b <= y + b
    BY <1>2
  <1>4. \A y \in S : x <= y
    <2>1. TAKE y \in S
    <2>2. x + b <= y + b /\ x \in Int /\ y \in Int
      BY <1>3
    <2>3. QED
      BY <2>2
  <1>5. Min(S) = CHOOSE z \in S : \A y \in S : z <= y
    BY Zenon DEF Min
  <1>6. QED
    BY <1>4, <1>5

LEMMA GreatestValue ==
  ASSUME NEW b \in Nat, NEW S, S \subseteq -b .. b, S # {}
  PROVE  Max(S) \in S /\ \A y \in S : Max(S) >= y
  <1> DEFINE T == {b - y : y \in S}
  <1>1. T \subseteq Nat /\ T # {}
    <2>1. ASSUME NEW y \in S PROVE b - y \in Nat
      <3>1. y \in Int /\ -b <= y /\ y <= b
        OBVIOUS
      <3>2. QED
        BY <3>1
    <2>2. QED
      BY <2>1
  <1>2. \E x \in T : \A y \in T : x <= y
    <2> HIDE DEF T
    <2>1. QED
      BY <1>1, LeastOf
  <1>3. PICK x \in S : \A y \in S : b - x <= b - y
    BY <1>2
  <1>4. \A y \in S : x >= y
    <2>1. TAKE y \in S
    <2>2. b - x <= b - y /\ x \in Int /\ y \in Int
      BY <1>3
    <2>3. QED
      BY <2>2
  <1>5. Max(S) = CHOOSE z \in S : \A y \in S : z >= y
    BY Zenon DEF Max
  <1>6. QED
    BY <1>4, <1>5

\* The values declared for a row, and what tree t has of them for column k.
MeantValues(m, row) ==
  [t \in DOMAIN m.trees |-> m.trees[t].nodes[MeantLeaf(m.trees[t], row)].leaf]
ValueOf(m, leaf, t, k) == Weight(m, t) * leaf[IF m.trees[t].width > 1 THEN k ELSE 1]

LEMMA ValuesAreBounded ==
  ASSUME NEW m, NEW w, EnsembleOK(m, w), NEW row, NEW k \in 1 .. NOutputs(m),
         NEW t \in DOMAIN m.trees
  PROVE  ValueOf(m, MeantValues(m, row)[t], t, k) \in -Extreme .. Extreme
  <1> DEFINE tree == m.trees[t]
             node == tree.nodes[MeantLeaf(tree, row)]
             x == IF tree.width > 1 THEN k ELSE 1
  <1>1. /\ TreeOK(tree, w) /\ tree.width \in {1, NOutputs(m)}
        /\ \A it \in Range(tree.nodes) : \A v \in Range(it.leaf) :
             Weight(m, t) * v \in -Extreme .. Extreme
    BY DEF EnsembleOK
  <1>2. node.leaf \in Seq(Int) /\ Len(node.leaf) = tree.width /\ node \in Range(tree.nodes)
    BY <1>1, LeafIsMeant
  <1>3. tree.width \in Nat \ {0}
    BY <1>1 DEF TreeOK
  <1>4. MeantValues(m, row)[t] = node.leaf
    BY DEF MeantValues
  <1> HIDE DEF tree, node
  <1>5. x \in 1 .. Len(node.leaf)
    <2>1. CASE tree.width = 1
      BY <1>2, <2>1
    <2>2. CASE tree.width = NOutputs(m)
      BY <1>2, <1>3, <2>2
    <2>3. QED
      BY <1>1, <2>1, <2>2
  <1>6. node.leaf[x] \in Range(node.leaf)
    BY <1>2, <1>5 DEF Range
  <1>7. Weight(m, t) * node.leaf[x] \in -Extreme .. Extreme
    BY <1>1, <1>2, <1>6
  <1>8. ValueOf(m, MeantValues(m, row)[t], t, k) = Weight(m, t) * node.leaf[x]
    BY <1>4 DEF ValueOf, tree
  <1>9. QED
    BY <1>7, <1>8

\* A column made of the leaves a row is meant for is the declared one.
LEMMA ColumnIsMeant ==
  ASSUME NEW m, NEW w, EnsembleOK(m, w), NEW row, NEW k \in 1 .. NOutputs(m), NEW value,
         value = [t \in DOMAIN m.trees |-> ValueOf(m, MeantValues(m, row)[t], t, k)]
  PROVE  Aggregate(Converted(m), k, value) = MeantColumn(m, row, k)
  <1> DEFINE c == Converted(m)
             part == TreesOf(m, k)
             n == Len(m.trees)
             seed == Seed(m, k)
             S == {seed} \cup {value[t] : t \in part}
             Best(v) == \A t \in part : IF m.aggregation = "min" THEN v <= value[t] ELSE v >= value[t]
             best == CHOOSE v \in S : Best(v)
  <1>1. /\ c.aggregation = m.aggregation /\ Len(c.trees) = n
        /\ Seed(c, k) = seed /\ TreesOf(c, k) = part
    BY ConvertedModel, ConvertedSums
  <1>2. MeantColumn(m, row, k) = IF m.aggregation \in {"min", "max"}
                                 THEN best
                                 ELSE seed + SumOver(n, part, value)
    <2> DEFINE meant == [t \in DOMAIN m.trees |->
                           LET leaf == m.trees[t].nodes[MeantLeaf(m.trees[t], row)].leaf
                           IN  Weight(m, t) * leaf[IF Len(leaf) > 1 THEN k ELSE 1]]
    <2>1. value = meant
      <3>1. ASSUME NEW t \in DOMAIN m.trees
            PROVE  ValueOf(m, MeantValues(m, row)[t], t, k) = meant[t]
        <4> DEFINE leaf == m.trees[t].nodes[MeantLeaf(m.trees[t], row)].leaf
        <4>1. TreeOK(m.trees[t], w)
          BY DEF EnsembleOK
        <4>2. Len(leaf) = m.trees[t].width
          BY <4>1, LeafIsMeant
        <4>3. MeantValues(m, row)[t] = leaf
          BY DEF MeantValues
        <4>4. meant[t] = Weight(m, t) * leaf[IF Len(leaf) > 1 THEN k ELSE 1]
          OBVIOUS
        <4> HIDE DEF leaf, meant
        <4>5. QED
          BY <4>2, <4>3, <4>4 DEF ValueOf
      <3> HIDE DEF meant
      <3>2. meant = [t \in DOMAIN m.trees |-> meant[t]]
        BY DEF meant
      <3>3. QED
        BY <3>1, <3>2
    <2>2. MeantColumn(m, row, k)
            = IF m.aggregation \in {"min", "max"}
              THEN CHOOSE v \in {seed} \cup {meant[t] : t \in part} :
                     \A t \in part : IF m.aggregation = "min" THEN v <= meant[t] ELSE v >= meant[t]
              ELSE seed + SumOver(n, part, meant)
      BY Zenon DEF MeantColumn, TreesOf
    <2> HIDE DEF meant
    <2>3. QED
      BY <2>1, <2>2
  <1>3. part \subseteq DOMAIN m.trees
    BY DEF TreesOf
  <1>4. \A t \in part : value[t] \in -Extreme .. Extreme
    BY <1>3, ValuesAreBounded
  <1>5. Extreme \in Nat
    BY DEF Extreme
  <1> HIDE DEF c, part, n, seed, Best, best
  <1>6. CASE m.aggregation = "min"
    <2>1. seed = Extreme
      BY <1>6 DEF Seed, seed
    <2>2. S \subseteq -Extreme .. Extreme /\ S # {}
      BY <1>4, <1>5, <2>1
    <2> DEFINE x == Min(S)
    <2>3. x \in S /\ \A y \in S : x <= y
      <3> HIDE DEF S
      <3>1. QED
        BY <1>5, <2>2, LeastValue
    <2> HIDE DEF x
    <2>4. x \in S /\ Best(x)
      BY <1>6, <2>3 DEF Best
    <2>5. ASSUME NEW v \in S, Best(v) PROVE v = x
      <3>1. \A t \in part : v <= value[t]
        BY <1>6, <2>5 DEF Best
      <3>2. x <= v /\ x \in Int /\ v \in Int /\ x <= seed /\ seed = Extreme
        BY <1>5, <2>1, <2>2, <2>3
      <3>3. v <= Extreme
        BY <1>5, <2>2
      <3>4. v <= x
        <4>1. CASE x = seed
          BY <3>2, <3>3, <4>1
        <4>2. CASE x # seed
          <5>1. PICK t \in part : x = value[t]
            BY <2>3, <4>2
          <5>2. QED
            BY <3>1, <5>1
        <4>3. QED
          BY <4>1, <4>2
      <3>5. QED
        BY <3>2, <3>4
    <2> HIDE DEF S
    <2>6. best = x
      BY <2>4, <2>5 DEF best
    <2>7. Aggregate(c, k, value) = x
      BY <1>1, <1>6 DEF Aggregate, S, x
    <2>8. QED
      BY <1>2, <1>6, <2>6, <2>7 DEF c
  <1>7. CASE m.aggregation = "max"
    <2>1. seed = -Extreme
      BY <1>7 DEF Seed, seed
    <2>2. S \subseteq -Extreme .. Extreme /\ S # {}
      BY <1>4, <1>5, <2>1
    <2> DEFINE x == Max(S)
    <2>3. x \in S /\ \A y \in S : x >= y
      <3> HIDE DEF S
      <3>1. QED
        BY <1>5, <2>2, GreatestValue
    <2> HIDE DEF x
    <2>4. x \in S /\ Best(x)
      BY <1>7, <2>3 DEF Best
    <2>5. ASSUME NEW v \in S, Best(v) PROVE v = x
      <3>1. \A t \in part : v >= value[t]
        BY <1>7, <2>5 DEF Best
      <3>2. x >= v /\ x \in Int /\ v \in Int /\ x >= seed /\ seed = -Extreme
        BY <1>5, <2>1, <2>2, <2>3
      <3>3. v >= -Extreme
        BY <1>5, <2>2
      <3>4. v >= x
        <4>1. CASE x = seed
          BY <3>2, <3>3, <4>1
        <4>2. CASE x # seed
          <5>1. PICK t \in part : x = value[t]
            BY <2>3, <4>2
          <5>2. QED
            BY <3>1, <5>1
        <4>3. QED
          BY <4>1, <4>2
      <3>5. QED
        BY <3>2, <3>4
    <2> HIDE DEF S
    <2>6. best = x
      BY <2>4, <2>5 DEF best
    <2>7. Aggregate(c, k, value) = x
      BY <1>1, <1>7 DEF Aggregate, S, x
    <2>8. QED
      BY <1>2, <1>7, <2>6, <2>7 DEF c
  <1>8. CASE m.aggregation \notin {"min", "max"}
    <2>1. Aggregate(c, k, value) = seed + SumOver(n, part, value)
      BY <1>1, <1>8 DEF Aggregate
    <2>2. QED
      BY <1>2, <1>8, <2>1 DEF c
  <1>9. QED
    BY <1>6, <1>7, <1>8

\* Scores made of the leaves a row is meant for are the declared ones.
LEMMA ScoresAreMeant ==
  ASSUME NEW m, NEW w, EnsembleOK(m, w), NEW row
  PROVE  Scores(Converted(m), MeantValues(m, row)) = MeantRow(m, row)
  <1> DEFINE c == Converted(m)
             leaf == MeantValues(m, row)
             value(k) == [t \in DOMAIN c.trees |->
                            Weight(c, t) * leaf[t][IF c.trees[t].width > 1 THEN k ELSE 1]]
  <1>1. /\ DOMAIN c.trees = DOMAIN m.trees
        /\ \A t \in DOMAIN m.trees : c.trees[t].width = m.trees[t].width
        /\ NOutputs(c) = NOutputs(m) /\ \A t : Weight(c, t) = Weight(m, t)
        /\ \A x : Scale(c, x) = Scale(m, x) /\ Transform(c, x) = Transform(m, x)
    BY ConvertedModel, ConvertedSums
  <1>2. ASSUME NEW k \in 1 .. NOutputs(m)
        PROVE  Scale(c, Aggregate(c, k, value(k))) = Scale(m, MeantColumn(m, row, k))
    <2> DEFINE val == value(k)
               meant == [t \in DOMAIN m.trees |-> ValueOf(m, leaf[t], t, k)]
    <2>1. val = meant
      <3>1. \A t \in DOMAIN m.trees : Weight(c, t) * leaf[t][IF c.trees[t].width > 1 THEN k ELSE 1]
                                        = ValueOf(m, leaf[t], t, k)
        <4> HIDE DEF leaf, c
        <4>1. QED
          BY <1>1 DEF ValueOf
      <3> HIDE DEF leaf, c
      <3>2. QED
        BY <1>1, <3>1
    <2> HIDE DEF val
    <2>2. Aggregate(c, k, val) = MeantColumn(m, row, k)
      BY <2>1, ColumnIsMeant
    <2>3. QED
      BY <1>1, <2>2 DEF val
  <1>3. Scores(c, leaf) = Transform(c, [k \in 1 .. NOutputs(c) |-> Scale(c, Aggregate(c, k, value(k)))])
    BY Zenon DEF Scores
  <1>4. MeantRow(m, row) = Transform(m, [k \in 1 .. NOutputs(m) |-> Scale(m, MeantColumn(m, row, k))])
    BY Zenon DEF MeantRow
  <1> HIDE DEF c, leaf, value
  <1>5. [k \in 1 .. NOutputs(c) |-> Scale(c, Aggregate(c, k, value(k)))]
          = [k \in 1 .. NOutputs(m) |-> Scale(m, MeantColumn(m, row, k))]
    BY <1>1, <1>2
  <1>6. QED
    BY <1>1, <1>3, <1>4, <1>5 DEF c, leaf

-----------------------------------------------------------------------------
(***************************************************************************)
(* Sharing the trees out, and the rows of the blocks                       *)
(***************************************************************************)

\* The cut points of p shares.
LEMMA CutPoints ==
  ASSUME NEW n \in Nat, NEW p \in Nat \ {0}
  PROVE  /\ (n * 0) \div p = 0 /\ (n * p) \div p = n
         /\ \A j \in 0 .. p : (n * j) \div p \in 0 .. n
         /\ \A j \in 1 .. p : (n * (j - 1)) \div p <= (n * j) \div p
  <1>1. (n * 0) \div p = 0
    <2>1. n * 0 = 0 /\ 0 \div p = 0
      BY SMT
    <2>2. QED
      BY <2>1
  <1>2. (n * p) \div p = n
    BY SMT
  <1>3. ASSUME NEW a \in Int, NEW b \in Int, a <= b PROVE a \div p <= b \div p
    BY <1>3, SMT
  <1>4. ASSUME NEW i \in Nat, NEW j \in Nat, i <= j PROVE n * i <= n * j /\ n * i \in Nat /\ n * j \in Nat
    BY <1>4, SMT
  <1>5. ASSUME NEW i \in Nat, NEW j \in Nat, i <= j PROVE (n * i) \div p <= (n * j) \div p
    <2>1. n * i <= n * j /\ n * i \in Int /\ n * j \in Int
      BY <1>4, <1>5
    <2> DEFINE a == n * i
               b == n * j
    <2> HIDE DEF a, b
    <2>2. a \in Int /\ b \in Int /\ a <= b
      BY <2>1 DEF a, b
    <2>3. a \div p <= b \div p
      BY <1>3, <2>2
    <2>4. QED
      BY <2>3 DEF a, b
  <1>6. ASSUME NEW j \in Nat PROVE (n * j) \div p \in Int
    <2> DEFINE a == n * j
    <2>1. a \in Int
      BY SMT
    <2> HIDE DEF a
    <2>2. a \div p \in Int
      BY <2>1, SMT
    <2>3. QED
      BY <2>2 DEF a
  <1> DEFINE cut(j) == (n * j) \div p
  <1>7. cut(0) = 0 /\ cut(p) = n
    BY <1>1, <1>2
  <1>8. \A i, j \in Nat : i <= j => cut(i) <= cut(j)
    BY <1>5
  <1>9. \A j \in Nat : cut(j) \in Int
    BY <1>6
  <1> HIDE DEF cut
  <1>10. ASSUME NEW j \in 0 .. p PROVE cut(j) \in 0 .. n
    <2>1. 0 \in Nat /\ j \in Nat /\ p \in Nat /\ 0 <= j /\ j <= p
      OBVIOUS
    <2>2. cut(0) <= cut(j) /\ cut(j) <= cut(p) /\ cut(j) \in Int
      BY <1>8, <1>9, <2>1
    <2>3. QED
      BY <1>7, <2>2
  <1>11. ASSUME NEW j \in 1 .. p PROVE cut(j - 1) <= cut(j)
    <2>1. j - 1 \in Nat /\ j \in Nat /\ j - 1 <= j
      OBVIOUS
    <2>2. QED
      BY <1>8, <2>1
  <1>12. QED
    BY <1>7, <1>10, <1>11 DEF cut

\* What p shares of n terms come to.
SharesOf(partial, n, p, f) ==
  \A j \in 1 .. p :
    partial[j] = SumOver(n, 1 + (n * (j - 1)) \div p .. (n * j) \div p, f)

\* Together the shares are the sum.
LEMMA SharedOut ==
  ASSUME NEW n \in Nat, NEW p \in Nat \ {0}, NEW f, Whole(f, n, 1 .. n),
         NEW partial, SharesOf(partial, n, p, f)
  PROVE  SumOver(p, 1 .. p, partial) = SumOver(n, 1 .. n, f)
  <1> DEFINE cut(j) == (n * j) \div p
             share(j) == 1 + cut(j - 1) .. cut(j)
             upto(k) == SumOver(n, 1 .. k, f)
             sum(j) == SumOver(j, 1 .. p, partial)
  <1>1. /\ cut(0) = 0 /\ cut(p) = n
        /\ \A j \in 0 .. p : cut(j) \in 0 .. n
        /\ \A j \in 1 .. p : cut(j - 1) <= cut(j)
    BY CutPoints
  <1>2. \A j \in 1 .. p : partial[j] = SumOver(n, share(j), f)
    BY DEF SharesOf
  <1> HIDE DEF cut
  <1>3. \A S : Whole(f, n, S)
    BY DEF Whole
  <1>4. \A S : SumOver(n, S, f) \in Int
    <2>1. TAKE S
    <2>2. n \in 0 .. n
      OBVIOUS
    <2>3. QED
      BY <1>3, <2>2, SumSteps
  <1>5. Whole(partial, p, 1 .. p)
    <2> HIDE DEF share
    <2>1. QED
      BY <1>2, <1>4 DEF Whole
  <1>6. /\ sum(0) = 0
        /\ \A j \in 1 .. p : sum(j) = sum(j - 1) + partial[j]
    <2> DEFINE P == 1 .. p
    <2>1. p \in Nat /\ Whole(partial, p, P)
      BY <1>5
    <2> HIDE DEF P
    <2>2. /\ SumOver(0, P, partial) = 0
          /\ \A j \in 1 .. p : SumOver(j, P, partial)
                                 = SumOver(j - 1, P, partial) + (IF j \in P THEN partial[j] ELSE 0)
      BY <2>1, SumSteps
    <2>3. QED
      BY <2>2 DEF P
  <1> HIDE DEF sum
  <1> DEFINE T == {j \in 0 .. p : sum(j) = upto(cut(j))}
  <1>7. 0 \in T
    <2>1. 1 .. 0 = {}
      OBVIOUS
    <2>2. upto(0) = 0
      BY <2>1, SumOfNone
    <2>3. QED
      BY <1>1, <1>6, <2>2
  <1>8. ASSUME NEW j \in 1 .. p, j - 1 \in T PROVE j \in T
    <2> DEFINE a == cut(j - 1)
               b == cut(j)
               A == 1 .. a
               B == 1 + a .. b
    <2>1. j - 1 \in 0 .. p /\ j \in 0 .. p
      OBVIOUS
    <2>2. a \in Nat /\ b \in Nat /\ a <= b
      BY <1>1, <2>1
    <2> HIDE DEF a, b
    <2>3. A \cup B = 1 .. b /\ A \cap B = {}
      BY <2>2
    <2> HIDE DEF A, B
    <2>4. SumOver(n, A \cup B, f) = SumOver(n, A, f) + SumOver(n, B, f)
      BY <1>3, <2>3, SumOfUnion
    <2>5. upto(b) = upto(a) + SumOver(n, B, f)
      BY <2>3, <2>4 DEF A
    <2>6. partial[j] = SumOver(n, B, f)
      BY <1>2 DEF a, b, B
    <2>7. sum(j) = upto(a) + SumOver(n, B, f)
      BY <1>6, <1>8, <2>6 DEF a
    <2>8. QED
      BY <2>1, <2>5, <2>7 DEF b
  <1>9. 0 .. p \subseteq T
    <2> HIDE DEF T
    <2>1. p \in Nat
      OBVIOUS
    <2>2. QED
      BY <1>7, <1>8, <2>1, LoopInvariant
  <1>10. p \in 0 .. p
    OBVIOUS
  <1>11. QED
    BY <1>1, <1>9, <1>10 DEF sum

\* Block by block, every row.
LEMMA BlocksAreRows ==
  ASSUME Len(batch) \in Nat
  PROVE  BlockRows = 1 .. Len(batch)
  <1> DEFINE n == Len(batch)
             starts == {b \in 0 .. n - 1 : b % Block = 0}
             rows(b) == b + 1 .. Min({b + Block, n})
  <1>1. Block \in Nat \ {0}
    BY TreeAssumption
  <1>2. BlockRows = UNION {rows(b) : b \in starts}
    BY Zenon DEF BlockRows
  <1> HIDE DEF n
  <1>3. n \in Nat
    BY DEF n
  <1>4. ASSUME NEW b \in 0 .. n - 1
        PROVE  /\ Min({b + Block, n}) \in Nat /\ Min({b + Block, n}) <= n
               /\ Min({b + Block, n}) \in {b + Block, n}
    <2> DEFINE S == {b + Block, n}
               z == b + Block + n
    <2>1. S \subseteq -z .. z /\ S # {} /\ S \subseteq Nat /\ n \in S /\ z \in Nat
      BY <1>1, <1>3
    <2> HIDE DEF S, z
    <2>2. Min(S) \in S /\ Min(S) <= n
      BY <2>1, LeastValue
    <2>3. QED
      BY <2>1, <2>2 DEF S
  <1>5. ASSUME NEW b \in starts PROVE rows(b) \subseteq 1 .. n
    BY <1>3, <1>4
  <1>6. ASSUME NEW r \in 1 .. n PROVE \E b \in starts : r \in rows(b)
    <2> DEFINE q == (r - 1) \div Block
               b == q * Block
    <2>1. ASSUME NEW x \in Nat, NEW g \in Nat \ {0}
          PROVE  /\ x \div g \in Nat /\ (x \div g) * g <= x /\ x < (x \div g) * g + g
      BY SMT
    <2>2. ASSUME NEW x \in Nat, NEW g \in Nat \ {0} PROVE x * g \in Nat /\ (x * g) % g = 0
      BY SMT
    <2>3. r - 1 \in Nat
      BY <1>3
    <2>4. q \in Nat /\ b <= r - 1 /\ r - 1 < b + Block
      BY <1>1, <2>1, <2>3
    <2> HIDE DEF q
    <2>5. b \in Nat /\ b % Block = 0
      BY <1>1, <2>2, <2>4
    <2> HIDE DEF b
    <2>6. b \in starts
      BY <1>3, <2>4, <2>5
    <2>7. r \in rows(b)
      <3> DEFINE u == Min({b + Block, n})
      <3>1. u \in Nat /\ u \in {b + Block, n}
        BY <1>4, <2>6
      <3> HIDE DEF u
      <3>2. r \in b + 1 .. u
        BY <1>1, <1>3, <2>4, <2>5, <3>1
      <3>3. QED
        BY <3>2 DEF u
    <2>8. QED
      BY <2>6, <2>7
  <1>7. QED
    BY <1>2, <1>5, <1>6 DEF n

-----------------------------------------------------------------------------
(***************************************************************************)
(* The paths of predict_impl                                               *)
(***************************************************************************)

\* A node made of m, called with rows of w features.
ReadyFor(m, w) ==
  /\ EnsembleOK(m, w)
  /\ ensemble = Converted(m) /\ forest = BuildForest(ensemble)
  /\ Len(batch) \in Nat /\ DOMAIN batch = 1 .. Len(batch)
  /\ \A r \in DOMAIN batch : DOMAIN batch[r] = 1 .. w

LEMMA MissingSeen ==
  ASSUME NEW m, NEW w, ReadyFor(m, w), NEW r \in DOMAIN batch
  PROVE  HasNaN \/ NoneMissing(batch[r], w)
  BY DEF ReadyFor, HasNaN, NoneMissing, Range

\* Rows that come to the leaves they are meant for get the scores declared.
LEMMA TreeScoresAreMeant ==
  ASSUME NEW m, NEW w, ReadyFor(m, w), NEW row, NEW node,
         \A t \in DOMAIN ensemble.trees : node[t] = MeantLeaf(m.trees[t], row)
  PROVE  TreeScores(node) = MeantRow(m, row)
  <1> DEFINE leaf == [t \in DOMAIN ensemble.trees |-> LeafAt(ensemble.trees[t].nodes, node[t])]
  <1>1. EnsembleOK(m, w) /\ ensemble = Converted(m)
    BY DEF ReadyFor
  <1>2. /\ DOMAIN ensemble.trees = DOMAIN m.trees
        /\ \A t \in DOMAIN m.trees : ensemble.trees[t] = ConvertTree(m.trees[t])
    BY <1>1, ConvertedModel
  <1>3. ASSUME NEW t \in DOMAIN m.trees
        PROVE  LeafAt(ensemble.trees[t].nodes, node[t])
                 = m.trees[t].nodes[MeantLeaf(m.trees[t], row)].leaf
    <2>1. TreeOK(m.trees[t], w)
      BY <1>1 DEF EnsembleOK
    <2>2. LeafAt(ConvertTree(m.trees[t]).nodes, MeantLeaf(m.trees[t], row))
            = m.trees[t].nodes[MeantLeaf(m.trees[t], row)].leaf
      BY <2>1, LeafIsMeant
    <2>3. QED
      BY <1>2, <2>2
  <1>4. leaf = MeantValues(m, row)
    BY <1>2, <1>3 DEF MeantValues
  <1>5. TreeScores(node) = Scores(ensemble, leaf)
    BY Zenon DEF TreeScores
  <1> HIDE DEF leaf
  <1>6. QED
    BY <1>1, <1>4, <1>5, ScoresAreMeant

LEMMA ForestScoresAreMeant ==
  ASSUME NEW m, NEW w, ReadyFor(m, w), NEW row, NEW node,
         \A t \in DOMAIN ensemble.trees :
           LeafAt(forest.nodes, node[t])
             = LeafAt(ensemble.trees[t].nodes, MeantLeaf(m.trees[t], row))
  PROVE  ForestScores(node) = MeantRow(m, row)
  <1> DEFINE meant == [t \in DOMAIN ensemble.trees |-> MeantLeaf(m.trees[t], row)]
  <1>1. TreeScores(meant) = MeantRow(m, row)
    <2>1. \A t \in DOMAIN ensemble.trees : meant[t] = MeantLeaf(m.trees[t], row)
      OBVIOUS
    <2> HIDE DEF meant
    <2>2. QED
      BY <2>1, TreeScoresAreMeant
  <1>2. [t \in DOMAIN ensemble.trees |-> LeafAt(forest.nodes, node[t])]
          = [t \in DOMAIN ensemble.trees |-> LeafAt(ensemble.trees[t].nodes, meant[t])]
    OBVIOUS
  <1>3. QED
    BY <1>1, <1>2 DEF TreeScores, ForestScores

\* Both walks through the forest come to the values meant, where no row has a
\* missing value.
LEMMA ForestIsMeant ==
  ASSUME NEW m, NEW w, ReadyFor(m, w), forest.valid, NEW row, NoneMissing(row, w),
         NEW t \in DOMAIN ensemble.trees
  PROVE  LET leaf == LeafAt(ensemble.trees[t].nodes, MeantLeaf(m.trees[t], row))
         IN  /\ LeafAt(forest.nodes, ForestLeaf(t, row)) = leaf
             /\ LeafAt(forest.nodes, ForestWalk(t, row)) = leaf
  <1> DEFINE tree == m.trees[t]
             op == ForestOp(ensemble)
  <1>1. /\ EnsembleOK(m, w) /\ ensemble = Converted(m) /\ forest = BuildForest(ensemble)
    BY DEF ReadyFor
  <1>2. /\ TreesOK(ensemble, w) /\ DOMAIN ensemble.trees = DOMAIN m.trees
        /\ ensemble.trees[t] = ConvertTree(tree)
    BY <1>1, ConvertedModel
  <1>3. TreeOK(tree, w)
    BY <1>1, <1>2 DEF EnsembleOK
  <1>4. ForestValid(ensemble)
    BY <1>1 DEF BuildForest
  <1>5. op \in {"lt", "le"}
    BY DEF ForestOp
  <1>6. AllAre(ensemble.trees[t], op)
    <2>1. NoConstraint(ensemble.trees[t]) \/ AllAre(ensemble.trees[t], op)
      BY <1>4 DEF ForestValid
    <2> HIDE DEF op
    <2>2. QED
      BY <1>5, <2>1 DEF NoConstraint, AllLess, AllLessEqual
  <1>7. AllAre(tree, op)
    BY <1>2, <1>3, <1>6, ConvertedAsks
  <1> HIDE DEF op
  <1>8. PlainLeaf(ensemble.trees[t], row, op) = MeantLeaf(tree, row)
    BY <1>2, <1>3, <1>5, <1>7, PlainIsMeant
  <1>9. /\ LeafAt(forest.nodes, ForestLeaf(t, row))
             = LeafAt(ensemble.trees[t].nodes, PlainLeaf(ensemble.trees[t], row, op))
        /\ LeafAt(forest.nodes, ForestWalk(t, row))
             = LeafAt(ensemble.trees[t].nodes, PlainLeaf(ensemble.trees[t], row, op))
    BY <1>1, <1>2, ForestIsPlain DEF op
  <1>10. QED
    BY <1>8, <1>9

\* A row whose trees are shared out to the pool.
LEMMA PoolIsMeant ==
  ASSUME NEW m, NEW w, ReadyFor(m, w), ScoreInPool
  PROVE  output' = <<MeantRow(m, batch[1])>>
  <1> DEFINE row == batch[1]
             n == Len(ensemble.trees)
             leaf == MeantValues(m, row)
             value == [t \in DOMAIN ensemble.trees |->
                         LET tree == ensemble.trees[t]
                         IN  LeafAt(tree.nodes, SingleLeaf(tree, batch[1]))[1]]
             partial == [id \in 1 .. PoolSize |-> SumOver(n, Share(id - 1), value)]
             total == Seed(ensemble, 1) + SumOver(PoolSize, 1 .. PoolSize, partial)
             worth == [t \in DOMAIN m.trees |-> ValueOf(m, leaf[t], t, 1)]
  <1>1. /\ EnsembleOK(m, w) /\ ensemble = Converted(m) /\ 1 \in DOMAIN batch
    BY DEF ReadyFor, ScoreInPool, OneRow
  <1>2. /\ DOMAIN ensemble.trees = DOMAIN m.trees /\ n = Len(m.trees)
        /\ \A t \in DOMAIN m.trees : /\ ensemble.trees[t] = ConvertTree(m.trees[t])
                                     /\ ensemble.trees[t].width = m.trees[t].width
        /\ ensemble.aggregation = m.aggregation /\ ensemble.weights = m.weights
        /\ ensemble.group = m.group /\ ensemble.transform = m.transform
        /\ TreesOK(ensemble, w)
    BY <1>1, ConvertedModel
  <1>3. n \in Nat /\ DOMAIN m.trees = 1 .. n
    BY <1>2 DEF TreesOK
  <1>4. /\ m.aggregation = "sum" /\ m.weights = << >> /\ m.group = << >>
        /\ NOutputs(ensemble) = 1 /\ NOutputs(m) = 1
    BY <1>1, <1>2, ConvertedSums DEF ScoreInPool, PlainSum, InPool
  <1>5. output' = <<Transform(ensemble, <<<<total, 1>>>>)>>
    BY Zenon DEF ScoreInPool, Finish
  <1>6. 1 \in 1 .. NOutputs(m)
    BY <1>4
  <1>7. ASSUME NEW t \in DOMAIN m.trees
        PROVE  value[t] = worth[t] /\ worth[t] \in Int
    <2>1. TreeOK(m.trees[t], w)
      BY <1>1 DEF EnsembleOK
    <2>2. SingleLeaf(ensemble.trees[t], row) = MeantLeaf(m.trees[t], row)
      <3>1. HasNaN \/ NoneMissing(row, w)
        BY <1>1, MissingSeen
      <3>2. SingleLeaf(ConvertTree(m.trees[t]), row) = MeantLeaf(m.trees[t], row)
        BY <2>1, <3>1, SingleIsMeant
      <3>3. QED
        BY <1>2, <3>2
    <2>3. /\ LeafAt(ensemble.trees[t].nodes, MeantLeaf(m.trees[t], row)) = leaf[t]
          /\ leaf[t] \in Seq(Int) /\ Len(leaf[t]) = m.trees[t].width
      BY <1>2, <2>1, LeafIsMeant DEF MeantValues
    <2>4. value[t] = leaf[t][1]
      BY <1>2, <2>2, <2>3
    <2>5. worth[t] = Weight(m, t) * leaf[t][1]
      BY DEF ValueOf
    <2> HIDE DEF leaf, value, worth
    <2>6. m.trees[t].width \in Nat \ {0}
      BY <2>1 DEF TreeOK
    <2>7. leaf[t][1] \in Int
      BY <2>3, <2>6
    <2>8. Weight(m, t) = 1
      BY <1>4 DEF Weight
    <2>9. QED
      BY <2>4, <2>5, <2>7, <2>8
  <1>8. value = worth
    <2>1. value = [t \in DOMAIN m.trees |-> value[t]]
      BY <1>2
    <2>2. worth = [t \in DOMAIN m.trees |-> worth[t]]
      OBVIOUS
    <2> HIDE DEF value, worth
    <2>3. QED
      BY <1>7, <2>1, <2>2
  <1>9. SumOver(PoolSize, 1 .. PoolSize, partial) = SumOver(n, 1 .. n, value)
    <2>1. Whole(value, n, 1 .. n)
      <3> HIDE DEF value, worth
      <3>1. QED
        BY <1>3, <1>7 DEF Whole
    <2>2. SharesOf(partial, n, PoolSize, value)
      <3>1. ASSUME NEW j \in 1 .. PoolSize
            PROVE  Share(j - 1) = 1 + (n * (j - 1)) \div PoolSize .. (n * j) \div PoolSize
        <4>1. (j - 1) + 1 = j
          BY TreeAssumption
        <4> DEFINE i == j - 1
        <4>2. Share(i) = 1 + (n * i) \div PoolSize .. (n * (i + 1)) \div PoolSize
          BY Zenon DEF Share
        <4>3. QED
          BY <4>1, <4>2
      <3> HIDE DEF n, value
      <3>2. QED
        BY <3>1 DEF SharesOf
    <2>3. PoolSize \in Nat \ {0} /\ n \in Nat
      BY <1>3, TreeAssumption
    <2> HIDE DEF value, partial, n
    <2>4. QED
      BY <2>1, <2>2, <2>3, SharedOut
  <1>10. TreesOf(ensemble, 1) = 1 .. n
    <2>1. ASSUME NEW t \in 1 .. n PROVE Group(ensemble, t) = 1
      BY <1>2, <1>4 DEF Group
    <2> HIDE DEF n
    <2>2. QED
      BY <1>2, <1>3, <2>1 DEF TreesOf
  <1> HIDE DEF value, partial, worth, leaf, n
  <1>11. Aggregate(ensemble, 1, worth) = total
    <2>1. Aggregate(ensemble, 1, worth)
            = Seed(ensemble, 1) + SumOver(Len(ensemble.trees), TreesOf(ensemble, 1), worth)
      BY <1>2, <1>4 DEF Aggregate
    <2>2. QED
      BY <1>8, <1>9, <1>10, <2>1 DEF n
  <1> HIDE DEF total
  <1>12. MeantColumn(m, row, 1) = total
    BY <1>1, <1>6, <1>11, ColumnIsMeant DEF worth, leaf
  <1>13. Scale(m, total) = <<total, 1>>
    BY <1>4 DEF Scale
  <1>14. MeantRow(m, row) = Transform(m, <<<<total, 1>>>>)
    <2>1. MeantRow(m, row) = Transform(m, [c \in 1 .. NOutputs(m) |-> Scale(m, MeantColumn(m, row, c))])
      BY Zenon DEF MeantRow
    <2>2. [c \in 1 .. NOutputs(m) |-> Scale(m, MeantColumn(m, row, c))]
            = [c \in 1 .. 1 |-> <<total, 1>>]
      BY <1>4, <1>12, <1>13
    <2>3. [c \in 1 .. 1 |-> <<total, 1>>] = <<<<total, 1>>>>
      OBVIOUS
    <2>4. QED
      BY <2>1, <2>2, <2>3
  <1>15. Transform(ensemble, <<<<total, 1>>>>) = Transform(m, <<<<total, 1>>>>)
    BY <1>1, ConvertedSums
  <1>16. QED
    BY <1>5, <1>14, <1>15

\* Every path writes the scores meant.
LEMMA PredictsAsMeant ==
  ASSUME NEW m, NEW w, ReadyFor(m, w), PredictImpl,
         \/ ~HasNaN
         \/ OneRow /\ PlainSum
         \/ \A t \in DOMAIN m.trees : RightByDefault(m.trees[t])
  PROVE  output' = [r \in DOMAIN batch |-> MeantRow(m, batch[r])]
  <1> DEFINE T == DOMAIN ensemble.trees
             meant == [r \in DOMAIN batch |-> MeantRow(m, batch[r])]
             leaf(t, r) == LeafAt(ensemble.trees[t].nodes, MeantLeaf(m.trees[t], batch[r]))
  <1>1. /\ EnsembleOK(m, w) /\ ensemble = Converted(m)
        /\ Len(batch) \in Nat /\ DOMAIN batch = 1 .. Len(batch)
    BY DEF ReadyFor
  <1>2. /\ T = DOMAIN m.trees
        /\ \A t \in T : ensemble.trees[t] = ConvertTree(m.trees[t])
        /\ \A t \in T : TreeOK(m.trees[t], w)
    BY <1>1, ConvertedModel DEF EnsembleOK
  <1>3. \A r \in DOMAIN batch : HasNaN \/ NoneMissing(batch[r], w)
    BY MissingSeen
  <1>4. ASSUME OneRow, NEW x, x = MeantRow(m, batch[1]) PROVE <<x>> = meant
    <2>1. DOMAIN batch = 1 .. 1
      BY <1>1, <1>4 DEF OneRow
    <2>2. meant = [r \in 1 .. 1 |-> x]
      BY <1>4, <2>1
    <2> HIDE DEF meant
    <2>3. QED
      BY <2>2
  <1>5. OneRow => 1 \in DOMAIN batch
    BY <1>1 DEF OneRow
  <1>6. BlockRows = DOMAIN batch
    BY <1>1, BlocksAreRows
  <1>7. ASSUME forest.valid, ~HasNaN, NEW r \in DOMAIN batch, NEW t \in T
        PROVE  /\ LeafAt(forest.nodes, ForestLeaf(t, batch[r])) = leaf(t, r)
               /\ LeafAt(forest.nodes, ForestWalk(t, batch[r])) = leaf(t, r)
    BY <1>3, <1>7, ForestIsMeant
  <1>8. ASSUME NEW r \in DOMAIN batch, NEW t \in T
        PROVE  SingleLeaf(ensemble.trees[t], batch[r]) = MeantLeaf(m.trees[t], batch[r])
    <2>1. HasNaN \/ NoneMissing(batch[r], w)
      BY <1>3
    <2>2. SingleLeaf(ConvertTree(m.trees[t]), batch[r]) = MeantLeaf(m.trees[t], batch[r])
      BY <1>2, <2>1, SingleIsMeant
    <2>3. QED
      BY <1>2, <2>2
  <1> HIDE DEF T, leaf
  <1>9. CASE ScoreInPool
    <2>1. output' = <<MeantRow(m, batch[1])>>
      BY <1>9, PoolIsMeant
    <2>2. OneRow
      BY <1>9 DEF ScoreInPool
    <2>3. QED
      BY <1>4, <2>1, <2>2
  <1>10. CASE ScoreForestRow
    <2> DEFINE node == [t \in T |-> ForestLeaf(t, batch[1])]
    <2>1. OneRow /\ forest.valid /\ ~HasNaN /\ output' = <<ForestScores(node)>>
      BY <1>10, Zenon DEF ScoreForestRow, Finish, T
    <2>2. \A t \in T : LeafAt(forest.nodes, node[t]) = leaf(t, 1)
      BY <1>5, <1>7, <2>1
    <2> HIDE DEF node
    <2>3. ForestScores(node) = MeantRow(m, batch[1])
      BY <2>2, ForestScoresAreMeant DEF T, leaf
    <2>4. QED
      BY <1>4, <2>1, <2>3
  <1>11. CASE ScoreTreesRow
    <2> DEFINE node == [t \in T |-> SingleLeaf(ensemble.trees[t], batch[1])]
    <2>1. OneRow /\ output' = <<TreeScores(node)>>
      BY <1>11, Zenon DEF ScoreTreesRow, Finish, T
    <2>2. \A t \in T : node[t] = MeantLeaf(m.trees[t], batch[1])
      BY <1>5, <1>8, <2>1
    <2> HIDE DEF node
    <2>3. TreeScores(node) = MeantRow(m, batch[1])
      BY <2>2, TreeScoresAreMeant DEF T
    <2>4. QED
      BY <1>4, <2>1, <2>3
  <1>12. CASE ScoreForestBlocks
    <2> DEFINE node(r) == [t \in T |-> ForestWalk(t, batch[r])]
    <2>1. /\ forest.valid /\ ~HasNaN
          /\ output' = [r \in BlockRows |-> ForestScores(node(r))]
      BY <1>12, Zenon DEF ScoreForestBlocks, Finish, T
    <2>2. ASSUME NEW r \in DOMAIN batch PROVE ForestScores(node(r)) = MeantRow(m, batch[r])
      <3> DEFINE walk == node(r)
      <3>1. \A t \in T : LeafAt(forest.nodes, walk[t]) = leaf(t, r)
        BY <1>7, <2>1
      <3> HIDE DEF walk
      <3>2. ForestScores(walk) = MeantRow(m, batch[r])
        BY <3>1, ForestScoresAreMeant DEF T, leaf
      <3>3. QED
        BY <3>2 DEF walk
    <2> HIDE DEF node
    <2>3. QED
      BY <1>6, <2>1, <2>2
  <1>13. CASE ScoreBlocks
    <2> DEFINE op == IF \A t \in DOMAIN ensemble.trees : AllLessEqual(ensemble.trees[t])
                     THEN "le" ELSE "lt"
               node(r) == [t \in T |-> PlainLeaf(ensemble.trees[t], batch[r], op)]
    <2>1. /\ PlainSum /\ ~OneRow /\ Blockable
          /\ output' = [r \in BlockRows |-> TreeScores(node(r))]
      BY <1>13, Zenon DEF ScoreBlocks, Finish, T
    <2>2. op \in {"lt", "le"} /\ \A t \in T : AllAre(ensemble.trees[t], op)
      BY <2>1 DEF Blockable, AllLessEqual, T
    <2> HIDE DEF op
    <2>3. ASSUME NEW r \in DOMAIN batch, NEW t \in T
          PROVE  PlainLeaf(ensemble.trees[t], batch[r], op) = MeantLeaf(m.trees[t], batch[r])
      <3>1. AllAre(m.trees[t], op)
        BY <1>2, <2>2, ConvertedAsks
      <3>2. NoneMissing(batch[r], w) \/ RightByDefault(m.trees[t])
        BY <1>2, <1>3, <2>1
      <3>3. PlainLeaf(ConvertTree(m.trees[t]), batch[r], op) = MeantLeaf(m.trees[t], batch[r])
        BY <1>2, <2>2, <3>1, <3>2, PlainIsMeant
      <3>4. QED
        BY <1>2, <3>3
    <2>4. ASSUME NEW r \in DOMAIN batch PROVE TreeScores(node(r)) = MeantRow(m, batch[r])
      <3> DEFINE walk == node(r)
      <3>1. \A t \in T : walk[t] = MeantLeaf(m.trees[t], batch[r])
        BY <2>3
      <3> HIDE DEF walk
      <3>2. TreeScores(walk) = MeantRow(m, batch[r])
        BY <3>1, TreeScoresAreMeant DEF T
      <3>3. QED
        BY <3>2 DEF walk
    <2> HIDE DEF node
    <2>5. QED
      BY <1>6, <2>1, <2>4
  <1>14. CASE ScoreByTree
    <2> DEFINE node(r) == [t \in T |-> BatchLeaf(ensemble.trees[t], batch[r])]
    <2>1. /\ ~PlainSum \/ ~OneRow
          /\ output' = [r \in DOMAIN batch |-> TreeScores(node(r))]
      BY <1>14, Zenon DEF ScoreByTree, Finish, T
    <2>2. ASSUME NEW r \in DOMAIN batch, NEW t \in T
          PROVE  BatchLeaf(ensemble.trees[t], batch[r]) = MeantLeaf(m.trees[t], batch[r])
      <3>1. NoneMissing(batch[r], w) \/ RightByDefault(m.trees[t])
        BY <1>2, <1>3, <2>1
      <3>2. BatchLeaf(ConvertTree(m.trees[t]), batch[r]) = MeantLeaf(m.trees[t], batch[r])
        BY <1>2, <3>1, BatchIsMeant
      <3>3. QED
        BY <1>2, <3>2
    <2>3. ASSUME NEW r \in DOMAIN batch PROVE TreeScores(node(r)) = MeantRow(m, batch[r])
      <3> DEFINE walk == node(r)
      <3>1. \A t \in T : walk[t] = MeantLeaf(m.trees[t], batch[r])
        BY <2>2
      <3> HIDE DEF walk
      <3>2. TreeScores(walk) = MeantRow(m, batch[r])
        BY <3>1, TreeScoresAreMeant DEF T
      <3>3. QED
        BY <3>2 DEF walk
    <2> HIDE DEF node
    <2>4. QED
      BY <2>1, <2>3
  <1>15. QED
    BY <1>9, <1>10, <1>11, <1>12, <1>13, <1>14 DEF PredictImpl

-----------------------------------------------------------------------------
(***************************************************************************)
(* Floats                                                                  *)
(***************************************************************************)

IsFloat(n) == n \in Int /\ Schema!Narrow(n) = n

\* The nearest multiple of g to one of its multiples is itself.
LEMMA Nearest ==
  ASSUME NEW g \in Nat \ {0}, NEW q \in Int
  PROVE  ((q * g + g \div 2) \div g) * g = q * g
  <1>1. g \div 2 \in Nat /\ g \div 2 < g
    BY SMT
  <1>2. ASSUME NEW h \in Nat, h < g PROVE (q * g + h) \div g = q
    BY <1>2, SMT
  <1>3. QED
    BY <1>1, <1>2

\* What a double is narrowed to is a float, NaN stays NaN, and the floats next to
\* a float and across zero from it are floats.
LEMMA Rounding ==
  /\ Grain \in Nat \ {0} /\ NaN \notin Int
  /\ Schema!Narrow(NaN) = NaN
  /\ \A v \in Int : IsFloat(Schema!Narrow(v))
  /\ \A n \in Int : IsFloat(n) => IsFloat(n + Grain) /\ IsFloat(n - Grain) /\ IsFloat(-n)
  /\ \A v, w \in Int : v <= w => Schema!Narrow(v) <= Schema!Narrow(w)
  <1>1. Grain \in Nat \ {0} /\ NaN \notin Int
    BY TreeAssumption, ScoringAssumption
  <1>2. ASSUME NEW v \in Int
        PROVE  Schema!Narrow(v) = ((v + Grain \div 2) \div Grain) * Grain
    BY <1>1 DEF Schema!Narrow
  <1>3. \A v \in Int : (v + Grain \div 2) \div Grain \in Int
    BY <1>1, SMT
  <1>4. \A q \in Int : q * Grain \in Int /\ IsFloat(q * Grain)
    <2>1. TAKE q \in Int
    <2>2. q * Grain \in Int
      BY <1>1, SMT
    <2>3. QED
      BY <1>1, <1>2, <2>2, Nearest DEF IsFloat
  <1>5. \A v \in Int : IsFloat(Schema!Narrow(v))
    BY <1>2, <1>3, <1>4
  <1>6. ASSUME NEW n \in Int, IsFloat(n)
        PROVE  IsFloat(n + Grain) /\ IsFloat(n - Grain) /\ IsFloat(-n)
    <2>1. PICK q \in Int : n = q * Grain
      BY <1>2, <1>3, <1>6 DEF IsFloat
    <2>2. n + Grain = (q + 1) * Grain /\ n - Grain = (q - 1) * Grain /\ -n = (-q) * Grain
      BY <1>1, <2>1, SMT
    <2>3. QED
      BY <1>4, <2>2
  <1>7. ASSUME NEW v \in Int, NEW w \in Int, v <= w
        PROVE  Schema!Narrow(v) <= Schema!Narrow(w)
    <2>1. (v + Grain \div 2) \div Grain <= (w + Grain \div 2) \div Grain
      <3>1. ASSUME NEW a \in Int, NEW b \in Int, NEW g \in Nat \ {0}, a <= b
            PROVE  a \div g <= b \div g
        BY <3>1, SMT
      <3>2. QED
        BY <1>1, <1>7, <3>1
    <2>2. ASSUME NEW a \in Int, NEW b \in Int, NEW g \in Nat \ {0}, a <= b
          PROVE  a * g <= b * g
      BY <2>2, SMT
    <2>3. QED
      BY <1>1, <1>2, <1>3, <2>1, <2>2
  <1>8. Schema!Narrow(NaN) = NaN
    BY DEF Schema!Narrow
  <1>9. QED
    BY <1>1, <1>5, <1>6, <1>7, <1>8

-----------------------------------------------------------------------------
(***************************************************************************)
(* Intervals                                                               *)
(***************************************************************************)

\* The least and the greatest float of an interval, where it has one.
Lo(iv) == IF iv.left_open THEN iv.left + Grain ELSE iv.left
Hi(iv) == IF iv.right_open THEN iv.right - Grain ELSE iv.right
HasFloats(iv) == Lo(iv) <= Hi(iv)

LEMMA Ends ==
  ASSUME NEW iv \in Intervals
  PROVE  /\ IsFloat(Lo(iv)) /\ IsFloat(Hi(iv))
         /\ Lo(iv) >= -Infinity /\ Hi(iv) <= Infinity
         /\ \A v \in Int : Lo(iv) <= v /\ v <= Hi(iv) => Schema!Contains(iv, v)
  <1>1. Infinity \in Nat /\ Grain \in Nat \ {0}
    BY ScoringAssumption, TreeAssumption
  <1>2. /\ IsFloat(iv.left) /\ IsFloat(iv.right)
        /\ iv.left \in -Infinity .. Infinity /\ iv.right \in -Infinity .. Infinity
        /\ iv.left_open \in BOOLEAN /\ iv.right_open \in BOOLEAN
    BY <1>1 DEF Intervals, Floats, IsFloat
  <1>3. /\ IsFloat(iv.left + Grain) /\ IsFloat(iv.right - Grain)
        /\ iv.left \in Int /\ iv.right \in Int
    BY <1>1, <1>2, Rounding
  <1>4. IsFloat(Lo(iv)) /\ IsFloat(Hi(iv))
    BY <1>2, <1>3 DEF Lo, Hi
  <1>5. Lo(iv) >= -Infinity /\ Hi(iv) <= Infinity
    BY <1>1, <1>2, <1>3 DEF Lo, Hi
  <1>6. ASSUME NEW v \in Int, Lo(iv) <= v, v <= Hi(iv)
        PROVE  Schema!Contains(iv, v)
    BY <1>1, <1>2, <1>3, <1>6 DEF Lo, Hi, Schema!Contains
  <1>7. QED
    BY <1>4, <1>5, <1>6

\* A value clamped to an interval with a float in it becomes one of its floats.
LEMMA ClampsInside ==
  ASSUME NEW iv \in Intervals, HasFloats(iv), NEW v, IsFloat(v)
  PROVE  LET c == Schema!ClampTo(iv, v)
         IN  /\ IsFloat(c) /\ Schema!Contains(iv, c)
             /\ \/ c = Lo(iv) /\ v < c
                \/ c = Hi(iv) /\ c < v
                \/ c = v
  <1> DEFINE c == Schema!ClampTo(iv, v)
  <1>1. /\ IsFloat(Lo(iv)) /\ IsFloat(Hi(iv)) /\ Lo(iv) <= Hi(iv)
        /\ Lo(iv) \in Int /\ Hi(iv) \in Int /\ v \in Int
        /\ \A u \in Int : Lo(iv) <= u /\ u <= Hi(iv) => Schema!Contains(iv, u)
    BY Ends DEF HasFloats, IsFloat
  <1>2. c = CASE Lo(iv) > Hi(iv) -> Schema!Narrow((Lo(iv) + Hi(iv)) \div 2)
              [] Lo(iv) <= Hi(iv) /\ v < Lo(iv) -> Lo(iv)
              [] Lo(iv) <= Hi(iv) /\ v > Hi(iv) -> Hi(iv)
              [] OTHER -> v
    BY DEF Schema!ClampTo, Lo, Hi
  <1> HIDE DEF c
  <1>3. \/ c = Lo(iv) /\ v < c
        \/ c = Hi(iv) /\ c < v
        \/ c = v /\ Lo(iv) <= v /\ v <= Hi(iv)
    <2>1. CASE v < Lo(iv)
      <3>1. c = Lo(iv)
        BY <1>1, <1>2, <2>1
      <3>2. QED
        BY <2>1, <3>1
    <2>2. CASE v > Hi(iv)
      <3>1. c = Hi(iv)
        BY <1>1, <1>2, <2>2
      <3>2. QED
        BY <1>1, <2>2, <3>1
    <2>3. CASE ~(v < Lo(iv)) /\ ~(v > Hi(iv))
      BY <1>1, <1>2, <2>3
    <2>4. QED
      BY <2>1, <2>2, <2>3
  <1>4. IsFloat(c) /\ Schema!Contains(iv, c)
    BY <1>1, <1>3
  <1>5. QED
    BY <1>3, <1>4 DEF c

\* An outlier clamped to the nearest interval lands in one of them, or is given
\* up for a missing value; a finite one is not, where an interval has a finite
\* end on its side.
LEMMA ClampedInside ==
  ASSUME NEW dom, dom.intervals \in Seq(Intervals),
         \A k \in 1 .. Len(dom.intervals) : HasFloats(dom.intervals[k]),
         NEW v, IsFloat(v)
  PROVE  LET u == Schema!ClampToExtreme(dom, v)
         IN  /\ \/ u = NaN
                \/ IsFloat(u) /\ \E k \in 1 .. Len(dom.intervals) : Schema!Contains(dom.intervals[k], u)
             /\ /\ -Infinity < v /\ v < Infinity
                /\ \E k \in 1 .. Len(dom.intervals) : /\ Lo(dom.intervals[k]) < Infinity
                                                      /\ Hi(dom.intervals[k]) > -Infinity
                => u # NaN
  <1> DEFINE n == Len(dom.intervals)
             c(k) == Schema!ClampTo(dom.intervals[k], v)
             finite == {k \in 1 .. n : v \notin {Infinity, -Infinity} /\ c(k) \notin {Infinity, -Infinity}}
             best == {k \in finite : \A j \in finite : Schema!Distance(v, c(k)) <= Schema!Distance(v, c(j))}
             u == Schema!ClampToExtreme(dom, v)
  <1>1. u = IF best = {} THEN NaN ELSE c(Schema!Min(best))
    BY Zenon DEF Schema!ClampToExtreme
  <1>2. /\ n \in Nat /\ v \in Int
        /\ \A k \in 1 .. n : dom.intervals[k] \in Intervals
    BY DEF IsFloat
  <1>3. ASSUME NEW k \in 1 .. n
        PROVE  /\ IsFloat(c(k)) /\ Schema!Contains(dom.intervals[k], c(k))
               /\ \/ c(k) = Lo(dom.intervals[k]) /\ v < c(k)
                  \/ c(k) = Hi(dom.intervals[k]) /\ c(k) < v
                  \/ c(k) = v
    BY <1>2, ClampsInside
  <1> HIDE DEF c, n
  <1>4. \A k \in 1 .. n : c(k) \in Int /\ Schema!Distance(v, c(k)) \in Nat
    <2>1. TAKE k \in 1 .. n
    <2>2. c(k) \in Int
      BY <1>3 DEF IsFloat
    <2>3. QED
      BY <1>2, <2>2 DEF Schema!Distance
  <1>5. best # {} => Schema!Min(best) \in best
    <2>1. SUFFICES ASSUME best # {} PROVE Schema!Min(best) \in best
      OBVIOUS
    <2>2. best \subseteq Nat
      BY <1>2
    <2> HIDE DEF best
    <2>3. \E k \in best : \A j \in best : k <= j
      BY <2>1, <2>2, LeastOf
    <2>4. QED
      BY <2>3 DEF Schema!Min
  <1>6. finite # {} => best # {}
    <2>1. SUFFICES ASSUME finite # {} PROVE best # {}
      OBVIOUS
    <2> DEFINE D == {Schema!Distance(v, c(k)) : k \in finite}
    <2>2. D \subseteq Nat /\ D # {}
      BY <1>4, <2>1
    <2>3. \E d \in D : \A e \in D : d <= e
      <3> HIDE DEF D
      <3>1. QED
        BY <2>2, LeastOf
    <2>4. PICK k \in finite : \A j \in finite : Schema!Distance(v, c(k)) <= Schema!Distance(v, c(j))
      BY <2>3
    <2>5. QED
      BY <2>4
  <1>7. u # NaN => IsFloat(u) /\ \E k \in 1 .. n : Schema!Contains(dom.intervals[k], u)
    BY <1>1, <1>3, <1>5
  <1>8. ASSUME -Infinity < v, v < Infinity,
               NEW k \in 1 .. n, Lo(dom.intervals[k]) < Infinity, Hi(dom.intervals[k]) > -Infinity
        PROVE  u # NaN
    <2>1. Infinity \in Nat /\ -Infinity \in Int /\ NaN \notin Int
      BY ScoringAssumption
    <2>2. Lo(dom.intervals[k]) \in Int /\ Hi(dom.intervals[k]) \in Int
      BY <1>2, Ends DEF IsFloat
    <2>3. c(k) \notin {Infinity, -Infinity} /\ v \notin {Infinity, -Infinity}
      BY <1>2, <1>3, <1>8, <2>1, <2>2
    <2>4. k \in finite
      BY <2>3
    <2>5. best # {} /\ Schema!Min(best) \in 1 .. n
      BY <1>5, <1>6, <2>4
    <2>6. u \in Int
      BY <1>1, <1>4, <2>5
    <2>7. QED
      BY <2>1, <2>6
  <1> HIDE DEF u
  <1>9. QED
    BY <1>7, <1>8 DEF u, n

-----------------------------------------------------------------------------
(***************************************************************************)
(* One cell                                                                *)
(***************************************************************************)

\* Every interval has a float in it; and one that is finite.
IntervalsHold(f) ==
  f.domain.kind = "continuous" =>
    \A k \in 1 .. Len(f.domain.intervals) : HasFloats(f.domain.intervals[k])
EndsAreFinite(f) ==
  f.domain.kind = "continuous" =>
    \A k \in 1 .. Len(f.domain.intervals) :
      Lo(f.domain.intervals[k]) < Infinity /\ Hi(f.domain.intervals[k]) > -Infinity

\* What the policies leave of the float view w of a value, as NothingUndeclared
\* says of the row it becomes part of.
Accounted(f, w, u) ==
  \/ u = NaN \/ InDomain(f, u)
  \/ u = f.missing_replacement /\ f.missing = "as_value"
  \/ u = f.invalid_replacement /\ f.invalid = "as_value"
  \/ /\ u = w
     /\ "as_is" = IF f.domain.kind = "discrete" THEN f.invalid ELSE f.outlier

\* A value within its domain is left alone.
LEMMA LeftAlone ==
  ASSUME NEW f, FeatureOK(f), NEW w \in Int, InDomain(f, w)
  PROVE  Schema!ApplySchema(f, w) = w
  <1>1. w # NaN
    BY ScoringAssumption
  <1>2. CASE f.domain.kind = "none"
    BY <1>1, <1>2 DEF Schema!ApplySchema, Schema!IsMissing, Schema!IsInvalid, Schema!IsOutlier
  <1>3. CASE f.domain.kind = "continuous"
    <2>1. \/ f.domain.intervals = << >>
          \/ \E k \in DOMAIN f.domain.intervals : Schema!Contains(f.domain.intervals[k], w)
      BY <1>3 DEF InDomain
    <2>2. DOMAIN f.domain.intervals = 1 .. Len(f.domain.intervals)
      BY <1>3 DEF FeatureOK
    <2>3. ~Schema!IsOutlier(f, w)
      BY <2>1, <2>2 DEF Schema!IsOutlier
    <2>4. QED
      BY <1>1, <1>3, <2>3 DEF Schema!ApplySchema, Schema!IsMissing, Schema!IsInvalid
  <1>4. CASE f.domain.kind = "discrete"
    <2>1. /\ w \notin f.domain.invalid \cup f.domain.missing
          /\ f.domain.valid = {} \/ w \in f.domain.valid
      BY <1>4 DEF InDomain
    <2>2. QED
      BY <1>1, <1>4, <2>1 DEF Schema!ApplySchema, Schema!IsMissing, Schema!IsInvalid, Schema!IsOutlier
  <1>5. QED
    BY <1>2, <1>3, <1>4 DEF FeatureOK

\* Whatever the policies make of a value is accounted for, and is a float again.
LEMMA AccountedFor ==
  ASSUME NEW f, FeatureOK(f), IntervalsHold(f), NEW w, IsFloat(w) \/ w = NaN
  PROVE  LET u == Schema!ApplySchema(f, w)
         IN  (IsFloat(u) \/ u = NaN) /\ Accounted(f, w, u)
  <1> DEFINE u == Schema!ApplySchema(f, w)
  <1>1. /\ IsFloat(f.missing_replacement) \/ f.missing_replacement = NaN
        /\ IsFloat(f.invalid_replacement) \/ f.invalid_replacement = NaN
    <2>1. \A n \in Floats : IsFloat(n)
      BY ScoringAssumption DEF Floats, IsFloat
    <2>2. QED
      BY <2>1 DEF FeatureOK
  <1>2. CASE Schema!IsMissing(f, w)
    <2>1. u = Schema!HandleMissing(f, w)
      BY <1>2 DEF Schema!ApplySchema
    <2>2. \/ u = NaN
          \/ u = f.missing_replacement /\ f.missing = "as_value"
          \/ u = f.invalid_replacement /\ f.invalid = "as_value"
          \/ u = w /\ f.invalid = "as_is"
      BY <2>1 DEF Schema!HandleMissing, Schema!HandleInvalid, FeatureOK
    <2>3. w = NaN \/ f.domain.kind = "discrete"
      BY <1>2 DEF Schema!IsMissing
    <2> HIDE DEF u
    <2>4. QED
      BY <1>1, <2>2, <2>3 DEF Accounted, u
  <1>3. CASE ~Schema!IsMissing(f, w) /\ Schema!IsInvalid(f, w)
    <2>1. u = Schema!HandleInvalid(f, w)
      BY <1>3 DEF Schema!ApplySchema
    <2>2. \/ u = NaN
          \/ u = f.invalid_replacement /\ f.invalid = "as_value"
          \/ u = w /\ f.invalid = "as_is"
      BY <2>1 DEF Schema!HandleInvalid, FeatureOK
    <2>3. f.domain.kind = "discrete"
      BY <1>3 DEF Schema!IsInvalid
    <2> HIDE DEF u
    <2>4. QED
      BY <1>1, <2>2, <2>3 DEF Accounted, u
  <1>4. CASE ~Schema!IsMissing(f, w) /\ ~Schema!IsInvalid(f, w) /\ Schema!IsOutlier(f, w)
    <2>1. u = Schema!HandleOutlier(f, w)
      BY <1>4 DEF Schema!ApplySchema
    <2>2. f.domain.kind = "continuous" /\ w # NaN /\ IsFloat(w)
      BY <1>4 DEF Schema!IsOutlier, Schema!IsMissing
    <2>3. \/ u = NaN
          \/ u = w /\ f.outlier = "as_is"
          \/ u = Schema!ClampToExtreme(f.domain, w)
      BY <2>1 DEF Schema!HandleOutlier, FeatureOK
    <2> HIDE DEF u
    <2>4. ASSUME u = Schema!ClampToExtreme(f.domain, w), u # NaN
          PROVE  IsFloat(u) /\ InDomain(f, u)
      <3> DEFINE e == Schema!ClampToExtreme(f.domain, w)
      <3>1. f.domain.intervals \in Seq(Intervals)
        BY <2>2 DEF FeatureOK
      <3>2. \A k \in 1 .. Len(f.domain.intervals) : HasFloats(f.domain.intervals[k])
        BY <2>2 DEF IntervalsHold
      <3>3. \/ e = NaN
            \/ IsFloat(e) /\ \E k \in 1 .. Len(f.domain.intervals) :
                               Schema!Contains(f.domain.intervals[k], e)
        BY <2>2, <3>1, <3>2, ClampedInside
      <3> HIDE DEF e
      <3>4. \E k \in DOMAIN f.domain.intervals : Schema!Contains(f.domain.intervals[k], u)
        BY <2>4, <3>1, <3>3 DEF e
      <3>5. InDomain(f, u)
        BY <2>2, <3>4 DEF InDomain
      <3>6. QED
        BY <2>4, <3>3, <3>5 DEF e
    <2>5. QED
      BY <2>2, <2>3, <2>4 DEF Accounted, u
  <1>5. CASE ~Schema!IsMissing(f, w) /\ ~Schema!IsInvalid(f, w) /\ ~Schema!IsOutlier(f, w)
    <2>1. u = w
      BY <1>5 DEF Schema!ApplySchema
    <2>2. w # NaN
      BY <1>5 DEF Schema!IsMissing
    <2>3. InDomain(f, w)
      <3>1. CASE f.domain.kind = "none"
        BY <3>1 DEF InDomain
      <3>2. CASE f.domain.kind = "continuous"
        <4>1. DOMAIN f.domain.intervals = 1 .. Len(f.domain.intervals)
          BY <3>2 DEF FeatureOK
        <4>2. \/ f.domain.intervals = << >>
              \/ \E k \in DOMAIN f.domain.intervals : Schema!Contains(f.domain.intervals[k], w)
          BY <1>5, <3>2, <4>1 DEF Schema!IsOutlier
        <4>3. QED
          BY <3>2, <4>2 DEF InDomain
      <3>3. CASE f.domain.kind = "discrete"
        BY <1>5, <3>3 DEF InDomain, Schema!IsMissing, Schema!IsInvalid
      <3>4. QED
        BY <3>1, <3>2, <3>3 DEF FeatureOK
    <2> HIDE DEF u
    <2>4. QED
      BY <2>1, <2>2, <2>3 DEF Accounted, u
  <1>6. QED
    BY <1>2, <1>3, <1>4, <1>5

\* Policies that replace what they turn down leave no missing value of a finite
\* one.
LEMMA AlwaysReplaced ==
  ASSUME NEW f, FeatureOK(f), IntervalsHold(f), EndsAreFinite(f), Replaces(f),
         f.missing_replacement # NaN, f.invalid_replacement # NaN,
         NEW w, w = NaN \/ (IsFloat(w) /\ -Infinity < w /\ w < Infinity)
  PROVE  Schema!ApplySchema(f, w) # NaN
  <1> DEFINE u == Schema!ApplySchema(f, w)
  <1>1. CASE Schema!IsMissing(f, w)
    <2>1. u = Schema!HandleMissing(f, w)
      BY <1>1 DEF Schema!ApplySchema
    <2>2. u = f.missing_replacement \/ u = f.invalid_replacement
      BY <2>1 DEF Schema!HandleMissing, Schema!HandleInvalid, Replaces
    <2>3. QED
      BY <2>2
  <1>2. CASE ~Schema!IsMissing(f, w) /\ Schema!IsInvalid(f, w)
    <2>1. u = Schema!HandleInvalid(f, w) /\ w # NaN
      BY <1>2 DEF Schema!ApplySchema, Schema!IsMissing
    <2>2. u = w \/ u = f.invalid_replacement
      BY <2>1 DEF Schema!HandleInvalid, Replaces
    <2>3. QED
      BY <2>1, <2>2
  <1>3. CASE ~Schema!IsMissing(f, w) /\ ~Schema!IsInvalid(f, w) /\ Schema!IsOutlier(f, w)
    <2>1. u = Schema!HandleOutlier(f, w)
      BY <1>3 DEF Schema!ApplySchema
    <2>2. /\ f.domain.kind = "continuous" /\ f.domain.intervals # << >> /\ w # NaN
          /\ IsFloat(w) /\ -Infinity < w /\ w < Infinity
      BY <1>3 DEF Schema!IsOutlier, Schema!IsMissing
    <2>3. u = w \/ u = Schema!ClampToExtreme(f.domain, w)
      BY <2>1 DEF Schema!HandleOutlier, FeatureOK, Replaces
    <2>4. Schema!ClampToExtreme(f.domain, w) # NaN
      <3>1. f.domain.intervals \in Seq(Intervals)
        BY <2>2 DEF FeatureOK
      <3>2. \A k \in 1 .. Len(f.domain.intervals) : HasFloats(f.domain.intervals[k])
        BY <2>2 DEF IntervalsHold
      <3>3. 1 \in 1 .. Len(f.domain.intervals)
        BY <2>2, <3>1
      <3>4. \E k \in 1 .. Len(f.domain.intervals) : /\ Lo(f.domain.intervals[k]) < Infinity
                                                    /\ Hi(f.domain.intervals[k]) > -Infinity
        BY <2>2, <3>3 DEF EndsAreFinite
      <3>5. QED
        BY <2>2, <3>1, <3>2, <3>4, ClampedInside
    <2>5. QED
      BY <2>2, <2>3, <2>4
  <1>4. CASE ~Schema!IsMissing(f, w) /\ ~Schema!IsInvalid(f, w) /\ ~Schema!IsOutlier(f, w)
    BY <1>4 DEF Schema!ApplySchema, Schema!IsMissing
  <1>5. QED
    BY <1>1, <1>2, <1>3, <1>4

-----------------------------------------------------------------------------
(***************************************************************************)
(* The rows of a call                                                      *)
(***************************************************************************)

\* What the schema node makes of v, and the rows the trees get.
CellOf(f64, f, v) == IF f64 THEN Schema!Cell64(f, v) ELSE Schema!Cell32(f, v)
Arriving(m, c) == IF m.wide THEN c ELSE Schema!Narrow(c)
RowsOf(m, s) ==
  [r \in DOMAIN s.rows |->
     [k \in DOMAIN m.features |->
        Arriving(m, CellOf(s.f64, m.features[k], s.rows[r][m.features[k].col]))]]

ScoreInv ==
  /\ declared \in Models
  /\ phase \notin {"file", "rejected"} =>
       ensemble = Converted(declared.trees) /\ forest = BuildForest(ensemble)
  /\ phase \in {"called", "screened", "gathered"} => source \in Sources
  /\ phase = "screened" =>
       screened = [source EXCEPT !.rows = Schema!Screened(declared.features, @, source.f64)]
  /\ phase = "gathered" => batch = RowsOf(declared, source)

LEMMA ScoreKeeps == ScoreInv /\ [ScoreNext]_svars => ScoreInv'
  <1> SUFFICES ASSUME ScoreInv, [ScoreNext]_svars PROVE ScoreInv'
    OBVIOUS
  <1>1. CASE UNCHANGED svars
    BY <1>1 DEF ScoreInv, RowsOf, CellOf, Arriving, svars, tvars, Schema!Cell64, Schema!Cell32,
         Schema!Screened
  <1>2. CASE Make
    BY <1>2 DEF Make, MakeNode, ScoreInv
  <1>3. CASE Reject
    BY <1>3 DEF Reject, ScoreInv
  <1>4. ASSUME NEW s \in Sources, Call(s) PROVE ScoreInv'
    BY <1>4 DEF Call, ScoreInv
  <1>5. CASE Screen
    <2>1. /\ phase = "called" /\ phase' = "screened"
          /\ screened' = [source EXCEPT !.rows = Schema!Screened(declared.features, @, source.f64)]
          /\ UNCHANGED <<declared, source, ensemble, forest>>
      BY <1>5 DEF Screen, tvars
    <2>2. QED
      BY <2>1 DEF ScoreInv
  <1>6. CASE Gather
    <2>1. /\ phase = "screened" /\ phase' = "gathered" /\ batch' = Gathered
          /\ UNCHANGED <<declared, source, ensemble, forest>>
      BY <1>6 DEF Gather
    <2> DEFINE rows == Schema!Screened(declared.features, source.rows, source.f64)
               m == declared
    <2>2. declared \in Models /\ source \in Sources
      BY <2>1 DEF ScoreInv
    <2>3. /\ DOMAIN m.features = 1 .. Len(m.features)
          /\ DOMAIN source.rows = 1 .. Len(source.rows)
          /\ source = [f64 |-> source.f64, rows |-> source.rows]
      BY <2>2, ScoringAssumption
    <2>4. screened.rows = rows
      BY <2>1, <2>3 DEF ScoreInv
    <2>5. rows = [r \in DOMAIN source.rows |->
                    [k \in DOMAIN m.features |->
                       CellOf(source.f64, m.features[k], source.rows[r][m.features[k].col])]]
      BY <2>3 DEF Schema!Screened, CellOf
    <2> HIDE DEF rows
    <2>6. Gathered = RowsOf(m, source)
      <3>1. Gathered = [r \in DOMAIN rows |-> [k \in DOMAIN rows[r] |-> Arriving(m, rows[r][k])]]
        BY <2>4 DEF Gathered, Arriving
      <3>2. DOMAIN rows = DOMAIN source.rows
        BY <2>5
      <3>3. ASSUME NEW r \in DOMAIN source.rows
            PROVE  [k \in DOMAIN rows[r] |-> Arriving(m, rows[r][k])] = RowsOf(m, source)[r]
        <4>1. rows[r] = [k \in DOMAIN m.features |->
                           CellOf(source.f64, m.features[k], source.rows[r][m.features[k].col])]
          BY <2>5
        <4> HIDE DEF m
        <4>2. QED
          BY <4>1 DEF RowsOf
      <3>4. QED
        BY <3>1, <3>2, <3>3 DEF RowsOf
    <2>7. RowsOf(m, source)' = RowsOf(m, source)
      BY <2>1 DEF RowsOf, CellOf, Arriving, Schema!Cell64, Schema!Cell32
    <2>8. QED
      BY <2>1, <2>2, <2>6, <2>7 DEF ScoreInv
  <1>7. CASE Score
    <2>1. /\ phase = "gathered" /\ phase' = "scored"
          /\ UNCHANGED <<declared, source, ensemble, forest>>
      BY <1>7 DEF Score, PredictImpl, ScoreInPool, ScoreForestRow, ScoreTreesRow,
           ScoreForestBlocks, ScoreBlocks, ScoreByTree, Finish
    <2>2. QED
      BY <2>1 DEF ScoreInv
  <1>8. QED
    BY <1>1, <1>2, <1>3, <1>4, <1>5, <1>6, <1>7 DEF ScoreNext

\* What the trees get of a call is what the schema node makes of its rows.
LEMMA RowsAreScreened == ScoreSpec => []ScoreInv
  <1>1. ScoreInit => ScoreInv
    BY DEF ScoreInit, ScoreInv
  <1>2. QED
    BY <1>1, ScoreKeeps, PTL DEF ScoreSpec

\* A cell of the batch, and the value it was made from.
LEMMA CellArrives ==
  ASSUME ScoreInv, phase = "gathered", NEW x \in Cells
  PROVE  LET f == declared.features[x[2]]
             v == Given(x)
         IN  /\ FeatureOK(f)
             /\ batch[x[1]][x[2]] = Arriving(declared, CellOf(source.f64, f, v))
             /\ v \in IF source.f64 THEN Numbers ELSE Floats \cup {NaN}
             /\ declared \in Models /\ source \in Sources
             /\ x[1] \in DOMAIN source.rows /\ x[2] \in DOMAIN declared.features
             /\ f.col \in DOMAIN source.rows[x[1]]
  <1>1. /\ declared \in Models /\ source \in Sources
        /\ batch = RowsOf(declared, source)
    BY DEF ScoreInv
  <1>2. PICK r \in DOMAIN source.rows, k \in DOMAIN declared.features : x = <<r, k>>
    BY DEF Cells
  <1>3. /\ FeatureOK(declared.features[k])
        /\ declared.features[k].col \in DOMAIN source.rows[r]
    BY <1>1, ScoringAssumption
  <1>4. source.rows[r][declared.features[k].col]
          \in IF source.f64 THEN Numbers ELSE Floats \cup {NaN}
    BY <1>1, <1>3, ScoringAssumption
  <1>5. batch[r][k] = Arriving(declared, CellOf(source.f64, declared.features[k],
                                                source.rows[r][declared.features[k].col]))
    BY <1>1 DEF RowsOf
  <1>6. QED
    BY <1>1, <1>2, <1>3, <1>4, <1>5 DEF Given

\* The cell's float view is what the policies leave of the value's.
LEMMA CellIs ==
  ASSUME NEW f, FeatureOK(f), NEW f64 \in BOOLEAN,
         NEW v \in IF f64 THEN Numbers ELSE Floats \cup {NaN}
  PROVE  LET w == Schema!Narrow(v)
             u == Schema!ApplySchema(f, w)
             c == CellOf(f64, f, v)
         IN  /\ \/ v = NaN /\ w = NaN
                \/ v \in Int /\ w # NaN /\ IsFloat(w)
             /\ c = IF u = w THEN v ELSE u
  <1> DEFINE w == Schema!Narrow(v)
  <1>1. v = NaN \/ v \in Int
    BY ScoringAssumption DEF Numbers, Floats
  <1>2. \/ v = NaN /\ w = NaN
        \/ v \in Int /\ w # NaN /\ IsFloat(w)
    BY <1>1, Rounding DEF IsFloat
  <1>3. ~f64 => w = v
    BY Rounding DEF Floats
  <1> HIDE DEF w
  <1>4. CellOf(f64, f, v) = IF Schema!ApplySchema(f, w) = w THEN v ELSE Schema!ApplySchema(f, w)
    <2>1. CASE f64
      BY <2>1, Zenon DEF CellOf, Schema!Cell64, w
    <2>2. CASE ~f64
      BY <1>3, <2>2 DEF CellOf, Schema!Cell32
    <2>3. QED
      BY <2>1, <2>2
  <1>5. QED
    BY <1>2, <1>4 DEF w

-----------------------------------------------------------------------------
(***************************************************************************)
(* The theorems                                                            *)
(***************************************************************************)

\* A value within its feature's domain reaches the trees as it came, in the full
\* width if they have it (src/model_schema.cpp:48-97, 110-175,
\* src/runtime_tensor.h).
THEOREM ValuesStayWhole == ScoreSpec => []ValuesArriveWhole
  <1>1. ScoreInv => ValuesArriveWhole
    <2>1. SUFFICES ASSUME ScoreInv, phase = "gathered", NEW x \in Cells, Given(x) # NaN,
                          InDomain(declared.features[x[2]], Schema!Narrow(Given(x)))
                   PROVE  batch[x[1]][x[2]] = IF declared.wide THEN Given(x)
                                              ELSE Schema!Narrow(Given(x))
      BY DEF ValuesArriveWhole
    <2> DEFINE f == declared.features[x[2]]
               v == Given(x)
               w == Schema!Narrow(v)
    <2>2. /\ FeatureOK(f) /\ source \in Sources
          /\ batch[x[1]][x[2]] = Arriving(declared, CellOf(source.f64, f, v))
          /\ v \in IF source.f64 THEN Numbers ELSE Floats \cup {NaN}
      BY <2>1, CellArrives
    <2>3. source.f64 \in BOOLEAN
      BY <2>2, ScoringAssumption
    <2> HIDE DEF f, v
    <2>4. /\ v = NaN \/ (v \in Int /\ IsFloat(w))
          /\ CellOf(source.f64, f, v) = IF Schema!ApplySchema(f, w) = w THEN v
                                        ELSE Schema!ApplySchema(f, w)
      BY <2>2, <2>3, CellIs
    <2>5. v # NaN /\ InDomain(f, w)
      BY <2>1 DEF f, v
    <2>6. w \in Int
      BY <2>4, <2>5 DEF IsFloat
    <2>7. Schema!ApplySchema(f, w) = w
      BY <2>2, <2>5, <2>6, LeftAlone
    <2>8. batch[x[1]][x[2]] = IF declared.wide THEN v ELSE w
      BY <2>2, <2>4, <2>7 DEF Arriving
    <2>9. QED
      BY <2>8 DEF v
  <1>2. QED
    BY <1>1, RowsAreScreened, PTL

\* A number outside its feature's domain reaches the trees only as a
\* replacement, or because a policy says to keep it, where every interval has a
\* float in it: one without is clamped to its middle (src/model_schema.h:51-64).
THEOREM NothingUndeclaredArrives ==
  ASSUME \A m \in Models : \A k \in DOMAIN m.features : IntervalsHold(m.features[k])
  PROVE  ScoreSpec => []NothingUndeclared
  <1>1. ScoreInv => NothingUndeclared
    <2>1. SUFFICES ASSUME ScoreInv, phase = "gathered", NEW x \in Cells
                   PROVE  Accounted(declared.features[x[2]], Schema!Narrow(Given(x)),
                                    Schema!Narrow(batch[x[1]][x[2]]))
      BY DEF NothingUndeclared, Accounted
    <2> DEFINE f == declared.features[x[2]]
               v == Given(x)
               w == Schema!Narrow(v)
               u == Schema!ApplySchema(f, w)
    <2>2. /\ FeatureOK(f) /\ source \in Sources /\ declared \in Models
          /\ batch[x[1]][x[2]] = Arriving(declared, CellOf(source.f64, f, v))
          /\ v \in IF source.f64 THEN Numbers ELSE Floats \cup {NaN}
          /\ x[2] \in DOMAIN declared.features
      BY <2>1, CellArrives
    <2>3. source.f64 \in BOOLEAN /\ IntervalsHold(f)
      BY <2>2, ScoringAssumption
    <2> HIDE DEF f, v
    <2>4. /\ w = NaN \/ IsFloat(w)
          /\ CellOf(source.f64, f, v) = IF u = w THEN v ELSE u
      BY <2>2, <2>3, CellIs
    <2>5. (IsFloat(u) \/ u = NaN) /\ Accounted(f, w, u)
      BY <2>2, <2>3, <2>4, AccountedFor
    <2> HIDE DEF u
    <2>6. Schema!Narrow(u) = u /\ Schema!Narrow(w) = w
      BY <2>4, <2>5, Rounding DEF IsFloat
    <2>7. Schema!Narrow(CellOf(source.f64, f, v)) = u
      BY <2>4, <2>6
    <2>8. Schema!Narrow(batch[x[1]][x[2]]) = u
      BY <2>2, <2>6, <2>7 DEF Arriving
    <2>9. QED
      BY <2>5, <2>8 DEF f, v
  <1>2. QED
    BY <1>1, RowsAreScreened, PTL

\* Policies that put a number in the place of everything they turn down leave
\* the trees no missing value, of inputs that are finite, where the replacements
\* are numbers, every interval has a finite float in it, and no input is so large
\* that it is infinite as a float (src/model_schema.cpp:24-97).
THEOREM NoGapsAreLeft ==
  ASSUME \A m \in Models : \A k \in DOMAIN m.features :
           /\ IntervalsHold(m.features[k]) /\ EndsAreFinite(m.features[k])
           /\ m.features[k].missing_replacement # NaN
           /\ m.features[k].invalid_replacement # NaN,
         \A s \in Sources : \A r \in DOMAIN s.rows : \A i \in DOMAIN s.rows[r] :
           Schema!Narrow(s.rows[r][i]) \in {Infinity, -Infinity} =>
             s.rows[r][i] \in {Infinity, -Infinity}
  PROVE  ScoreSpec => []NoGapsLeft
  <1>1. ScoreInv => NoGapsLeft
    <2>1. SUFFICES ASSUME ScoreInv, phase = "gathered", NEW x \in Cells,
                          Replaces(declared.features[x[2]]),
                          Given(x) \notin {Infinity, -Infinity}
                   PROVE  batch[x[1]][x[2]] # NaN
      BY DEF NoGapsLeft
    <2> DEFINE f == declared.features[x[2]]
               v == Given(x)
               w == Schema!Narrow(v)
               u == Schema!ApplySchema(f, w)
    <2>2. /\ FeatureOK(f) /\ source \in Sources /\ declared \in Models
          /\ batch[x[1]][x[2]] = Arriving(declared, CellOf(source.f64, f, v))
          /\ v \in IF source.f64 THEN Numbers ELSE Floats \cup {NaN}
          /\ x[1] \in DOMAIN source.rows /\ x[2] \in DOMAIN declared.features
          /\ f.col \in DOMAIN source.rows[x[1]]
      BY <2>1, CellArrives
    <2>3. /\ source.f64 \in BOOLEAN /\ IntervalsHold(f) /\ EndsAreFinite(f)
          /\ f.missing_replacement # NaN /\ f.invalid_replacement # NaN
      BY <2>2, ScoringAssumption
    <2>4. w \notin {Infinity, -Infinity}
      BY <2>1, <2>2 DEF Given
    <2>5. Replaces(f)
      BY <2>1
    <2>6. /\ Infinity \in Nat /\ IsFloat(Infinity) /\ NaN \notin Int
          /\ -Infinity \in Int
      BY ScoringAssumption DEF IsFloat
    <2>7. v = NaN \/ (v \in Int /\ -Infinity <= v /\ v <= Infinity)
      BY <2>2, <2>3, <2>6 DEF Numbers, Floats
    <2> HIDE DEF f, v
    <2>8. /\ \/ v = NaN /\ w = NaN
             \/ v \in Int /\ w # NaN /\ IsFloat(w)
          /\ CellOf(source.f64, f, v) = IF u = w THEN v ELSE u
      BY <2>2, <2>3, CellIs
    <2>9. w = NaN \/ (IsFloat(w) /\ -Infinity < w /\ w < Infinity)
      <3>1. CASE v = NaN
        BY <2>6, <2>8, <3>1
      <3>2. CASE v \in Int
        <4>1. Schema!Narrow(Infinity) = Infinity
          BY <2>6 DEF IsFloat
        <4>2. IsFloat(-Infinity)
          BY <2>6, Rounding
        <4>3. Schema!Narrow(-Infinity) = -Infinity
          BY <4>2 DEF IsFloat
        <4>4. -Infinity <= w /\ w <= Infinity
          BY <2>6, <2>7, <3>2, <4>1, <4>3, Rounding
        <4>5. w \in Int /\ IsFloat(w)
          BY <3>2, Rounding DEF IsFloat
        <4>6. QED
          BY <2>4, <2>6, <4>4, <4>5
      <3>3. QED
        BY <2>7, <3>1, <3>2
    <2>10. u # NaN
      BY <2>2, <2>3, <2>5, <2>9, AlwaysReplaced
    <2>11. CellOf(source.f64, f, v) # NaN
      BY <2>6, <2>8, <2>10
    <2>12. \A y \in Int : Schema!Narrow(y) # NaN
      BY <2>6, Rounding DEF IsFloat
    <2>13. v \in Int \/ v = NaN
      BY <2>7
    <2>14. IsFloat(u) \/ u = NaN
      BY <2>2, <2>3, <2>8, AccountedFor
    <2> HIDE DEF u
    <2>15. Schema!Narrow(CellOf(source.f64, f, v)) # NaN
      BY <2>8, <2>10, <2>11, <2>12, <2>13, <2>14 DEF IsFloat
    <2>16. QED
      BY <2>2, <2>11, <2>15 DEF Arriving
  <1>2. QED
    BY <1>1, RowsAreScreened, PTL

\* The rows of the call are as wide as the model has features.
LEMMA CallIsReady ==
  ASSUME ScoreInv, phase = "gathered"
  PROVE  ReadyFor(declared.trees, Len(declared.features))
  <1> DEFINE m == declared
  <1>1. /\ m \in Models /\ source \in Sources /\ batch = RowsOf(m, source)
        /\ ensemble = Converted(m.trees) /\ forest = BuildForest(ensemble)
    BY DEF ScoreInv
  <1>2. EnsembleOK(m.trees, Len(m.features))
    BY <1>1, EnsembleAssumption
  <1>3. /\ DOMAIN m.features = 1 .. Len(m.features)
        /\ DOMAIN source.rows = 1 .. Len(source.rows) /\ Len(source.rows) \in Nat
    BY <1>1, ScoringAssumption
  <1> DEFINE cell(r, k) == Arriving(m, CellOf(source.f64, m.features[k],
                                              source.rows[r][m.features[k].col]))
             rows == [r \in DOMAIN source.rows |-> [k \in DOMAIN m.features |-> cell(r, k)]]
             n == Len(source.rows)
  <1>4. batch = rows
    BY <1>1, Zenon DEF RowsOf
  <1> HIDE DEF m, cell
  <1>5. DOMAIN rows = 1 .. n /\ \A r \in 1 .. n : DOMAIN rows[r] = 1 .. Len(m.features)
    BY <1>3
  <1>6. Len(rows) = n
    BY <1>3
  <1> HIDE DEF rows, n
  <1>7. n \in Nat
    BY <1>3 DEF n
  <1>8. QED
    BY <1>1, <1>2, <1>4, <1>5, <1>6, <1>7 DEF ReadyFor, m

\* Whatever path predict_impl takes, a row's scores are those of the leaves the
\* declared trees mean for it, unless a missing value has to go left in a batch
\* (src/nodes/tree_ensemble_node.cpp:1231-1568).
THEOREM ScoresAreDeclared == ScoreSpec => []ScoresAsDeclared
  <1> DEFINE Both == ScoreInv /\ ScoresAsDeclared
  <1>1. ScoreInit => Both
    BY DEF ScoreInit, ScoreInv, ScoresAsDeclared
  <1>2. Both /\ [ScoreNext]_svars => Both'
    <2>1. SUFFICES ASSUME ScoreInv, ScoresAsDeclared, [ScoreNext]_svars, phase' = "scored",
                          DefaultsSafe'
                   PROVE  output' = AllMeant'
      BY ScoreKeeps DEF ScoresAsDeclared
    <2>2. CASE UNCHANGED svars
      <3>1. /\ phase' = phase /\ output' = output /\ batch' = batch /\ declared' = declared
            /\ ensemble' = ensemble
        BY <2>2 DEF svars, tvars
      <3>2. DefaultsSafe' = DefaultsSafe
        BY <3>1 DEF DefaultsSafe, HasNaN, OneRow, PlainSum
      <3>3. AllMeant' = AllMeant
        BY <3>1 DEF AllMeant
      <3>4. QED
        BY <2>1, <3>1, <3>2, <3>3 DEF ScoresAsDeclared
    <2>3. CASE Score
      <3>1. phase = "gathered" /\ PredictImpl /\ declared' = declared
        BY <2>3 DEF Score
      <3>2. batch' = batch /\ ensemble' = ensemble
        BY <3>1 DEF PredictImpl, ScoreInPool, ScoreForestRow, ScoreTreesRow,
             ScoreForestBlocks, ScoreBlocks, ScoreByTree, Finish
      <3>3. DefaultsSafe
        BY <2>1, <3>1, <3>2 DEF DefaultsSafe, HasNaN, OneRow, PlainSum
      <3> DEFINE m == declared.trees
                 w == Len(declared.features)
      <3>4. ReadyFor(m, w)
        BY <2>1, <3>1, CallIsReady
      <3>5. \/ ~HasNaN
            \/ OneRow /\ PlainSum
            \/ \A t \in DOMAIN m.trees : RightByDefault(m.trees[t])
        BY <3>3 DEF DefaultsSafe, RightByDefault
      <3>6. AllMeant' = [r \in DOMAIN batch |-> MeantRow(m, batch[r])]
        BY <3>1, <3>2 DEF AllMeant
      <3> HIDE DEF m, w
      <3>7. output' = [r \in DOMAIN batch |-> MeantRow(m, batch[r])]
        BY <3>1, <3>4, <3>5, PredictsAsMeant
      <3>8. QED
        BY <3>6, <3>7
    <2>4. CASE Make \/ Reject \/ (\E s \in Sources : Call(s)) \/ Screen \/ Gather
      BY <2>1, <2>4 DEF Make, Reject, Call, Screen, Gather
    <2>5. QED
      BY <2>1, <2>2, <2>3, <2>4 DEF ScoreNext
  <1>3. QED
    BY <1>1, <1>2, PTL DEF ScoreSpec

=============================================================================
