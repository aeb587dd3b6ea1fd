------------------------------- MODULE Loops -------------------------------
(***************************************************************************)
(* Loops written as recursive functions: f[0] is what a loop starts with   *)
(* and f[i] what it holds after its step i.  The library's theorems about  *)
(* recursion and induction are stated for operators; these are for sets    *)
(* and functions.                                                          *)
(***************************************************************************)
EXTENDS Integers, SequencesExt, SequenceTheorems, WellFoundedInduction, TLAPS

\* Induction over the naturals, for a set of them.
LEMMA NatSetInduction ==
  ASSUME NEW S, 0 \in S, \A n \in Nat : n \in S => n + 1 \in S
  PROVE  Nat \subseteq S
  <1> SUFFICES ASSUME Nat \ S # {} PROVE FALSE
    OBVIOUS
  <1> DEFINE R == OpToRel(<, Nat)
             T == Nat \ S
  <1>1. IsWellFoundedOn(R, Nat)
    BY NatLessThanWellFounded
  <1> HIDE DEF R
  <1>2. PICK x \in T : \A y \in T : ~ (<<y, x>> \in R)
    BY <1>1, WFMin
  <1>3. x # 0 /\ x - 1 \in Nat
    BY <1>2
  <1>4. x - 1 \in T
    <2>1. x - 1 \in S => (x - 1) + 1 \in S
      BY <1>3
    <2>2. QED
      BY <1>2, <1>3, <2>1
  <1>5. <<x - 1, x>> \in R
    BY <1>2, <1>3 DEF R, OpToRel
  <1>6. QED
    BY <1>2, <1>4, <1>5

\* A set of naturals with an element has a least one.
LEMMA LeastOf ==
  ASSUME NEW S, S \subseteq Nat, S # {}
  PROVE  \E n \in S : \A m \in S : n <= m
  <1> DEFINE R == OpToRel(<, Nat)
  <1>1. IsWellFoundedOn(R, Nat)
    BY NatLessThanWellFounded
  <1> HIDE DEF R
  <1>2. PICK n \in S : \A m \in S : ~ (<<m, n>> \in R)
    BY <1>1, WFMin
  <1>3. ASSUME NEW m \in S, m < n PROVE FALSE
    <2>1. <<m, n>> \in R
      BY <1>3 DEF R, OpToRel
    <2>2. QED
      BY <1>2, <2>1
  <1>4. \A m \in S : n <= m
    BY <1>3
  <1>5. QED
    BY <1>4

\* A set of naturals with an element and a bound has a greatest one.
LEMMA GreatestOf ==
  ASSUME NEW S, S \subseteq Nat, S # {}, NEW b \in Nat, \A s \in S : s <= b
  PROVE  \E n \in S : \A m \in S : n >= m
  <1> DEFINE T == {b - s : s \in S}
  <1>1. T \subseteq Nat /\ T # {}
    OBVIOUS
  <1>2. \E x \in T : \A y \in T : x <= y
    <2> HIDE DEF T
    <2>1. QED
      BY <1>1, LeastOf
  <1>3. PICK n \in S : \A m \in S : b - n <= b - m
    BY <1>2
  <1>4. \A m \in S : n >= m
    <2>1. TAKE m \in S
    <2>2. b - n <= b - m /\ n \in Nat /\ m \in Nat
      BY <1>3
    <2>3. QED
      BY <2>2
  <1>5. QED
    BY <1>4

\* Step k of a loop of n steps takes what it finds to step[<<k, what it finds>>];
\* it stays in S, and f is its run from a.
StaysIn(S, n, step) == \A k \in 1 .. n, s \in S : step[<<k, s>>] \in S
RunOf(f, n, a, step) ==
  f[0] = a /\ \A k \in 1 .. n : f[k] = step[<<k, f[k - 1]>>]

\* A loop that stays in S, started in S, has a run.
LEMMA LoopRuns ==
  ASSUME NEW n \in Nat, NEW S, NEW a \in S, NEW step, StaysIn(S, n, step)
  PROVE  \E f \in [0 .. n -> S] : RunOf(f, n, a, step)
  <1> DEFINE Run(m, f) == f[0] = a /\ \A i \in 1 .. m : f[i] = step[<<i, f[i - 1]>>]
             T == {m \in Nat : m <= n => \E f \in [0 .. m -> S] : Run(m, f)}
  <1>1. 0 \in T
    <2>1. Run(0, [i \in 0 .. 0 |-> a])
      OBVIOUS
    <2>2. QED
      BY <2>1
  <1> USE DEF StaysIn
  <1>2. ASSUME NEW m \in Nat, m \in T, m + 1 <= n PROVE \E f \in [0 .. m + 1 -> S] : Run(m + 1, f)
    <2>1. PICK f \in [0 .. m -> S] : Run(m, f)
      BY <1>2
    <2> DEFINE g == [i \in 0 .. m + 1 |-> IF i = m + 1 THEN step[<<m + 1, f[m]>>] ELSE f[i]]
    <2>2. g \in [0 .. m + 1 -> S]
      <3>1. m + 1 \in 1 .. n /\ f[m] \in S
        BY <1>2
      <3>2. QED
        BY <3>1
    <2>3. Run(m + 1, g)
      <3>1. g[0] = a
        BY <2>1
      <3>2. ASSUME NEW i \in 1 .. m + 1 PROVE g[i] = step[<<i, g[i - 1]>>]
        <4>1. CASE i = m + 1
          <5>1. g[m] = f[m]
            OBVIOUS
          <5>2. g[m + 1] = step[<<m + 1, f[m]>>]
            OBVIOUS
          <5>3. i - 1 = m
            BY <4>1
          <5>4. QED
            BY <4>1, <5>1, <5>2, <5>3
        <4>2. CASE i \in 1 .. m
          <5>1. i \in 0 .. m + 1 /\ i - 1 \in 0 .. m + 1 /\ i # m + 1 /\ i - 1 # m + 1
            BY <4>2
          <5>2. g[i] = f[i] /\ g[i - 1] = f[i - 1]
            BY <5>1
          <5>3. f[i] = step[<<i, f[i - 1]>>]
            BY <2>1, <4>2
          <5>4. QED
            BY <5>2, <5>3
        <4>3. QED
          BY <4>1, <4>2
      <3>3. QED
        BY <3>1, <3>2
    <2>4. QED
      BY <2>2, <2>3
  <1>3. Nat \subseteq T
    <2>1. \A m \in Nat : m \in T => m + 1 \in T
      BY <1>2
    <2> HIDE DEF T
    <2>2. QED
      BY <1>1, <2>1, NatSetInduction
  <1>4. n \in T
    BY <1>3
  <1>5. QED
    BY <1>4 DEF RunOf

\* What holds before a loop of n steps and is kept by each step holds after each.
LEMMA LoopInvariant ==
  ASSUME NEW n \in Nat, NEW S, 0 \in S, \A k \in 1 .. n : k - 1 \in S => k \in S
  PROVE  0 .. n \subseteq S
  <1> DEFINE T == {k \in Nat : k <= n => k \in S}
  <1>1. 0 \in T
    OBVIOUS
  <1>2. ASSUME NEW k \in Nat, k \in T PROVE k + 1 \in T
    <2>1. SUFFICES ASSUME k + 1 <= n PROVE k + 1 \in S
      OBVIOUS
    <2>2. k + 1 \in 1 .. n /\ (k + 1) - 1 = k /\ k \in S
      BY <1>2, <2>1
    <2>3. QED
      BY <2>2
  <1>3. Nat \subseteq T
    <2>1. \A k \in Nat : k \in T => k + 1 \in T
      BY <1>2
    <2> HIDE DEF T
    <2>2. QED
      BY <1>1, <2>1, NatSetInduction
  <1>4. QED
    BY <1>3

\* The greatest of some indexes is one of them.
LEMMA MaxIsIn ==
  ASSUME NEW n \in Nat, NEW S, S \subseteq 1 .. n, S # {}
  PROVE  Max(S) \in S
  <1>1. S \subseteq Nat /\ \A s \in S : s <= n
    OBVIOUS
  <1>2. \E x \in S : \A y \in S : x >= y
    BY <1>1, GreatestOf
  <1>3. QED
    BY <1>2 DEF Max

-----------------------------------------------------------------------------
(***************************************************************************)
(* FlattenSeq as a loop                                                    *)
(***************************************************************************)

\* Putting sequences one after another.
Concatenates(F, T, n, ss) ==
  /\ F \in [0 .. n -> Seq(T)]
  /\ F[0] = << >> /\ FlattenSeq(ss) = F[n]
  /\ \A k \in 1 .. n : F[k] = F[k - 1] \o ss[k]

LEMMA FlattenRuns ==
  ASSUME NEW T, NEW n \in Nat, NEW ss \in [1 .. n -> Seq(T)]
  PROVE  \E F : Concatenates(F, T, n, ss)
  <1> USE DEF Concatenates
  <1> DEFINE move == [p \in (1 .. n) \X Seq(T) |-> p[2] \o ss[p[1]]]
             flat == CHOOSE f : f = [i \in 1 .. Len(ss) |->
                                       IF i = 1 THEN ss[i] ELSE f[i - 1] \o ss[i]]
  <1>1. Len(ss) = n /\ ss \in Seq(Seq(T))
    OBVIOUS
  <1>2. FlattenSeq(ss) = IF Len(ss) = 0 THEN ss ELSE flat[Len(ss)]
    BY Zenon DEF FlattenSeq
  <1>3. ASSUME NEW k \in 1 .. n, NEW x \in Seq(T)
        PROVE  /\ <<k, x>> \in (1 .. n) \X Seq(T) /\ move[<<k, x>>] = x \o ss[k]
               /\ x \o ss[k] \in Seq(T)
    <2>1. ss[k] \in Seq(T)
      OBVIOUS
    <2>2. x \o ss[k] \in Seq(T)
      BY <2>1, ConcatProperties
    <2>3. QED
      BY <2>2
  <1>4. StaysIn(Seq(T), n, move)
    BY <1>3 DEF StaysIn
  <1>5. PICK F \in [0 .. n -> Seq(T)] : RunOf(F, n, << >>, move)
    <2> HIDE DEF move
    <2>1. << >> \in Seq(T)
      OBVIOUS
    <2>2. QED
      BY <1>4, <2>1, LoopRuns
  <1>6. F[0] = << >>
    BY <1>5 DEF RunOf
  <1>7. ASSUME NEW k \in 1 .. n PROVE F[k] = F[k - 1] \o ss[k]
    <2>1. F[k - 1] \in Seq(T)
      BY <1>5
    <2>2. F[k] = move[<<k, F[k - 1]>>]
      BY <1>5 DEF RunOf
    <2>3. QED
      BY <1>3, <2>1, <2>2
  <1>8. CASE n = 0
    <2>1. ss = << >>
      BY <1>1, <1>8, EmptySeq
    <2>2. QED
      BY <1>1, <1>2, <1>5, <1>6, <1>7, <1>8, <2>1
  <1>9. CASE n # 0
    <2> DEFINE f == [i \in 1 .. n |-> F[i]]
    <2>1. f = [i \in 1 .. Len(ss) |-> IF i = 1 THEN ss[i] ELSE f[i - 1] \o ss[i]]
      <3>1. ASSUME NEW i \in 1 .. n PROVE F[i] = IF i = 1 THEN ss[i] ELSE f[i - 1] \o ss[i]
        <4>1. CASE i = 1
          <5>1. ss[1] \in Seq(T) /\ F[1] = F[0] \o ss[1]
            <6>1. 1 \in 1 .. n /\ 1 - 1 = 0
              BY <4>1
            <6>2. QED
              BY <1>7, <6>1
          <5>2. << >> \o ss[1] = ss[1]
            BY <5>1, ConcatEmptySeq
          <5>3. QED
            BY <1>6, <4>1, <5>1, <5>2
        <4>2. CASE i # 1
          <5>1. i - 1 \in 1 .. n
            BY <4>2
          <5>2. QED
            BY <1>7, <4>2, <5>1
        <4>3. QED
          BY <4>1, <4>2
      <3>2. QED
        BY <1>1, <3>1
    <2> HIDE DEF f
    <2>2. flat = [i \in 1 .. Len(ss) |-> IF i = 1 THEN ss[i] ELSE flat[i - 1] \o ss[i]]
      BY <2>1, Zenon
    <2> HIDE DEF flat
    <2>3. ASSUME NEW i \in 1 .. n PROVE flat[i] = IF i = 1 THEN ss[i] ELSE flat[i - 1] \o ss[i]
      BY <1>1, <2>2
    <2>4. ASSUME NEW i \in 1 .. n PROVE flat[i] = F[i]
      <3> DEFINE S == {0} \cup {k \in 1 .. n : flat[k] = F[k]}
      <3>1. ASSUME NEW k \in 1 .. n, k - 1 \in S PROVE k \in S
        <4>1. CASE k = 1
          <5>1. ss[1] \in Seq(T) /\ F[1] = F[0] \o ss[1] /\ flat[1] = ss[1]
            <6>1. 1 \in 1 .. n /\ 1 - 1 = 0
              BY <4>1
            <6>2. QED
              BY <1>7, <2>3, <6>1
          <5>2. << >> \o ss[1] = ss[1]
            BY <5>1, ConcatEmptySeq
          <5>3. QED
            BY <1>6, <4>1, <5>1, <5>2
        <4>2. CASE k # 1
          <5>1. flat[k - 1] = F[k - 1]
            BY <3>1, <4>2
          <5>2. QED
            BY <1>7, <2>3, <4>2, <5>1
        <4>3. QED
          BY <4>1, <4>2
      <3>2. 0 \in S
        OBVIOUS
      <3> HIDE DEF S
      <3>3. 0 .. n \subseteq S
        BY <3>1, <3>2, LoopInvariant
      <3>4. QED
        BY <3>3 DEF S
    <2>5. FlattenSeq(ss) = F[n]
      <3>1. n \in 1 .. n
        BY <1>9
      <3>2. QED
        BY <1>1, <1>2, <1>9, <2>4, <3>1
    <2>6. QED
      BY <1>5, <1>6, <1>7, <2>5
  <1>10. QED
    BY <1>8, <1>9

\* Where each of the sequences lies in the one made of them: before element
\* off[k - 1] + 1 are those of the first k - 1.
PlacedAt(off, n, ss) ==
  /\ off \in [0 .. n -> Nat] /\ off[0] = 0 /\ off[n] = Len(FlattenSeq(ss))
  /\ \A k \in 1 .. n :
       /\ off[k] = off[k - 1] + Len(ss[k]) /\ off[k] <= off[n]
       /\ \A j \in 1 .. Len(ss[k]) : FlattenSeq(ss)[off[k - 1] + j] = ss[k][j]

LEMMA FlattenPlaces ==
  ASSUME NEW T, NEW n \in Nat, NEW ss \in [1 .. n -> Seq(T)]
  PROVE  FlattenSeq(ss) \in Seq(T) /\ \E off : PlacedAt(off, n, ss)
  <1>1. PICK F : Concatenates(F, T, n, ss)
    BY FlattenRuns
  <1> HIDE DEF Concatenates
  <1> DEFINE off == [k \in 0 .. n |-> Len(F[k])]
             Holds(m, k) == /\ off[k] <= off[m]
                            /\ \A j \in 1 .. off[k] : F[m][j] = F[k][j]
  <1>2. off \in [0 .. n -> Nat] /\ \A k \in 0 .. n : off[k] = Len(F[k]) /\ off[k] \in Nat
    BY <1>1 DEF Concatenates
  <1>3. off[0] = 0 /\ off[n] = Len(F[n])
    BY <1>1 DEF Concatenates
  <1>4. ASSUME NEW k \in 1 .. n
        PROVE  /\ F[k - 1] \in Seq(T) /\ F[k] \in Seq(T) /\ ss[k] \in Seq(T)
               /\ off[k] = off[k - 1] + Len(ss[k])
               /\ \A j \in 1 .. off[k - 1] : F[k][j] = F[k - 1][j]
               /\ \A j \in 1 .. Len(ss[k]) : F[k][off[k - 1] + j] = ss[k][j]
    <2>1. k - 1 \in 0 .. n /\ k \in 0 .. n
      OBVIOUS
    <2>2. F[k - 1] \in Seq(T) /\ ss[k] \in Seq(T) /\ F[k] = F[k - 1] \o ss[k]
      BY <1>1, <2>1 DEF Concatenates
    <2> DEFINE a == F[k - 1]
               b == ss[k]
    <2>3. /\ Len(a \o b) = Len(a) + Len(b) /\ a \o b \in Seq(T)
          /\ \A i \in 1 .. Len(a) + Len(b) : (a \o b)[i] = IF i <= Len(a) THEN a[i] ELSE b[i - Len(a)]
      <3> HIDE DEF a, b
      <3>1. a \in Seq(T) /\ b \in Seq(T)
        BY <2>2 DEF a, b
      <3>2. QED
        BY <3>1, ConcatProperties
    <2> HIDE DEF off
    <2>4. Len(a) \in Nat /\ Len(b) \in Nat /\ off[k - 1] = Len(a) /\ off[k] = Len(F[k]) /\ F[k] = a \o b
      <3>1. Len(a) \in Nat /\ Len(b) \in Nat /\ F[k] = a \o b
        BY <2>2
      <3>2. off[k - 1] = Len(F[k - 1]) /\ off[k] = Len(F[k])
        BY <1>2, <2>1
      <3>3. QED
        BY <3>1, <3>2
    <2> HIDE DEF a, b
    <2>5. \A j \in 1 .. Len(a) : j \in 1 .. Len(a) + Len(b) /\ j <= Len(a)
      BY <2>4
    <2>6. \A j \in 1 .. Len(b) : /\ Len(a) + j \in 1 .. Len(a) + Len(b) /\ ~(Len(a) + j <= Len(a))
                                  /\ (Len(a) + j) - Len(a) = j
      BY <2>4
    <2>7. QED
      BY <2>2, <2>3, <2>4, <2>5, <2>6 DEF a, b
  <1> HIDE DEF off
  <1> DEFINE S == {m \in 0 .. n : \A k \in 0 .. m : Holds(m, k)}
  <1>5. 0 \in S
    BY <1>2
  <1>6. ASSUME NEW m \in 1 .. n, m - 1 \in S PROVE m \in S
    <2>1. ASSUME NEW k \in 0 .. m PROVE Holds(m, k)
      <3>1. CASE k = m
        BY <1>2, <3>1
      <3>2. CASE k # m
        <4>1. k \in 0 .. m - 1 /\ m - 1 \in 0 .. n /\ k \in 0 .. n
          BY <3>2
        <4>2. Holds(m - 1, k)
          BY <1>6, <4>1
        <4>3. off[m - 1] <= off[m] /\ off[k] \in Nat /\ off[m - 1] \in Nat /\ off[m] \in Nat
          <5>1. Len(ss[m]) \in Nat
            BY <1>4
          <5>2. QED
            BY <1>2, <1>4, <4>1, <5>1
        <4>4. \A j \in 1 .. off[k] : j \in 1 .. off[m - 1]
          BY <4>2, <4>3
        <4>5. QED
          BY <1>4, <4>2, <4>3, <4>4
      <3>3. QED
        BY <3>1, <3>2
    <2> HIDE DEF Holds
    <2>2. QED
      BY <2>1
  <1> HIDE DEF S
  <1>7. 0 .. n \subseteq S
    BY <1>5, <1>6, LoopInvariant
  <1>8. ASSUME NEW k \in 0 .. n PROVE Holds(n, k)
    BY <1>7 DEF S
  <1>9. ASSUME NEW k \in 1 .. n
        PROVE  /\ off[k] = off[k - 1] + Len(ss[k]) /\ off[k] <= off[n]
               /\ \A j \in 1 .. Len(ss[k]) : F[n][off[k - 1] + j] = ss[k][j]
    <2>1. k \in 0 .. n /\ k - 1 \in 0 .. n /\ Len(ss[k]) \in Nat
      BY <1>4
    <2>2. off[k] <= off[n] /\ \A j \in 1 .. off[k] : F[n][j] = F[k][j]
      BY <1>8, <2>1
    <2>3. \A j \in 1 .. Len(ss[k]) : off[k - 1] + j \in 1 .. off[k]
      <3>1. off[k - 1] \in Nat /\ off[k] = off[k - 1] + Len(ss[k])
        BY <1>2, <1>4, <2>1
      <3>2. QED
        BY <2>1, <3>1
    <2>4. QED
      BY <1>4, <2>2, <2>3
  <1>10. F[n] \in Seq(T) /\ FlattenSeq(ss) = F[n]
    BY <1>1 DEF Concatenates
  <1>11. PlacedAt(off, n, ss)
    BY <1>2, <1>3, <1>9, <1>10 DEF PlacedAt
  <1>12. QED
    BY <1>1, <1>10, <1>11

=============================================================================
