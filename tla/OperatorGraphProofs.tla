------------------------- MODULE OperatorGraphProofs -------------------------
(***************************************************************************)
(* A batch cut into slices gives what it gives whole.                      *)
(***************************************************************************)
EXTENDS OperatorGraph, Loops, SequenceTheorems, FiniteSetTheorems

-----------------------------------------------------------------------------
(***************************************************************************)
(* Sequences and tables                                                    *)
(***************************************************************************)

\* A sequence, of whatever it is of.
IsSeq(s) == Len(s) \in Nat /\ s = [i \in 1 .. Len(s) |-> s[i]]

LEMMA IsSeqDomain ==
  ASSUME NEW s, IsSeq(s)
  PROVE  DOMAIN s = 1 .. Len(s)
  BY DEF IsSeq

LEMMA MadeSeq ==
  ASSUME NEW s, NEW n \in Nat, NEW g, s = [i \in 1 .. n |-> g[i]]
  PROVE  IsSeq(s) /\ Len(s) = n /\ \A i \in 1 .. n : s[i] = g[i]
  BY DEF IsSeq

LEMMA SameSeq ==
  ASSUME NEW s, NEW t, IsSeq(s), IsSeq(t), Len(s) = Len(t), \A i \in 1 .. Len(s) : s[i] = t[i]
  PROVE  s = t
  BY DEF IsSeq

LEMMA InSeq ==
  ASSUME NEW s, IsSeq(s)
  PROVE  \E V : s \in Seq(V)
  <1> DEFINE V == {s[i] : i \in 1 .. Len(s)}
  <1>1. s \in Seq(V)
    BY DEF IsSeq
  <1>2. QED
    BY <1>1

LEMMA SeqIs ==
  ASSUME NEW V, NEW s \in Seq(V)
  PROVE  IsSeq(s)
  BY DEF IsSeq

LEMMA SubSeqIs ==
  ASSUME NEW s, IsSeq(s), NEW a \in Nat, NEW n \in Nat, a + n <= Len(s)
  PROVE  /\ IsSeq(SubSeq(s, a + 1, a + n)) /\ Len(SubSeq(s, a + 1, a + n)) = n
         /\ \A i \in 1 .. n : SubSeq(s, a + 1, a + n)[i] = s[a + i]
  <1> DEFINE V == {s[i] : i \in 1 .. Len(s)}
  <1> DEFINE t == SubSeq(s, a + 1, a + n)
  <1>1. \A i \in a + 1 .. a + n : s[i] \in V
    OBVIOUS
  <1> HIDE DEF V
  <1>2. t \in Seq(V) /\ Len(t) = IF a + 1 <= a + n THEN (a + n) - (a + 1) + 1 ELSE 0
    BY <1>1, SubSeqProperties
  <1>3. \A i \in 1 .. (a + n) - (a + 1) + 1 : t[i] = s[(a + 1) + i - 1]
    BY <1>1, SubSeqProperties
  <1>4. Len(t) = n
    BY <1>2
  <1>5. ASSUME NEW i \in 1 .. n PROVE t[i] = s[a + i]
    <2>1. i \in 1 .. (a + n) - (a + 1) + 1 /\ (a + 1) + i - 1 = a + i
      OBVIOUS
    <2>2. QED
      BY <1>3, <2>1
  <1>6. IsSeq(t)
    BY <1>2, SeqIs
  <1>7. QED
    BY <1>4, <1>5, <1>6

LEMMA WrittenIs ==
  ASSUME NEW s, IsSeq(s)
  PROVE  Written(s) = s
  <1> DEFINE t == SubSeq(s, 0 + 1, 0 + Len(s))
  <1>1. IsSeq(t) /\ Len(t) = Len(s) /\ \A i \in 1 .. Len(s) : t[i] = s[0 + i]
    BY SubSeqIs DEF IsSeq
  <1>2. \A i \in 1 .. Len(s) : t[i] = s[i]
    BY <1>1
  <1>3. t = s
    BY <1>1, <1>2, SameSeq
  <1>4. t = Written(s)
    BY DEF Written
  <1>5. QED
    BY <1>3, <1>4

\* A tensor of n rows of one length.
IsTable(t, n) ==
  /\ t = [type |-> t.type, cells |-> t.cells]
  /\ IsSeq(t.cells) /\ Len(t.cells) = n
  /\ \A r \in 1 .. n : IsSeq(t.cells[r]) /\ Len(t.cells[r]) = NCols(t)

LEMMA CellsChanged ==
  ASSUME NEW t, t = [type |-> t.type, cells |-> t.cells], NEW c
  PROVE  [t EXCEPT !.cells = c] = [type |-> t.type, cells |-> c]
  <1>1. PICK ty, cs : t = [type |-> ty, cells |-> cs]
    OBVIOUS
  <1>2. [t EXCEPT !.cells = c] = [type |-> ty, cells |-> c]
    BY <1>1
  <1>3. t.type = ty
    BY <1>1
  <1>4. QED
    BY <1>2, <1>3

\* Rows a + 1 to a + n of N.
IsSlice(a, n, N) == a \in Nat /\ n \in Nat \ {0} /\ N \in Nat \ {0} /\ a + n <= N

\* A slice of a table is a table with the same columns.
LEMMA SlicedIs ==
  ASSUME NEW a, NEW n, NEW N, IsSlice(a, n, N), NEW t, IsTable(t, N)
  PROVE  /\ IsTable(Sliced(t, a, n), n)
         /\ Sliced(t, a, n).type = t.type /\ NCols(Sliced(t, a, n)) = NCols(t)
         /\ NRows(Sliced(t, a, n)) = n /\ Cols(Sliced(t, a, n)) = Cols(t)
         /\ \A r \in 1 .. n : a + r \in 1 .. N /\ Sliced(t, a, n).cells[r] = t.cells[a + r]
  <1> DEFINE c == SubSeq(t.cells, a + 1, a + n)
             u == Sliced(t, a, n)
  <1>1. IsSeq(c) /\ Len(c) = n /\ \A r \in 1 .. n : c[r] = t.cells[a + r]
    <2>1. IsSeq(t.cells) /\ Len(t.cells) = N
      BY DEF IsTable
    <2>2. QED
      BY <2>1, SubSeqIs DEF IsSlice
  <1>2. u = [type |-> t.type, cells |-> c]
    <2>1. u = [t EXCEPT !.cells = c]
      BY DEF Sliced
    <2> HIDE DEF c, u
    <2>2. t = [type |-> t.type, cells |-> t.cells]
      BY DEF IsTable
    <2>3. QED
      BY <2>1, <2>2, CellsChanged
  <1> HIDE DEF c, u
  <1>3. u.type = t.type /\ u.cells = c
    BY <1>2
  <1>4. \A r \in 1 .. n : a + r \in 1 .. N
    BY DEF IsSlice
  <1>5. 1 \in 1 .. n /\ 1 \in 1 .. N
    BY DEF IsSlice
  <1>6. NCols(u) = NCols(t)
    <2>1. u.cells[1] = t.cells[a + 1]
      BY <1>1, <1>3, <1>5
    <2>2. Len(t.cells[a + 1]) = NCols(t)
      BY <1>4, <1>5 DEF IsTable
    <2>3. QED
      BY <2>1, <2>2 DEF NCols
  <1>7. \A r \in 1 .. n : IsSeq(c[r]) /\ Len(c[r]) = NCols(t)
    BY <1>1, <1>4 DEF IsTable
  <1>8. IsTable(u, n)
    BY <1>1, <1>2, <1>3, <1>6, <1>7 DEF IsTable
  <1>9. NRows(u) = n /\ Cols(u) = Cols(t)
    BY <1>1, <1>3, <1>6 DEF NRows, Cols
  <1>10. QED
    BY <1>1, <1>3, <1>4, <1>6, <1>8, <1>9 DEF u

\* An element of a slice is that of the whole, below the rows before it.
LEMMA GetSliced ==
  ASSUME NEW a, NEW n, NEW N, IsSlice(a, n, N), NEW t, IsTable(t, N),
         NEW r \in 1 .. n, NEW c, NCols(t) = 1 => c = 1
  PROVE  Get(Sliced(t, a, n), r, c) = Get(t, a + r, c)
  <1> DEFINE u == Sliced(t, a, n)
  <1>1. /\ u.type = t.type /\ NCols(u) = NCols(t) /\ NRows(u) = n
        /\ u.cells[r] = t.cells[a + r]
    BY SlicedIs
  <1>2. NRows(t) = N
    BY DEF IsTable, NRows
  <1> SUFFICES Get(u, r, c) = Get(t, a + r, c)
    OBVIOUS
  <1> HIDE DEF u
  <1>3. CASE NCols(t) = 1
    <2>1. n = 1 => r = 1
      OBVIOUS
    <2>2. N = 1 => n = 1 /\ a = 0 /\ r = 1 /\ a + r = 1
      BY DEF IsSlice
    <2>3. QED
      BY <1>1, <1>2, <1>3, <2>1, <2>2 DEF Get
  <1>4. CASE NCols(t) # 1
    BY <1>1, <1>2, <1>4 DEF Get
  <1>5. QED
    BY <1>3, <1>4

-----------------------------------------------------------------------------
(***************************************************************************)
(* Sums, and how a cut batch lies                                          *)
(***************************************************************************)

LEMMA PlusNat ==
  ASSUME NEW v \in Int, NEW w \in Int
  PROVE  Plus(v, w) = v + w
  BY OperatorAssumption DEF Plus

\* Where the parts of a sequence of sizes end.
EndsAt(off, c) ==
  /\ off \in [0 .. Len(c) -> Nat] /\ off[0] = 0
  /\ \A k \in 1 .. Len(c) : off[k] = off[k - 1] + c[k]

\* Element v is in one of the parts.
InPart(off, c, v) == \E k \in 1 .. Len(c) : \E r \in 1 .. c[k] : v = off[k - 1] + r

\* What Sum makes of numbers whose ends are known.
LEMMA SumEnds ==
  ASSUME NEW s, IsSeq(s), \A i \in 1 .. Len(s) : s[i] \in Nat, NEW off, EndsAt(off, s)
  PROVE  Sum(s) = off[Len(s)]
  <1> DEFINE L == Len(s)
             to == CHOOSE f : f = [i \in 0 .. Len(s) |-> IF i = 0 THEN 0 ELSE Plus(f[i - 1], s[i])]
             f == [i \in 0 .. L |-> off[i]]
  <1>1. Sum(s) = to[Len(s)]
    BY Zenon DEF Sum
  <1>2. L \in Nat
    BY DEF IsSeq
  <1>3. ASSUME NEW i \in 0 .. L PROVE off[i] = IF i = 0 THEN 0 ELSE Plus(off[i - 1], s[i])
    <2>1. CASE i = 0
      BY <2>1 DEF EndsAt
    <2>2. CASE i # 0
      <3>1. i \in 1 .. L /\ i - 1 \in 0 .. L
        BY <2>2
      <3>2. off[i] = off[i - 1] + s[i] /\ off[i - 1] \in Nat /\ s[i] \in Nat
        BY <3>1 DEF EndsAt
      <3>3. off[i - 1] \in Int /\ s[i] \in Int
        BY <3>2
      <3>4. Plus(off[i - 1], s[i]) = off[i - 1] + s[i]
        BY <3>3, PlusNat
      <3>5. QED
        BY <2>2, <3>2, <3>4
    <2>3. QED
      BY <2>1, <2>2
  <1>4. \E g : g = [i \in 0 .. L |-> IF i = 0 THEN 0 ELSE Plus(g[i - 1], s[i])]
    <2>1. ASSUME NEW i \in 0 .. L PROVE f[i] = IF i = 0 THEN 0 ELSE Plus(f[i - 1], s[i])
      <3>1. i # 0 => i - 1 \in 0 .. L
        OBVIOUS
      <3>2. f[i] = off[i] /\ (i # 0 => f[i - 1] = off[i - 1])
        BY <3>1
      <3> HIDE DEF f
      <3>3. QED
        BY <1>3, <3>2
    <2>2. f = [i \in 0 .. L |-> f[i]]
      OBVIOUS
    <2> HIDE DEF f
    <2>3. f = [i \in 0 .. L |-> IF i = 0 THEN 0 ELSE Plus(f[i - 1], s[i])]
      BY <2>1, <2>2
    <2>4. QED
      BY <2>3
  <1>5. to = [i \in 0 .. L |-> IF i = 0 THEN 0 ELSE Plus(to[i - 1], s[i])]
    BY <1>4, Zenon
  <1> HIDE DEF to, f
  <1>6. \A i \in 0 .. L : to[i] = IF i = 0 THEN 0 ELSE Plus(to[i - 1], s[i])
    BY <1>5
  <1> DEFINE S == {i \in 0 .. L : to[i] = off[i]}
  <1>7. 0 \in S
    BY <1>2, <1>3, <1>6
  <1>8. ASSUME NEW k \in 1 .. L, k - 1 \in S PROVE k \in S
    <2>1. k \in 0 .. L /\ k # 0 /\ to[k - 1] = off[k - 1]
      BY <1>8
    <2>2. QED
      BY <1>3, <1>6, <2>1
  <1> HIDE DEF S
  <1>9. 0 .. L \subseteq S
    BY <1>2, <1>7, <1>8, LoopInvariant
  <1>10. L \in S
    BY <1>2, <1>9
  <1>11. QED
    BY <1>1, <1>10 DEF S

\* The ends of the parts, and the sums of what is before them.
LEMMA SumsAre ==
  ASSUME NEW c, IsSeq(c), \A i \in 1 .. Len(c) : c[i] \in Nat
  PROVE  \E off : /\ EndsAt(off, c) /\ Sum(c) = off[Len(c)]
                  /\ \A k \in 0 .. Len(c) : Sum(SubSeq(c, 1, k)) = off[k]
  <1> DEFINE L == Len(c)
             move == [p \in (1 .. L) \X Nat |-> p[2] + c[p[1]]]
  <1>1. L \in Nat
    BY DEF IsSeq
  <1>2. ASSUME NEW k \in 1 .. L, NEW x \in Nat
        PROVE  <<k, x>> \in (1 .. L) \X Nat /\ move[<<k, x>>] = x + c[k] /\ x + c[k] \in Nat
    <2>1. x + c[k] \in Nat
      OBVIOUS
    <2>2. QED
      BY <2>1
  <1>3. StaysIn(Nat, L, move)
    BY <1>2 DEF StaysIn
  <1>4. PICK off \in [0 .. L -> Nat] : RunOf(off, L, 0, move)
    <2> HIDE DEF move
    <2>1. QED
      BY <1>1, <1>3, LoopRuns
  <1>5. ASSUME NEW k \in 1 .. L PROVE off[k] = off[k - 1] + c[k]
    <2>1. k - 1 \in 0 .. L
      OBVIOUS
    <2>2. off[k - 1] \in Nat /\ off[k] = move[<<k, off[k - 1]>>]
      BY <1>4, <2>1 DEF RunOf
    <2>3. QED
      BY <1>2, <2>2
  <1>6. EndsAt(off, c)
    BY <1>4, <1>5 DEF EndsAt, RunOf
  <1> HIDE DEF move
  <1>7. Sum(c) = off[L]
    BY <1>6, SumEnds
  <1>8. ASSUME NEW k \in 0 .. L PROVE Sum(SubSeq(c, 1, k)) = off[k]
    <2> DEFINE s == SubSeq(c, 0 + 1, 0 + k)
               cutoff == [i \in 0 .. k |-> off[i]]
    <2>1. IsSeq(s) /\ Len(s) = k /\ \A i \in 1 .. k : s[i] = c[0 + i]
      <3>1. 0 \in Nat /\ k \in Nat /\ 0 + k <= Len(c)
        BY <1>1
      <3>2. QED
        BY <3>1, SubSeqIs
    <2>2. s = SubSeq(c, 1, k)
      OBVIOUS
    <2> HIDE DEF s
    <2>3. \A i \in 1 .. k : i \in 1 .. L /\ s[i] = c[i] /\ s[i] \in Nat
      BY <1>1, <2>1
    <2>4. EndsAt(cutoff, s)
      <3>1. cutoff \in [0 .. k -> Nat]
        BY <1>4
      <3>2. cutoff[0] = 0
        BY <1>6 DEF EndsAt
      <3>3. ASSUME NEW i \in 1 .. k PROVE cutoff[i] = cutoff[i - 1] + s[i]
        BY <1>5, <2>3
      <3>4. QED
        BY <2>1, <3>1, <3>2, <3>3 DEF EndsAt
    <2>5. Sum(s) = cutoff[k]
      BY <2>1, <2>3, <2>4, SumEnds
    <2>6. QED
      BY <2>2, <2>5
  <1>9. QED
    BY <1>6, <1>7, <1>8

\* The ends of parts grow, and each number below the last end is in a part.
LEMMA EndsGrow ==
  ASSUME NEW c, IsSeq(c), \A i \in 1 .. Len(c) : c[i] \in Nat, NEW off, EndsAt(off, c)
  PROVE  /\ \A k \in 0 .. Len(c), m \in 0 .. Len(c) : k <= m => off[k] <= off[m]
         /\ \A v \in 1 .. off[Len(c)] : InPart(off, c, v)
  <1> DEFINE L == Len(c)
  <1>0. L \in Nat
    BY DEF IsSeq
  <1>1. ASSUME NEW k \in 0 .. L, NEW m \in 0 .. L, k <= m PROVE off[k] <= off[m]
    <2> DEFINE S == {i \in 0 .. L : k <= i => off[k] <= off[i]}
    <2>1. 0 \in S
      <3>1. off[0] \in Nat /\ (k <= 0 => k = 0)
        BY <1>0 DEF EndsAt
      <3>2. QED
        BY <1>0, <3>1
    <2>2. ASSUME NEW i \in 1 .. L, i - 1 \in S PROVE i \in S
      <3>1. off[i] = off[i - 1] + c[i] /\ off[i - 1] \in Nat /\ c[i] \in Nat /\ off[k] \in Nat
        <4>1. i - 1 \in 0 .. L
          BY <1>0
        <4>2. off \in [0 .. L -> Nat] /\ off[i] = off[i - 1] + c[i]
          BY DEF EndsAt
        <4>3. QED
          BY <4>1, <4>2
      <3>2. CASE k <= i - 1
        BY <2>2, <3>1, <3>2
      <3>3. CASE ~(k <= i - 1)
        <4>1. k <= i => k = i
          BY <3>3
        <4>2. QED
          BY <3>1, <4>1
      <3>4. QED
        BY <3>2, <3>3
    <2> HIDE DEF S
    <2>3. 0 .. L \subseteq S
      BY <1>0, <2>1, <2>2, LoopInvariant
    <2>4. QED
      BY <1>1, <2>3 DEF S
  <1>2. ASSUME NEW v \in 1 .. off[L] PROVE \E k \in 1 .. L : \E r \in 1 .. c[k] : v = off[k - 1] + r
    <2> DEFINE R == {k \in 0 .. L : v <= off[k]}
    <2>1. R \subseteq Nat /\ L \in R
      BY <1>0
    <2>2. PICK k \in R : \A m \in R : k <= m
      <3> HIDE DEF R
      <3>1. QED
        BY <2>1, LeastOf
    <2>3. k # 0
      BY <1>0 DEF EndsAt
    <2>4. k \in 1 .. L /\ k - 1 \in 0 .. L /\ k - 1 \notin R
      BY <2>2, <2>3
    <2>5. off[k] = off[k - 1] + c[k] /\ off[k - 1] \in Nat /\ c[k] \in Nat /\ off[k - 1] < v /\ v <= off[k]
      <3>1. off[k] = off[k - 1] + c[k] /\ off[k - 1] \in Nat /\ c[k] \in Nat
        BY <2>4 DEF EndsAt
      <3>2. ~(v <= off[k - 1]) /\ v <= off[k] /\ v \in Int
        BY <2>4, <1>0 DEF EndsAt
      <3>3. QED
        BY <3>1, <3>2
    <2>6. v - off[k - 1] \in 1 .. c[k] /\ v = off[k - 1] + (v - off[k - 1])
      BY <2>5
    <2>7. QED
      BY <2>4, <2>6
  <1>3. QED
    BY <1>1, <1>2 DEF InPart

-----------------------------------------------------------------------------
(***************************************************************************)
(* Stores, calls and what is asked of a call                               *)
(***************************************************************************)

\* A store of tables of N rows, and the slice of each.
IsStore(values, N) ==
  values = [m \in DOMAIN values |-> values[m]] /\ \A m \in DOMAIN values : IsTable(values[m], N)
StoreSlice(values, a, n) == [m \in DOMAIN values |-> Sliced(values[m], a, n)]

\* A call on a slice of what another reads.
Part(x, a, n) ==
  [[x EXCEPT !.in = [i \in DOMAIN x.in |-> Sliced(x.in[i], a, n)]]
     EXCEPT !.scope = StoreSlice(x.scope, a, n)]

\* Tables of N rows, and another answer that gives the slices of them.
AreTables(ts, N) == IsSeq(ts) /\ \A i \in 1 .. Len(ts) : IsTable(ts[i], N)
AreSlices(ts, us, a, n) == us = [i \in DOMAIN ts |-> Sliced(ts[i], a, n)]
Shares(got, part, a, n) == part.ok /\ AreSlices(got.out, part.out, a, n)

\* Whether the answer to a call gives for each slice the slices of what it gives
\* for N rows, or refuses every slice.
Splits(got, part, a, n) == IF got.ok THEN Shares(got, part, a, n) ELSE ~part.ok
RowLocal(x, N) ==
  /\ Answer(x).ok => AreTables(Answer(x).out, N)
  /\ \A a \in 0 .. N, n \in 1 .. N :
       IsSlice(a, n, N) => Splits(Answer(x), Answer(Part(x, a, n)), a, n)

LEMMA SlicedWhole ==
  ASSUME NEW N \in Nat \ {0}, NEW t, IsTable(t, N)
  PROVE  Sliced(t, 0, N) = t
  <1> DEFINE u == Sliced(t, 0, N)
  <1>1. IsSlice(0, N, N)
    BY DEF IsSlice
  <1>2. /\ IsTable(u, N) /\ u.type = t.type
        /\ \A r \in 1 .. N : u.cells[r] = t.cells[0 + r]
    BY <1>1, SlicedIs
  <1> HIDE DEF u
  <1>3. IsSeq(u.cells) /\ IsSeq(t.cells) /\ Len(u.cells) = N /\ Len(t.cells) = N
    BY <1>2 DEF IsTable
  <1>4. \A r \in 1 .. N : u.cells[r] = t.cells[r]
    BY <1>2
  <1>5. u.cells = t.cells
    BY <1>3, <1>4, SameSeq
  <1>6. PICK ty, cs, uy, us : t = [type |-> ty, cells |-> cs] /\ u = [type |-> uy, cells |-> us]
    BY <1>2 DEF IsTable
  <1>7. ty = uy /\ cs = us
    BY <1>2, <1>5, <1>6
  <1>8. u = t
    BY <1>6, <1>7
  <1>9. QED
    BY <1>8 DEF u

LEMMA StoreWhole ==
  ASSUME NEW N \in Nat \ {0}, NEW V, IsStore(V, N)
  PROVE  StoreSlice(V, 0, N) = V
  <1>1. \A m \in DOMAIN V : Sliced(V[m], 0, N) = V[m]
    BY SlicedWhole DEF IsStore
  <1>2. StoreSlice(V, 0, N) = [m \in DOMAIN V |-> V[m]]
    BY <1>1 DEF StoreSlice
  <1>3. QED
    BY <1>2 DEF IsStore

\* A call on the slices of a store is the part of the call on the store.
LEMMA CalledSlice ==
  ASSUME NEW N, NEW a, NEW n, NEW V, NEW node, NEW fns, IsSeq(node.in), Reads(node, V)
  PROVE  Called(node, StoreSlice(V, a, n), fns) = Part(Called(node, V, fns), a, n)
  <1> DEFINE W == StoreSlice(V, a, n)
             ins == [i \in DOMAIN node.in |-> V[node.in[i]]]
             cut1 == [i \in DOMAIN node.in |-> W[node.in[i]]]
             cut2 == [i \in DOMAIN ins |-> Sliced(ins[i], a, n)]
  <1>1. \A i \in DOMAIN node.in : node.in[i] \in DOMAIN V
    BY DEF Reads, Range
  <1>2. \A i \in DOMAIN node.in : W[node.in[i]] = Sliced(V[node.in[i]], a, n)
    BY <1>1 DEF StoreSlice
  <1>3. cut1 = cut2
    BY <1>2
  <1>4. Called(node, V, fns) = [op |-> node.op, in |-> ins, names |-> node.in,
           outs |-> Len(node.out), attrs |-> node.attrs, refs |-> node.refs,
           scope |-> V, fns |-> fns, order |-> HashOrder]
    BY DEF Called
  <1>5. Called(node, W, fns) = [op |-> node.op, in |-> cut1, names |-> node.in,
           outs |-> Len(node.out), attrs |-> node.attrs, refs |-> node.refs,
           scope |-> W, fns |-> fns, order |-> HashOrder]
    BY DEF Called
  <1> DEFINE x == Called(node, V, fns)
  <1>6. Part(x, a, n) = [[x EXCEPT !.in = [i \in DOMAIN x.in |-> Sliced(x.in[i], a, n)]]
                                   EXCEPT !.scope = StoreSlice(x.scope, a, n)]
    BY DEF Part
  <1> HIDE DEF ins, cut1, cut2, x, W
  <1>7. x.in = ins /\ x.scope = V
    BY <1>4 DEF x
  <1>8. Part(x, a, n) = [[x EXCEPT !.in = cut2] EXCEPT !.scope = W]
    BY <1>6, <1>7 DEF cut2, W
  <1>9. [[x EXCEPT !.in = cut2] EXCEPT !.scope = W] = Called(node, W, fns)
    <2> DEFINE y == [x EXCEPT !.in = cut2]
    <2>1. PICK o, m, u, p, q, f, h : x = [op |-> o, in |-> ins, names |-> m, outs |-> u, attrs |-> p,
                                          refs |-> q, scope |-> V, fns |-> f, order |-> h]
                                     /\ Called(node, W, fns) =
                                         [op |-> o, in |-> cut1, names |-> m, outs |-> u, attrs |-> p,
                                          refs |-> q, scope |-> W, fns |-> f, order |-> h]
      BY <1>4, <1>5 DEF x
    <2>2. y = [op |-> o, in |-> cut1, names |-> m, outs |-> u, attrs |-> p,
               refs |-> q, scope |-> V, fns |-> f, order |-> h]
      BY <1>3, <2>1
    <2> HIDE DEF y
    <2>3. [y EXCEPT !.scope = W] = [op |-> o, in |-> cut1, names |-> m, outs |-> u, attrs |-> p,
               refs |-> q, scope |-> W, fns |-> f, order |-> h]
      BY <2>2
    <2>4. QED
      BY <2>1, <2>3 DEF y
  <1>10. QED
    BY <1>8, <1>9 DEF x, W

\* Putting slices of tensors is putting the tensors and slicing the store.
LEMMA PutsSlice ==
  ASSUME NEW a, NEW n, NEW N, IsSlice(a, n, N), NEW V, IsStore(V, N), NEW node,
         NEW ts, AreTables(ts, N),
         NEW us, us = [i \in DOMAIN ts |-> Sliced(ts[i], a, n)]
  PROVE  /\ IsStore(Puts(V, node, ts), N)
         /\ StoreSlice(Puts(V, node, ts), a, n) = Puts(StoreSlice(V, a, n), node, us)
  <1> DEFINE W == StoreSlice(V, a, n)
             named == DOMAIN ts \cap DOMAIN node.out
             as(m) == {i \in named : node.out[i] = m}
             names == DOMAIN V \cup {node.out[i] : i \in named}
             P == [m \in names |-> IF as(m) = {} THEN V[m] ELSE ts[Max(as(m))]]
             Q == [m \in names |-> IF as(m) = {} THEN W[m] ELSE us[Max(as(m))]]
  <1>1. DOMAIN us = DOMAIN ts /\ DOMAIN ts = 1 .. Len(ts) /\ Len(ts) \in Nat
    BY DEF AreTables, IsSeq
  <1>2. DOMAIN W = DOMAIN V /\ \A m \in DOMAIN V : W[m] = Sliced(V[m], a, n)
    BY DEF StoreSlice
  <1>3. Puts(V, node, ts) = P
    BY DEF Puts
  <1>4. Puts(W, node, us) = Q
    <2> HIDE DEF W
    <2>1. QED
      BY <1>1, <1>2 DEF Puts
  <1>5. ASSUME NEW m \in names
        PROVE  IF as(m) = {} THEN m \in DOMAIN V ELSE Max(as(m)) \in DOMAIN ts
    <2>1. as(m) \subseteq 1 .. Len(ts)
      BY <1>1
    <2> DEFINE S == as(m)
    <2>2. S \subseteq DOMAIN ts /\ (S = {} => m \in DOMAIN V)
      OBVIOUS
    <2> HIDE DEF S
    <2>3. S # {} => Max(S) \in S
      BY <1>1, <2>2, MaxIsIn
    <2>4. QED
      BY <2>2, <2>3 DEF S
  <1> HIDE DEF W, as
  <1>6. ASSUME NEW m \in names
        PROVE  IsTable(P[m], N) /\ Sliced(P[m], a, n) = Q[m]
    <2>1. CASE as(m) = {}
      BY <1>2, <1>5, <2>1 DEF IsStore
    <2>2. CASE as(m) # {}
      <3>1. Max(as(m)) \in 1 .. Len(ts)
        BY <1>1, <1>5, <2>2
      <3>2. QED
        BY <1>1, <2>2, <3>1 DEF AreTables
    <2>3. QED
      BY <2>1, <2>2
  <1>7. DOMAIN P = names /\ P = [m \in names |-> P[m]]
    OBVIOUS
  <1>8. Q = [m \in names |-> Q[m]]
    <2> DEFINE q(m) == IF as(m) = {} THEN W[m] ELSE us[Max(as(m))]
    <2>1. Q = [m \in names |-> q(m)]
      OBVIOUS
    <2> HIDE DEF q, Q, names
    <2>2. QED
      BY <2>1
  <1> HIDE DEF P, Q, names
  <1>9. IsStore(P, N)
    BY <1>6, <1>7 DEF IsStore
  <1>10. StoreSlice(P, a, n) = Q
    BY <1>6, <1>7, <1>8 DEF StoreSlice
  <1>11. QED
    BY <1>3, <1>4, <1>9, <1>10 DEF W

-----------------------------------------------------------------------------
(***************************************************************************)
(* Tables filled row by row                                                *)
(***************************************************************************)

\* N rows of W values each.
AreRows(G, N, W) ==
  IsSeq(G) /\ Len(G) = N /\ W \in Nat /\ \A r \in 1 .. N : IsSeq(G[r]) /\ Len(G[r]) = W

\* What Stored makes of a row.
HeldRow(T, row) == Written([c \in DOMAIN row |-> Hold(T, row[c])])

LEMMA HeldRowIs ==
  ASSUME NEW T, NEW row, IsSeq(row)
  PROVE  /\ IsSeq(HeldRow(T, row)) /\ Len(HeldRow(T, row)) = Len(row)
         /\ \A c \in 1 .. Len(row) : HeldRow(T, row)[c] = Hold(T, row[c])
  <1> DEFINE h == [c \in 1 .. Len(row) |-> Hold(T, row[c])]
  <1>1. DOMAIN row = 1 .. Len(row) /\ Len(row) \in Nat
    BY DEF IsSeq
  <1>2. HeldRow(T, row) = Written(h)
    BY <1>1 DEF HeldRow
  <1>3. IsSeq(h) /\ Len(h) = Len(row) /\ \A c \in 1 .. Len(row) : h[c] = Hold(T, row[c])
    <2>1. Len(h) = Len(row)
      BY <1>1
    <2>2. QED
      BY <1>1, <2>1 DEF IsSeq
  <1> HIDE DEF h
  <1>4. Written(h) = h
    BY <1>3, WrittenIs
  <1>5. QED
    BY <1>2, <1>3, <1>4

LEMMA StoredIs ==
  ASSUME NEW N \in Nat \ {0}, NEW W, NEW T, NEW G, AreRows(G, N, W)
  PROVE  /\ IsTable(Stored(T, G), N) /\ Stored(T, G).type = T /\ NRows(Stored(T, G)) = N
         /\ NCols(Stored(T, G)) = W /\ Cols(Stored(T, G)) = 1 .. W
         /\ \A r \in 1 .. N : Stored(T, G).cells[r] = HeldRow(T, G[r])
  <1> DEFINE h == [r \in 1 .. N |-> HeldRow(T, G[r])]
             u == Stored(T, G)
  <1>1. DOMAIN G = 1 .. N
    BY DEF AreRows, IsSeq
  <1>2. u = [type |-> T, cells |-> Written(h)]
    BY <1>1 DEF Stored, HeldRow
  <1>3. IsSeq(h) /\ Len(h) = N /\ \A r \in 1 .. N : h[r] = HeldRow(T, G[r])
    <2>1. Len(h) = N
      OBVIOUS
    <2>2. QED
      BY <2>1 DEF IsSeq
  <1>4. Written(h) = h
    <2> HIDE DEF h
    <2>1. QED
      BY <1>3, WrittenIs
  <1> HIDE DEF h, u
  <1>5. u = [type |-> T, cells |-> h]
    BY <1>2, <1>4
  <1>6. u.type = T /\ u.cells = h
    BY <1>5
  <1>7. \A r \in 1 .. N : IsSeq(h[r]) /\ Len(h[r]) = W
    <2>1. TAKE r \in 1 .. N
    <2>2. IsSeq(G[r]) /\ Len(G[r]) = W
      BY DEF AreRows
    <2>3. QED
      BY <1>3, <2>2, HeldRowIs
  <1>8. NCols(u) = W /\ NRows(u) = N
    <2>1. 1 \in 1 .. N
      OBVIOUS
    <2>2. Len(h[1]) = W
      BY <1>7, <2>1
    <2>3. QED
      BY <1>3, <1>6, <2>2 DEF NCols, NRows
  <1>9. u = [type |-> u.type, cells |-> u.cells]
    BY <1>5, <1>6
  <1>10. IsTable(u, N)
    BY <1>3, <1>6, <1>7, <1>8, <1>9 DEF IsTable
  <1>11. QED
    BY <1>3, <1>6, <1>8, <1>10 DEF u, Cols

\* Rows that are those of another table from a + 1 on make the slice of it.
LEMMA StoredSliced ==
  ASSUME NEW a, NEW n, NEW N, NEW W, NEW T, NEW G, NEW H,
         IsSlice(a, n, N), AreRows(G, N, W), IsSeq(H), Len(H) = n,
         \A r \in 1 .. n : H[r] = G[a + r]
  PROVE  Stored(T, H) = Sliced(Stored(T, G), a, n)
  <1> DEFINE g == Stored(T, G)
             h == Stored(T, H)
             s == Sliced(g, a, n)
  <1>1. n \in Nat \ {0} /\ N \in Nat \ {0} /\ \A r \in 1 .. n : a + r \in 1 .. N
    BY DEF IsSlice
  <1>2. AreRows(H, n, W)
    <2>1. \A r \in 1 .. n : IsSeq(H[r]) /\ Len(H[r]) = W
      BY <1>1 DEF AreRows
    <2>2. QED
      BY <2>1 DEF AreRows
  <1>3. /\ IsTable(g, N) /\ g.type = T
        /\ \A r \in 1 .. N : g.cells[r] = HeldRow(T, G[r])
    BY <1>1, StoredIs
  <1>4. /\ IsTable(h, n) /\ h.type = T
        /\ \A r \in 1 .. n : h.cells[r] = HeldRow(T, H[r])
    BY ONLY <1>1, <1>2, StoredIs
  <1> HIDE DEF g, h
  <1>5. /\ IsTable(s, n) /\ s.type = T
        /\ \A r \in 1 .. n : s.cells[r] = g.cells[a + r]
    BY <1>3, SlicedIs
  <1> HIDE DEF s
  <1>6. \A r \in 1 .. n : h.cells[r] = s.cells[r]
    BY <1>1, <1>3, <1>4, <1>5
  <1>7. h.cells = s.cells
    <2>1. IsSeq(h.cells) /\ IsSeq(s.cells) /\ Len(h.cells) = n /\ Len(s.cells) = n
      BY <1>4, <1>5 DEF IsTable
    <2>2. QED
      BY <1>6, <2>1, SameSeq
  <1>8. h = [type |-> h.type, cells |-> h.cells]
    BY <1>4 DEF IsTable
  <1>9. s = [type |-> s.type, cells |-> s.cells]
    BY <1>5 DEF IsTable
  <1>10. h = s
    BY <1>4, <1>5, <1>7, <1>8, <1>9
  <1>11. QED
    BY <1>10 DEF g, h, s

\* Two tables of n rows with the same rows and type are one.
LEMMA SameTable ==
  ASSUME NEW n, NEW t, NEW u, IsTable(t, n), IsTable(u, n), t.type = u.type,
         \A r \in 1 .. n : t.cells[r] = u.cells[r]
  PROVE  t = u
  <1>1. IsSeq(t.cells) /\ IsSeq(u.cells) /\ Len(t.cells) = n /\ Len(u.cells) = n
    BY DEF IsTable
  <1>2. t.cells = u.cells
    BY <1>1, SameSeq
  <1>3. t = [type |-> t.type, cells |-> t.cells]
    BY DEF IsTable
  <1>4. u = [type |-> u.type, cells |-> u.cells]
    BY DEF IsTable
  <1>5. QED
    BY <1>2, <1>3, <1>4

\* One column block of a wide table.
Block1(t, b, w) == [t EXCEPT !.cells = [r \in DOMAIN @ |-> SubSeq(@[r], b + 1, b + w)]]

LEMMA BlockIs ==
  ASSUME NEW N \in Nat \ {0}, NEW t, IsTable(t, N), NEW b \in Nat, NEW w \in Nat, b + w <= NCols(t)
  PROVE  /\ IsTable(Block1(t, b, w), N) /\ Block1(t, b, w).type = t.type
         /\ \A r \in 1 .. N : Block1(t, b, w).cells[r] = SubSeq(t.cells[r], b + 1, b + w)
  <1> DEFINE u == Block1(t, b, w)
             c == [r \in 1 .. N |-> SubSeq(t.cells[r], b + 1, b + w)]
  <1>1. IsSeq(t.cells) /\ Len(t.cells) = N /\ DOMAIN t.cells = 1 .. N
    BY DEF IsTable, IsSeq
  <1>2. u = [type |-> t.type, cells |-> c]
    <2> DEFINE d == [r \in DOMAIN t.cells |-> SubSeq(t.cells[r], b + 1, b + w)]
    <2>1. u = [t EXCEPT !.cells = d]
      BY DEF Block1
    <2>2. d = c
      BY <1>1
    <2> HIDE DEF c, d, u
    <2>3. t = [type |-> t.type, cells |-> t.cells]
      BY DEF IsTable
    <2>4. QED
      BY <2>1, <2>2, <2>3, CellsChanged
  <1>3. IsSeq(c) /\ Len(c) = N /\ \A r \in 1 .. N : c[r] = SubSeq(t.cells[r], b + 1, b + w)
    <2>1. Len(c) = N
      OBVIOUS
    <2>2. QED
      BY <2>1 DEF IsSeq
  <1> HIDE DEF c, u
  <1>4. u.type = t.type /\ u.cells = c
    BY <1>2
  <1>5. \A r \in 1 .. N : IsSeq(c[r]) /\ Len(c[r]) = w
    <2>1. TAKE r \in 1 .. N
    <2>2. IsSeq(t.cells[r]) /\ Len(t.cells[r]) = NCols(t)
      BY DEF IsTable
    <2> DEFINE row == t.cells[r]
    <2>3. IsSeq(row) /\ b + w <= Len(row)
      BY <2>2
    <2>4. c[r] = SubSeq(row, b + 1, b + w)
      BY <1>3
    <2> HIDE DEF row
    <2>5. IsSeq(SubSeq(row, b + 1, b + w)) /\ Len(SubSeq(row, b + 1, b + w)) = w
      BY <2>3, SubSeqIs
    <2>6. QED
      BY <2>4, <2>5
  <1>6. NCols(u) = w
    <2>1. 1 \in 1 .. N
      OBVIOUS
    <2>2. QED
      BY <1>4, <1>5, <2>1 DEF NCols
  <1>7. IsTable(u, N)
    BY <1>2, <1>3, <1>4, <1>5, <1>6 DEF IsTable
  <1>8. QED
    BY <1>3, <1>4, <1>7 DEF u

LEMMA BlockSliced ==
  ASSUME NEW a, NEW n, NEW N, IsSlice(a, n, N), NEW t, IsTable(t, N),
         NEW b \in Nat, NEW w \in Nat, b + w <= NCols(t)
  PROVE  Block1(Sliced(t, a, n), b, w) = Sliced(Block1(t, b, w), a, n)
  <1> DEFINE s == Sliced(t, a, n)
             u == Block1(t, b, w)
             p == Block1(s, b, w)
             q == Sliced(u, a, n)
  <1>1. n \in Nat \ {0} /\ N \in Nat \ {0} /\ \A r \in 1 .. n : a + r \in 1 .. N
    BY DEF IsSlice
  <1>2. /\ IsTable(s, n) /\ s.type = t.type /\ NCols(s) = NCols(t)
        /\ \A r \in 1 .. n : s.cells[r] = t.cells[a + r]
    BY SlicedIs
  <1>3. /\ IsTable(u, N) /\ u.type = t.type
        /\ \A r \in 1 .. N : u.cells[r] = SubSeq(t.cells[r], b + 1, b + w)
    <2>1. N \in Nat \ {0}
      BY <1>1
    <2>2. QED
      BY <2>1, BlockIs
  <1> HIDE DEF s, u
  <1>4. /\ IsTable(p, n) /\ p.type = s.type
        /\ \A r \in 1 .. n : p.cells[r] = SubSeq(s.cells[r], b + 1, b + w)
    BY <1>1, <1>2, BlockIs
  <1>5. /\ IsTable(q, n) /\ q.type = u.type
        /\ \A r \in 1 .. n : q.cells[r] = u.cells[a + r]
    BY <1>3, SlicedIs
  <1> HIDE DEF p, q
  <1>6. \A r \in 1 .. n : p.cells[r] = q.cells[r]
    BY <1>1, <1>2, <1>3, <1>4, <1>5
  <1>7. p = q
    BY <1>2, <1>3, <1>4, <1>5, <1>6, SameTable
  <1>8. QED
    BY <1>7 DEF p, q, s, u

\* A wide answer spread over the outputs is spread alike on a slice.
LEMMA SpreadSplits ==
  ASSUME NEW a, NEW n, NEW N, IsSlice(a, n, N), NEW t, IsTable(t, N), NEW x, NEW y,
         x.outs \in Nat, y.outs = x.outs,
         NEW w, IsSeq(w), \A f \in 1 .. Len(w) : w[f] \in Nat, Sum(w) <= NCols(t)
  PROVE  /\ Spread(x, t, w).ok /\ AreTables(Spread(x, t, w).out, N)
         /\ Shares(Spread(x, t, w), Spread(y, Sliced(t, a, n), w), a, n)
  <1> DEFINE s == Sliced(t, a, n)
  <1>1. CASE x.outs = 1
    <2>1. Spread(x, t, w) = [ok |-> TRUE, out |-> <<t>>] /\ Spread(y, s, w) = [ok |-> TRUE, out |-> <<s>>]
      BY <1>1 DEF Spread, Gives
    <2>2. AreTables(<<t>>, N)
      BY DEF AreTables, IsSeq
    <2>3. AreSlices(<<t>>, <<s>>, a, n)
      BY DEF AreSlices
    <2> HIDE DEF s
    <2>4. QED
      BY <2>1, <2>2, <2>3 DEF Shares, s
  <1>2. CASE x.outs # 1
    <2> DEFINE m == Least(x.outs, Len(w))
               off(f) == Sum(SubSeq(w, 1, f - 1))
               us == [f \in 1 .. m |-> Block1(t, off(f), w[f])]
               ps == [f \in 1 .. m |-> Block1(s, off(f), w[f])]
    <2>1. m \in Nat /\ m <= Len(w)
      BY DEF Least, IsSeq
    <2>2. Spread(x, t, w) = [ok |-> TRUE, out |-> us] /\ Spread(y, s, w) = [ok |-> TRUE, out |-> ps]
      <3> HIDE DEF s
      <3>1. QED
        BY <1>2 DEF Spread, Gives, Block1
    <2>3. \A f \in 1 .. m : off(f) \in Nat /\ w[f] \in Nat /\ off(f) + w[f] <= NCols(t)
      <3>1. TAKE f \in 1 .. m
      <3>2. PICK ends : /\ EndsAt(ends, w) /\ Sum(w) = ends[Len(w)]
                        /\ \A k \in 0 .. Len(w) : Sum(SubSeq(w, 1, k)) = ends[k]
        BY SumsAre
      <3>3. f \in 1 .. Len(w) /\ f - 1 \in 0 .. Len(w) /\ f \in 0 .. Len(w) /\ Len(w) \in 0 .. Len(w)
        BY <2>1
      <3>4. ends[f] = ends[f - 1] + w[f] /\ ends[f - 1] \in Nat /\ off(f) = ends[f - 1]
        BY <3>2, <3>3 DEF EndsAt
      <3>5. ends[f] <= ends[Len(w)]
        BY <3>2, <3>3, EndsGrow
      <3>6. NCols(t) \in Nat
        <4>1. 1 \in 1 .. N /\ IsSeq(t.cells[1])
          BY DEF IsTable, IsSlice
        <4>2. QED
          BY <4>1 DEF IsSeq, NCols
      <3>7. ends[Len(w)] \in Nat /\ ends[f] \in Nat
        BY <3>2, <3>3 DEF EndsAt
      <3>8. QED
        BY <3>2, <3>3, <3>4, <3>5, <3>6, <3>7
    <2> HIDE DEF off, m, s
    <2>4. \A f \in 1 .. m : IsTable(us[f], N) /\ ps[f] = Sliced(us[f], a, n)
      <3>1. TAKE f \in 1 .. m
      <3>2. N \in Nat \ {0}
        BY DEF IsSlice
      <3>3. us[f] = Block1(t, off(f), w[f]) /\ ps[f] = Block1(s, off(f), w[f])
        OBVIOUS
      <3> HIDE DEF us, ps
      <3>4. IsTable(us[f], N)
        BY <2>3, <3>2, <3>3, BlockIs
      <3>5. ps[f] = Sliced(us[f], a, n)
        BY <2>3, <3>3, BlockSliced DEF s
      <3>6. QED
        BY <3>4, <3>5
    <2>5. Len(us) = m /\ IsSeq(us) /\ DOMAIN us = 1 .. m /\ ps = [f \in 1 .. m |-> ps[f]]
      <3>1. Len(us) = m
        BY <2>1
      <3>2. QED
        BY <2>1, <3>1 DEF IsSeq
    <2> HIDE DEF us, ps
    <2>6. AreTables(us, N)
      BY <2>4, <2>5 DEF AreTables
    <2>7. AreSlices(us, ps, a, n)
      BY <2>4, <2>5 DEF AreSlices
    <2>8. QED
      BY <2>2, <2>6, <2>7 DEF Shares, s
  <1>3. QED
    BY <1>1, <1>2

-----------------------------------------------------------------------------
(***************************************************************************)
(* The rows of an OHENode                                                  *)
(***************************************************************************)

\* Where a row of total cells ends, the next begins.
LEMMA RowsApart ==
  ASSUME NEW T \in Nat, NEW q \in Nat, NEW r \in Nat, NEW i \in 1 .. T, NEW j \in 1 .. T,
         q * T + i = r * T + j
  PROVE  q = r /\ i = j
  <1>1. ASSUME NEW s \in Nat, NEW u \in Nat, s < u PROVE u * T >= s * T + T
    <2> DEFINE d == u - (s + 1)
    <2>1. d \in Nat /\ u = (s + 1) + d
      BY <1>1
    <2> HIDE DEF d
    <2>2. u * T = s * T + T + d * T
      BY <2>1
    <2>3. d * T \in Nat /\ s * T \in Nat
      BY <2>1
    <2>4. QED
      BY <2>2, <2>3
  <1>2. q * T \in Nat /\ r * T \in Nat
    OBVIOUS
  <1>3. ~(q < r)
    <2>1. SUFFICES ASSUME q < r PROVE FALSE
      OBVIOUS
    <2>2. r * T >= q * T + T
      BY <1>1, <2>1
    <2>3. QED
      BY <1>2, <2>2
  <1>4. ~(r < q)
    <2>1. SUFFICES ASSUME r < q PROVE FALSE
      OBVIOUS
    <2>2. q * T >= r * T + T
      BY <1>1, <2>1
    <2>3. QED
      BY <1>2, <2>2
  <1>5. q = r
    BY <1>3, <1>4
  <1>6. QED
    BY <1>2, <1>5

LEMMA RowsWithin ==
  ASSUME NEW T \in Nat, NEW M \in Nat, NEW r \in 1 .. M
  PROVE  (r - 1) * T \in Nat /\ (r - 1) * T + T = r * T /\ r * T <= M * T /\ M * T \in Nat
  <1> DEFINE d == M - r
             k == r - 1
  <1>1. d \in Nat /\ k \in Nat /\ r = k + 1 /\ M = k + 1 + d
    OBVIOUS
  <1> HIDE DEF d, k
  <1>2. r * T = k * T + T /\ M * T = k * T + T + d * T
    BY <1>1
  <1>3. k * T \in Nat /\ d * T \in Nat
    BY <1>1
  <1>4. r - 1 = k
    BY <1>1
  <1>5. QED
    BY <1>2, <1>3, <1>4

\* The position of a cell among the categories of its feature.
HotAt(x, cats, r, f) ==
  IF IsString(InputOf(x, f)) THEN Find(cats[f], Text(x, r, f))
  ELSE AsPosition(Num(x, r, f), Len(cats[f]))
HotFeatures(x, cats) == 1 .. Least(Len(cats), NFeatures(x))

\* What an OHENode's call has to be: categories for each feature, and numbers
\* where there are no strings.
HotFits(x, cats, N) ==
  /\ x.in # << >> /\ x.outs \in Nat
  /\ IsSeq(cats) /\ \A f \in 1 .. Len(cats) : IsSeq(cats[f])
  /\ \A f \in HotFeatures(x, cats), r \in 1 .. N :
       IsString(InputOf(x, f)) \/ Num(x, r, f) \in Int \cup {NaN}

\* Cell j of row r is hot.
IsHot(x, cats, off, r, j) ==
  \E f \in HotFeatures(x, cats) :
    HotAt(x, cats, r, f) >= 0 /\ j = off[f - 1] + HotAt(x, cats, r, f) + 1
HotRow(x, cats, off, r) ==
  [j \in 1 .. off[Len(cats)] |-> IF IsHot(x, cats, off, r, j) THEN 1 ELSE 0]

LEMMA FindIs ==
  ASSUME NEW s, IsSeq(s), NEW v
  PROVE  Find(s, v) \in -1 .. Len(s) - 1
  <1> DEFINE hits == {k \in 1 .. Len(s) : s[k] = v /\ v # NaN}
  <1>1. Find(s, v) = IF hits = {} THEN -1 ELSE Min(hits) - 1
    BY DEF Find
  <1>2. Len(s) \in Nat
    BY DEF IsSeq
  <1>3. hits \subseteq 1 .. Len(s)
    OBVIOUS
  <1> HIDE DEF hits
  <1>4. ASSUME hits # {} PROVE Min(hits) \in hits
    <2>1. hits \subseteq Nat
      BY <1>2, <1>3
    <2>2. \E n \in hits : \A m \in hits : n <= m
      BY <1>4, <2>1, LeastOf
    <2>3. QED
      BY <2>2 DEF Min
  <1>5. CASE hits = {}
    <2>1. Find(s, v) = -1
      BY <1>1, <1>5
    <2>2. QED
      BY <1>2, <2>1
  <1>6. CASE hits # {}
    <2>1. Find(s, v) = Min(hits) - 1 /\ Min(hits) \in 1 .. Len(s)
      BY <1>1, <1>3, <1>4, <1>6
    <2>2. QED
      BY <1>2, <2>1
  <1>7. QED
    BY <1>5, <1>6

LEMMA FeaturesAre ==
  ASSUME NEW N \in Nat \ {0}, NEW x, AreTables(x.in, N), x.in # << >>
  PROVE  /\ NFeatures(x) \in Nat /\ 1 \in 1 .. Len(x.in) /\ Rows(x) = 1 .. N
         /\ \A f \in 1 .. NFeatures(x) : IsTable(InputOf(x, f), N)
                                         /\ (PerCol(x) => f \in 1 .. Len(x.in))
  <1>1. IsSeq(x.in) /\ \A i \in 1 .. Len(x.in) : IsTable(x.in[i], N)
    BY DEF AreTables
  <1>2. Len(x.in) \in Nat /\ Len(x.in) # 0
    BY <1>1 DEF IsSeq
  <1>3. 1 \in 1 .. Len(x.in) /\ IsTable(x.in[1], N)
    BY <1>1, <1>2
  <1>4. NCols(x.in[1]) \in Nat /\ NRows(x.in[1]) = N
    <2>1. 1 \in 1 .. N
      OBVIOUS
    <2>2. IsSeq(x.in[1].cells[1])
      BY <1>3, <2>1 DEF IsTable
    <2>3. QED
      BY <1>3, <2>2 DEF IsTable, IsSeq, NCols, NRows
  <1>5. Rows(x) = 1 .. N
    BY <1>4 DEF Rows
  <1>6. CASE PerCol(x)
    <2>1. NFeatures(x) = Len(x.in) /\ \A f \in 1 .. Len(x.in) : InputOf(x, f) = x.in[f]
      BY <1>6 DEF NFeatures, InputOf
    <2>2. QED
      BY <1>1, <1>2, <1>3, <1>5, <2>1
  <1>7. CASE ~PerCol(x)
    <2>1. NFeatures(x) = NCols(x.in[1]) /\ \A f \in 1 .. NFeatures(x) : InputOf(x, f) = x.in[1]
      BY <1>7 DEF NFeatures, InputOf
    <2>2. QED
      BY <1>3, <1>4, <1>5, <1>7, <2>1
  <1>8. QED
    BY <1>6, <1>7

LEMMA HotAtIs ==
  ASSUME NEW N \in Nat \ {0}, NEW x, AreTables(x.in, N), NEW cats, HotFits(x, cats, N),
         NEW r \in 1 .. N, NEW f \in HotFeatures(x, cats)
  PROVE  /\ f \in 1 .. Len(cats) /\ f \in 1 .. NFeatures(x)
         /\ HotAt(x, cats, r, f) \in -1 .. Len(cats[f]) - 1
  <1>1. f \in 1 .. Len(cats) /\ f \in 1 .. NFeatures(x) /\ IsSeq(cats[f])
    <2>1. NFeatures(x) \in Nat /\ IsSeq(cats)
      BY FeaturesAre DEF HotFits
    <2>2. f \in 1 .. Len(cats) /\ f \in 1 .. NFeatures(x)
      BY <2>1 DEF HotFeatures, Least, IsSeq
    <2>3. QED
      BY <2>2 DEF HotFits
  <1>2. CASE IsString(InputOf(x, f))
    BY <1>1, <1>2, FindIs DEF HotAt
  <1>3. CASE ~IsString(InputOf(x, f))
    <2>1. Num(x, r, f) \in Int \cup {NaN} /\ Len(cats[f]) \in Nat
      BY <1>1, <1>3 DEF HotFits, IsSeq
    <2>2. AsPosition(Num(x, r, f), Len(cats[f])) \in -1 .. Len(cats[f]) - 1
      BY <2>1 DEF AsPosition
    <2>3. HotAt(x, cats, r, f) = AsPosition(Num(x, r, f), Len(cats[f]))
      BY <1>3 DEF HotAt
    <2>4. QED
      BY <1>1, <2>2, <2>3
  <1>4. QED
    BY <1>1, <1>2, <1>3

\* A hot cell lies in the row, in the block of its feature.
LEMMA HotInRow ==
  ASSUME NEW N \in Nat \ {0}, NEW x, AreTables(x.in, N), NEW cats, HotFits(x, cats, N),
         NEW off, EndsAt(off, [f \in 1 .. Len(cats) |-> Len(cats[f])]),
         NEW r \in 1 .. N, NEW f \in HotFeatures(x, cats), HotAt(x, cats, r, f) >= 0
  PROVE  off[f - 1] \in Nat /\ off[f - 1] + HotAt(x, cats, r, f) + 1 \in 1 .. off[Len(cats)]
  <1> DEFINE w == [g \in 1 .. Len(cats) |-> Len(cats[g])]
             p == HotAt(x, cats, r, f)
  <1>1. f \in 1 .. Len(cats) /\ p \in 0 .. Len(cats[f]) - 1
    BY HotAtIs
  <1>2. Len(cats) \in Nat /\ \A g \in 1 .. Len(cats) : Len(cats[g]) \in Nat
    BY DEF HotFits, IsSeq
  <1>3. Len(w) = Len(cats) /\ IsSeq(w) /\ \A g \in 1 .. Len(w) : w[g] \in Nat /\ w[g] = Len(cats[g])
    <2>1. Len(w) = Len(cats)
      BY <1>2
    <2>2. QED
      BY <1>2, <2>1 DEF IsSeq
  <1>4. EndsAt(off, w)
    OBVIOUS
  <1> HIDE DEF w, p
  <1>5. off[f] <= off[Len(cats)]
    <2>1. f \in 0 .. Len(w) /\ Len(w) \in 0 .. Len(w) /\ f <= Len(w)
      BY <1>1, <1>2, <1>3
    <2>2. QED
      BY <1>3, <1>4, <2>1, EndsGrow
  <1>6. off[f] = off[f - 1] + Len(cats[f]) /\ off[f - 1] \in Nat /\ off[Len(cats)] \in Nat
    <2>1. f - 1 \in 0 .. Len(w) /\ Len(cats) \in 0 .. Len(w) /\ f \in 1 .. Len(w)
      BY <1>1, <1>2, <1>3
    <2>2. QED
      BY <1>3, <1>4, <2>1 DEF EndsAt
  <1>7. Len(cats[f]) \in Nat
    BY <1>1, <1>2
  <1>8. off[f - 1] + p + 1 \in 1 .. off[Len(cats)]
    <2> DEFINE b == off[f - 1]
               e == off[f]
               l == Len(cats[f])
               t == off[Len(cats)]
    <2>1. b \in Nat /\ l \in Nat /\ t \in Nat /\ e = b + l /\ e <= t /\ p \in Int /\ 0 <= p /\ p <= l - 1
      <3>1. b \in Nat /\ l \in Nat /\ t \in Nat /\ e = b + l /\ e <= t
        BY <1>5, <1>6, <1>7
      <3>2. p \in Int /\ 0 <= p /\ p <= l - 1
        BY <1>1, <1>7
      <3>3. QED
        BY <3>1, <3>2
    <2> HIDE DEF b, e, l, t
    <2>2. b + p + 1 \in 1 .. t
      BY <2>1
    <2>3. QED
      BY <2>2 DEF b, t
  <1>9. QED
    BY <1>6, <1>8 DEF p

\* The buffer after a call holds the rows of the call, whatever it held before.
LEMMA BufferHolds ==
  ASSUME NEW N \in Nat \ {0}, NEW x, AreTables(x.in, N), NEW cats, HotFits(x, cats, N),
         NEW off, EndsAt(off, [f \in 1 .. Len(cats) |-> Len(cats[f])]),
         NEW old, IsSeq(old)
  PROVE  /\ IsSeq(HotBuffer(x, cats, old)) /\ N * off[Len(cats)] <= Len(HotBuffer(x, cats, old))
         /\ \A r \in 1 .. N, j \in 1 .. off[Len(cats)] :
              HotBuffer(x, cats, old)[(r - 1) * off[Len(cats)] + j] = HotRow(x, cats, off, r)[j]
  <1> DEFINE w == [f \in 1 .. Len(cats) |-> Len(cats[f])]
             T == off[Len(cats)]
             F == HotFeatures(x, cats)
             place(r, f) == (r - 1) * Sum(w) + Sum(SubSeq(w, 1, f - 1))
             at(r, f) == (r - 1) * T + off[f - 1]
             pos(r, f) == HotAt(x, cats, r, f)
             sites == {q \in (1 .. N) \X F : pos(q[1], q[2]) >= 0}
             hot0 == {place(p[1], p[2]) + pos(p[1], p[2]) + 1 : p \in sites}
             hot == {at(p[1], p[2]) + pos(p[1], p[2]) + 1 : p \in sites}
             clean == ScratchFor(old, N * Sum(w))
             B == HotBuffer(x, cats, old)
  <1>1. /\ Len(cats) \in Nat /\ (\A f \in 1 .. Len(cats) : Len(cats[f]) \in Nat)
        /\ x.in # << >> /\ Rows(x) = 1 .. N /\ NRows(x.in[1]) = N
    <2>1. Len(cats) \in Nat /\ x.in # << >> /\ \A f \in 1 .. Len(cats) : Len(cats[f]) \in Nat
      BY DEF HotFits, IsSeq
    <2>2. 1 \in 1 .. Len(x.in) /\ Rows(x) = 1 .. N
      BY <2>1, FeaturesAre
    <2>3. NRows(x.in[1]) = N
      BY <2>2 DEF AreTables, IsTable, NRows
    <2>4. QED
      BY <2>1, <2>2, <2>3
  <1>2. Len(w) = Len(cats) /\ IsSeq(w) /\ \A f \in 1 .. Len(w) : w[f] \in Nat /\ w[f] = Len(cats[f])
    <2>1. Len(w) = Len(cats)
      BY <1>1
    <2>2. QED
      BY <1>1, <2>1 DEF IsSeq
  <1>3. EndsAt(off, w)
    OBVIOUS
  <1>4. \A p \in sites : p[2] \in 1 .. Len(cats) /\ Len(cats[p[2]]) = w[p[2]]
    <2>1. TAKE p \in sites
    <2>2. p[2] \in F /\ p[1] \in 1 .. N
      OBVIOUS
    <2>3. p[2] \in 1 .. Len(cats)
      BY <2>2, HotAtIs
    <2>4. QED
      BY <2>3
  <1>5. B = [i \in DOMAIN clean |-> IF i \in hot0 THEN 1 ELSE clean[i]]
    <2> DEFINE raw(r, f) == IF IsString(InputOf(x, f)) THEN Find(cats[f], Text(x, r, f))
                            ELSE AsPosition(Num(x, r, f), w[f])
               heat == {place(p[1], p[2]) + raw(p[1], p[2]) + 1 :
                          p \in {q \in Rows(x) \X (1 .. Least(Len(cats), NFeatures(x))) : raw(q[1], q[2]) >= 0}}
               empty == ScratchFor(old, NRows(x.in[1]) * Sum(w))
    <2>1. B = [i \in DOMAIN empty |-> IF i \in heat THEN 1 ELSE empty[i]]
      BY Zenon DEF HotBuffer
    <2>2. \A f \in F : f \in 1 .. Len(cats)
      <3>1. 1 \in 1 .. N
        OBVIOUS
      <3>2. QED
        BY <3>1, HotAtIs
    <2>3. \A r \in 1 .. N, f \in F : raw(r, f) = pos(r, f)
      <3>1. TAKE r \in 1 .. N, f \in F
      <3>2. w[f] = Len(cats[f])
        BY <2>2
      <3> HIDE DEF w
      <3>3. QED
        BY <3>2 DEF HotAt
    <2>4. heat = hot0
      <3> HIDE DEF pos, raw, place
      <3>1. Rows(x) \X (1 .. Least(Len(cats), NFeatures(x))) = (1 .. N) \X F
        BY <1>1 DEF HotFeatures
      <3>2. \A q \in (1 .. N) \X F : raw(q[1], q[2]) = pos(q[1], q[2])
        BY <2>3
      <3>3. QED
        BY <3>1, <3>2
    <2>5. empty = clean
      BY <1>1
    <2> HIDE DEF heat, hot0, empty, clean
    <2>6. QED
      BY <2>1, <2>4, <2>5
  <1> HIDE DEF w
  <1>6. Sum(w) = T /\ \A f \in 1 .. Len(cats) : Sum(SubSeq(w, 1, f - 1)) = off[f - 1]
    <2>1. PICK ends : /\ EndsAt(ends, w) /\ Sum(w) = ends[Len(w)]
                      /\ \A k \in 0 .. Len(w) : Sum(SubSeq(w, 1, k)) = ends[k]
      BY <1>2, SumsAre
    <2>2. \A k \in 0 .. Len(w) : ends[k] = off[k]
      <3> DEFINE S == {k \in 0 .. Len(w) : ends[k] = off[k]}
      <3>1. 0 \in S
        BY <1>1, <1>2, <1>3, <2>1 DEF EndsAt
      <3>2. ASSUME NEW k \in 1 .. Len(w), k - 1 \in S PROVE k \in S
        <4>1. ends[k] = ends[k - 1] + w[k] /\ off[k] = off[k - 1] + w[k] /\ ends[k - 1] = off[k - 1]
          BY <1>3, <2>1, <3>2 DEF EndsAt
        <4>2. QED
          BY <4>1
      <3> HIDE DEF S
      <3>3. 0 .. Len(w) \subseteq S
        BY <1>1, <1>2, <3>1, <3>2, LoopInvariant
      <3>4. QED
        BY <3>3 DEF S
    <2>3. Len(w) \in 0 .. Len(w) /\ \A f \in 1 .. Len(cats) : f - 1 \in 0 .. Len(w)
      BY <1>1, <1>2
    <2>4. QED
      BY <1>2, <2>1, <2>2, <2>3
  <1>7. hot0 = hot
    <2>1. \A p \in sites : place(p[1], p[2]) = at(p[1], p[2])
      BY <1>4, <1>6
    <2> HIDE DEF place, at, pos, sites
    <2>2. QED
      BY <2>1
  <1>8. T \in Nat
    BY <1>1, <1>2, <1>3 DEF EndsAt
  <1> DEFINE M == IF Len(old) < N * T THEN N * T ELSE Len(old)
  <1>9. M \in Nat /\ N * T <= M /\ N * T \in Nat
    BY <1>8 DEF IsSeq
  <1>10. clean = [i \in 1 .. M |-> IF i <= N * T THEN 0 ELSE old[i]]
    BY <1>6 DEF ScratchFor
  <1>11. IsSeq(B) /\ Len(B) = M /\ \A i \in 1 .. M : B[i] = IF i \in hot THEN 1 ELSE clean[i]
    <2> DEFINE b == [i \in 1 .. M |-> IF i \in hot THEN 1 ELSE clean[i]]
    <2>1. B = b
      <3>1. DOMAIN clean = 1 .. M
        BY <1>10
      <3> HIDE DEF clean, hot, hot0, B, M
      <3>2. QED
        BY <1>5, <1>7, <3>1
    <2>2. Len(b) = M
      <3> HIDE DEF clean, hot, M
      <3>1. QED
        BY <1>9
    <2> HIDE DEF clean, hot, B, M
    <2>3. QED
      BY <1>9, <2>1, <2>2 DEF IsSeq
  <1>12. ASSUME NEW r \in 1 .. N, NEW j \in 1 .. T
         PROVE  B[(r - 1) * T + j] = HotRow(x, cats, off, r)[j]
    <2> DEFINE i == (r - 1) * T + j
    <2>1. (r - 1) * T \in Nat /\ (r - 1) * T + T = r * T /\ r * T <= N * T /\ N * T \in Nat
      BY <1>8, RowsWithin
    <2>2. i \in 1 .. M /\ i <= N * T
      <3> DEFINE u == (r - 1) * T
                 v == r * T
                 z == N * T
      <3>1. u \in Nat /\ u + T = v /\ v <= z /\ z \in Nat /\ M \in Nat /\ z <= M
            /\ j \in 1 .. T /\ T \in Nat
        BY <1>8, <1>9, <2>1
      <3>2. i = u + j
        OBVIOUS
      <3> HIDE DEF u, v, z, M, T, i
      <3>3. i \in 1 .. M /\ i <= z
        BY <3>1, <3>2
      <3>4. QED
        BY <3>3 DEF z
    <2>3. B[i] = IF i \in hot THEN 1 ELSE 0
      <3> HIDE DEF hot, B, M, i
      <3>1. clean[i] = 0
        BY <1>10, <2>2
      <3>2. QED
        BY <1>11, <2>2, <3>1
    <2>4. ASSUME i \in hot PROVE IsHot(x, cats, off, r, j)
      <3>1. PICK p \in sites : i = at(p[1], p[2]) + pos(p[1], p[2]) + 1
        BY <2>4
      <3> DEFINE q == p[1]
                 f == p[2]
      <3>2. q \in 1 .. N /\ f \in F /\ pos(q, f) >= 0
        OBVIOUS
      <3>3. off[f - 1] \in Nat /\ off[f - 1] + pos(q, f) + 1 \in 1 .. T
        BY <3>2, HotInRow
      <3>4. pos(q, f) \in Int
        BY <3>2, HotAtIs
      <3> HIDE DEF q, f, pos
      <3>5. i = (q - 1) * T + (off[f - 1] + pos(q, f) + 1)
        <4>1. (q - 1) * T \in Nat
          BY <1>8, <3>2, RowsWithin
        <4>2. i = ((q - 1) * T + off[f - 1]) + pos(q, f) + 1
          BY <3>1 DEF q, f
        <4>3. QED
          BY <3>3, <3>4, <4>1, <4>2
      <3>6. q - 1 = r - 1 /\ off[f - 1] + pos(q, f) + 1 = j
        <4>1. q - 1 \in Nat /\ r - 1 \in Nat
          BY <3>2
        <4>2. (q - 1) * T + (off[f - 1] + pos(q, f) + 1) = (r - 1) * T + j
          BY <3>5
        <4> DEFINE k == off[f - 1] + pos(q, f) + 1
                   u == q - 1
                   v == r - 1
        <4>3. k \in 1 .. T /\ j \in 1 .. T /\ u \in Nat /\ v \in Nat
          BY <3>3, <4>1
        <4>4. u * T + k = v * T + j
          BY <4>2
        <4> HIDE DEF k, T, u, v
        <4>5. u = v /\ k = j
          BY <1>8, <4>3, <4>4, RowsApart
        <4>6. QED
          BY <4>5 DEF k, u, v
      <3>7. q = r
        BY <3>2, <3>6
      <3>8. f \in F /\ pos(r, f) >= 0 /\ j = off[f - 1] + pos(r, f) + 1
        BY <3>2, <3>6, <3>7
      <3>9. QED
        BY <3>8 DEF IsHot, pos
    <2>5. ASSUME IsHot(x, cats, off, r, j) PROVE i \in hot
      <3>1. PICK f \in F : pos(r, f) >= 0 /\ j = off[f - 1] + pos(r, f) + 1
        BY <2>5 DEF IsHot
      <3>2. off[f - 1] \in Nat /\ pos(r, f) \in Int
        <4>1. off[f - 1] \in Nat
          BY <3>1, HotInRow
        <4>2. f \in 1 .. Len(cats) /\ pos(r, f) \in -1 .. Len(cats[f]) - 1
          BY HotAtIs
        <4>3. QED
          BY <4>1, <4>2
      <3>3. <<r, f>> \in sites
        BY <3>1
      <3>4. i = at(r, f) + pos(r, f) + 1
        <4> HIDE DEF pos
        <4>1. QED
          BY <2>1, <3>1, <3>2
      <3> HIDE DEF i, at, pos, sites
      <3>5. QED
        BY <3>3, <3>4
    <2>6. HotRow(x, cats, off, r)[j] = IF IsHot(x, cats, off, r, j) THEN 1 ELSE 0
      BY DEF HotRow
    <2> HIDE DEF i, hot, B
    <2>7. B[i] = HotRow(x, cats, off, r)[j]
      BY <2>3, <2>4, <2>5, <2>6
    <2>8. QED
      BY <2>7 DEF i
  <1>13. QED
    BY <1>9, <1>11, <1>12

\* What a call on slices reads is what the call on the whole does, below.
LEMMA InputsSliced ==
  ASSUME NEW a, NEW n, NEW N, IsSlice(a, n, N), NEW x, AreTables(x.in, N), x.in # << >>,
         NEW y, y.in = [i \in DOMAIN x.in |-> Sliced(x.in[i], a, n)]
  PROVE  /\ AreTables(y.in, n) /\ Len(y.in) = Len(x.in) /\ y.in # << >> /\ y.in[1] = Sliced(x.in[1], a, n)
         /\ PerCol(y) = PerCol(x) /\ NFeatures(y) = NFeatures(x) /\ Rows(y) = 1 .. n
  <1>1. IsSeq(x.in) /\ Len(x.in) \in Nat /\ DOMAIN x.in = 1 .. Len(x.in) /\ Len(x.in) # 0
        /\ \A i \in 1 .. Len(x.in) : IsTable(x.in[i], N)
    BY DEF AreTables, IsSeq
  <1>2. n \in Nat \ {0} /\ N \in Nat \ {0}
    BY DEF IsSlice
  <1> DEFINE ins == [i \in 1 .. Len(x.in) |-> Sliced(x.in[i], a, n)]
  <1>3. y.in = ins
    BY <1>1
  <1>4. IsSeq(ins) /\ Len(ins) = Len(x.in) /\ \A i \in 1 .. Len(x.in) : ins[i] = Sliced(x.in[i], a, n)
    <2>1. Len(ins) = Len(x.in)
      BY <1>1
    <2>2. QED
      BY <1>1, <2>1 DEF IsSeq
  <1> HIDE DEF ins
  <1>5. \A i \in 1 .. Len(x.in) : IsTable(y.in[i], n) /\ NCols(y.in[i]) = NCols(x.in[i])
    BY <1>1, <1>3, <1>4, SlicedIs
  <1>6. AreTables(y.in, n)
    BY <1>3, <1>4, <1>5 DEF AreTables
  <1>7. Len(y.in) = Len(x.in) /\ y.in # << >>
    BY <1>1, <1>3, <1>4
  <1>8. 1 \in 1 .. Len(x.in)
    BY <1>1
  <1>9. Rows(y) = 1 .. n
    BY <1>2, <1>6, <1>7, FeaturesAre
  <1>10. PerCol(y) = PerCol(x)
    BY <1>7 DEF PerCol
  <1>11. NFeatures(y) = NFeatures(x)
    <2>1. NCols(y.in[1]) = NCols(x.in[1])
      BY <1>5, <1>8
    <2>2. QED
      BY <1>7, <1>10, <2>1 DEF NFeatures
  <1>12. QED
    BY <1>3, <1>4, <1>6, <1>7, <1>8, <1>9, <1>10, <1>11

LEMMA CellsSliced ==
  ASSUME NEW a, NEW n, NEW N, IsSlice(a, n, N), NEW x, AreTables(x.in, N), x.in # << >>,
         NEW y, y.in = [i \in DOMAIN x.in |-> Sliced(x.in[i], a, n)],
         NEW f \in 1 .. NFeatures(x)
  PROVE  /\ InputOf(y, f) = Sliced(InputOf(x, f), a, n) /\ IsString(InputOf(y, f)) = IsString(InputOf(x, f))
         /\ \A r \in 1 .. n : /\ a + r \in 1 .. N
                              /\ Text(y, r, f) = Text(x, a + r, f) /\ Num(y, r, f) = Num(x, a + r, f)
  <1> DEFINE t == InputOf(x, f)
             s == Sliced(t, a, n)
             c == IF PerCol(x) THEN 1 ELSE f
  <1>1. N \in Nat \ {0} /\ DOMAIN x.in = 1 .. Len(x.in)
    BY DEF IsSlice, AreTables, IsSeq
  <1>2. IsTable(t, N) /\ 1 \in 1 .. Len(x.in) /\ (PerCol(x) => f \in 1 .. Len(x.in))
    BY <1>1, FeaturesAre
  <1>3. PerCol(y) = PerCol(x)
    BY InputsSliced
  <1>4. InputOf(y, f) = s
    <2>1. \A i \in 1 .. Len(x.in) : y.in[i] = Sliced(x.in[i], a, n)
      BY <1>1
    <2>2. QED
      BY <1>2, <1>3, <2>1 DEF InputOf
  <1>5. NCols(t) = 1 => c = 1
    BY DEF InputOf, NFeatures
  <1>6. ASSUME NEW r \in 1 .. n
        PROVE  a + r \in 1 .. N /\ s.cells[r] = t.cells[a + r] /\ Get(s, r, c) = Get(t, a + r, c)
    <2> HIDE DEF t, c
    <2>1. a + r \in 1 .. N /\ s.cells[r] = t.cells[a + r]
      BY <1>2, SlicedIs
    <2>2. Get(s, r, c) = Get(t, a + r, c)
      BY <1>2, <1>5, GetSliced
    <2>3. QED
      BY <2>1, <2>2
  <1>7. IsString(s) = IsString(t)
    <2> HIDE DEF t
    <2>1. s.type = t.type
      BY <1>2, SlicedIs
    <2>2. QED
      BY <2>1 DEF IsString
  <1>8. ASSUME NEW r \in 1 .. n
        PROVE  a + r \in 1 .. N /\ Text(y, r, f) = Text(x, a + r, f) /\ Num(y, r, f) = Num(x, a + r, f)
    <2>1. Text(y, r, f) = s.cells[r][c] /\ Text(x, a + r, f) = t.cells[a + r][c]
      BY <1>3, <1>4 DEF Text
    <2>2. Num(y, r, f) = Get(s, r, c) /\ Num(x, a + r, f) = Get(t, a + r, c)
      BY <1>3, <1>4 DEF Num
    <2> HIDE DEF s, t, c
    <2>3. QED
      BY <1>6, <2>1, <2>2
  <1>9. QED
    BY <1>4, <1>7, <1>8

LEMMA HotRowSliced ==
  ASSUME NEW a, NEW n, NEW N, IsSlice(a, n, N), NEW x, AreTables(x.in, N),
         NEW y, y.in = [i \in DOMAIN x.in |-> Sliced(x.in[i], a, n)], y.outs = x.outs,
         NEW cats, HotFits(x, cats, N), NEW off
  PROVE  /\ HotFits(y, cats, n)
         /\ \A r \in 1 .. n : HotRow(y, cats, off, r) = HotRow(x, cats, off, a + r)
  <1>1. x.in # << >> /\ NFeatures(y) = NFeatures(x) /\ y.in # << >>
    BY InputsSliced DEF HotFits
  <1>2. HotFeatures(y, cats) = HotFeatures(x, cats)
    BY <1>1 DEF HotFeatures
  <1>3. ASSUME NEW f \in HotFeatures(x, cats), NEW r \in 1 .. n
        PROVE  /\ HotAt(y, cats, r, f) = HotAt(x, cats, a + r, f)
               /\ IsString(InputOf(y, f)) \/ Num(y, r, f) \in Int \cup {NaN}
    <2>1. f \in 1 .. NFeatures(x)
      <3>1. N \in Nat \ {0} /\ 1 \in 1 .. N
        BY DEF IsSlice
      <3>2. QED
        BY <3>1, HotAtIs
    <2>2. /\ IsString(InputOf(y, f)) = IsString(InputOf(x, f)) /\ a + r \in 1 .. N
          /\ Text(y, r, f) = Text(x, a + r, f) /\ Num(y, r, f) = Num(x, a + r, f)
      BY <1>1, <2>1, CellsSliced
    <2>3. IsString(InputOf(x, f)) \/ Num(x, a + r, f) \in Int \cup {NaN}
      BY <2>2 DEF HotFits
    <2>4. QED
      BY <2>2, <2>3 DEF HotAt
  <1>4. HotFits(y, cats, n)
    BY <1>1, <1>2, <1>3 DEF HotFits
  <1>5. ASSUME NEW r \in 1 .. n PROVE HotRow(y, cats, off, r) = HotRow(x, cats, off, a + r)
    <2>1. \A j \in 1 .. off[Len(cats)] : IsHot(y, cats, off, r, j) = IsHot(x, cats, off, a + r, j)
      <3>1. TAKE j \in 1 .. off[Len(cats)]
      <3>2. \A f \in HotFeatures(x, cats) : HotAt(y, cats, r, f) = HotAt(x, cats, a + r, f)
        BY <1>3
      <3>3. QED
        BY <1>2, <3>2 DEF IsHot
    <2>2. QED
      BY <2>1, Zenon DEF HotRow
  <1>6. QED
    BY <1>4, <1>5

\* The answer of an OHENode is its rows, whatever its buffer held.
LEMMA HotAnswers ==
  ASSUME NEW N \in Nat \ {0}, NEW x, AreTables(x.in, N), NEW cats, HotFits(x, cats, N),
         NEW w, w = [f \in 1 .. Len(cats) |-> Len(cats[f])],
         NEW off, EndsAt(off, w), Sum(w) = off[Len(cats)], NEW old, IsSeq(old)
  PROVE  LET G == [r \in 1 .. N |-> HotRow(x, cats, off, r)]
         IN  /\ AreRows(G, N, off[Len(cats)])
             /\ HotResult(x, cats, HotBuffer(x, cats, old)) = Spread(x, Stored("f32", G), w)
  <1> DEFINE T == off[Len(cats)]
             G == [r \in 1 .. N |-> HotRow(x, cats, off, r)]
             B == HotBuffer(x, cats, old)
             H == [r \in Rows(x) |-> SubSeq(B, (r - 1) * Sum(w) + 1, r * Sum(w))]
  <1>1. HotResult(x, cats, B) = Spread(x, Stored("f32", H), w)
    <2> HIDE DEF B
    <2>1. QED
      BY DEF HotResult
  <1>2. /\ IsSeq(B) /\ N * T <= Len(B)
        /\ \A r \in 1 .. N, j \in 1 .. T : B[(r - 1) * T + j] = HotRow(x, cats, off, r)[j]
    BY BufferHolds
  <1>3. T \in Nat
    <2>1. Len(cats) \in Nat
      BY DEF HotFits, IsSeq
    <2>2. Len(cats) \in 0 .. Len(cats) /\ Len(w) = Len(cats)
      BY <2>1
    <2>3. off \in [0 .. Len(cats) -> Nat]
      BY <2>2 DEF EndsAt
    <2>4. QED
      BY <2>2, <2>3
  <1>4. Rows(x) = 1 .. N
    BY FeaturesAre DEF HotFits
  <1> HIDE DEF B, T
  <1>5. ASSUME NEW r \in 1 .. N
        PROVE  /\ IsSeq(HotRow(x, cats, off, r)) /\ Len(HotRow(x, cats, off, r)) = T
               /\ SubSeq(B, (r - 1) * T + 1, r * T) = HotRow(x, cats, off, r)
    <2> DEFINE h == HotRow(x, cats, off, r)
               b == (r - 1) * T
               s == SubSeq(B, b + 1, b + T)
    <2>1. IsSeq(h) /\ Len(h) = T
      <3>1. h = [j \in 1 .. T |-> IF IsHot(x, cats, off, r, j) THEN 1 ELSE 0]
        BY DEF HotRow, T
      <3> HIDE DEF h
      <3>2. Len(h) = T
        BY <1>3, <3>1
      <3>3. h = [j \in 1 .. T |-> h[j]]
        BY <3>1
      <3>4. QED
        BY <1>3, <3>2, <3>3 DEF IsSeq
    <2>2. b \in Nat /\ b + T = r * T /\ r * T <= N * T /\ N * T \in Nat
      BY <1>3, RowsWithin
    <2>3. IsSeq(B) /\ b + T <= Len(B)
      <3>1. Len(B) \in Nat
        BY <1>2 DEF IsSeq
      <3> DEFINE u == b + T
                 v == r * T
                 z == N * T
      <3>2. u = v /\ v <= z /\ z <= Len(B) /\ z \in Nat /\ u \in Nat
        BY <1>2, <1>3, <2>2
      <3> HIDE DEF u, v, z
      <3>3. u <= Len(B)
        BY <3>1, <3>2
      <3>4. QED
        BY <1>2, <3>3 DEF u
    <2>4. \A j \in 1 .. T : B[b + j] = h[j]
      BY <1>2
    <2> HIDE DEF b, h
    <2>5. IsSeq(s) /\ Len(s) = T /\ \A j \in 1 .. T : s[j] = B[b + j]
      BY ONLY <1>3, <2>2, <2>3, SubSeqIs
    <2> HIDE DEF s
    <2>6. s = h
      BY <2>1, <2>4, <2>5, SameSeq
    <2>7. s = SubSeq(B, (r - 1) * T + 1, r * T)
      BY <2>2 DEF s, b
    <2>8. QED
      BY <2>1, <2>6, <2>7 DEF h
  <1>6. H = G
    <2>1. Sum(w) = T
      BY DEF T
    <2>2. QED
      BY <1>4, <1>5, <2>1
  <1>7. AreRows(G, N, T)
    <2>1. Len(G) = N /\ \A r \in 1 .. N : G[r] = HotRow(x, cats, off, r)
      OBVIOUS
    <2>2. IsSeq(G)
      BY <2>1 DEF IsSeq
    <2> HIDE DEF G
    <2>3. \A r \in 1 .. N : IsSeq(G[r]) /\ Len(G[r]) = T
      BY <1>5, <2>1
    <2>4. QED
      BY <1>3, <2>1, <2>2, <2>3 DEF AreRows
  <1> HIDE DEF G, H
  <1>8. HotResult(x, cats, B) = Spread(x, Stored("f32", G), w)
    BY <1>1, <1>6
  <1>9. QED
    BY <1>7, <1>8 DEF B, G, T

LEMMA HotShares ==
  ASSUME NEW a, NEW n, NEW N, IsSlice(a, n, N), NEW x, AreTables(x.in, N),
         NEW y, y.in = [i \in DOMAIN x.in |-> Sliced(x.in[i], a, n)], y.outs = x.outs,
         NEW cats, HotFits(x, cats, N), NEW old, IsSeq(old)
  PROVE  /\ HotAlone(x, cats).ok /\ AreTables(HotAlone(x, cats).out, N) /\ IsSeq(HotBuffer(y, cats, old))
         /\ Shares(HotAlone(x, cats), HotResult(y, cats, HotBuffer(y, cats, old)), a, n)
  <1> DEFINE w == [f \in 1 .. Len(cats) |-> Len(cats[f])]
  <1>1. n \in Nat \ {0} /\ N \in Nat \ {0} /\ IsSeq(<< >>) /\ \A r \in 1 .. n : a + r \in 1 .. N
    BY DEF IsSlice, IsSeq
  <1>2. IsSeq(w) /\ Len(w) = Len(cats) /\ Len(cats) \in Nat /\ \A f \in 1 .. Len(w) : w[f] \in Nat
    <2>1. Len(cats) \in Nat /\ \A f \in 1 .. Len(cats) : Len(cats[f]) \in Nat
      BY DEF HotFits, IsSeq
    <2>2. Len(w) = Len(cats)
      BY <2>1
    <2>3. QED
      BY <2>1, <2>2 DEF IsSeq
  <1> HIDE DEF w
  <1>3. PICK off : EndsAt(off, w) /\ Sum(w) = off[Len(w)]
    BY <1>2, SumsAre
  <1> DEFINE T == off[Len(cats)]
             G == [r \in 1 .. N |-> HotRow(x, cats, off, r)]
             H == [r \in 1 .. n |-> HotRow(y, cats, off, r)]
  <1>4. Sum(w) = off[Len(cats)]
    BY <1>2, <1>3
  <1>5. AreRows(G, N, T) /\ HotAlone(x, cats) = Spread(x, Stored("f32", G), w)
    BY <1>1, <1>3, <1>4, HotAnswers DEF w, HotAlone
  <1>6. HotFits(y, cats, n) /\ \A r \in 1 .. n : HotRow(y, cats, off, r) = HotRow(x, cats, off, a + r)
    BY HotRowSliced
  <1>7. AreTables(y.in, n)
    BY InputsSliced DEF HotFits
  <1>8. HotResult(y, cats, HotBuffer(y, cats, old)) = Spread(y, Stored("f32", H), w)
    BY <1>1, <1>3, <1>4, <1>6, <1>7, HotAnswers DEF w
  <1>9. IsSeq(HotBuffer(y, cats, old))
    BY <1>1, <1>3, <1>6, <1>7, BufferHolds DEF w
  <1>10. IsSeq(H) /\ Len(H) = n /\ \A r \in 1 .. n : H[r] = G[a + r]
    <2>1. Len(H) = n /\ IsSeq(H)
      BY <1>1 DEF IsSeq
    <2>2. QED
      BY <1>1, <1>6, <2>1
  <1> HIDE DEF G, H
  <1> DEFINE t == Stored("f32", G)
  <1>11. Stored("f32", H) = Sliced(t, a, n)
    BY <1>5, <1>10, StoredSliced
  <1>12. IsTable(t, N) /\ NCols(t) = T
    BY <1>1, <1>5, StoredIs
  <1> HIDE DEF t
  <1>13. T \in Nat /\ Sum(w) <= NCols(t)
    BY <1>4, <1>5, <1>12 DEF AreRows
  <1>14. x.outs \in Nat
    BY DEF HotFits
  <1>15. /\ Spread(x, t, w).ok /\ AreTables(Spread(x, t, w).out, N)
         /\ Shares(Spread(x, t, w), Spread(y, Sliced(t, a, n), w), a, n)
    BY <1>2, <1>12, <1>13, <1>14, SpreadSplits
  <1>16. HotAlone(x, cats) = Spread(x, t, w)
    BY <1>5 DEF t
  <1>17. HotResult(y, cats, HotBuffer(y, cats, old)) = Spread(y, Sliced(t, a, n), w)
    BY <1>8, <1>11
  <1>18. QED
    BY <1>9, <1>15, <1>16, <1>17

-----------------------------------------------------------------------------
(***************************************************************************)
(* Operators that read row by row                                          *)
(***************************************************************************)

\* A call, of whatever it is made.
IsCall(x) ==
  \E op, ins, names, outs, attrs, refs, scope, fns, order :
    /\ outs \in Nat
    /\ x = [op |-> op, in |-> ins, names |-> names, outs |-> outs, attrs |-> attrs, refs |-> refs,
            scope |-> scope, fns |-> fns, order |-> order]

LEMMA PartIs ==
  ASSUME NEW x, IsCall(x), NEW a, NEW n, NEW y, y = Part(x, a, n)
  PROVE  /\ y.in = [i \in DOMAIN x.in |-> Sliced(x.in[i], a, n)] /\ y.scope = StoreSlice(x.scope, a, n)
         /\ y.op = x.op /\ y.outs = x.outs /\ x.outs \in Nat /\ y.attrs = x.attrs /\ y.refs = x.refs
         /\ y.order = x.order /\ y.names = x.names /\ y.fns = x.fns
  <1> DEFINE cut1 == [i \in DOMAIN x.in |-> Sliced(x.in[i], a, n)]
             sc == StoreSlice(x.scope, a, n)
             z == [x EXCEPT !.in = cut1]
  <1>1. y = [z EXCEPT !.scope = sc]
    BY DEF Part
  <1> HIDE DEF cut1, sc
  <1>2. PICK o, ins, m, u, p, q, v, f, h :
          u \in Nat /\ x = [op |-> o, in |-> ins, names |-> m, outs |-> u, attrs |-> p, refs |-> q,
                            scope |-> v, fns |-> f, order |-> h]
    BY DEF IsCall
  <1>3. z = [op |-> o, in |-> cut1, names |-> m, outs |-> u, attrs |-> p, refs |-> q,
             scope |-> v, fns |-> f, order |-> h]
    BY <1>2
  <1> HIDE DEF z
  <1>4. y = [op |-> o, in |-> cut1, names |-> m, outs |-> u, attrs |-> p, refs |-> q,
             scope |-> sc, fns |-> f, order |-> h]
    BY <1>1, <1>3
  <1>5. QED
    BY <1>2, <1>4 DEF cut1, sc

\* An answer of tables, of which a call on slices gives the slices.
Local(got, part, a, n, N) == got.ok /\ AreTables(got.out, N) /\ Shares(got, part, a, n)

LEMMA LocalIs ==
  ASSUME NEW N \in Nat \ {0}, NEW x,
         \A a, n : IsSlice(a, n, N) => Local(Answer(x), Answer(Part(x, a, n)), a, n, N)
  PROVE  RowLocal(x, N)
  <1>1. IsSlice(0, N, N)
    BY DEF IsSlice
  <1>2. Answer(x).ok /\ AreTables(Answer(x).out, N)
    BY <1>1 DEF Local
  <1>3. QED
    BY <1>2 DEF Local, RowLocal, Splits

LEMMA OneGives ==
  ASSUME NEW a, NEW n, NEW N, NEW t, IsTable(t, N), NEW u, u = Sliced(t, a, n)
  PROVE  Local(Gives(<<t>>), Gives(<<u>>), a, n, N)
  <1>1. Gives(<<t>>) = [ok |-> TRUE, out |-> <<t>>] /\ Gives(<<u>>) = [ok |-> TRUE, out |-> <<u>>]
    BY DEF Gives
  <1>2. AreTables(<<t>>, N)
    BY DEF AreTables, IsSeq
  <1>3. AreSlices(<<t>>, <<u>>, a, n)
    BY DEF AreSlices
  <1>4. QED
    BY <1>1, <1>2, <1>3 DEF Local, Shares

\* A row of a table made of the row it is given.
LEMMA RowsGive ==
  ASSUME NEW a, NEW n, NEW N, IsSlice(a, n, N), NEW W, NEW T, NEW G, NEW H, AreRows(G, N, W),
         IsSeq(H), Len(H) = n, \A r \in 1 .. n : H[r] = G[a + r]
  PROVE  /\ IsTable(Stored(T, G), N) /\ Stored(T, H) = Sliced(Stored(T, G), a, n)
         /\ Local(Gives(<<Stored(T, G)>>), Gives(<<Stored(T, H)>>), a, n, N)
  <1>1. N \in Nat \ {0} /\ n \in Nat
    BY DEF IsSlice
  <1>2. IsTable(Stored(T, G), N)
    BY <1>1, StoredIs
  <1>3. Stored(T, H) = Sliced(Stored(T, G), a, n)
    BY StoredSliced
  <1>4. QED
    BY <1>2, <1>3, OneGives

\* A table of n rows and W columns, as a function.
IsGrid(G, n, W) == G = [r \in 1 .. n |-> [c \in 1 .. W |-> G[r][c]]]

LEMMA CellsGive ==
  ASSUME NEW a, NEW n, NEW N, IsSlice(a, n, N), NEW W \in Nat, NEW T, NEW G, NEW H,
         IsGrid(G, N, W), IsGrid(H, n, W),
         \A r \in 1 .. n, c \in 1 .. W : H[r][c] = G[a + r][c]
  PROVE  /\ AreRows(G, N, W)
         /\ IsTable(Stored(T, G), N) /\ Stored(T, H) = Sliced(Stored(T, G), a, n)
         /\ Local(Gives(<<Stored(T, G)>>), Gives(<<Stored(T, H)>>), a, n, N)
  <1>1. N \in Nat \ {0} /\ n \in Nat /\ \A r \in 1 .. n : a + r \in 1 .. N
    BY DEF IsSlice
  <1>2. \A r \in 1 .. N : G[r] = [c \in 1 .. W |-> G[r][c]]
    BY Zenon DEF IsGrid
  <1>3. \A r \in 1 .. n : H[r] = [c \in 1 .. W |-> H[r][c]]
    BY Zenon DEF IsGrid
  <1>4. AreRows(G, N, W)
    <2>1. IsSeq(G) /\ Len(G) = N
      <3>1. G = [r \in 1 .. N |-> G[r]]
        BY Zenon DEF IsGrid
      <3>2. Len(G) = N
        BY <1>1, <3>1
      <3>3. QED
        BY <1>1, <3>1, <3>2 DEF IsSeq
    <2>2. \A r \in 1 .. N : IsSeq(G[r]) /\ Len(G[r]) = W
      <3>1. TAKE r \in 1 .. N
      <3> DEFINE g == G[r]
      <3>2. g = [c \in 1 .. W |-> g[c]]
        BY <1>2
      <3> HIDE DEF g
      <3>3. Len(g) = W
        BY <3>2
      <3>4. QED
        BY <3>2, <3>3 DEF IsSeq, g
    <2>3. QED
      BY <2>1, <2>2 DEF AreRows
  <1>5. \A r \in 1 .. n : H[r] = G[a + r]
    <2>1. TAKE r \in 1 .. n
    <2> DEFINE g == G[a + r]
               h == H[r]
    <2>2. h = [c \in 1 .. W |-> h[c]] /\ g = [c \in 1 .. W |-> g[c]] /\ \A c \in 1 .. W : h[c] = g[c]
      BY <1>1, <1>2, <1>3
    <2> HIDE DEF g, h
    <2>3. h = g
      BY <2>2
    <2>4. QED
      BY <2>3 DEF g, h
  <1>6. IsSeq(H) /\ Len(H) = n
    <2>1. H = [r \in 1 .. n |-> H[r]]
      BY Zenon DEF IsGrid
    <2>2. Len(H) = n
      BY <1>1, <2>1
    <2>3. QED
      BY <1>1, <2>1, <2>2 DEF IsSeq
  <1>7. QED
    BY <1>4, <1>5, <1>6, RowsGive

-----------------------------------------------------------------------------

\* The parts lie in f where off says.
LiesAt(f, off, ss) == \A k \in 1 .. Len(ss) : \A j \in 1 .. Len(ss[k]) : f[off[k - 1] + j] = ss[k][j]

\* What FlattenSeq makes of sequences: as long as they are together, and each
\* behind those before it.
LEMMA FlattenIs ==
  ASSUME NEW ss, IsSeq(ss), \A i \in 1 .. Len(ss) : IsSeq(ss[i]),
         NEW lens, lens = [i \in 1 .. Len(ss) |-> Len(ss[i])]
  PROVE  /\ IsSeq(FlattenSeq(ss)) /\ Len(FlattenSeq(ss)) = Sum(lens) /\ Sum(lens) \in Nat
         /\ \A off : EndsAt(off, lens) => LiesAt(FlattenSeq(ss), off, ss)
  <1> DEFINE L == Len(ss)
             T == UNION {{ss[i][j] : j \in 1 .. Len(ss[i])} : i \in 1 .. L}
             f == FlattenSeq(ss)
  <1>1. L \in Nat /\ ss = [i \in 1 .. L |-> ss[i]] /\ \A i \in 1 .. L : Len(ss[i]) \in Nat
    BY DEF IsSeq
  <1>2. ss \in [1 .. L -> Seq(T)]
    <2>1. ASSUME NEW i \in 1 .. L PROVE ss[i] \in Seq(T)
      <3> DEFINE s == ss[i]
      <3>1. s = [j \in 1 .. Len(s) |-> s[j]] /\ Len(s) \in Nat
        BY DEF IsSeq
      <3>2. \A j \in 1 .. Len(s) : s[j] \in T
        OBVIOUS
      <3> HIDE DEF T, s
      <3>3. s \in Seq(T)
        BY <3>1, <3>2
      <3>4. QED
        BY <3>3 DEF s
    <2> HIDE DEF T, L
    <2>2. QED
      BY <1>1, <2>1
  <1> HIDE DEF T, f
  <1>3. f \in Seq(T) /\ \E at : PlacedAt(at, L, ss)
    BY <1>1, <1>2, FlattenPlaces DEF f
  <1>4. PICK at : PlacedAt(at, L, ss)
    BY <1>3
  <1>5. IsSeq(lens) /\ Len(lens) = L /\ \A i \in 1 .. L : lens[i] = Len(ss[i]) /\ lens[i] \in Nat
    <2>1. Len(lens) = L
      BY <1>1
    <2>2. QED
      BY <1>1, <2>1 DEF IsSeq
  <1>6. EndsAt(at, lens)
    BY <1>4, <1>5 DEF EndsAt, PlacedAt
  <1>7. Sum(lens) = at[L] /\ at[L] = Len(f) /\ at[L] \in Nat
    <2>1. Sum(lens) = at[L]
      BY <1>5, <1>6, SumEnds
    <2>2. QED
      BY <1>1, <1>4, <2>1 DEF PlacedAt, f
  <1>8. ASSUME NEW off, EndsAt(off, lens), NEW k \in 1 .. L, NEW j \in 1 .. Len(ss[k])
        PROVE  f[off[k - 1] + j] = ss[k][j]
    <2>1. off[k - 1] = at[k - 1]
      <3> DEFINE S == {i \in 0 .. L : off[i] = at[i]}
      <3>1. 0 \in S
        BY <1>1, <1>6, <1>8 DEF EndsAt
      <3>2. ASSUME NEW i \in 1 .. L, i - 1 \in S PROVE i \in S
        <4>1. off[i] = off[i - 1] + lens[i] /\ at[i] = at[i - 1] + lens[i] /\ off[i - 1] = at[i - 1]
          BY <1>5, <1>6, <1>8, <3>2 DEF EndsAt
        <4>2. QED
          BY <4>1
      <3> HIDE DEF S
      <3>3. 0 .. L \subseteq S
        BY <1>1, <3>1, <3>2, LoopInvariant
      <3>4. k - 1 \in S
        BY <3>3
      <3>5. QED
        BY <3>4 DEF S
    <2>2. f[at[k - 1] + j] = ss[k][j]
      BY <1>4, <1>8 DEF PlacedAt, f
    <2>3. QED
      BY <2>1, <2>2
  <1>9. IsSeq(f)
    BY <1>3, SeqIs
  <1>10. QED
    BY <1>7, <1>8, <1>9 DEF f, LiesAt

\* Inputs side by side.
LEMMA BesideSplits ==
  ASSUME NEW a, NEW n, NEW N, IsSlice(a, n, N), NEW ts, AreTables(ts, N), ts # << >>,
         NEW us, us = [i \in DOMAIN ts |-> Sliced(ts[i], a, n)]
  PROVE  IsTable(Beside(ts), N) /\ Beside(us) = Sliced(Beside(ts), a, n)
  <1> DEFINE L == Len(ts)
             parts1(r) == [i \in 1 .. L |-> [c \in 1 .. NCols(ts[i]) |-> Get(ts[i], r, c)]]
             parts2(r) == [i \in 1 .. L |-> [c \in 1 .. NCols(us[i]) |-> Get(us[i], r, c)]]
             G == [r \in 1 .. N |-> FlattenSeq(parts1(r))]
             H == [r \in 1 .. n |-> FlattenSeq(parts2(r))]
             lens == [i \in 1 .. L |-> NCols(ts[i])]
  <1>1. L \in Nat /\ 1 \in 1 .. L /\ DOMAIN ts = 1 .. L /\ \A i \in 1 .. L : IsTable(ts[i], N)
    BY DEF AreTables, IsSeq
  <1>2. /\ N \in Nat \ {0} /\ n \in Nat \ {0} /\ 1 \in 1 .. N
        /\ \A r \in 1 .. n : a + r \in 1 .. N
    BY DEF IsSlice
  <1>3. Len(us) = L
    BY <1>1
  <1>4. \A i \in 1 .. L : /\ us[i] = Sliced(ts[i], a, n) /\ us[i].type = ts[i].type
                          /\ NCols(us[i]) = NCols(ts[i]) /\ NRows(us[i]) = n /\ NRows(ts[i]) = N
                          /\ NCols(ts[i]) \in Nat
    <2>1. TAKE i \in 1 .. L
    <2>2. us[i] = Sliced(ts[i], a, n)
      BY <1>1
    <2>3. Sliced(ts[i], a, n).type = ts[i].type /\ NCols(Sliced(ts[i], a, n)) = NCols(ts[i])
          /\ NRows(Sliced(ts[i], a, n)) = n
      BY <1>1, SlicedIs
    <2>4. NRows(ts[i]) = N /\ NCols(ts[i]) \in Nat
      BY <1>1, <1>2 DEF IsTable, IsSeq, NRows, NCols
    <2>5. QED
      BY <2>2, <2>3, <2>4
  <1>5. AnyF64(us) = AnyF64(ts)
    BY <1>3, <1>4 DEF AnyF64
  <1>6. Beside(ts) = Stored(AnyF64(ts), G) /\ Beside(us) = Stored(AnyF64(ts), H)
    BY <1>1, <1>3, <1>4, <1>5 DEF Beside
  <1>7. ASSUME NEW r \in 1 .. n PROVE parts2(r) = parts1(a + r)
    <2>1. ASSUME NEW i \in 1 .. L, NEW c \in 1 .. NCols(ts[i]) PROVE Get(us[i], r, c) = Get(ts[i], a + r, c)
      <3>1. NCols(ts[i]) = 1 => c = 1
        OBVIOUS
      <3>2. IsTable(ts[i], N) /\ us[i] = Sliced(ts[i], a, n)
        BY <1>1, <1>4
      <3>3. QED
        BY <3>1, <3>2, GetSliced
    <2> HIDE DEF L
    <2>2. QED
      BY <1>4, <2>1
  <1>8. ASSUME NEW r \in 1 .. N
        PROVE  IsSeq(FlattenSeq(parts1(r))) /\ Len(FlattenSeq(parts1(r))) = Sum(lens) /\ Sum(lens) \in Nat
    <2> DEFINE ss == parts1(r)
    <2>1. IsSeq(ss) /\ Len(ss) = L
      <3>1. Len(ss) = L
        BY <1>1
      <3>2. QED
        BY <1>1, <3>1 DEF IsSeq
    <2>2. \A i \in 1 .. L : IsSeq(ss[i]) /\ Len(ss[i]) = NCols(ts[i])
      <3>1. TAKE i \in 1 .. L
      <3> DEFINE s == [c \in 1 .. NCols(ts[i]) |-> Get(ts[i], r, c)]
      <3>2. ss[i] = s /\ NCols(ts[i]) \in Nat
        BY <1>4
      <3>3. Len(s) = NCols(ts[i])
        BY <3>2
      <3>4. IsSeq(s)
        BY <3>2, <3>3 DEF IsSeq
      <3> HIDE DEF s, ss
      <3>5. QED
        BY <3>2, <3>3, <3>4
    <2> HIDE DEF ss, L
    <2>3. lens = [i \in 1 .. Len(ss) |-> Len(ss[i])]
      BY <2>1, <2>2
    <2> HIDE DEF lens
    <2>4. IsSeq(FlattenSeq(ss)) /\ Len(FlattenSeq(ss)) = Sum(lens) /\ Sum(lens) \in Nat
      BY <2>1, <2>2, <2>3, FlattenIs
    <2>5. QED
      BY <2>4 DEF ss
  <1> HIDE DEF parts1, parts2, lens
  <1>9. AreRows(G, N, Sum(lens))
    <2>1. Len(G) = N /\ IsSeq(G)
      BY <1>2 DEF IsSeq
    <2>2. QED
      BY <1>2, <1>8, <2>1 DEF AreRows
  <1>10. IsSeq(H) /\ Len(H) = n /\ \A r \in 1 .. n : H[r] = G[a + r]
    <2>1. Len(H) = n /\ IsSeq(H)
      BY <1>2 DEF IsSeq
    <2>2. QED
      BY <1>2, <1>7, <2>1
  <1> HIDE DEF G, H
  <1>11. IsTable(Stored(AnyF64(ts), G), N) /\ Stored(AnyF64(ts), H) = Sliced(Stored(AnyF64(ts), G), a, n)
    <2> DEFINE W == Sum(lens)
               T == AnyF64(ts)
    <2>1. AreRows(G, N, W)
      BY <1>9
    <2> HIDE DEF W, T
    <2>2. IsTable(Stored(T, G), N) /\ Stored(T, H) = Sliced(Stored(T, G), a, n)
      <3>1. IsSeq(H) /\ Len(H) = n /\ (\A r \in 1 .. n : H[r] = G[a + r]) /\ IsSlice(a, n, N)
        BY <1>10
      <3>2. N \in Nat \ {0}
        BY <1>2
      <3>3. IsTable(Stored(T, G), N)
        BY ONLY <2>1, <3>2, StoredIs
      <3>4. Stored(T, H) = Sliced(Stored(T, G), a, n)
        BY ONLY <2>1, <3>1, StoredSliced
      <3>5. QED
        BY <3>3, <3>4
    <2>3. QED
      BY <2>2 DEF T
  <1>12. QED
    BY <1>6, <1>11

\* A call that reads tables of N rows, at least one.
CallOn(x, N) == IsCall(x) /\ AreTables(x.in, N) /\ x.in # << >>

\* What does not depend on the rows is read alike on a slice.
LEMMA ReadAlike ==
  ASSUME NEW a, NEW n, NEW N, IsSlice(a, n, N), NEW x, CallOn(x, N), NEW y, y = Part(x, a, n)
  PROVE  /\ Len(y.in) = Len(x.in) /\ Len(x.in) \in Nat /\ Len(x.in) # 0
         /\ \A i \in 1 .. Len(x.in) : IsTable(x.in[i], N) /\ y.in[i] = Sliced(x.in[i], a, n)
         /\ Rows(x) = 1 .. N /\ Rows(y) = 1 .. n /\ AnyF64(y.in) = AnyF64(x.in)
         /\ y.outs = x.outs /\ x.outs \in Nat /\ y.order = x.order
         /\ y.attrs = x.attrs /\ y.refs = x.refs
  <1> DEFINE ins == x.in
             cut1 == y.in
  <1>1. cut1 = [i \in DOMAIN ins |-> Sliced(ins[i], a, n)]
        /\ y.outs = x.outs /\ x.outs \in Nat /\ y.attrs = x.attrs /\ y.refs = x.refs /\ y.order = x.order
    BY PartIs DEF CallOn
  <1>2. AreTables(ins, N) /\ ins # << >>
    BY DEF CallOn
  <1>3. N \in Nat \ {0}
    BY DEF IsSlice
  <1>4. Len(cut1) = Len(ins) /\ Rows(y) = 1 .. n
    BY <1>1, <1>2, InputsSliced
  <1>5. Rows(x) = 1 .. N
    BY <1>2, <1>3, FeaturesAre
  <1>6. DOMAIN ins = 1 .. Len(ins) /\ Len(ins) \in Nat /\ Len(ins) # 0
    BY <1>2 DEF AreTables, IsSeq
  <1> HIDE DEF ins, cut1
  <1>7. \A i \in 1 .. Len(ins) : IsTable(ins[i], N) /\ cut1[i] = Sliced(ins[i], a, n)
    BY <1>1, <1>2, <1>6 DEF AreTables
  <1>8. \A i \in 1 .. Len(ins) : cut1[i].type = ins[i].type
    <2>1. TAKE i \in 1 .. Len(ins)
    <2>2. Sliced(ins[i], a, n).type = ins[i].type
      BY <1>7, SlicedIs
    <2>3. QED
      BY <1>7, <2>2
  <1>9. AnyF64(cut1) = AnyF64(ins)
    BY <1>4, <1>8 DEF AnyF64
  <1>10. QED
    BY <1>1, <1>4, <1>5, <1>6, <1>7, <1>9 DEF ins, cut1

\* So are the attributes and the constants they name.
LEMMA ParamsAlike ==
  ASSUME NEW a, NEW n, NEW N, IsSlice(a, n, N), NEW x, CallOn(x, N), NEW y, y = Part(x, a, n)
  PROVE  /\ \A name, def : Attr(y, name, def) = Attr(x, name, def)
         /\ \A name : /\ Param(y, name) = Param(x, name)
                      /\ Resolve(y, Len(y.in) + 1, name) = Resolve(x, Len(x.in) + 1, name)
                      /\ Resolve64(y, Len(y.in) + 1, name) = Resolve64(x, Len(x.in) + 1, name)
         /\ \A k, name : k \in Nat /\ k > Len(x.in) =>
              Resolve(y, k, name) = Resolve(x, k, name) /\ Resolve64(y, k, name) = Resolve64(x, k, name)
  <1>1. Len(y.in) = Len(x.in) /\ Len(x.in) \in Nat /\ y.attrs = x.attrs /\ y.refs = x.refs
    BY ReadAlike
  <1>2. \A name, def : Attr(y, name, def) = Attr(x, name, def)
    BY <1>1 DEF Attr
  <1>3. ASSUME NEW k \in Nat, k > Len(x.in), NEW name
        PROVE  Resolve(y, k, name) = Resolve(x, k, name) /\ Resolve64(y, k, name) = Resolve64(x, k, name)
    <2>1. ~(k <= Len(x.in)) /\ ~(k <= Len(y.in))
      BY <1>1, <1>3
    <2>2. Resolve(y, k, name) = Resolve(x, k, name)
      BY <1>1, <2>1 DEF Resolve
    <2>3. QED
      BY <1>1, <2>2 DEF Resolve64
  <1>4. Len(x.in) + 1 \in Nat /\ Len(x.in) + 1 > Len(x.in)
    BY <1>1
  <1>5. ASSUME NEW name
        PROVE  /\ Param(y, name) = Param(x, name)
               /\ Resolve(y, Len(y.in) + 1, name) = Resolve(x, Len(x.in) + 1, name)
               /\ Resolve64(y, Len(y.in) + 1, name) = Resolve64(x, Len(x.in) + 1, name)
    BY <1>1, <1>3, <1>4 DEF Param
  <1>6. QED
    BY <1>2, <1>3, <1>5

LEMMA TableAlike ==
  ASSUME NEW a, NEW n, NEW N, IsSlice(a, n, N), NEW t, IsTable(t, N), NEW s, s = Sliced(t, a, n)
  PROVE  /\ IsTable(s, n) /\ NRows(t) = N /\ NRows(s) = n /\ NCols(s) = NCols(t) /\ NCols(t) \in Nat
         /\ Cols(t) = 1 .. NCols(t) /\ Cols(s) = 1 .. NCols(t)
         /\ s.type = t.type /\ Width(s) = Width(t) /\ IsString(s) = IsString(t)
         /\ \A r \in 1 .. n : /\ a + r \in 1 .. N /\ s.cells[r] = t.cells[a + r]
                              /\ \A c : (NCols(t) = 1 => c = 1) => Get(s, r, c) = Get(t, a + r, c)
  <1>1. /\ IsTable(s, n) /\ s.type = t.type /\ NCols(s) = NCols(t) /\ NRows(s) = n
        /\ \A r \in 1 .. n : a + r \in 1 .. N /\ s.cells[r] = t.cells[a + r]
    BY SlicedIs
  <1>2. NRows(t) = N
    BY DEF IsTable, NRows
  <1>3. NCols(t) \in Nat
    <2>1. 1 \in 1 .. N
      BY DEF IsSlice
    <2>2. IsSeq(t.cells[1])
      BY <2>1 DEF IsTable
    <2>3. QED
      BY <2>2 DEF IsSeq, NCols
  <1>4. \A r \in 1 .. n : \A c : (NCols(t) = 1 => c = 1) => Get(s, r, c) = Get(t, a + r, c)
    BY GetSliced
  <1>5. Cols(t) = 1 .. NCols(t) /\ Cols(s) = 1 .. NCols(t)
    BY <1>1 DEF Cols
  <1>6. Width(s) = Width(t) /\ IsString(s) = IsString(t)
    BY <1>1 DEF Width, IsString
  <1>7. QED
    BY <1>1, <1>2, <1>3, <1>4, <1>5, <1>6

LEMMA SourceSplits ==
  ASSUME NEW a, NEW n, NEW N, IsSlice(a, n, N), NEW x, CallOn(x, N), NEW y, y = Part(x, a, n)
  PROVE  IsTable(Source(x), N) /\ Source(y) = Sliced(Source(x), a, n)
  <1> DEFINE ins == x.in
             cut1 == y.in
  <1>1. /\ Len(cut1) = Len(ins) /\ Len(ins) \in Nat /\ Len(ins) # 0
        /\ \A i \in 1 .. Len(ins) : IsTable(ins[i], N) /\ cut1[i] = Sliced(ins[i], a, n)
    BY ReadAlike
  <1>2. AreTables(ins, N) /\ ins # << >> /\ cut1 = [i \in DOMAIN ins |-> Sliced(ins[i], a, n)]
    BY PartIs DEF CallOn
  <1>3. Source(x) = (IF Len(ins) > 1 THEN Beside(ins) ELSE ins[1])
        /\ Source(y) = (IF Len(cut1) > 1 THEN Beside(cut1) ELSE cut1[1])
    BY DEF Source
  <1> HIDE DEF ins, cut1
  <1>4. IsTable(Beside(ins), N) /\ Beside(cut1) = Sliced(Beside(ins), a, n)
    BY <1>2, BesideSplits
  <1>5. 1 \in 1 .. Len(ins)
    BY <1>1
  <1>6. QED
    BY <1>1, <1>3, <1>4, <1>5

LEMMA IdentitySplits ==
  ASSUME NEW a, NEW n, NEW N, IsSlice(a, n, N), NEW x, CallOn(x, N)
  PROVE  Local(Identity(x), Identity(Part(x, a, n)), a, n, N)
  <1> DEFINE y == Part(x, a, n)
             m == IF Len(x.in) < x.outs THEN Len(x.in) ELSE x.outs
             ts == [i \in 1 .. m |-> x.in[i]]
             us == [i \in 1 .. m |-> y.in[i]]
  <1>1. /\ Len(y.in) = Len(x.in) /\ Len(x.in) \in Nat /\ y.outs = x.outs /\ x.outs \in Nat
        /\ \A i \in 1 .. Len(x.in) : IsTable(x.in[i], N) /\ y.in[i] = Sliced(x.in[i], a, n)
    BY ReadAlike
  <1> HIDE DEF y
  <1>2. Identity(x) = [ok |-> TRUE, out |-> ts] /\ Identity(y) = [ok |-> TRUE, out |-> us]
    BY <1>1 DEF Identity, Gives
  <1>3. m \in Nat /\ m <= Len(x.in)
    BY <1>1
  <1> HIDE DEF m
  <1>4. Len(ts) = m /\ DOMAIN ts = 1 .. m /\ IsSeq(ts)
    <2>1. Len(ts) = m
      BY <1>3
    <2>2. QED
      BY <1>3, <2>1 DEF IsSeq
  <1>5. \A i \in 1 .. m : IsTable(ts[i], N) /\ us[i] = Sliced(ts[i], a, n)
    BY <1>1, <1>3
  <1>6. us = [i \in 1 .. m |-> us[i]]
    OBVIOUS
  <1> HIDE DEF ts, us
  <1>7. AreTables(ts, N) /\ AreSlices(ts, us, a, n)
    BY <1>4, <1>5, <1>6 DEF AreTables, AreSlices
  <1>8. QED
    BY <1>2, <1>7 DEF Local, Shares, y

LEMMA ConcatSplits ==
  ASSUME NEW a, NEW n, NEW N, IsSlice(a, n, N), NEW x, CallOn(x, N)
  PROVE  Local(Concat(x), Concat(Part(x, a, n)), a, n, N)
  <1> DEFINE y == Part(x, a, n)
             ins == x.in
             cut1 == y.in
  <1>1. AreTables(ins, N) /\ ins # << >> /\ cut1 = [i \in DOMAIN ins |-> Sliced(ins[i], a, n)]
    BY PartIs DEF CallOn
  <1>2. Concat(x) = Gives(<<Beside(ins)>>) /\ Concat(y) = Gives(<<Beside(cut1)>>)
    BY DEF Concat
  <1> HIDE DEF ins, cut1
  <1>3. IsTable(Beside(ins), N) /\ Beside(cut1) = Sliced(Beside(ins), a, n)
    BY <1>1, BesideSplits
  <1>4. QED
    BY <1>2, <1>3, OneGives

\* A scaler: a parameter for each column.
LEMMA StandardScalerSplits ==
  ASSUME NEW a, NEW n, NEW N, IsSlice(a, n, N), NEW x, CallOn(x, N)
  PROVE  Local(StandardScaler(x), StandardScaler(Part(x, a, n)), a, n, N)
  <1> DEFINE y == Part(x, a, n)
             t == Source(x)
             s == Source(y)
             mean == FlatOr(Resolve64(x, Len(x.in) + 1, "mean"), NCols(t), 0)
             scale == FlatOr(Resolve64(x, Len(x.in) + 1, "scale"), NCols(t), 0)
             meanOf == FlatOr(Resolve64(y, Len(y.in) + 1, "mean"), NCols(s), 0)
             scaleOf == FlatOr(Resolve64(y, Len(y.in) + 1, "scale"), NCols(s), 0)
             W == NCols(t)
             T == Width(t)
             G == [r \in 1 .. N |-> [c \in 1 .. W |-> Scaled(Get(t, r, c), mean[c], scale[c])]]
             H == [r \in 1 .. n |-> [c \in 1 .. W |-> Scaled(Get(s, r, c), mean[c], scale[c])]]
  <1>1. IsTable(t, N) /\ s = Sliced(t, a, n)
    BY SourceSplits
  <1>2. /\ Resolve64(y, Len(y.in) + 1, "mean") = Resolve64(x, Len(x.in) + 1, "mean")
        /\ Resolve64(y, Len(y.in) + 1, "scale") = Resolve64(x, Len(x.in) + 1, "scale")
    BY ParamsAlike
  <1> HIDE DEF y
  <1>3. StandardScaler(x) = Gives(<<Mapped(t, LAMBDA v, c : Scaled(v, mean[c], scale[c]))>>)
    BY DEF StandardScaler
  <1>4. StandardScaler(y) = Gives(<<Mapped(s, LAMBDA v, c : Scaled(v, meanOf[c], scaleOf[c]))>>)
    BY DEF StandardScaler
  <1> HIDE DEF t, s
  <1>5. /\ NRows(t) = N /\ NRows(s) = n /\ NCols(s) = W /\ W \in Nat
        /\ Cols(t) = 1 .. W /\ Cols(s) = 1 .. W /\ Width(s) = T
        /\ \A r \in 1 .. n : a + r \in 1 .. N
        /\ \A r \in 1 .. n, c \in 1 .. W : Get(s, r, c) = Get(t, a + r, c)
    BY <1>1, TableAlike
  <1>6. meanOf = mean /\ scaleOf = scale
    BY <1>2, <1>5
  <1> HIDE DEF mean, scale, meanOf, scaleOf
  <1>7. StandardScaler(x) = Gives(<<Stored(T, G)>>)
    BY <1>3, <1>5 DEF Mapped
  <1>8. StandardScaler(y) = Gives(<<Stored(T, H)>>)
    BY <1>4, <1>5, <1>6 DEF Mapped
  <1>9. IsGrid(G, N, W) /\ IsGrid(H, n, W)
    BY DEF IsGrid
  <1>10. \A r \in 1 .. n, c \in 1 .. W : H[r][c] = G[a + r][c]
    BY <1>5
  <1> HIDE DEF G, H, W, T
  <1>11. Local(Gives(<<Stored(T, G)>>), Gives(<<Stored(T, H)>>), a, n, N)
    BY <1>5, <1>9, <1>10, CellsGive
  <1>12. QED
    BY <1>7, <1>8, <1>11 DEF y

LEMMA RobustScalerSplits ==
  ASSUME NEW a, NEW n, NEW N, IsSlice(a, n, N), NEW x, CallOn(x, N)
  PROVE  Local(RobustScaler(x), RobustScaler(Part(x, a, n)), a, n, N)
  <1> DEFINE y == Part(x, a, n)
             t == Source(x)
             s == Source(y)
             center == FlatOr(Param(x, "center"), NCols(t), 0)
             centerOf == FlatOr(Param(y, "center"), NCols(s), 0)
             scale == FlatOr(Param(x, "scale"), NCols(t), 0)
             scaleOf == FlatOr(Param(y, "scale"), NCols(s), 0)
             W == NCols(t)
             T == Width(t)
             G == [r \in 1 .. N |-> [c \in 1 .. W |-> Scaled(Get(t, r, c), center[c], scale[c])]]
             H == [r \in 1 .. n |-> [c \in 1 .. W |-> Scaled(Get(s, r, c), center[c], scale[c])]]
  <1>1. IsTable(t, N) /\ s = Sliced(t, a, n)
    BY SourceSplits
  <1>2. Param(y, "center") = Param(x, "center") /\ Param(y, "scale") = Param(x, "scale")
    BY ParamsAlike
  <1> HIDE DEF y
  <1>3. RobustScaler(x) = Gives(<<Mapped(t, LAMBDA v, c : Scaled(v, center[c], scale[c]))>>)
    BY DEF RobustScaler
  <1>4. RobustScaler(y) = Gives(<<Mapped(s, LAMBDA v, c : Scaled(v, centerOf[c], scaleOf[c]))>>)
    BY DEF RobustScaler
  <1> HIDE DEF t, s
  <1>5. /\ NRows(t) = N /\ NRows(s) = n /\ NCols(s) = W /\ W \in Nat
        /\ Cols(t) = 1 .. W /\ Cols(s) = 1 .. W /\ Width(s) = T
        /\ \A r \in 1 .. n : a + r \in 1 .. N
        /\ \A r \in 1 .. n, c \in 1 .. W : Get(s, r, c) = Get(t, a + r, c)
    BY <1>1, TableAlike
  <1>6. centerOf = center /\ scaleOf = scale
    BY <1>2, <1>5
  <1> HIDE DEF center, centerOf, scale, scaleOf
  <1>7. RobustScaler(x) = Gives(<<Stored(T, G)>>)
    BY <1>3, <1>5 DEF Mapped
  <1>8. RobustScaler(y) = Gives(<<Stored(T, H)>>)
    BY <1>4, <1>5, <1>6 DEF Mapped
  <1>9. IsGrid(G, N, W) /\ IsGrid(H, n, W)
    BY DEF IsGrid
  <1>10. \A r \in 1 .. n, c \in 1 .. W : H[r][c] = G[a + r][c]
    BY <1>5
  <1> HIDE DEF G, H, W, T
  <1>11. Local(Gives(<<Stored(T, G)>>), Gives(<<Stored(T, H)>>), a, n, N)
    BY <1>5, <1>9, <1>10, CellsGive
  <1>12. QED
    BY <1>7, <1>8, <1>11 DEF y

LEMMA MaxAbsScalerSplits ==
  ASSUME NEW a, NEW n, NEW N, IsSlice(a, n, N), NEW x, CallOn(x, N)
  PROVE  Local(MaxAbsScaler(x), MaxAbsScaler(Part(x, a, n)), a, n, N)
  <1> DEFINE y == Part(x, a, n)
             t == Source(x)
             s == Source(y)
             scale == FlatOr(Param(x, "scale"), NCols(t), 0)
             scaleOf == FlatOr(Param(y, "scale"), NCols(s), 0)
             W == NCols(t)
             T == Width(t)
             G == [r \in 1 .. N |-> [c \in 1 .. W |-> Scaled(Get(t, r, c), 0, scale[c])]]
             H == [r \in 1 .. n |-> [c \in 1 .. W |-> Scaled(Get(s, r, c), 0, scale[c])]]
  <1>1. IsTable(t, N) /\ s = Sliced(t, a, n)
    BY SourceSplits
  <1>2. Param(y, "scale") = Param(x, "scale")
    BY ParamsAlike
  <1> HIDE DEF y
  <1>3. MaxAbsScaler(x) = Gives(<<Mapped(t, LAMBDA v, c : Scaled(v, 0, scale[c]))>>)
    BY DEF MaxAbsScaler
  <1>4. MaxAbsScaler(y) = Gives(<<Mapped(s, LAMBDA v, c : Scaled(v, 0, scaleOf[c]))>>)
    BY DEF MaxAbsScaler
  <1> HIDE DEF t, s
  <1>5. /\ NRows(t) = N /\ NRows(s) = n /\ NCols(s) = W /\ W \in Nat
        /\ Cols(t) = 1 .. W /\ Cols(s) = 1 .. W /\ Width(s) = T
        /\ \A r \in 1 .. n : a + r \in 1 .. N
        /\ \A r \in 1 .. n, c \in 1 .. W : Get(s, r, c) = Get(t, a + r, c)
    BY <1>1, TableAlike
  <1>6. scaleOf = scale
    BY <1>2, <1>5
  <1> HIDE DEF scale, scaleOf
  <1>7. MaxAbsScaler(x) = Gives(<<Stored(T, G)>>)
    BY <1>3, <1>5 DEF Mapped
  <1>8. MaxAbsScaler(y) = Gives(<<Stored(T, H)>>)
    BY <1>4, <1>5, <1>6 DEF Mapped
  <1>9. IsGrid(G, N, W) /\ IsGrid(H, n, W)
    BY DEF IsGrid
  <1>10. \A r \in 1 .. n, c \in 1 .. W : H[r][c] = G[a + r][c]
    BY <1>5
  <1> HIDE DEF G, H, W, T
  <1>11. Local(Gives(<<Stored(T, G)>>), Gives(<<Stored(T, H)>>), a, n, N)
    BY <1>5, <1>9, <1>10, CellsGive
  <1>12. QED
    BY <1>7, <1>8, <1>11 DEF y

LEMMA MinMaxScalerSplits ==
  ASSUME NEW a, NEW n, NEW N, IsSlice(a, n, N), NEW x, CallOn(x, N)
  PROVE  Local(MinMaxScaler(x), MinMaxScaler(Part(x, a, n)), a, n, N)
  <1> DEFINE y == Part(x, a, n)
             t == Source(x)
             s == Source(y)
             low == FlatOr(Param(x, "data_min"), NCols(t), 0)
             lowOf == FlatOr(Param(y, "data_min"), NCols(s), 0)
             span == FlatOr(Param(x, "data_max"), NCols(t), 0)
             spanOf == FlatOr(Param(y, "data_max"), NCols(s), 0)
             lo == Attr(x, "feature_range_min", 0)
             hi == Attr(x, "feature_range_max", 1)
             loOf == Attr(y, "feature_range_min", 0)
             hiOf == Attr(y, "feature_range_max", 1)
             W == NCols(t)
             T == Width(t)
             G == [r \in 1 .. N |-> [c \in 1 .. W |-> Plus(Scaled(Times(Minus(Get(t, r, c), low[c]), hi - lo), 0, span[c]), lo)]]
             H == [r \in 1 .. n |-> [c \in 1 .. W |-> Plus(Scaled(Times(Minus(Get(s, r, c), low[c]), hi - lo), 0, span[c]), lo)]]
  <1>1. IsTable(t, N) /\ s = Sliced(t, a, n)
    BY SourceSplits
  <1>2. /\ Param(y, "data_min") = Param(x, "data_min") /\ Param(y, "data_max") = Param(x, "data_max") 
        /\ loOf = lo /\ hiOf = hi
    BY ParamsAlike
  <1> HIDE DEF y
  <1>3. MinMaxScaler(x) = Gives(<<Mapped(t, LAMBDA v, c : Plus(Scaled(Times(Minus(v, low[c]), hi - lo), 0, span[c]), lo))>>)
    BY DEF MinMaxScaler
  <1>4. MinMaxScaler(y) = Gives(<<Mapped(s, LAMBDA v, c : Plus(Scaled(Times(Minus(v, lowOf[c]), hiOf - loOf), 0, spanOf[c]), loOf))>>)
    BY DEF MinMaxScaler
  <1> HIDE DEF t, s
  <1>5. /\ NRows(t) = N /\ NRows(s) = n /\ NCols(s) = W /\ W \in Nat
        /\ Cols(t) = 1 .. W /\ Cols(s) = 1 .. W /\ Width(s) = T
        /\ \A r \in 1 .. n : a + r \in 1 .. N
        /\ \A r \in 1 .. n, c \in 1 .. W : Get(s, r, c) = Get(t, a + r, c)
    BY <1>1, TableAlike
  <1>6. lowOf = low /\ spanOf = span /\ loOf = lo /\ hiOf = hi
    BY <1>2, <1>5
  <1> HIDE DEF low, lowOf, span, spanOf, lo, hi, loOf, hiOf
  <1>7. MinMaxScaler(x) = Gives(<<Stored(T, G)>>)
    BY <1>3, <1>5 DEF Mapped
  <1>8. MinMaxScaler(y) = Gives(<<Stored(T, H)>>)
    BY <1>4, <1>5, <1>6 DEF Mapped
  <1>9. IsGrid(G, N, W) /\ IsGrid(H, n, W)
    BY DEF IsGrid
  <1>10. \A r \in 1 .. n, c \in 1 .. W : H[r][c] = G[a + r][c]
    BY <1>5
  <1> HIDE DEF G, H, W, T
  <1>11. Local(Gives(<<Stored(T, G)>>), Gives(<<Stored(T, H)>>), a, n, N)
    BY <1>5, <1>9, <1>10, CellsGive
  <1>12. QED
    BY <1>7, <1>8, <1>11 DEF y

\* Inputs of one shape, whose elements at a place are reduced.
Even(x) == \A k \in 1 .. Len(x.in) : NCols(x.in[k]) = NCols(x.in[1])

LEMMA VectorSplits ==
  ASSUME NEW a, NEW n, NEW N, IsSlice(a, n, N), NEW x, CallOn(x, N), Even(x),
         NEW y, y = Part(x, a, n)
  PROVE  /\ NCols(x.in[1]) \in Nat /\ Cols(x.in[1]) = 1 .. NCols(x.in[1]) /\ Cols(y.in[1]) = 1 .. NCols(x.in[1])
         /\ \A r \in 1 .. n, c \in 1 .. NCols(x.in[1]) :
              a + r \in 1 .. N /\ Vector(y, r, c) = Vector(x, a + r, c)
  <1> DEFINE ins == x.in
             cut1 == y.in
             W == NCols(ins[1])
  <1>1. /\ Len(cut1) = Len(ins) /\ Len(ins) \in Nat /\ Len(ins) # 0
        /\ \A i \in 1 .. Len(ins) : IsTable(ins[i], N) /\ cut1[i] = Sliced(ins[i], a, n)
    BY ReadAlike
  <1>2. \A k \in 1 .. Len(ins) : NCols(ins[k]) = W
    BY DEF Even
  <1>3. \A r, c : /\ Vector(x, r, c) = [k \in 1 .. Len(ins) |-> Get(ins[k], r, c)]
                  /\ Vector(y, r, c) = [k \in 1 .. Len(cut1) |-> Get(cut1[k], r, c)]
    BY DEF Vector
  <1> HIDE DEF ins, cut1
  <1>4. 1 \in 1 .. Len(ins)
    BY <1>1
  <1>5. W \in Nat /\ Cols(ins[1]) = 1 .. W /\ Cols(cut1[1]) = 1 .. W /\ \A r \in 1 .. n : a + r \in 1 .. N
    BY <1>1, <1>4, TableAlike
  <1> HIDE DEF W
  <1>6. ASSUME NEW r \in 1 .. n, NEW c \in 1 .. W PROVE Vector(y, r, c) = Vector(x, a + r, c)
    <2>1. ASSUME NEW k \in 1 .. Len(ins) PROVE Get(cut1[k], r, c) = Get(ins[k], a + r, c)
      <3>1. NCols(ins[k]) = 1 => c = 1
        BY <1>2, <1>5
      <3>2. IsTable(ins[k], N) /\ cut1[k] = Sliced(ins[k], a, n)
        BY <1>1
      <3>3. QED
        BY <3>1, <3>2, GetSliced
    <2>2. QED
      BY <1>1, <1>3, <2>1
  <1>7. QED
    BY <1>5, <1>6 DEF W, ins, cut1

LEMMA SumOpSplits ==
  ASSUME NEW a, NEW n, NEW N, IsSlice(a, n, N), NEW x, CallOn(x, N), Even(x)
  PROVE  Local(SumOp(x), SumOp(Part(x, a, n)), a, n, N)
  <1> DEFINE y == Part(x, a, n)
             W == NCols(x.in[1])
             T == AnyF64(x.in)
             G == [r \in 1 .. N |-> [c \in 1 .. W |-> Sum(Vector(x, r, c))]]
             H == [r \in 1 .. n |-> [c \in 1 .. W |-> Sum(Vector(y, r, c))]]
  <1>1. Rows(x) = 1 .. N /\ Rows(y) = 1 .. n /\ AnyF64(y.in) = T /\ Len(y.in) = Len(x.in)
    BY ReadAlike
  <1>2. /\ W \in Nat /\ Cols(x.in[1]) = 1 .. W /\ Cols(y.in[1]) = 1 .. W
        /\ \A r \in 1 .. n, c \in 1 .. W : a + r \in 1 .. N /\ Vector(y, r, c) = Vector(x, a + r, c)
    BY VectorSplits
  <1> HIDE DEF y
  <1>3. SumOp(x) = Gives(<<Stored(T, G)>>)
    BY <1>1, <1>2 DEF SumOp, Reduced
  <1>4. SumOp(y) = Gives(<<Stored(T, H)>>)
    BY <1>1, <1>2 DEF SumOp, Reduced
  <1>5. IsGrid(G, N, W) /\ IsGrid(H, n, W)
    BY DEF IsGrid
  <1>6. \A r \in 1 .. n, c \in 1 .. W : H[r][c] = G[a + r][c]
    BY <1>2
  <1> HIDE DEF G, H, W, T
  <1>7. Local(Gives(<<Stored(T, G)>>), Gives(<<Stored(T, H)>>), a, n, N)
    BY <1>2, <1>5, <1>6, CellsGive
  <1>8. QED
    BY <1>3, <1>4, <1>7 DEF y

LEMMA AverageSplits ==
  ASSUME NEW a, NEW n, NEW N, IsSlice(a, n, N), NEW x, CallOn(x, N), Even(x)
  PROVE  Local(Average(x), Average(Part(x, a, n)), a, n, N)
  <1> DEFINE y == Part(x, a, n)
             W == NCols(x.in[1])
             T == AnyF64(x.in)
             G == [r \in 1 .. N |-> [c \in 1 .. W |-> Over(Sum(Vector(x, r, c)), Len(x.in))]]
             H == [r \in 1 .. n |-> [c \in 1 .. W |-> Over(Sum(Vector(y, r, c)), Len(x.in))]]
  <1>1. Rows(x) = 1 .. N /\ Rows(y) = 1 .. n /\ AnyF64(y.in) = T /\ Len(y.in) = Len(x.in)
    BY ReadAlike
  <1>2. /\ W \in Nat /\ Cols(x.in[1]) = 1 .. W /\ Cols(y.in[1]) = 1 .. W
        /\ \A r \in 1 .. n, c \in 1 .. W : a + r \in 1 .. N /\ Vector(y, r, c) = Vector(x, a + r, c)
    BY VectorSplits
  <1> HIDE DEF y
  <1>3. Average(x) = Gives(<<Stored(T, G)>>)
    BY <1>1, <1>2 DEF Average, Reduced
  <1>4. Average(y) = Gives(<<Stored(T, H)>>)
    BY <1>1, <1>2 DEF Average, Reduced
  <1>5. IsGrid(G, N, W) /\ IsGrid(H, n, W)
    BY DEF IsGrid
  <1>6. \A r \in 1 .. n, c \in 1 .. W : H[r][c] = G[a + r][c]
    BY <1>2
  <1> HIDE DEF G, H, W, T
  <1>7. Local(Gives(<<Stored(T, G)>>), Gives(<<Stored(T, H)>>), a, n, N)
    BY <1>2, <1>5, <1>6, CellsGive
  <1>8. QED
    BY <1>3, <1>4, <1>7 DEF y

LEMMA MinOpSplits ==
  ASSUME NEW a, NEW n, NEW N, IsSlice(a, n, N), NEW x, CallOn(x, N), Even(x)
  PROVE  Local(MinOp(x), MinOp(Part(x, a, n)), a, n, N)
  <1> DEFINE y == Part(x, a, n)
             W == NCols(x.in[1])
             T == AnyF64(x.in)
             G == [r \in 1 .. N |-> [c \in 1 .. W |-> Smallest(Vector(x, r, c))]]
             H == [r \in 1 .. n |-> [c \in 1 .. W |-> Smallest(Vector(y, r, c))]]
  <1>1. Rows(x) = 1 .. N /\ Rows(y) = 1 .. n /\ AnyF64(y.in) = T /\ Len(y.in) = Len(x.in)
    BY ReadAlike
  <1>2. /\ W \in Nat /\ Cols(x.in[1]) = 1 .. W /\ Cols(y.in[1]) = 1 .. W
        /\ \A r \in 1 .. n, c \in 1 .. W : a + r \in 1 .. N /\ Vector(y, r, c) = Vector(x, a + r, c)
    BY VectorSplits
  <1> HIDE DEF y
  <1>3. MinOp(x) = Gives(<<Stored(T, G)>>)
    BY <1>1, <1>2 DEF MinOp, Reduced
  <1>4. MinOp(y) = Gives(<<Stored(T, H)>>)
    BY <1>1, <1>2 DEF MinOp, Reduced
  <1>5. IsGrid(G, N, W) /\ IsGrid(H, n, W)
    BY DEF IsGrid
  <1>6. \A r \in 1 .. n, c \in 1 .. W : H[r][c] = G[a + r][c]
    BY <1>2
  <1> HIDE DEF G, H, W, T
  <1>7. Local(Gives(<<Stored(T, G)>>), Gives(<<Stored(T, H)>>), a, n, N)
    BY <1>2, <1>5, <1>6, CellsGive
  <1>8. QED
    BY <1>3, <1>4, <1>7 DEF y

LEMMA MaxOpSplits ==
  ASSUME NEW a, NEW n, NEW N, IsSlice(a, n, N), NEW x, CallOn(x, N), Even(x)
  PROVE  Local(MaxOp(x), MaxOp(Part(x, a, n)), a, n, N)
  <1> DEFINE y == Part(x, a, n)
             W == NCols(x.in[1])
             T == AnyF64(x.in)
             G == [r \in 1 .. N |-> [c \in 1 .. W |-> Largest(Vector(x, r, c))]]
             H == [r \in 1 .. n |-> [c \in 1 .. W |-> Largest(Vector(y, r, c))]]
  <1>1. Rows(x) = 1 .. N /\ Rows(y) = 1 .. n /\ AnyF64(y.in) = T /\ Len(y.in) = Len(x.in)
    BY ReadAlike
  <1>2. /\ W \in Nat /\ Cols(x.in[1]) = 1 .. W /\ Cols(y.in[1]) = 1 .. W
        /\ \A r \in 1 .. n, c \in 1 .. W : a + r \in 1 .. N /\ Vector(y, r, c) = Vector(x, a + r, c)
    BY VectorSplits
  <1> HIDE DEF y
  <1>3. MaxOp(x) = Gives(<<Stored(T, G)>>)
    BY <1>1, <1>2 DEF MaxOp, Reduced
  <1>4. MaxOp(y) = Gives(<<Stored(T, H)>>)
    BY <1>1, <1>2 DEF MaxOp, Reduced
  <1>5. IsGrid(G, N, W) /\ IsGrid(H, n, W)
    BY DEF IsGrid
  <1>6. \A r \in 1 .. n, c \in 1 .. W : H[r][c] = G[a + r][c]
    BY <1>2
  <1> HIDE DEF G, H, W, T
  <1>7. Local(Gives(<<Stored(T, G)>>), Gives(<<Stored(T, H)>>), a, n, N)
    BY <1>2, <1>5, <1>6, CellsGive
  <1>8. QED
    BY <1>3, <1>4, <1>7 DEF y

LEMMA MedianOpSplits ==
  ASSUME NEW a, NEW n, NEW N, IsSlice(a, n, N), NEW x, CallOn(x, N), Even(x)
  PROVE  Local(MedianOp(x), MedianOp(Part(x, a, n)), a, n, N)
  <1> DEFINE y == Part(x, a, n)
             W == NCols(x.in[1])
             T == AnyF64(x.in)
             G == [r \in 1 .. N |-> [c \in 1 .. W |-> Median(Vector(x, r, c))]]
             H == [r \in 1 .. n |-> [c \in 1 .. W |-> Median(Vector(y, r, c))]]
  <1>1. Rows(x) = 1 .. N /\ Rows(y) = 1 .. n /\ AnyF64(y.in) = T /\ Len(y.in) = Len(x.in)
    BY ReadAlike
  <1>2. /\ W \in Nat /\ Cols(x.in[1]) = 1 .. W /\ Cols(y.in[1]) = 1 .. W
        /\ \A r \in 1 .. n, c \in 1 .. W : a + r \in 1 .. N /\ Vector(y, r, c) = Vector(x, a + r, c)
    BY VectorSplits
  <1> HIDE DEF y
  <1>3. MedianOp(x) = Gives(<<Stored(T, G)>>)
    BY <1>1, <1>2 DEF MedianOp, Reduced
  <1>4. MedianOp(y) = Gives(<<Stored(T, H)>>)
    BY <1>1, <1>2 DEF MedianOp, Reduced
  <1>5. IsGrid(G, N, W) /\ IsGrid(H, n, W)
    BY DEF IsGrid
  <1>6. \A r \in 1 .. n, c \in 1 .. W : H[r][c] = G[a + r][c]
    BY <1>2
  <1> HIDE DEF G, H, W, T
  <1>7. Local(Gives(<<Stored(T, G)>>), Gives(<<Stored(T, H)>>), a, n, N)
    BY <1>2, <1>5, <1>6, CellsGive
  <1>8. QED
    BY <1>3, <1>4, <1>7 DEF y

LEMMA WeightedAverageSplits ==
  ASSUME NEW a, NEW n, NEW N, IsSlice(a, n, N), NEW x, CallOn(x, N), Even(x)
  PROVE  Local(WeightedAverage(x), WeightedAverage(Part(x, a, n)), a, n, N)
  <1> DEFINE y == Part(x, a, n)
             ws == Weights(Attr(x, "weights", << >>), Len(x.in))
             wsOf == Weights(Attr(y, "weights", << >>), Len(y.in))
             W == NCols(x.in[1])
             T == AnyF64(x.in)
             G == [r \in 1 .. N |-> [c \in 1 .. W |-> Over(Weighed(ws, Vector(x, r, c)), TotalOf(ws))]]
             H == [r \in 1 .. n |-> [c \in 1 .. W |-> Over(Weighed(ws, Vector(y, r, c)), TotalOf(ws))]]
  <1>1. Rows(x) = 1 .. N /\ Rows(y) = 1 .. n /\ AnyF64(y.in) = T /\ Len(y.in) = Len(x.in)
    BY ReadAlike
  <1>2. /\ W \in Nat /\ Cols(x.in[1]) = 1 .. W /\ Cols(y.in[1]) = 1 .. W
        /\ \A r \in 1 .. n, c \in 1 .. W : a + r \in 1 .. N /\ Vector(y, r, c) = Vector(x, a + r, c)
    BY VectorSplits
  <1>3. wsOf = ws
    BY <1>1, ParamsAlike
  <1> HIDE DEF y, ws, wsOf
  <1>4. WeightedAverage(x) = Gives(<<Stored(T, G)>>)
    BY <1>1, <1>2 DEF WeightedAverage, Reduced, ws
  <1>5. WeightedAverage(y) = Gives(<<Stored(T, H)>>)
    BY <1>1, <1>2, <1>3 DEF WeightedAverage, Reduced, wsOf
  <1>6. IsGrid(G, N, W) /\ IsGrid(H, n, W)
    BY DEF IsGrid
  <1>7. \A r \in 1 .. n, c \in 1 .. W : H[r][c] = G[a + r][c]
    BY <1>2
  <1> HIDE DEF G, H, W, T
  <1>8. Local(Gives(<<Stored(T, G)>>), Gives(<<Stored(T, H)>>), a, n, N)
    BY <1>2, <1>6, <1>7, CellsGive
  <1>9. QED
    BY <1>4, <1>5, <1>8 DEF y

LEMMA WeightedMedianSplits ==
  ASSUME NEW a, NEW n, NEW N, IsSlice(a, n, N), NEW x, CallOn(x, N), Even(x)
  PROVE  Local(WeightedMedian(x), WeightedMedian(Part(x, a, n)), a, n, N)
  <1> DEFINE y == Part(x, a, n)
             ws == Weights(Attr(x, "weights", << >>), Len(x.in))
             wsOf == Weights(Attr(y, "weights", << >>), Len(y.in))
             W == NCols(x.in[1])
             T == AnyF64(x.in)
             G == [r \in 1 .. N |-> [c \in 1 .. W |-> MedianBy(ws, Vector(x, r, c))]]
             H == [r \in 1 .. n |-> [c \in 1 .. W |-> MedianBy(ws, Vector(y, r, c))]]
  <1>1. Rows(x) = 1 .. N /\ Rows(y) = 1 .. n /\ AnyF64(y.in) = T /\ Len(y.in) = Len(x.in)
    BY ReadAlike
  <1>2. /\ W \in Nat /\ Cols(x.in[1]) = 1 .. W /\ Cols(y.in[1]) = 1 .. W
        /\ \A r \in 1 .. n, c \in 1 .. W : a + r \in 1 .. N /\ Vector(y, r, c) = Vector(x, a + r, c)
    BY VectorSplits
  <1>3. wsOf = ws
    BY <1>1, ParamsAlike
  <1> HIDE DEF y, ws, wsOf
  <1>4. WeightedMedian(x) = Gives(<<Stored(T, G)>>)
    BY <1>1, <1>2 DEF WeightedMedian, Reduced, ws
  <1>5. WeightedMedian(y) = Gives(<<Stored(T, H)>>)
    BY <1>1, <1>2, <1>3 DEF WeightedMedian, Reduced, wsOf
  <1>6. IsGrid(G, N, W) /\ IsGrid(H, n, W)
    BY DEF IsGrid
  <1>7. \A r \in 1 .. n, c \in 1 .. W : H[r][c] = G[a + r][c]
    BY <1>2
  <1> HIDE DEF G, H, W, T
  <1>8. Local(Gives(<<Stored(T, G)>>), Gives(<<Stored(T, H)>>), a, n, N)
    BY <1>2, <1>6, <1>7, CellsGive
  <1>9. QED
    BY <1>4, <1>5, <1>8 DEF y

\* What an operator of the registry answers is what its kernel does.

LEMMA CoreAnswer ==
  ASSUME NEW x, x.op \in CoreNames
  PROVE  Answer(x) = CoreKernel(x)
  <1>1. /\ x.op \notin FeatureNames /\ x.op \notin LearnedNames /\ x.op \notin TextNames
        /\ x.op \notin ExpressionNames /\ x.op \notin NodeNames
    BY DEF CoreNames, FeatureNames, LearnedNames, TextNames, ExpressionNames, NodeNames
  <1>2. QED
    BY <1>1 DEF Answer

LEMMA FeatureAnswer ==
  ASSUME NEW x, x.op \in FeatureNames
  PROVE  Answer(x) = FeatureKernel(x)
  <1>1. /\ x.op \notin CoreNames /\ x.op \notin LearnedNames /\ x.op \notin TextNames
        /\ x.op \notin ExpressionNames /\ x.op \notin NodeNames
    BY DEF CoreNames, FeatureNames, LearnedNames, TextNames, ExpressionNames, NodeNames
  <1>2. QED
    BY <1>1 DEF Answer

LEMMA NodeAnswer ==
  ASSUME NEW x, x.op \in NodeNames
  PROVE  Answer(x) = NodeKernel(x)
  <1>1. /\ x.op \notin CoreNames /\ x.op \notin LearnedNames /\ x.op \notin TextNames
        /\ x.op \notin ExpressionNames /\ x.op \notin FeatureNames
    BY DEF CoreNames, FeatureNames, LearnedNames, TextNames, ExpressionNames, NodeNames
  <1>2. QED
    BY <1>1 DEF Answer

\* The inputs cell by cell.
LEMMA CellsAlike ==
  ASSUME NEW a, NEW n, NEW N, IsSlice(a, n, N), NEW x, CallOn(x, N), NEW y, y = Part(x, a, n),
         NEW k \in 1 .. Len(x.in)
  PROVE  /\ NRows(x.in[k]) = N /\ NRows(y.in[k]) = n /\ NCols(x.in[k]) \in Nat /\ NCols(y.in[k]) = NCols(x.in[k])
         /\ Cols(x.in[k]) = 1 .. NCols(x.in[k]) /\ Cols(y.in[k]) = 1 .. NCols(x.in[k])
         /\ Width(y.in[k]) = Width(x.in[k])
         /\ \A r \in 1 .. n : a + r \in 1 .. N /\ Get(y.in[k], r, 1) = Get(x.in[k], a + r, 1)
         /\ \A r \in 1 .. n, c \in 1 .. NCols(x.in[k]) : Get(y.in[k], r, c) = Get(x.in[k], a + r, c)
  <1> DEFINE ins == x.in
             cut1 == y.in
             t == ins[k]
             s == cut1[k]
  <1>1. IsTable(t, N) /\ s = Sliced(t, a, n)
    BY ReadAlike
  <1> HIDE DEF ins, cut1, t, s
  <1>2. /\ NRows(t) = N /\ NRows(s) = n /\ NCols(s) = NCols(t) /\ NCols(t) \in Nat
        /\ Cols(t) = 1 .. NCols(t) /\ Cols(s) = 1 .. NCols(t) /\ Width(s) = Width(t)
        /\ \A r \in 1 .. n : /\ a + r \in 1 .. N
                             /\ \A c : (NCols(t) = 1 => c = 1) => Get(s, r, c) = Get(t, a + r, c)
    BY <1>1, TableAlike
  <1>3. \A r \in 1 .. n : Get(s, r, 1) = Get(t, a + r, 1)
    BY <1>2
  <1>4. \A c \in 1 .. NCols(t) : NCols(t) = 1 => c = 1
    OBVIOUS
  <1>5. \A r \in 1 .. n, c \in 1 .. NCols(t) : Get(s, r, c) = Get(t, a + r, c)
    BY <1>2, <1>4
  <1>6. QED
    BY <1>2, <1>3, <1>5 DEF t, s, ins, cut1

\* A label for each row.
LEMMA LabelsGive ==
  ASSUME NEW a, NEW n, NEW N, IsSlice(a, n, N), NEW g, NEW h, IsSeq(g), Len(g) = N, IsSeq(h), Len(h) = n,
         \A r \in 1 .. n : h[r] = g[a + r]
  PROVE  /\ IsTable(Labels(g), N) /\ Labels(h) = Sliced(Labels(g), a, n)
         /\ Local(Gives(<<Labels(g)>>), Gives(<<Labels(h)>>), a, n, N)
  <1> DEFINE G == [r \in 1 .. N |-> <<g[r]>>]
             H == [r \in 1 .. n |-> <<h[r]>>]
  <1>1. N \in Nat \ {0} /\ n \in Nat /\ \A r \in 1 .. n : a + r \in 1 .. N
    BY DEF IsSlice
  <1>2. DOMAIN g = 1 .. N /\ DOMAIN h = 1 .. n
    BY DEF IsSeq
  <1>3. Labels(g) = Stored("f32", G) /\ Labels(h) = Stored("f32", H)
    BY <1>2 DEF Labels
  <1>4. Len(G) = N /\ IsSeq(G) /\ Len(H) = n /\ IsSeq(H)
    <2>1. Len(G) = N /\ Len(H) = n
      BY <1>1
    <2>2. QED
      BY <1>1, <2>1 DEF IsSeq
  <1>5. \A r \in 1 .. N : IsSeq(G[r]) /\ Len(G[r]) = 1
    <2>1. TAKE r \in 1 .. N
    <2> DEFINE v == g[r]
               w == <<v>>
    <2>2. G[r] = w
      OBVIOUS
    <2> HIDE DEF v, G
    <2>3. Len(w) = 1 /\ IsSeq(w)
      BY DEF IsSeq
    <2>4. QED
      BY <2>2, <2>3
  <1>6. \A r \in 1 .. n : H[r] = G[a + r]
    BY <1>1
  <1> HIDE DEF G, H
  <1>7. AreRows(G, N, 1)
    BY <1>4, <1>5 DEF AreRows
  <1>8. /\ IsTable(Stored("f32", G), N) /\ Stored("f32", H) = Sliced(Stored("f32", G), a, n)
        /\ Local(Gives(<<Stored("f32", G)>>), Gives(<<Stored("f32", H)>>), a, n, N)
    BY <1>4, <1>6, <1>7, RowsGive
  <1>9. QED
    BY <1>3, <1>8

LEMMA ArgMaxSplits ==
  ASSUME NEW a, NEW n, NEW N, IsSlice(a, n, N), NEW x, CallOn(x, N)
  PROVE  Local(ArgMax(x), ArgMax(Part(x, a, n)), a, n, N)
  <1> DEFINE y == Part(x, a, n)
             t == x.in[1]
             s == y.in[1]
             W == NCols(t)
             g == [r \in 1 .. N |-> BestOf([c \in 1 .. W |-> Get(t, r, c)])]
             h == [r \in 1 .. n |-> BestOf([c \in 1 .. W |-> Get(s, r, c)])]
  <1>1. Rows(x) = 1 .. N /\ Rows(y) = 1 .. n /\ 1 \in 1 .. Len(x.in)
    BY ReadAlike
  <1>2. Cols(t) = 1 .. W /\ Cols(s) = 1 .. W
        /\ (\A r \in 1 .. n : a + r \in 1 .. N)
        /\ \A r \in 1 .. n, c \in 1 .. W : Get(s, r, c) = Get(t, a + r, c)
    BY <1>1, CellsAlike
  <1> HIDE DEF y
  <1>3. ArgMax(x) = Gives(<<Labels(g)>>)
    BY <1>1, <1>2 DEF ArgMax, RowOf
  <1>4. ArgMax(y) = Gives(<<Labels(h)>>)
    BY <1>1, <1>2 DEF ArgMax, RowOf
  <1>5. N \in Nat /\ n \in Nat
    BY DEF IsSlice
  <1>6. IsSeq(g) /\ Len(g) = N /\ IsSeq(h) /\ Len(h) = n
    BY <1>5, MadeSeq
  <1>7. \A r \in 1 .. n : h[r] = g[a + r]
    <2>1. TAKE r \in 1 .. n
    <2>2. [c \in 1 .. W |-> Get(s, r, c)] = [c \in 1 .. W |-> Get(t, a + r, c)]
      BY <1>2
    <2>3. a + r \in 1 .. N
      BY <1>2
    <2>4. QED
      BY <2>2, <2>3
  <1> HIDE DEF g, h
  <1>8. Local(Gives(<<Labels(g)>>), Gives(<<Labels(h)>>), a, n, N)
    BY <1>6, <1>7, LabelsGive
  <1>9. QED
    BY <1>3, <1>4, <1>8 DEF y

\* A vote depends on what is cast in its row.
LEMMA VotesAlike ==
  ASSUME NEW a, NEW n, NEW N, IsSlice(a, n, N), NEW x, CallOn(x, N), NEW y, y = Part(x, a, n), NEW ws,
         NEW r \in 1 .. n
  PROVE  a + r \in 1 .. N /\ Votes(y, ws, r) = Votes(x, ws, a + r)
  <1> DEFINE ins == x.in
             cut1 == y.in
             m == Len(ins)
             p == [k \in 1 .. m |-> Get(ins[k], a + r, 1)]
             q == [k \in 1 .. m |-> Get(cut1[k], r, 1)]
  <1>1. Len(cut1) = m
    BY ReadAlike
  <1>2. a + r \in 1 .. N
    BY DEF IsSlice
  <1>3. \A k \in 1 .. m : Get(cut1[k], r, 1) = Get(ins[k], a + r, 1)
    BY CellsAlike
  <1>4. q = p
    BY <1>3
  <1>5. Votes(x, ws, a + r) = [l \in Range(p) |-> Sum([k \in 1 .. m |-> IF p[k] = l THEN ws[k] ELSE 0])]
    BY DEF Votes
  <1>6. Votes(y, ws, r) = [l \in Range(q) |-> Sum([k \in 1 .. m |-> IF q[k] = l THEN ws[k] ELSE 0])]
    BY <1>1 DEF Votes
  <1> HIDE DEF p, q
  <1>7. QED
    BY <1>2, <1>4, <1>5, <1>6

LEMMA MajorityVoteSplits ==
  ASSUME NEW a, NEW n, NEW N, IsSlice(a, n, N), NEW x, CallOn(x, N)
  PROVE  Local(MajorityVote(x), MajorityVote(Part(x, a, n)), a, n, N)
  <1> DEFINE y == Part(x, a, n)
             ws == Weights(<< >>, Len(x.in))
             g == [r \in 1 .. N |-> Winner(Votes(x, ws, r), x.order)]
             h == [r \in 1 .. n |-> Winner(Votes(y, ws, r), x.order)]
  <1>1. Rows(x) = 1 .. N /\ Rows(y) = 1 .. n /\ Len(y.in) = Len(x.in) /\ y.order = x.order
    BY ReadAlike
  <1>2. \A r \in 1 .. n : a + r \in 1 .. N /\ Votes(y, ws, r) = Votes(x, ws, a + r)
    BY VotesAlike
  <1> HIDE DEF y
  <1>3. MajorityVote(x) = Gives(<<Labels(g)>>)
    BY <1>1 DEF MajorityVote
  <1>4. MajorityVote(y) = Gives(<<Labels(h)>>)
    BY <1>1 DEF MajorityVote
  <1> HIDE DEF ws
  <1>5. N \in Nat /\ n \in Nat
    BY DEF IsSlice
  <1>6. IsSeq(g) /\ Len(g) = N /\ IsSeq(h) /\ Len(h) = n
    BY <1>5, MadeSeq
  <1>7. \A r \in 1 .. n : h[r] = g[a + r]
    BY <1>2
  <1> HIDE DEF g, h
  <1>8. Local(Gives(<<Labels(g)>>), Gives(<<Labels(h)>>), a, n, N)
    BY <1>6, <1>7, LabelsGive
  <1>9. QED
    BY <1>3, <1>4, <1>8 DEF y

LEMMA WeightedMajorityVoteSplits ==
  ASSUME NEW a, NEW n, NEW N, IsSlice(a, n, N), NEW x, CallOn(x, N)
  PROVE  Local(WeightedMajorityVote(x), WeightedMajorityVote(Part(x, a, n)), a, n, N)
  <1> DEFINE y == Part(x, a, n)
             ws == Weights(Attr(x, "weights", << >>), Len(x.in))
             wsOf == Weights(Attr(y, "weights", << >>), Len(y.in))
             g == [r \in 1 .. N |-> Winner(Votes(x, ws, r), x.order)]
             h == [r \in 1 .. n |-> Winner(Votes(y, ws, r), x.order)]
  <1>1. Rows(x) = 1 .. N /\ Rows(y) = 1 .. n /\ Len(y.in) = Len(x.in) /\ y.order = x.order
    BY ReadAlike
  <1>2. wsOf = ws
    BY <1>1, ParamsAlike
  <1>3. \A r \in 1 .. n : a + r \in 1 .. N /\ Votes(y, ws, r) = Votes(x, ws, a + r)
    BY VotesAlike
  <1> HIDE DEF y, ws, wsOf
  <1>4. WeightedMajorityVote(x) = Gives(<<Labels(g)>>)
    BY <1>1 DEF WeightedMajorityVote, ws
  <1>5. WeightedMajorityVote(y) = Gives(<<Labels(h)>>)
    BY <1>1, <1>2 DEF WeightedMajorityVote, wsOf
  <1>6. N \in Nat /\ n \in Nat
    BY DEF IsSlice
  <1>7. IsSeq(g) /\ Len(g) = N /\ IsSeq(h) /\ Len(h) = n
    BY <1>6, MadeSeq
  <1>8. \A r \in 1 .. n : h[r] = g[a + r]
    BY <1>3
  <1> HIDE DEF g, h
  <1>9. Local(Gives(<<Labels(g)>>), Gives(<<Labels(h)>>), a, n, N)
    BY <1>7, <1>8, LabelsGive
  <1>10. QED
    BY <1>4, <1>5, <1>9 DEF y

LEMMA GridRows ==
  ASSUME NEW N \in Nat, NEW W \in Nat, NEW G, IsGrid(G, N, W)
  PROVE  AreRows(G, N, W)
  <1>1. \A r \in 1 .. N : G[r] = [c \in 1 .. W |-> G[r][c]]
    BY Zenon DEF IsGrid
  <1>2. IsSeq(G) /\ Len(G) = N
    <2>1. G = [r \in 1 .. N |-> G[r]]
      BY Zenon DEF IsGrid
    <2>2. Len(G) = N
      BY <2>1
    <2>3. QED
      BY <2>1, <2>2 DEF IsSeq
  <1>3. \A r \in 1 .. N : IsSeq(G[r]) /\ Len(G[r]) = W
    <2>1. TAKE r \in 1 .. N
    <2> DEFINE g == G[r]
    <2>2. g = [c \in 1 .. W |-> g[c]]
      BY <1>1
    <2> HIDE DEF g
    <2>3. Len(g) = W
      BY <2>2
    <2>4. QED
      BY <2>2, <2>3 DEF IsSeq, g
  <1>4. QED
    BY <1>2, <1>3 DEF AreRows

LEMMA GridTable ==
  ASSUME NEW N \in Nat \ {0}, NEW W \in Nat, NEW T, NEW G, IsGrid(G, N, W)
  PROVE  IsTable(Stored(T, G), N) /\ NCols(Stored(T, G)) = W
  <1>1. AreRows(G, N, W)
    BY GridRows
  <1>2. QED
    BY <1>1, StoredIs

LEMMA GridSlice ==
  ASSUME NEW a, NEW n, NEW N, IsSlice(a, n, N), NEW W \in Nat, NEW T, NEW G, NEW H,
         IsGrid(G, N, W), IsGrid(H, n, W),
         \A r \in 1 .. n, c \in 1 .. W : H[r][c] = G[a + r][c]
  PROVE  Stored(T, H) = Sliced(Stored(T, G), a, n)
  <1> DEFINE g == Stored(T, G)
             h == Stored(T, H)
  <1>1. Local(Gives(<<g>>), Gives(<<h>>), a, n, N)
    BY CellsGive
  <1> HIDE DEF g, h
  <1>2. <<h>> = [i \in DOMAIN <<g>> |-> Sliced(<<g>>[i], a, n)]
    BY <1>1 DEF Local, Shares, AreSlices, Gives
  <1>3. h = Sliced(g, a, n)
    BY <1>2
  <1>4. QED
    BY <1>3 DEF g, h

\* A table at another width.
LEMMA ConvertedSplits ==
  ASSUME NEW a, NEW n, NEW N, IsSlice(a, n, N), NEW t, IsTable(t, N), NEW s, s = Sliced(t, a, n), NEW T
  PROVE  /\ IsTable(Converted(t, T), N) /\ Converted(s, T) = Sliced(Converted(t, T), a, n)
         /\ NCols(Converted(t, T)) = NCols(t)
  <1> DEFINE W == NCols(t)
             G == [r \in 1 .. N |-> [c \in 1 .. W |-> Get(t, r, c)]]
             H == [r \in 1 .. n |-> [c \in 1 .. W |-> Get(s, r, c)]]
  <1>1. /\ NRows(t) = N /\ NRows(s) = n /\ NCols(s) = W /\ W \in Nat
        /\ \A r \in 1 .. n : a + r \in 1 .. N
        /\ \A r \in 1 .. n, c \in 1 .. W : Get(s, r, c) = Get(t, a + r, c)
    BY TableAlike
  <1>2. Converted(t, T) = Stored(T, G) /\ Converted(s, T) = Stored(T, H)
    BY <1>1 DEF Converted
  <1>3. IsGrid(G, N, W) /\ IsGrid(H, n, W)
    BY DEF IsGrid
  <1>4. \A r \in 1 .. n, c \in 1 .. W : H[r][c] = G[a + r][c]
    BY <1>1
  <1> HIDE DEF G, H, W
  <1>5. Stored(T, H) = Sliced(Stored(T, G), a, n)
    BY <1>1, <1>3, <1>4, GridSlice
  <1>6. IsTable(Stored(T, G), N) /\ NCols(Stored(T, G)) = W
    <2>1. N \in Nat \ {0}
      BY DEF IsSlice
    <2>2. QED
      BY <1>1, <1>3, <2>1, GridTable
  <1>7. QED
    BY <1>2, <1>5, <1>6 DEF W

LEMMA CastSplits ==
  ASSUME NEW a, NEW n, NEW N, IsSlice(a, n, N), NEW x, CallOn(x, N)
  PROVE  /\ Local(Cast(x), Cast(Part(x, a, n)), a, n, N)
         /\ Local(SparseToDense(x), SparseToDense(Part(x, a, n)), a, n, N)
  <1> DEFINE y == Part(x, a, n)
             t == x.in[1]
             s == y.in[1]
             type == Attr(x, "output_dtype", "float32")
             typeOf == Attr(y, "output_dtype", "float32")
             T == CASE type = "float64" -> "f64" [] type \in {"int32", "int64"} -> Width(t) [] OTHER -> "f32"
             TOf == CASE typeOf = "float64" -> "f64" [] typeOf \in {"int32", "int64"} -> Width(s) [] OTHER -> "f32"
  <1>1. 1 \in 1 .. Len(x.in) /\ IsTable(t, N) /\ s = Sliced(t, a, n)
    BY ReadAlike
  <1>2. typeOf = type
    BY ParamsAlike
  <1> HIDE DEF y
  <1>3. Cast(x) = Gives(<<Converted(t, T)>>) /\ Cast(y) = Gives(<<Converted(s, TOf)>>)
    BY Zenon DEF Cast
  <1>4. SparseToDense(x) = Gives(<<Converted(t, "f32")>>) /\ SparseToDense(y) = Gives(<<Converted(s, "f32")>>)
    BY DEF SparseToDense
  <1> HIDE DEF t, s, type, typeOf
  <1>5. Width(s) = Width(t)
    BY <1>1, TableAlike
  <1>6. TOf = T
    BY <1>2, <1>5
  <1> HIDE DEF T, TOf
  <1>7. ASSUME NEW U PROVE Local(Gives(<<Converted(t, U)>>), Gives(<<Converted(s, U)>>), a, n, N)
    <2>1. IsTable(Converted(t, U), N) /\ Converted(s, U) = Sliced(Converted(t, U), a, n)
      BY <1>1, ConvertedSplits
    <2>2. QED
      BY <2>1, OneGives
  <1>8. QED
    BY <1>3, <1>4, <1>6, <1>7 DEF y

\* Columns that are there: of one column, the first.
Picks(x) ==
  LET cols == Attr(x, "indices", << >>) IN
  Len(cols) \in Nat /\ (NCols(x.in[1]) = 1 => \A j \in 1 .. Len(cols) : cols[j] = 0)

LEMMA GatherSplits ==
  ASSUME NEW a, NEW n, NEW N, IsSlice(a, n, N), NEW x, CallOn(x, N), Picks(x)
  PROVE  Local(GatherColumns(x), GatherColumns(Part(x, a, n)), a, n, N)
  <1> DEFINE y == Part(x, a, n)
             t == x.in[1]
             s == y.in[1]
             cols == Attr(x, "indices", << >>)
             colsOf == Attr(y, "indices", << >>)
             W == Len(cols)
             T == Width(t)
             G == [r \in 1 .. N |-> [j \in 1 .. W |-> Get(t, r, cols[j] + 1)]]
             H == [r \in 1 .. n |-> [j \in 1 .. W |-> Get(s, r, cols[j] + 1)]]
  <1>1. 1 \in 1 .. Len(x.in) /\ IsTable(t, N) /\ s = Sliced(t, a, n)
    BY ReadAlike
  <1>2. colsOf = cols
    BY ParamsAlike
  <1>3. W \in Nat /\ (NCols(t) = 1 => \A j \in 1 .. W : cols[j] = 0)
    BY DEF Picks
  <1> HIDE DEF y
  <1>4. GatherColumns(x) = Gives(<<IF cols = << >> THEN t ELSE Picked(t, cols, T)>>)
    BY DEF GatherColumns
  <1>5. GatherColumns(y) = Gives(<<IF colsOf = << >> THEN s ELSE Picked(s, colsOf, Width(s))>>)
    BY DEF GatherColumns
  <1> HIDE DEF t, s, cols, colsOf
  <1>6. /\ NRows(t) = N /\ NRows(s) = n /\ Width(s) = T
        /\ \A r \in 1 .. n : /\ a + r \in 1 .. N
                             /\ \A c : (NCols(t) = 1 => c = 1) => Get(s, r, c) = Get(t, a + r, c)
    BY <1>1, TableAlike
  <1>7. \A r \in 1 .. n, j \in 1 .. W : Get(s, r, cols[j] + 1) = Get(t, a + r, cols[j] + 1)
    <2>1. TAKE r \in 1 .. n, j \in 1 .. W
    <2>2. NCols(t) = 1 => cols[j] + 1 = 1
      BY <1>3
    <2>3. QED
      BY <1>6, <2>2
  <1>8. Picked(t, cols, T) = Stored(T, G) /\ Picked(s, cols, T) = Stored(T, H)
    BY <1>6 DEF Picked
  <1>9. IsGrid(G, N, W) /\ IsGrid(H, n, W)
    BY DEF IsGrid
  <1>10. \A r \in 1 .. n, j \in 1 .. W : H[r][j] = G[a + r][j]
    BY <1>6, <1>7
  <1> HIDE DEF G, H, W, T
  <1>11. Local(Gives(<<Stored(T, G)>>), Gives(<<Stored(T, H)>>), a, n, N)
    BY <1>3, <1>9, <1>10, CellsGive
  <1>12. Local(Gives(<<t>>), Gives(<<s>>), a, n, N)
    BY <1>1, OneGives
  <1>13. QED
    BY <1>2, <1>4, <1>5, <1>6, <1>8, <1>11, <1>12 DEF y

\* A norm for each row.
LEMMA NormalizerSplits ==
  ASSUME NEW a, NEW n, NEW N, IsSlice(a, n, N), NEW x, CallOn(x, N)
  PROVE  Local(Normalizer(x), Normalizer(Part(x, a, n)), a, n, N)
  <1> DEFINE y == Part(x, a, n)
             t == Source(x)
             s == Source(y)
             norm == Attr(x, "norm", "l2")
             normOf == Attr(y, "norm", "l2")
             W == NCols(t)
             T == Width(t)
             g == [r \in 1 .. N |-> NormOf([c \in 1 .. W |-> Get(t, r, c)], norm)]
             h == [r \in 1 .. n |-> NormOf([c \in 1 .. W |-> Get(s, r, c)], normOf)]
             G == [r \in 1 .. N |-> [c \in 1 .. W |-> IF Less(0, g[r]) THEN ShareOf(Get(t, r, c), g[r]) ELSE Get(t, r, c)]]
             H == [r \in 1 .. n |-> [c \in 1 .. W |-> IF Less(0, h[r]) THEN ShareOf(Get(s, r, c), h[r]) ELSE Get(s, r, c)]]
  <1>1. IsTable(t, N) /\ s = Sliced(t, a, n)
    BY SourceSplits
  <1>2. normOf = norm
    BY ParamsAlike
  <1>3. /\ NRows(t) = N /\ NRows(s) = n /\ NCols(s) = W /\ W \in Nat
        /\ Cols(t) = 1 .. W /\ Cols(s) = 1 .. W /\ Width(s) = T
        /\ \A r \in 1 .. n : a + r \in 1 .. N
        /\ \A r \in 1 .. n, c \in 1 .. W : Get(s, r, c) = Get(t, a + r, c)
    BY <1>1, TableAlike
  <1> HIDE DEF y
  <1>4. Normalizer(x) = Gives(<<Stored(T, G)>>)
    BY <1>3 DEF Normalizer
  <1>5. Normalizer(y) = Gives(<<Stored(T, H)>>)
    BY <1>3 DEF Normalizer
  <1> HIDE DEF t, s, norm, normOf
  <1>6. \A r \in 1 .. n : h[r] = g[a + r]
    <2>1. TAKE r \in 1 .. n
    <2>2. [c \in 1 .. W |-> Get(s, r, c)] = [c \in 1 .. W |-> Get(t, a + r, c)]
      BY <1>3
    <2>3. a + r \in 1 .. N
      BY <1>3
    <2>4. QED
      BY <1>2, <2>2, <2>3
  <1> HIDE DEF g, h
  <1>7. IsGrid(G, N, W) /\ IsGrid(H, n, W)
    BY DEF IsGrid
  <1>8. \A r \in 1 .. n, c \in 1 .. W : H[r][c] = G[a + r][c]
    BY <1>3, <1>6
  <1> HIDE DEF G, H, W, T
  <1>9. Local(Gives(<<Stored(T, G)>>), Gives(<<Stored(T, H)>>), a, n, N)
    BY <1>3, <1>7, <1>8, CellsGive
  <1>10. QED
    BY <1>4, <1>5, <1>9 DEF y

\* A column for each output.
LEMMA PerOutputSplits ==
  ASSUME NEW a, NEW n, NEW N, IsSlice(a, n, N), NEW t, IsTable(t, N), NEW s, s = Sliced(t, a, n),
         NEW x, NEW y, x.outs \in Nat, y.outs = x.outs
  PROVE  Local(PerOutput(x, t), PerOutput(y, s), a, n, N)
  <1> DEFINE W == NCols(t)
             T == Width(t)
             m == IF x.outs < W THEN x.outs ELSE W
             G(i) == [r \in 1 .. N |-> [c \in 1 .. 1 |-> Get(t, r, i)]]
             H(i) == [r \in 1 .. n |-> [c \in 1 .. 1 |-> Get(s, r, i)]]
             us == [i \in 1 .. m |-> Stored(T, G(i))]
             ps == [i \in 1 .. m |-> Stored(T, H(i))]
  <1>1. /\ NRows(t) = N /\ NRows(s) = n /\ NCols(s) = W /\ W \in Nat /\ Width(s) = T
        /\ \A r \in 1 .. n : a + r \in 1 .. N
        /\ \A r \in 1 .. n, c \in 1 .. W : Get(s, r, c) = Get(t, a + r, c)
    BY TableAlike
  <1>2. m \in Nat /\ m <= W
    BY <1>1
  <1>3. CASE x.outs = 1
    <2>1. PerOutput(x, t) = Gives(<<t>>) /\ PerOutput(y, s) = Gives(<<s>>)
      BY <1>3 DEF PerOutput
    <2>2. QED
      BY <2>1, OneGives
  <1>4. CASE x.outs # 1
    <2>1. \A v : <<v>> = [c \in 1 .. 1 |-> v]
      OBVIOUS
    <2>2. PerOutput(x, t) = Gives([i \in 1 .. m |-> Stored(T, [r \in 1 .. N |-> <<Get(t, r, i)>>])])
      BY <1>1, <1>4 DEF PerOutput
    <2>3. PerOutput(y, s) = Gives([i \in 1 .. m |-> Stored(T, [r \in 1 .. n |-> <<Get(s, r, i)>>])])
      BY <1>1, <1>4 DEF PerOutput
    <2>4. \A i : G(i) = [r \in 1 .. N |-> <<Get(t, r, i)>>] /\ H(i) = [r \in 1 .. n |-> <<Get(s, r, i)>>]
      BY <2>1
    <2>5. ASSUME NEW i \in 1 .. m
          PROVE  IsTable(Stored(T, G(i)), N) /\ Stored(T, H(i)) = Sliced(Stored(T, G(i)), a, n)
      <3>1. i \in 1 .. W /\ N \in Nat \ {0}
        BY <1>1, <1>2, <2>5 DEF IsSlice
      <3> DEFINE G1 == G(i)
                 H1 == H(i)
                 one == 1
      <3>2. IsGrid(G1, N, one) /\ IsGrid(H1, n, one) /\ one \in Nat
        BY DEF IsGrid
      <3>3. \A r \in 1 .. n, c \in 1 .. one : H1[r][c] = G1[a + r][c]
        BY <1>1, <3>1
      <3> HIDE DEF G1, H1, one
      <3>4. Stored(T, H1) = Sliced(Stored(T, G1), a, n)
        BY <3>2, <3>3, GridSlice
      <3>5. IsTable(Stored(T, G1), N)
        BY <3>1, <3>2, GridTable
      <3>6. QED
        BY <3>4, <3>5 DEF G1, H1
    <2> HIDE DEF G, H, m, T
    <2>6. PerOutput(x, t) = Gives(us) /\ PerOutput(y, s) = Gives(ps)
      BY <2>2, <2>3, <2>4
    <2>7. \A i \in 1 .. m : IsTable(us[i], N) /\ ps[i] = Sliced(us[i], a, n)
      BY <2>5
    <2>8. IsSeq(us) /\ Len(us) = m /\ DOMAIN us = 1 .. m /\ ps = [i \in 1 .. m |-> ps[i]]
      <3>1. Len(us) = m
        BY <1>2
      <3>2. QED
        BY <1>2, <3>1 DEF IsSeq
    <2> HIDE DEF us, ps
    <2>9. AreTables(us, N) /\ AreSlices(us, ps, a, n)
      BY <2>7, <2>8 DEF AreTables, AreSlices
    <2>10. QED
      BY <2>6, <2>9 DEF Local, Shares, Gives
  <1>5. QED
    BY <1>3, <1>4

LEMMA SimpleImputerSplits ==
  ASSUME NEW a, NEW n, NEW N, IsSlice(a, n, N), NEW x, CallOn(x, N)
  PROVE  Local(SimpleImputer(x), SimpleImputer(Part(x, a, n)), a, n, N)
  <1> DEFINE y == Part(x, a, n)
             t == Source(x)
             s == Source(y)
             fills == FlatOr(Param(x, "fill_tensor"), NCols(t), Attr(x, "fill_value", 0))
             fillsOf == FlatOr(Param(y, "fill_tensor"), NCols(s), Attr(y, "fill_value", 0))
             W == NCols(t)
             T == Width(t)
             G == [r \in 1 .. N |-> [c \in 1 .. W |-> Fill(Get(t, r, c), fills, c)]]
             H == [r \in 1 .. n |-> [c \in 1 .. W |-> Fill(Get(s, r, c), fills, c)]]
  <1>1. IsTable(t, N) /\ s = Sliced(t, a, n)
    BY SourceSplits
  <1>2. Param(y, "fill_tensor") = Param(x, "fill_tensor") /\ Attr(y, "fill_value", 0) = Attr(x, "fill_value", 0)
        /\ y.outs = x.outs /\ x.outs \in Nat
    BY ParamsAlike, ReadAlike
  <1> HIDE DEF y
  <1>3. SimpleImputer(x) = PerOutput(x, Mapped(t, LAMBDA v, c : Fill(v, fills, c)))
    BY DEF SimpleImputer
  <1>4. SimpleImputer(y) = PerOutput(y, Mapped(s, LAMBDA v, c : Fill(v, fillsOf, c)))
    BY DEF SimpleImputer
  <1> HIDE DEF t, s
  <1>5. /\ NRows(t) = N /\ NRows(s) = n /\ NCols(s) = W /\ W \in Nat
        /\ Cols(t) = 1 .. W /\ Cols(s) = 1 .. W /\ Width(s) = T
        /\ \A r \in 1 .. n : a + r \in 1 .. N
        /\ \A r \in 1 .. n, c \in 1 .. W : Get(s, r, c) = Get(t, a + r, c)
    BY <1>1, TableAlike
  <1>6. fillsOf = fills
    BY <1>2, <1>5
  <1> HIDE DEF fills, fillsOf
  <1>7. Mapped(t, LAMBDA v, c : Fill(v, fills, c)) = Stored(T, G)
    BY <1>5 DEF Mapped
  <1>8. Mapped(s, LAMBDA v, c : Fill(v, fillsOf, c)) = Stored(T, H)
    BY <1>5, <1>6 DEF Mapped
  <1>9. IsGrid(G, N, W) /\ IsGrid(H, n, W)
    BY DEF IsGrid
  <1>10. \A r \in 1 .. n, c \in 1 .. W : H[r][c] = G[a + r][c]
    BY <1>5
  <1> HIDE DEF G, H, W, T
  <1>11. IsTable(Stored(T, G), N) /\ Stored(T, H) = Sliced(Stored(T, G), a, n)
    <2>1. N \in Nat \ {0}
      BY DEF IsSlice
    <2>2. IsTable(Stored(T, G), N)
      BY <1>5, <1>9, <2>1, GridTable
    <2>3. Stored(T, H) = Sliced(Stored(T, G), a, n)
      BY <1>5, <1>9, <1>10, GridSlice
    <2>4. QED
      BY <2>2, <2>3
  <1>12. Local(PerOutput(x, Stored(T, G)), PerOutput(y, Stored(T, H)), a, n, N)
    BY <1>2, <1>11, PerOutputSplits
  <1>13. QED
    BY <1>3, <1>4, <1>7, <1>8, <1>12 DEF y

(***************************************************************************)
(* Encoders                                                                *)
(***************************************************************************)

\* The features of a call and the constants its attributes name.
LEMMA FeaturesAlike ==
  ASSUME NEW a, NEW n, NEW N, IsSlice(a, n, N), NEW x, CallOn(x, N), NEW y, y = Part(x, a, n)
  PROVE  /\ NFeatures(y) = NFeatures(x) /\ NFeatures(x) \in Nat /\ PerCol(y) = PerCol(x)
         /\ IsString(y.in[1]) = IsString(x.in[1])
         /\ \A k \in Nat : k > 1 => Slot(y, k) = Slot(x, k) /\ Slot(x, k) \in Nat /\ Slot(x, k) > Len(x.in)
         /\ \A f \in 1 .. NFeatures(x) :
              /\ IsString(InputOf(y, f)) = IsString(InputOf(x, f))
              /\ \A r \in 1 .. n : /\ a + r \in 1 .. N
                                   /\ Text(y, r, f) = Text(x, a + r, f) /\ Num(y, r, f) = Num(x, a + r, f)
  <1>1. AreTables(x.in, N) /\ x.in # << >> /\ N \in Nat \ {0}
    BY DEF CallOn, IsSlice
  <1>2. y.in = [i \in DOMAIN x.in |-> Sliced(x.in[i], a, n)]
    BY PartIs DEF CallOn
  <1>3. PerCol(y) = PerCol(x) /\ NFeatures(y) = NFeatures(x) /\ Len(y.in) = Len(x.in)
    BY <1>1, <1>2, InputsSliced
  <1>4. NFeatures(x) \in Nat
    BY <1>1, FeaturesAre
  <1>5. IsString(y.in[1]) = IsString(x.in[1])
    <2>1. 1 \in 1 .. Len(x.in) /\ IsTable(x.in[1], N) /\ y.in[1] = Sliced(x.in[1], a, n)
      BY ReadAlike
    <2>2. QED
      BY <2>1, TableAlike
  <1>6. ASSUME NEW k \in Nat, k > 1
        PROVE  Slot(y, k) = Slot(x, k) /\ Slot(x, k) \in Nat /\ Slot(x, k) > Len(x.in)
    <2>1. Len(x.in) \in Nat
      BY ReadAlike
    <2>2. QED
      BY <1>3, <1>6, <2>1 DEF Slot, PerCol
  <1>7. ASSUME NEW f \in 1 .. NFeatures(x)
        PROVE  /\ IsString(InputOf(y, f)) = IsString(InputOf(x, f))
               /\ \A r \in 1 .. n : /\ a + r \in 1 .. N
                                    /\ Text(y, r, f) = Text(x, a + r, f) /\ Num(y, r, f) = Num(x, a + r, f)
    BY <1>1, <1>2, CellsSliced
  <1>8. QED
    BY <1>3, <1>4, <1>5, <1>6, <1>7

LEMMA SlotsAlike ==
  ASSUME NEW a, NEW n, NEW N, IsSlice(a, n, N), NEW x, CallOn(x, N), NEW y, y = Part(x, a, n)
  PROVE  \A k, name : k \in Nat /\ k > 1 =>
           /\ Resolve(y, Slot(y, k), name) = Resolve(x, Slot(x, k), name)
           /\ Resolve64(y, Slot(y, k), name) = Resolve64(x, Slot(x, k), name)
  <1>1. SUFFICES ASSUME NEW k \in Nat, k > 1, NEW name
                 PROVE  /\ Resolve(y, Slot(y, k), name) = Resolve(x, Slot(x, k), name)
                        /\ Resolve64(y, Slot(y, k), name) = Resolve64(x, Slot(x, k), name)
    OBVIOUS
  <1> DEFINE i == Slot(x, k)
  <1>2. Slot(y, k) = i /\ i \in Nat /\ i > Len(x.in)
    BY <1>1, FeaturesAlike
  <1> HIDE DEF i
  <1>3. Resolve(y, i, name) = Resolve(x, i, name) /\ Resolve64(y, i, name) = Resolve64(x, i, name)
    BY <1>2, ParamsAlike
  <1>4. QED
    BY <1>2, <1>3 DEF i

LEMMA PositionAlike ==
  ASSUME NEW a, NEW n, NEW N, IsSlice(a, n, N), NEW x, CallOn(x, N), NEW y, y = Part(x, a, n),
         NEW cats, NEW offs, NEW r \in 1 .. n, NEW f \in 1 .. NFeatures(x)
  PROVE  a + r \in 1 .. N /\ PositionOf(y, cats, offs, r, f) = PositionOf(x, cats, offs, a + r, f)
  <1>1. /\ IsString(y.in[1]) = IsString(x.in[1]) /\ a + r \in 1 .. N
        /\ Text(y, r, f) = Text(x, a + r, f) /\ Num(y, r, f) = Num(x, a + r, f)
    BY FeaturesAlike
  <1>2. QED
    BY <1>1 DEF PositionOf

\* As many ones as there are.
LEMMA OnesAre ==
  ASSUME NEW K \in Nat, NEW w, w = [f \in 1 .. K |-> 1]
  PROVE  IsSeq(w) /\ Len(w) = K /\ (\A f \in 1 .. Len(w) : w[f] \in Nat) /\ Sum(w) = K
  <1> DEFINE off == [k \in 0 .. K |-> k]
  <1>1. Len(w) = K
    OBVIOUS
  <1>2. IsSeq(w) /\ \A f \in 1 .. Len(w) : w[f] \in Nat
    BY <1>1 DEF IsSeq
  <1>3. EndsAt(off, w) /\ off[K] = K
    BY <1>1 DEF EndsAt
  <1> HIDE DEF off
  <1>4. Sum(w) = off[Len(w)]
    BY <1>2, <1>3, SumEnds
  <1>5. QED
    BY <1>1, <1>2, <1>3, <1>4

\* A cell for each feature, spread over the outputs.
LEMMA CodesSplit ==
  ASSUME NEW a, NEW n, NEW N, IsSlice(a, n, N), NEW x, CallOn(x, N), NEW y, y = Part(x, a, n),
         NEW T, NEW G, NEW H, IsGrid(G, N, NFeatures(x)), IsGrid(H, n, NFeatures(x)),
         \A r \in 1 .. n, f \in 1 .. NFeatures(x) : H[r][f] = G[a + r][f]
  PROVE  LET w == [f \in 1 .. NFeatures(x) |-> 1]
         IN  Local(Spread(x, Stored(T, G), w), Spread(y, Stored(T, H), w), a, n, N)
  <1> DEFINE K == NFeatures(x)
             w == [f \in 1 .. K |-> 1]
             g == Stored(T, G)
             h == Stored(T, H)
  <1>1. K \in Nat
    BY FeaturesAlike
  <1>2. IsSeq(w) /\ (\A f \in 1 .. Len(w) : w[f] \in Nat) /\ Sum(w) = K
    BY <1>1, OnesAre
  <1>3. h = Sliced(g, a, n)
    BY <1>1, GridSlice
  <1>4. IsTable(g, N) /\ NCols(g) = K
    <2>1. N \in Nat \ {0}
      BY DEF IsSlice
    <2>2. QED
      BY <1>1, <2>1, GridTable
  <1>5. y.outs = x.outs /\ x.outs \in Nat
    BY ReadAlike
  <1> HIDE DEF w, g, h, K
  <1>6. Sum(w) <= NCols(g)
    BY <1>1, <1>2, <1>4
  <1>7. /\ Spread(x, g, w).ok /\ AreTables(Spread(x, g, w).out, N)
        /\ Shares(Spread(x, g, w), Spread(y, h, w), a, n)
    BY <1>2, <1>3, <1>4, <1>5, <1>6, SpreadSplits
  <1>8. QED
    BY <1>7 DEF w, g, h, K, Local

LEMMA LabelEncoderSplits ==
  ASSUME NEW a, NEW n, NEW N, IsSlice(a, n, N), NEW x, CallOn(x, N)
  PROVE  Local(LabelEncoder(x), LabelEncoder(Part(x, a, n)), a, n, N)
  <1> DEFINE y == Part(x, a, n)
             K == NFeatures(x)
             cats == Resolve64(x, Slot(x, 2), "labels")
             offs == FlatOr(Resolve(x, Slot(x, 3), "label_offsets"), 0, 0)
             code(k) == IF k < 0 THEN NaN ELSE k
             cell(z, r, f) == IF cats = NoTensor THEN IF IsString(z.in[1]) THEN NaN ELSE Num(z, r, f)
                              ELSE code(PositionOf(z, cats, offs, r, f))
             w == [f \in 1 .. K |-> 1]
             T == AnyF64(x.in)
             G == [r \in 1 .. N |-> [f \in 1 .. K |-> cell(x, r, f)]]
             H == [r \in 1 .. n |-> [f \in 1 .. K |-> cell(y, r, f)]]
             catsOf == Resolve64(y, Slot(y, 2), "labels")
             offsOf == FlatOr(Resolve(y, Slot(y, 3), "label_offsets"), 0, 0)
  <1>1. Rows(x) = 1 .. N /\ Rows(y) = 1 .. n /\ AnyF64(y.in) = T
    BY ReadAlike
  <1>2. catsOf = cats /\ offsOf = offs
    BY SlotsAlike
  <1>3. NFeatures(y) = K /\ IsString(y.in[1]) = IsString(x.in[1])
        /\ \A r \in 1 .. n, f \in 1 .. K : a + r \in 1 .. N /\ Num(y, r, f) = Num(x, a + r, f)
    BY FeaturesAlike
  <1>4. \A r \in 1 .. n, f \in 1 .. K : PositionOf(y, cats, offs, r, f) = PositionOf(x, cats, offs, a + r, f)
    <2> HIDE DEF cats, offs
    <2>1. QED
      BY PositionAlike
  <1> HIDE DEF y
  <1>5. LabelEncoder(x) = Spread(x, Stored(T, G), w)
    <2>1. CASE cats = NoTensor
      BY <1>1, <2>1 DEF LabelEncoder, PassedThrough
    <2>2. CASE cats # NoTensor
      BY <1>1, <2>2 DEF LabelEncoder
    <2>3. QED
      BY <2>1, <2>2
  <1>6. LabelEncoder(y) = Spread(y, Stored(T, H), w)
    <2>1. CASE cats = NoTensor
      BY <1>1, <1>2, <1>3, <2>1 DEF LabelEncoder, PassedThrough
    <2>2. CASE cats # NoTensor
      BY <1>1, <1>2, <1>3, <2>2 DEF LabelEncoder
    <2>3. QED
      BY <2>1, <2>2
  <1>7. IsGrid(G, N, K) /\ IsGrid(H, n, K)
    BY DEF IsGrid
  <1> HIDE DEF cats, offs
  <1>8. \A r \in 1 .. n, f \in 1 .. K : H[r][f] = G[a + r][f]
    BY <1>3, <1>4
  <1> HIDE DEF G, H, T
  <1>9. Local(Spread(x, Stored(T, G), w), Spread(y, Stored(T, H), w), a, n, N)
    BY <1>7, <1>8, CodesSplit DEF y
  <1>10. QED
    BY <1>5, <1>6, <1>9 DEF y

LEMMA InValues ==
  ASSUME NEW s, IsSeq(s), NEW V, \A i \in 1 .. Len(s) : s[i] \in V
  PROVE  s \in Seq(V)
  <1> DEFINE L == Len(s)
  <1>1. s = [i \in 1 .. L |-> s[i]] /\ L \in Nat
    BY DEF IsSeq
  <1>2. \A i \in 1 .. L : s[i] \in V
    OBVIOUS
  <1> HIDE DEF L
  <1>3. QED
    BY ONLY <1>1, <1>2

LEMMA AnyAlike ==
  ASSUME NEW s, NEW t, NEW g, IsSeq(s), IsSeq(t), Len(s) = Len(t),
         \A i \in 1 .. Len(s) : s[i].type = t[i].type
  PROVE  AnyF64(s \o <<g>>) = AnyF64(t \o <<g>>)
  <1> DEFINE L == Len(s)
             V == {s[i] : i \in 1 .. L} \cup {t[i] : i \in 1 .. L} \cup {g}
             u == s \o <<g>>
             v == t \o <<g>>
  <1>1. s = [i \in 1 .. L |-> s[i]] /\ t = [i \in 1 .. L |-> t[i]] /\ L \in Nat
    BY DEF IsSeq
  <1>2. s \in Seq(V) /\ t \in Seq(V) /\ <<g>> \in Seq(V)
    <2>1. \A i \in 1 .. L : s[i] \in V /\ t[i] \in V
      OBVIOUS
    <2>2. g \in V
      OBVIOUS
    <2> HIDE DEF V
    <2>3. s \in Seq(V)
      BY <2>1, InValues
    <2>4. t \in Seq(V)
      BY <2>1, InValues
    <2>5. <<g>> \in Seq(V)
      BY <2>2
    <2>6. QED
      BY <2>3, <2>4, <2>5
  <1> HIDE DEF V
  <1>3. Len(u) = L + 1 /\ Len(v) = L + 1
    BY <1>2
  <1>4. \A i \in 1 .. L + 1 : u[i] = (IF i <= L THEN s[i] ELSE g) /\ v[i] = (IF i <= L THEN t[i] ELSE g)
    BY <1>1, <1>2
  <1> HIDE DEF u, v
  <1>5. \A i \in 1 .. L + 1 : u[i].type = v[i].type
    <2>1. TAKE i \in 1 .. L + 1
    <2>2. u[i] = (IF i <= L THEN s[i] ELSE g) /\ v[i] = (IF i <= L THEN t[i] ELSE g)
      BY <1>4
    <2>3. i <= L => i \in 1 .. L
      BY <1>1
    <2>4. i <= L => s[i].type = t[i].type
      BY <2>3
    <2>5. QED
      BY <2>2, <2>4
  <1>6. AnyF64(u) = AnyF64(v)
    BY <1>3, <1>5 DEF AnyF64
  <1>7. QED
    BY <1>6 DEF u, v

LEMMA OrdinalEncoderSplits ==
  ASSUME NEW a, NEW n, NEW N, IsSlice(a, n, N), NEW x, CallOn(x, N)
  PROVE  Local(OrdinalEncoder(x), OrdinalEncoder(Part(x, a, n)), a, n, N)
  <1> DEFINE y == Part(x, a, n)
             K == NFeatures(x)
             cats == Resolve64(x, Slot(x, 2), "categories")
             offs == FlatOr(Resolve(x, Slot(x, 3), "category_offsets"), 0, 0)
             given == Resolve64(x, Len(x.in) + 1, "encoded_values")
             vals == FlatOr(given, 0, 0)
             def == FlatOr(Resolve64(x, Len(x.in) + 1, "default_values"), 0, 0)
             worth(f, k) ==
               LET at == Begin(offs, f, Len(Flat(cats))) + k + 1
               IN  IF k < 0 THEN IF f <= Len(def) THEN def[f] ELSE NaN
                   ELSE IF at <= Len(vals) THEN vals[at] ELSE k
             cell(z, r, f) == IF cats = NoTensor THEN IF IsString(z.in[1]) THEN NaN ELSE Num(z, r, f)
                              ELSE worth(f, PositionOf(z, cats, offs, r, f))
             T == AnyF64(x.in \o <<given>>)
             G == [r \in 1 .. N |-> [f \in 1 .. K |-> cell(x, r, f)]]
             H == [r \in 1 .. n |-> [f \in 1 .. K |-> cell(y, r, f)]]
             catsOf == Resolve64(y, Slot(y, 2), "categories")
             offsOf == FlatOr(Resolve(y, Slot(y, 3), "category_offsets"), 0, 0)
             givenOf == Resolve64(y, Len(y.in) + 1, "encoded_values")
             defOf == FlatOr(Resolve64(y, Len(y.in) + 1, "default_values"), 0, 0)
  <1>1. Rows(x) = 1 .. N /\ Rows(y) = 1 .. n
    BY ReadAlike
  <1>2. catsOf = cats /\ offsOf = offs
    BY SlotsAlike
  <1>3. givenOf = given /\ defOf = def
    <2> HIDE DEF y
    <2>1. \A name : Resolve64(y, Len(y.in) + 1, name) = Resolve64(x, Len(x.in) + 1, name)
      BY ParamsAlike DEF y
    <2>2. QED
      BY <2>1
  <1>4. NFeatures(y) = K /\ K \in Nat /\ IsString(y.in[1]) = IsString(x.in[1])
        /\ \A r \in 1 .. n, f \in 1 .. K : a + r \in 1 .. N /\ Num(y, r, f) = Num(x, a + r, f)
    BY FeaturesAlike
  <1>5. \A r \in 1 .. n, f \in 1 .. K : PositionOf(y, cats, offs, r, f) = PositionOf(x, cats, offs, a + r, f)
    <2> HIDE DEF cats, offs
    <2>1. QED
      BY PositionAlike
  <1>6. AnyF64(y.in \o <<given>>) = T
    <2> DEFINE ins == x.in
               cut1 == y.in
               g == given
    <2>1. Len(cut1) = Len(ins) /\ \A i \in 1 .. Len(ins) : IsTable(ins[i], N) /\ cut1[i] = Sliced(ins[i], a, n)
      BY ReadAlike
    <2>2. IsSeq(ins) /\ IsSeq(cut1)
      <3>1. AreTables(x.in, N) /\ x.in # << >> /\ y.in = [i \in DOMAIN x.in |-> Sliced(x.in[i], a, n)]
        BY PartIs DEF CallOn
      <3>2. AreTables(y.in, n)
        BY <3>1, InputsSliced
      <3>3. QED
        BY <3>1, <3>2 DEF AreTables
    <2> HIDE DEF ins, cut1, g
    <2>3. \A i \in 1 .. Len(ins) : ins[i].type = cut1[i].type
      <3>1. TAKE i \in 1 .. Len(ins)
      <3>2. Sliced(ins[i], a, n).type = ins[i].type
        BY <2>1, SlicedIs
      <3>3. QED
        BY <2>1, <3>2
    <2>4. AnyF64(ins \o <<g>>) = AnyF64(cut1 \o <<g>>)
      BY <2>1, <2>2, <2>3, AnyAlike
    <2>5. QED
      BY <2>4 DEF ins, cut1, g
  <1> HIDE DEF y
  <1>7. OrdinalEncoder(x) = Gives(<<Stored(T, G)>>)
    <2>1. CASE cats = NoTensor
      BY <1>1, <2>1 DEF OrdinalEncoder, PassedThrough
    <2>2. CASE cats # NoTensor
      BY <1>1, <2>2 DEF OrdinalEncoder
    <2>3. QED
      BY <2>1, <2>2
  <1>8. OrdinalEncoder(y) = Gives(<<Stored(T, H)>>)
    <2>1. CASE cats = NoTensor
      BY <1>1, <1>2, <1>3, <1>4, <1>6, <2>1 DEF OrdinalEncoder, PassedThrough
    <2>2. CASE cats # NoTensor
      BY <1>1, <1>2, <1>3, <1>4, <1>6, <2>2 DEF OrdinalEncoder
    <2>3. QED
      BY <2>1, <2>2
  <1>9. IsGrid(G, N, K) /\ IsGrid(H, n, K)
    BY DEF IsGrid
  <1> HIDE DEF cats, offs, given, vals, def
  <1>10. \A r \in 1 .. n, f \in 1 .. K : H[r][f] = G[a + r][f]
    BY <1>4, <1>5
  <1> HIDE DEF G, H, T
  <1>11. Local(Gives(<<Stored(T, G)>>), Gives(<<Stored(T, H)>>), a, n, N)
    BY <1>4, <1>9, <1>10, CellsGive
  <1>12. QED
    BY <1>7, <1>8, <1>11 DEF y

\* Blocks one after the other make a row as long as they are together.
LEMMA BlocksFlat ==
  ASSUME NEW lens, IsSeq(lens), NEW ss, IsSeq(ss), Len(ss) = Len(lens),
         \A i \in 1 .. Len(ss) : IsSeq(ss[i]) /\ Len(ss[i]) = lens[i]
  PROVE  IsSeq(FlattenSeq(ss)) /\ Len(FlattenSeq(ss)) = Sum(lens) /\ Sum(lens) \in Nat
  <1> DEFINE g == [i \in 1 .. Len(ss) |-> Len(ss[i])]
  <1>1. Len(ss) \in Nat
    BY DEF IsSeq
  <1>2. IsSeq(g) /\ Len(g) = Len(ss) /\ \A i \in 1 .. Len(ss) : g[i] = Len(ss[i])
    BY <1>1, MadeSeq
  <1> HIDE DEF g
  <1>3. g = lens
    BY <1>2, SameSeq
  <1>4. lens = [i \in 1 .. Len(ss) |-> Len(ss[i])]
    BY <1>3 DEF g
  <1>5. QED
    BY <1>4, FlattenIs

LEMMA HotAlike ==
  ASSUME NEW a, NEW n, NEW N, IsSlice(a, n, N), NEW x, CallOn(x, N), NEW y, y = Part(x, a, n),
         NEW cats, NEW own, NEW r \in 1 .. n, NEW f \in 1 .. NFeatures(x)
  PROVE  a + r \in 1 .. N /\ HotPosition(y, cats, own, r, f) = HotPosition(x, cats, own, a + r, f)
  <1>1. /\ IsString(InputOf(y, f)) = IsString(InputOf(x, f)) /\ a + r \in 1 .. N
        /\ Text(y, r, f) = Text(x, a + r, f) /\ Num(y, r, f) = Num(x, a + r, f)
    BY FeaturesAlike
  <1>2. QED
    BY <1>1 DEF HotPosition

\* Offsets that give each feature a part of the categories.
Parted(x) ==
  LET cats == Resolve(x, Slot(x, 2), "categories")
      offs == FlatOr(Resolve(x, Slot(x, 3), "category_offsets"), 0, 0)
  IN  \A f \in 1 .. NFeatures(x) : IsSeq(Own(FlatOr(cats, 0, 0), offs, f))

LEMMA OneHotEncoderSplits ==
  ASSUME NEW a, NEW n, NEW N, IsSlice(a, n, N), NEW x, CallOn(x, N), Parted(x)
  PROVE  Local(OneHotEncoder(x), OneHotEncoder(Part(x, a, n)), a, n, N)
  <1> DEFINE y == Part(x, a, n)
             K == NFeatures(x)
             cats == Resolve(x, Slot(x, 2), "categories")
             offs == FlatOr(Resolve(x, Slot(x, 3), "category_offsets"), 0, 0)
             own(f) == Own(FlatOr(cats, 0, 0), offs, f)
             w == [f \in 1 .. K |-> Len(own(f))]
             hots(z, r) == [f \in 1 .. K |-> Hot(HotPosition(z, cats, own(f), r, f), w[f])]
             G == [r \in 1 .. N |-> FlattenSeq(hots(x, r))]
             H == [r \in 1 .. n |-> FlattenSeq(hots(y, r))]
             catsOf == Resolve(y, Slot(y, 2), "categories")
             offsOf == FlatOr(Resolve(y, Slot(y, 3), "category_offsets"), 0, 0)
  <1>1. Rows(x) = 1 .. N /\ Rows(y) = 1 .. n /\ y.outs = x.outs /\ x.outs \in Nat
    BY ReadAlike
  <1>2. catsOf = cats /\ offsOf = offs
    BY SlotsAlike
  <1>3. NFeatures(y) = K /\ K \in Nat
    BY FeaturesAlike
  <1>4. \A f \in 1 .. K : IsSeq(own(f))
    BY DEF Parted
  <1>5. \A r \in 1 .. n, f \in 1 .. K :
          a + r \in 1 .. N /\ HotPosition(y, cats, own(f), r, f) = HotPosition(x, cats, own(f), a + r, f)
    <2>1. TAKE r \in 1 .. n, f \in 1 .. K
    <2> DEFINE o == own(f)
    <2> HIDE DEF cats, o
    <2>2. a + r \in 1 .. N /\ HotPosition(y, cats, o, r, f) = HotPosition(x, cats, o, a + r, f)
      BY HotAlike
    <2>3. QED
      BY <2>2 DEF o
  <1>6. OneHotEncoder(x) = Spread(x, Stored("f32", G), w)
    BY <1>1 DEF OneHotEncoder
  <1>7. OneHotEncoder(y) = Spread(y, Stored("f32", H), w)
    <2> HIDE DEF y
    <2> DEFINE ownOf(f) == Own(FlatOr(catsOf, 0, 0), offsOf, f)
               wOf == [f \in 1 .. NFeatures(y) |-> Len(ownOf(f))]
               hotsOf(r) == [f \in 1 .. NFeatures(y) |-> Hot(HotPosition(y, catsOf, ownOf(f), r, f), wOf[f])]
    <2>1. OneHotEncoder(y) = Spread(y, Stored("f32", [r \in Rows(y) |-> FlattenSeq(hotsOf(r))]), wOf)
      BY DEF OneHotEncoder
    <2> HIDE DEF catsOf, offsOf, cats, offs
    <2>2. QED
      BY <1>1, <1>2, <1>3, <2>1
  <1> HIDE DEF y, cats, offs, own
  <1>8. IsSeq(w) /\ Len(w) = K /\ \A f \in 1 .. K : w[f] = Len(own(f)) /\ w[f] \in Nat
    <2>1. IsSeq(w) /\ Len(w) = K /\ \A f \in 1 .. K : w[f] = Len(own(f))
      BY <1>3, MadeSeq
    <2>2. QED
      BY <1>4, <2>1 DEF IsSeq
  <1> HIDE DEF w, K
  <1>9. ASSUME NEW r \in 1 .. N
        PROVE  /\ IsSeq(FlattenSeq(hots(x, r))) /\ Len(FlattenSeq(hots(x, r))) = Sum(w) /\ Sum(w) \in Nat
    <2> DEFINE ss == hots(x, r)
    <2>1. IsSeq(ss) /\ Len(ss) = K
      <3>1. Len(ss) = K
        BY <1>3
      <3>2. QED
        BY <1>3, <3>1 DEF IsSeq
    <2>2. \A f \in 1 .. K : IsSeq(ss[f]) /\ Len(ss[f]) = w[f]
      <3>1. TAKE f \in 1 .. K
      <3> DEFINE s == Hot(HotPosition(x, cats, own(f), r, f), w[f])
                 p == HotPosition(x, cats, own(f), r, f)
                 m == w[f]
      <3>2. ss[f] = s /\ m \in Nat
        BY <1>8
      <3>3. s = [j \in 1 .. m |-> IF j = p + 1 THEN 1 ELSE 0]
        BY DEF Hot
      <3> HIDE DEF p, m, s, ss
      <3>4. Len(s) = m
        BY <3>2, <3>3
      <3>5. IsSeq(s)
        BY <3>2, <3>3, <3>4 DEF IsSeq
      <3>6. QED
        BY <3>2, <3>4, <3>5 DEF m
    <2> HIDE DEF ss
    <2>3. IsSeq(FlattenSeq(ss)) /\ Len(FlattenSeq(ss)) = Sum(w) /\ Sum(w) \in Nat
      BY <1>8, <2>1, <2>2, BlocksFlat
    <2>4. QED
      BY <2>3 DEF ss
  <1>10. ASSUME NEW r \in 1 .. n PROVE a + r \in 1 .. N /\ hots(y, r) = hots(x, a + r)
    <2>1. a + r \in 1 .. N
      BY DEF IsSlice
    <2>2. QED
      BY <1>5, <2>1
  <1> HIDE DEF hots
  <1>11. N \in Nat \ {0} /\ n \in Nat \ {0} /\ 1 \in 1 .. N
    BY DEF IsSlice
  <1>12. IsSeq(G) /\ Len(G) = N /\ IsSeq(H) /\ Len(H) = n
    BY <1>11, MadeSeq
  <1>13. AreRows(G, N, Sum(w))
    BY <1>9, <1>11, <1>12 DEF AreRows
  <1>14. \A r \in 1 .. n : H[r] = G[a + r]
    BY <1>10
  <1> HIDE DEF G, H
  <1> DEFINE S == Sum(w)
             g == Stored("f32", G)
             h == Stored("f32", H)
  <1>15. AreRows(G, N, S)
    BY <1>13
  <1> HIDE DEF S
  <1>16. IsTable(g, N) /\ NCols(g) = S
    BY <1>11, <1>15, StoredIs
  <1>17. h = Sliced(g, a, n)
    BY <1>12, <1>14, <1>15, StoredSliced
  <1> HIDE DEF g, h
  <1>18. S \in Nat /\ Sum(w) <= NCols(g)
    <2>1. S \in Nat
      BY <1>15 DEF AreRows
    <2>2. QED
      BY <1>16, <2>1 DEF S
  <1>19. \A f \in 1 .. Len(w) : w[f] \in Nat
    BY <1>8
  <1>20. /\ Spread(x, g, w).ok /\ AreTables(Spread(x, g, w).out, N)
         /\ Shares(Spread(x, g, w), Spread(y, h, w), a, n)
    BY <1>1, <1>8, <1>16, <1>17, <1>18, <1>19, SpreadSplits
  <1>21. QED
    BY <1>6, <1>7, <1>20 DEF g, h, Local, y

-----------------------------------------------------------------------------
LEMMA WeightedSumSplits ==
  ASSUME NEW a, NEW n, NEW N, IsSlice(a, n, N), NEW x, CallOn(x, N), Even(x)
  PROVE  Local(WeightedSum(x), WeightedSum(Part(x, a, n)), a, n, N)
  <1> DEFINE y == Part(x, a, n)
             given == IF "weights" \in DOMAIN x.attrs THEN x.attrs["weights"]
                      ELSE FlatOr(Resolve(x, Len(x.in) + 1, "weights"), 0, 1)
             givenOf == IF "weights" \in DOMAIN y.attrs THEN y.attrs["weights"]
                        ELSE FlatOr(Resolve(y, Len(y.in) + 1, "weights"), 0, 1)
             W == NCols(x.in[1])
             T == Width(x.in[1])
             U == AnyF64(x.in)
             ws1 == Weights(given, W)
             ws == Weights(given, Len(x.in))
             G1 == [r \in 1 .. N |-> [c \in 1 .. W |-> Times(ws1[c], Get(x.in[1], r, c))]]
             H1 == [r \in 1 .. n |-> [c \in 1 .. W |-> Times(ws1[c], Get(y.in[1], r, c))]]
             G == [r \in 1 .. N |-> [c \in 1 .. W |-> Weighed(ws, Vector(x, r, c))]]
             H == [r \in 1 .. n |-> [c \in 1 .. W |-> Weighed(ws, Vector(y, r, c))]]
  <1>1. Rows(x) = 1 .. N /\ Rows(y) = 1 .. n /\ AnyF64(y.in) = U /\ Len(y.in) = Len(x.in) /\ 1 \in 1 .. Len(x.in)
        /\ y.attrs = x.attrs
    BY ReadAlike
  <1>2. givenOf = given
    <2> HIDE DEF y
    <2>1. Resolve(y, Len(y.in) + 1, "weights") = Resolve(x, Len(x.in) + 1, "weights")
      BY ParamsAlike DEF y
    <2>2. QED
      BY <1>1, <2>1
  <1>3. /\ NCols(y.in[1]) = W /\ Width(y.in[1]) = T
        /\ \A r \in 1 .. n, c \in 1 .. W : Get(y.in[1], r, c) = Get(x.in[1], a + r, c)
    BY <1>1, CellsAlike
  <1>4. /\ W \in Nat /\ Cols(x.in[1]) = 1 .. W /\ Cols(y.in[1]) = 1 .. W
        /\ \A r \in 1 .. n, c \in 1 .. W : a + r \in 1 .. N /\ Vector(y, r, c) = Vector(x, a + r, c)
    BY VectorSplits
  <1> HIDE DEF y, given, givenOf
  <1>5. CASE Len(x.in) = 1
    <2>1. WeightedSum(x) = Gives(<<Stored(T, G1)>>)
      BY <1>1, <1>4, <1>5 DEF WeightedSum, given
    <2>2. WeightedSum(y) = Gives(<<Stored(T, H1)>>)
      BY <1>1, <1>2, <1>3, <1>4, <1>5 DEF WeightedSum, givenOf
    <2> HIDE DEF ws1
    <2>3. IsGrid(G1, N, W) /\ IsGrid(H1, n, W)
      BY DEF IsGrid
    <2>4. \A r \in 1 .. n, c \in 1 .. W : H1[r][c] = G1[a + r][c]
      BY <1>3, <1>4
    <2> HIDE DEF G1, H1, W, T
    <2>5. Local(Gives(<<Stored(T, G1)>>), Gives(<<Stored(T, H1)>>), a, n, N)
      BY <1>4, <2>3, <2>4, CellsGive
    <2>6. QED
      BY <2>1, <2>2, <2>5 DEF y
  <1>6. CASE Len(x.in) # 1
    <2>1. WeightedSum(x) = Gives(<<Stored(U, G)>>)
      BY <1>1, <1>4, <1>6 DEF WeightedSum, Reduced, given
    <2>2. WeightedSum(y) = Gives(<<Stored(U, H)>>)
      BY <1>1, <1>2, <1>4, <1>6 DEF WeightedSum, Reduced, givenOf
    <2> HIDE DEF ws
    <2>3. IsGrid(G, N, W) /\ IsGrid(H, n, W)
      BY DEF IsGrid
    <2>4. \A r \in 1 .. n, c \in 1 .. W : H[r][c] = G[a + r][c]
      BY <1>4
    <2> HIDE DEF G, H, W, U
    <2>5. Local(Gives(<<Stored(U, G)>>), Gives(<<Stored(U, H)>>), a, n, N)
      BY <1>4, <2>3, <2>4, CellsGive
    <2>6. QED
      BY <2>1, <2>2, <2>5 DEF y
  <1>7. QED
    BY <1>5, <1>6

(***************************************************************************)
(* The linear node                                                         *)
(***************************************************************************)

\* A buffer stepped over by the width of the table it was filled from finds its cells.
FoundAt(f, b, n, row) ==
  /\ IsSeq(row) /\ Len(row) = n /\ n \in Nat
  /\ b \in Nat /\ b + n <= Len(f) /\ \A j \in 1 .. n : f[b + j] = row[j]

LEMMA FlatCells ==
  ASSUME NEW N \in Nat \ {0}, NEW t, IsTable(t, N), NEW r \in 1 .. N
  PROVE  /\ IsSeq(Flat(t)) /\ Len(Flat(t)) = N * NCols(t)
         /\ (r - 1) * NCols(t) + NCols(t) = r * NCols(t)
         /\ FoundAt(Flat(t), (r - 1) * NCols(t), NCols(t), t.cells[r])
  <1> DEFINE W == NCols(t)
             ss == t.cells
             lens == [i \in 1 .. N |-> W]
             off == [k \in 0 .. N |-> k * W]
             f == FlattenSeq(ss)
  <1>1. IsSeq(ss) /\ Len(ss) = N /\ \A i \in 1 .. N : IsSeq(ss[i]) /\ Len(ss[i]) = W
    BY DEF IsTable
  <1>2. W \in Nat
    <2>1. 1 \in 1 .. N
      OBVIOUS
    <2>2. QED
      BY <1>1, <2>1 DEF IsSeq
  <1>3. Flat(t) = f
    BY DEF Flat
  <1> HIDE DEF W, ss, f
  <1>4. IsSeq(lens) /\ Len(lens) = N /\ \A i \in 1 .. N : lens[i] = W
    <2>1. Len(lens) = N
      OBVIOUS
    <2>2. QED
      BY <2>1 DEF IsSeq
  <1>5. \A k \in 1 .. N : /\ (k - 1) * W \in Nat /\ (k - 1) * W + W = k * W
                          /\ k * W <= N * W /\ N * W \in Nat
    BY <1>2, RowsWithin
  <1>6. EndsAt(off, lens)
    <2>1. off[0] = 0
      BY <1>2
    <2>2. \A k \in 0 .. N : off[k] \in Nat
      BY <1>2, <1>5, <2>1
    <2>3. off \in [0 .. N -> Nat]
      <3>1. off = [k \in 0 .. N |-> off[k]]
        OBVIOUS
      <3> HIDE DEF off
      <3>2. QED
        BY <2>2, <3>1
    <2>4. \A k \in 1 .. N : off[k] = k * W /\ off[k - 1] = (k - 1) * W
      OBVIOUS
    <2> HIDE DEF off
    <2>5. \A k \in 1 .. N : off[k] = off[k - 1] + lens[k]
      BY <1>4, <1>5, <2>4
    <2> HIDE DEF lens
    <2>6. QED
      BY <1>4, <2>1, <2>3, <2>5 DEF EndsAt
  <1>7. lens = [i \in 1 .. Len(ss) |-> Len(ss[i])]
    BY <1>1
  <1> HIDE DEF lens
  <1>8. IsSeq(f) /\ Len(f) = Sum(lens)
    BY <1>1, <1>7, FlattenIs DEF f
  <1>9. \A k \in 1 .. N : \A j \in 1 .. Len(ss[k]) : f[off[k - 1] + j] = ss[k][j]
    <2> HIDE DEF off
    <2>1. TAKE k \in 1 .. N
    <2>2. TAKE j \in 1 .. Len(ss[k])
    <2>3. IsSeq(ss) /\ \A i \in 1 .. Len(ss) : IsSeq(ss[i])
      BY <1>1
    <2>4. LiesAt(FlattenSeq(ss), off, ss)
      BY <1>6, <1>7, <2>3, FlattenIs
    <2>5. QED
      BY <1>1, <2>4 DEF f, LiesAt
  <1>10. Sum(lens) = N * W
    <2>1. \A i \in 1 .. Len(lens) : lens[i] \in Nat
      BY <1>2, <1>4
    <2> HIDE DEF off
    <2>2. Sum(lens) = off[Len(lens)]
      BY <1>4, <1>6, <2>1, SumEnds
    <2>3. off[N] = N * W
      BY DEF off
    <2>4. QED
      BY <1>4, <2>2, <2>3
  <1> DEFINE b == (r - 1) * W
  <1>11. b \in Nat /\ b + W = r * W /\ b + W <= Len(f)
    BY <1>5, <1>8, <1>10
  <1>12. \A j \in 1 .. W : f[b + j] = ss[r][j]
    <2>1. off[r - 1] = b
      OBVIOUS
    <2> HIDE DEF off, b
    <2>2. QED
      BY <1>1, <1>9, <2>1
  <1>13. QED
    BY <1>1, <1>2, <1>3, <1>8, <1>10, <1>11, <1>12 DEF FoundAt, W, ss, b

\* So stepping over it gives the rows of the table.
LEMMA FlatRows ==
  ASSUME NEW N \in Nat \ {0}, NEW t, IsTable(t, N), NEW r \in 1 .. N
  PROVE  SubSeq(Flat(t), (r - 1) * NCols(t) + 1, r * NCols(t)) = t.cells[r]
  <1> DEFINE W == NCols(t)
             f == Flat(t)
             b == (r - 1) * W
             p == t.cells[r]
             q == SubSeq(f, b + 1, b + W)
  <1>1. IsSeq(f) /\ b + W = r * W /\ FoundAt(f, b, W, p)
    BY FlatCells
  <1>2. SubSeq(Flat(t), (r - 1) * NCols(t) + 1, r * NCols(t)) = q /\ t.cells[r] = p
    BY <1>1
  <1> HIDE DEF W, f, b, p
  <1>3. IsSeq(p) /\ Len(p) = W /\ W \in Nat /\ b \in Nat /\ b + W <= Len(f)
    BY <1>1 DEF FoundAt
  <1>4. IsSeq(q) /\ Len(q) = W /\ \A i \in 1 .. W : q[i] = f[b + i]
    BY <1>1, <1>3, SubSeqIs
  <1>5. \A i \in 1 .. W : q[i] = p[i]
    BY <1>1, <1>4 DEF FoundAt
  <1> HIDE DEF q
  <1>6. q = p
    BY <1>3, <1>4, <1>5, SameSeq
  <1>7. QED
    BY <1>2, <1>6

\* So does what a node gathers, when it counts as many features as there are.
LEMMA GatheredSplits ==
  ASSUME NEW a, NEW n, NEW N, IsSlice(a, n, N), NEW x, CallOn(x, N), NEW y, y = Part(x, a, n),
         NEW T, NEW W, W = NCols(Beside(x.in))
  PROVE  \A r \in 1 .. n : a + r \in 1 .. N /\ Gathered(y, T, W)[r] = Gathered(x, T, W)[a + r]
  <1> DEFINE t == Converted(Beside(x.in), T)
             s == Converted(Beside(y.in), T)
  <1>1. AreTables(x.in, N) /\ x.in # << >> /\ y.in = [i \in DOMAIN x.in |-> Sliced(x.in[i], a, n)]
    BY PartIs DEF CallOn
  <1>2. IsTable(Beside(x.in), N) /\ Beside(y.in) = Sliced(Beside(x.in), a, n)
    BY <1>1, BesideSplits
  <1>3. IsTable(t, N) /\ s = Sliced(t, a, n) /\ NCols(t) = W
    <2> DEFINE u == Beside(x.in)
               v == Beside(y.in)
    <2>1. IsTable(u, N) /\ v = Sliced(u, a, n)
      BY <1>2
    <2> HIDE DEF u, v
    <2>2. IsTable(Converted(u, T), N) /\ Converted(v, T) = Sliced(Converted(u, T), a, n)
          /\ NCols(Converted(u, T)) = NCols(u)
      BY <2>1, ConvertedSplits
    <2>3. QED
      BY <2>2 DEF u, v
  <1>4. Rows(x) = 1 .. N /\ Rows(y) = 1 .. n
    BY ReadAlike
  <1>5. Gathered(x, T, W) = [r \in 1 .. N |-> SubSeq(Flat(t), (r - 1) * W + 1, r * W)]
    BY <1>4 DEF Gathered
  <1>6. Gathered(y, T, W) = [r \in 1 .. n |-> SubSeq(Flat(s), (r - 1) * W + 1, r * W)]
    BY <1>4 DEF Gathered
  <1> HIDE DEF t, s
  <1>7. N \in Nat \ {0} /\ n \in Nat \ {0} /\ \A r \in 1 .. n : a + r \in 1 .. N
    BY DEF IsSlice
  <1>8. IsTable(s, n) /\ NCols(s) = W /\ \A r \in 1 .. n : s.cells[r] = t.cells[a + r]
    BY <1>3, TableAlike
  <1>9. \A r \in 1 .. N : SubSeq(Flat(t), (r - 1) * W + 1, r * W) = t.cells[r]
    BY <1>3, <1>7, FlatRows
  <1>10. \A r \in 1 .. n : SubSeq(Flat(s), (r - 1) * W + 1, r * W) = s.cells[r]
    BY <1>7, <1>8, FlatRows
  <1>11. \A r \in 1 .. N : Gathered(x, T, W)[r] = t.cells[r]
    BY <1>5, <1>9
  <1>12. \A r \in 1 .. n : Gathered(y, T, W)[r] = s.cells[r]
    BY <1>6, <1>10
  <1>13. QED
    BY <1>7, <1>8, <1>11, <1>12

Transforms == {"identity", "sigmoid", "logit", "softmax", "exp"}

LEMMA PostIs ==
  ASSUME NEW K \in Nat, NEW row, IsSeq(row), Len(row) = K, NEW pt \in Transforms, NEW unit
  PROVE  IsSeq(PostTransform(pt, row, unit)) /\ Len(PostTransform(pt, row, unit)) = K
  <1>1. DOMAIN row = 1 .. K
    BY DEF IsSeq
  <1>2. ASSUME NEW g PROVE LET h == [c \in 1 .. K |-> g[c]] IN IsSeq(h) /\ Len(h) = K
    BY MadeSeq
  <1>3. CASE pt = "identity"
    BY <1>3 DEF PostTransform
  <1>4. CASE pt \in {"sigmoid", "logit"}
    <2> DEFINE h == [c \in 1 .. K |-> Sigmoid(row[c], unit)]
    <2>1. PostTransform(pt, row, unit) = h
      BY <1>1, <1>4 DEF PostTransform
    <2>2. Len(h) = K /\ IsSeq(h)
      BY DEF IsSeq
    <2>3. QED
      BY <2>1, <2>2
  <1>5. CASE pt = "softmax"
    <2> DEFINE part == Written([c \in DOMAIN row |-> Decay((Max(Range(row)) - row[c]) \div unit)])
               h == [c \in 1 .. K |-> NaN]
               g == [c \in 1 .. K |-> ShareOf(part[c], Sum(part))]
    <2>1. PostTransform(pt, row, unit) = Distribution(row, unit)
      BY <1>5 DEF PostTransform
    <2>2. Distribution(row, unit) = IF NaN \in Range(row) THEN h ELSE g
      BY <1>1 DEF Distribution
    <2> HIDE DEF part
    <2>3. Len(h) = K /\ IsSeq(h)
      BY DEF IsSeq
    <2>4. Len(g) = K /\ IsSeq(g)
      BY DEF IsSeq
    <2> HIDE DEF g, h
    <2>5. QED
      BY <2>1, <2>2, <2>3, <2>4
  <1>6. CASE pt = "exp"
    <2> DEFINE h == [c \in 1 .. K |-> Exp(Over(row[c], unit))]
    <2>1. PostTransform(pt, row, unit) = h
      BY <1>1, <1>6 DEF PostTransform
    <2>2. Len(h) = K /\ IsSeq(h)
      BY DEF IsSeq
    <2>3. QED
      BY <2>1, <2>2
  <1>7. QED
    BY <1>3, <1>4, <1>5, <1>6 DEF Transforms

\* A row of scores.
LEMMA ScoresAre ==
  ASSUME NEW w, IsSeq(w), NEW b, NEW unit, NEW row
  PROVE  IsSeq(Scores(w, b, unit, row)) /\ Len(Scores(w, b, unit, row)) = Len(w)
  <1> DEFINE K == Len(w)
             h == [j \in 1 .. K |-> Plus(Dot(w[j], row), IF j <= Len(b) THEN b[j] * unit ELSE 0)]
  <1>1. DOMAIN w = 1 .. K /\ K \in Nat
    BY DEF IsSeq
  <1>2. Scores(w, b, unit, row) = h
    BY <1>1 DEF Scores
  <1> HIDE DEF K
  <1>3. Len(h) = K
    BY <1>1
  <1>4. IsSeq(h)
    BY <1>1, <1>3 DEF IsSeq
  <1>5. QED
    BY <1>2, <1>3, <1>4 DEF K

LEMMA TwoGive ==
  ASSUME NEW a, NEW n, NEW N, NEW t, IsTable(t, N), NEW s, IsTable(s, N),
         NEW u, u = Sliced(t, a, n), NEW v, v = Sliced(s, a, n)
  PROVE  Local(Gives(<<t, s>>), Gives(<<u, v>>), a, n, N)
  <1>1. Gives(<<t, s>>) = [ok |-> TRUE, out |-> <<t, s>>] /\ Gives(<<u, v>>) = [ok |-> TRUE, out |-> <<u, v>>]
    BY DEF Gives
  <1>2. AreTables(<<t, s>>, N)
    <2>1. Len(<<t, s>>) = 2 /\ <<t, s>>[1] = t /\ <<t, s>>[2] = s
      OBVIOUS
    <2>2. IsSeq(<<t, s>>)
      BY DEF IsSeq
    <2>3. QED
      BY <2>1, <2>2 DEF AreTables
  <1>3. AreSlices(<<t, s>>, <<u, v>>, a, n)
    BY DEF AreSlices
  <1>4. QED
    BY <1>1, <1>2, <1>3 DEF Local, Shares

\* A column as it is, one cell for each row.
LEMMA ColumnSliced ==
  ASSUME NEW a, NEW n, NEW N, IsSlice(a, n, N), NEW T, NEW g, NEW h, IsSeq(g), Len(g) = N, IsSeq(h), Len(h) = n,
         \A r \in 1 .. n : h[r] = g[a + r]
  PROVE  IsTable(LabelColumn(T, g), N) /\ LabelColumn(T, h) = Sliced(LabelColumn(T, g), a, n)
  <1> DEFINE col(e, m) == [r \in 1 .. m |-> <<e[r]>>]
             t == LabelColumn(T, g)
             u == LabelColumn(T, h)
             s == Sliced(t, a, n)
  <1>1. N \in Nat \ {0} /\ n \in Nat \ {0} /\ \A r \in 1 .. n : a + r \in 1 .. N
    BY DEF IsSlice
  <1>2. ASSUME NEW e, NEW m \in Nat \ {0}, IsSeq(e), Len(e) = m
        PROVE  /\ IsTable(LabelColumn(T, e), m) /\ LabelColumn(T, e).type = T
               /\ \A r \in 1 .. m : LabelColumn(T, e).cells[r] = <<e[r]>>
    <2> DEFINE c == [r \in 1 .. m |-> <<e[r]>>]
               q == LabelColumn(T, e)
    <2>1. DOMAIN e = 1 .. m
      BY <1>2 DEF IsSeq
    <2>2. q = [type |-> T, cells |-> c]
      BY <2>1 DEF LabelColumn
    <2>3. Len(c) = m
      BY <1>2
    <2>4. IsSeq(c) /\ \A r \in 1 .. m : c[r] = <<e[r]>>
      BY <1>2, <2>3 DEF IsSeq
    <2> HIDE DEF c
    <2>5. q.type = T /\ q.cells = c
      BY <2>2
    <2>6. q = [type |-> q.type, cells |-> q.cells]
      BY <2>2, <2>5
    <2>7. \A r \in 1 .. m : IsSeq(c[r]) /\ Len(c[r]) = 1
      <3>1. TAKE r \in 1 .. m
      <3> DEFINE v == e[r]
                 p == <<v>>
      <3>2. c[r] = p
        BY <2>4
      <3> HIDE DEF v
      <3>3. Len(p) = 1 /\ IsSeq(p)
        BY DEF IsSeq
      <3>4. QED
        BY <3>2, <3>3
    <2>8. NCols(q) = 1
      <3>1. 1 \in 1 .. m
        BY <1>2
      <3>2. QED
        BY <2>5, <2>7, <3>1 DEF NCols
    <2> HIDE DEF q
    <2>9. IsTable(q, m)
      BY <2>3, <2>4, <2>5, <2>6, <2>7, <2>8 DEF IsTable
    <2>10. QED
      BY <2>4, <2>5, <2>9 DEF q
  <1>3. IsTable(t, N) /\ t.type = T /\ \A r \in 1 .. N : t.cells[r] = <<g[r]>>
    BY <1>1, <1>2
  <1>4. IsTable(u, n) /\ u.type = T /\ \A r \in 1 .. n : u.cells[r] = <<h[r]>>
    BY <1>1, <1>2
  <1> HIDE DEF t, u
  <1>5. IsTable(s, n) /\ s.type = T /\ \A r \in 1 .. n : s.cells[r] = t.cells[a + r]
    BY <1>3, SlicedIs
  <1> HIDE DEF s
  <1>6. \A r \in 1 .. n : u.cells[r] = s.cells[r]
    BY <1>1, <1>3, <1>4, <1>5
  <1>7. u = s
    BY <1>4, <1>5, <1>6, SameTable
  <1>8. QED
    BY <1>3, <1>7 DEF t, u, s

LEMMA PairsSliced ==
  ASSUME NEW a, NEW n, NEW N, IsSlice(a, n, N), NEW t, IsTable(t, N), NEW s, s = Sliced(t, a, n), NEW unit
  PROVE  IsTable(Pairs(t, unit), N) /\ Pairs(s, unit) = Sliced(Pairs(t, unit), a, n)
  <1> DEFINE T == Width(t)
             pair(v) == <<Minus(unit, v), v>>
             G == [r \in 1 .. N |-> pair(t.cells[r][1])]
             H == [r \in 1 .. n |-> pair(s.cells[r][1])]
  <1>1. NRows(t) = N /\ NRows(s) = n /\ Width(s) = T
        /\ \A r \in 1 .. n : a + r \in 1 .. N /\ s.cells[r] = t.cells[a + r]
    BY TableAlike
  <1>2. Pairs(t, unit) = Stored(T, G) /\ Pairs(s, unit) = Stored(T, H)
    BY <1>1 DEF Pairs, BinaryPair
  <1>3. N \in Nat \ {0} /\ n \in Nat \ {0}
    BY DEF IsSlice
  <1>4. IsSeq(G) /\ Len(G) = N /\ IsSeq(H) /\ Len(H) = n
    BY <1>3, MadeSeq
  <1>5. \A r \in 1 .. N : IsSeq(G[r]) /\ Len(G[r]) = 2
    <2>1. TAKE r \in 1 .. N
    <2> DEFINE v == t.cells[r][1]
               m == Minus(unit, v)
               p == <<m, v>>
    <2>2. G[r] = p
      OBVIOUS
    <2> HIDE DEF v, m, G
    <2>3. Len(p) = 2 /\ IsSeq(p)
      BY DEF IsSeq
    <2>4. QED
      BY <2>2, <2>3
  <1>6. \A r \in 1 .. n : H[r] = G[a + r]
    BY <1>1
  <1> HIDE DEF G, H, T
  <1>7. AreRows(G, N, 2)
    BY <1>4, <1>5 DEF AreRows
  <1>8. IsTable(Stored(T, G), N)
    BY <1>3, <1>7, StoredIs
  <1>9. Stored(T, H) = Sliced(Stored(T, G), a, n)
    BY <1>4, <1>6, <1>7, StoredSliced
  <1>10. QED
    BY <1>2, <1>8, <1>9

\* A label and the probabilities of each row.
LEMMA JudgedSplits ==
  ASSUME NEW a, NEW n, NEW N, IsSlice(a, n, N), NEW t, IsTable(t, N), NEW s, s = Sliced(t, a, n),
         NEW unit, NEW tie
  PROVE  Local(Judged(t, unit, tie), Judged(s, unit, tie), a, n, N)
  <1> DEFINE side(v) == IF Less(unit, Times(2, v)) THEN 1 ELSE IF Times(2, v) = unit THEN tie ELSE 0
             g1 == [r \in 1 .. N |-> side(t.cells[r][1])]
             h1 == [r \in 1 .. n |-> side(s.cells[r][1])]
             g2 == [r \in 1 .. N |-> MaxElement(t.cells[r])]
             h2 == [r \in 1 .. n |-> MaxElement(s.cells[r])]
  <1>1. NRows(t) = N /\ NRows(s) = n /\ NCols(s) = NCols(t)
        /\ \A r \in 1 .. n : a + r \in 1 .. N /\ s.cells[r] = t.cells[a + r]
    BY TableAlike
  <1>2. N \in Nat /\ n \in Nat
    BY DEF IsSlice
  <1>3. CASE NCols(t) = 1
    <2>1. Judged(t, unit, tie) = Gives(<<LabelColumn("i64", g1), Pairs(t, unit)>>)
      BY <1>1, <1>3 DEF Judged
    <2>2. Judged(s, unit, tie) = Gives(<<LabelColumn("i64", h1), Pairs(s, unit)>>)
      BY <1>1, <1>3 DEF Judged
    <2>3. IsTable(Pairs(t, unit), N) /\ Pairs(s, unit) = Sliced(Pairs(t, unit), a, n)
      BY PairsSliced
    <2>4. IsSeq(g1) /\ Len(g1) = N /\ IsSeq(h1) /\ Len(h1) = n
      BY <1>2, MadeSeq
    <2>5. \A r \in 1 .. n : h1[r] = g1[a + r]
      BY <1>1
    <2> HIDE DEF g1, h1
    <2>6. IsTable(LabelColumn("i64", g1), N) /\ LabelColumn("i64", h1) = Sliced(LabelColumn("i64", g1), a, n)
      BY <2>4, <2>5, ColumnSliced
    <2>7. QED
      BY <2>1, <2>2, <2>3, <2>6, TwoGive
  <1>4. CASE NCols(t) # 1
    <2>1. Judged(t, unit, tie) = Gives(<<LabelColumn("i64", g2), t>>)
      BY <1>1, <1>4 DEF Judged
    <2>2. Judged(s, unit, tie) = Gives(<<LabelColumn("i64", h2), s>>)
      BY <1>1, <1>4 DEF Judged
    <2>3. IsSeq(g2) /\ Len(g2) = N /\ IsSeq(h2) /\ Len(h2) = n
      BY <1>2, MadeSeq
    <2>4. \A r \in 1 .. n : h2[r] = g2[a + r]
      BY <1>1
    <2> HIDE DEF g2, h2
    <2>5. IsTable(LabelColumn("i64", g2), N) /\ LabelColumn("i64", h2) = Sliced(LabelColumn("i64", g2), a, n)
      BY <2>3, <2>4, ColumnSliced
    <2>6. QED
      BY <2>1, <2>2, <2>5, TwoGive
  <1>5. QED
    BY <1>3, <1>4

\* Coefficients as wide as the inputs are together.
AsWide(x) ==
  LET m == LinearModel(x) IN IsSeq(m.w) /\ Len(m.w[1]) = NCols(Beside(x.in)) /\ m.pt \in Transforms

LEMMA LinearNodeSplits ==
  ASSUME NEW a, NEW n, NEW N, IsSlice(a, n, N), NEW x, CallOn(x, N), AsWide(x)
  PROVE  Local(LinearNode(x), LinearNode(Part(x, a, n)), a, n, N)
  <1> DEFINE y == Part(x, a, n)
             m == LinearModel(x)
             F == Len(m.w[1])
             row(v) == PostTransform(m.pt, Scores(m.w, m.b, 1, v), 1)
             p == Gathered(x, m.type, F)
             q == Gathered(y, m.type, F)
             G == [r \in 1 .. N |-> row(p[r])]
             H == [r \in 1 .. n |-> row(q[r])]
             K == Len(m.w)
             g == Stored(m.type, G)
             h == Stored(m.type, H)
             u == PostUnit(m.pt, 1)
  <1>1. y.refs = x.refs /\ y.attrs = x.attrs /\ y.outs = x.outs /\ x.outs \in Nat
        /\ Rows(x) = 1 .. N /\ Rows(y) = 1 .. n
    BY ReadAlike
  <1>2. IsSeq(m.w) /\ F = NCols(Beside(x.in)) /\ m.pt \in Transforms
    BY DEF AsWide
  <1>3. \A r \in 1 .. n : a + r \in 1 .. N /\ q[r] = p[a + r]
    <2> DEFINE T == m.type
    <2> HIDE DEF m, F, T
    <2>1. F = NCols(Beside(x.in))
      BY <1>2 DEF F, m
    <2>2. \A r \in 1 .. n : a + r \in 1 .. N /\ Gathered(y, T, F)[r] = Gathered(x, T, F)[a + r]
      BY <2>1, GatheredSplits
    <2>3. QED
      BY <2>2 DEF T
  <1>4. LinearModel(y) = m
    <2> HIDE DEF y
    <2>1. QED
      BY <1>1 DEF LinearModel, Table2, Values, Attr
  <1>5. LinearNode(x) = IF x.outs = 2 THEN Judged(g, u, 0)
                        ELSE IF x.outs = 1 /\ K = 1 /\ m.pt = "sigmoid" THEN Gives(<<Pairs(g, One)>>)
                        ELSE PerOutput(x, g)
    BY <1>1 DEF LinearNode, LinearAnswer
  <1> HIDE DEF y, m
  <1>6. LinearNode(y) = IF x.outs = 2 THEN Judged(h, u, 0)
                        ELSE IF x.outs = 1 /\ K = 1 /\ m.pt = "sigmoid" THEN Gives(<<Pairs(h, One)>>)
                        ELSE PerOutput(y, h)
    BY <1>1, <1>4 DEF LinearNode, LinearAnswer
  <1> HIDE DEF p, q, F
  <1>7. N \in Nat \ {0} /\ n \in Nat \ {0}
    BY DEF IsSlice
  <1>8. IsSeq(G) /\ Len(G) = N /\ IsSeq(H) /\ Len(H) = n
    <2> HIDE DEF row
    <2>1. QED
      BY <1>7, MadeSeq
  <1>9. K \in Nat
    BY <1>2 DEF IsSeq
  <1>10. \A r \in 1 .. N : IsSeq(G[r]) /\ Len(G[r]) = K
    <2>1. TAKE r \in 1 .. N
    <2> DEFINE v == p[r]
               e == Scores(m.w, m.b, 1, v)
    <2>2. IsSeq(e) /\ Len(e) = K
      BY <1>2, ScoresAre
    <2>3. G[r] = PostTransform(m.pt, e, 1)
      OBVIOUS
    <2> HIDE DEF e, K, G
    <2>4. IsSeq(PostTransform(m.pt, e, 1)) /\ Len(PostTransform(m.pt, e, 1)) = K
      BY <1>2, <1>9, <2>2, PostIs
    <2>5. QED
      BY <2>3, <2>4
  <1>11. \A r \in 1 .. n : H[r] = G[a + r]
    <2> HIDE DEF row
    <2>1. QED
      BY <1>3
  <1> HIDE DEF G, H, K
  <1>12. AreRows(G, N, K)
    BY <1>8, <1>9, <1>10 DEF AreRows
  <1>13. IsTable(g, N)
    BY <1>7, <1>12, StoredIs
  <1>14. h = Sliced(g, a, n)
    BY <1>8, <1>11, <1>12, StoredSliced
  <1> HIDE DEF g, h, u
  <1>15. Local(Judged(g, u, 0), Judged(h, u, 0), a, n, N)
    BY <1>13, <1>14, JudgedSplits
  <1>16. Local(Gives(<<Pairs(g, One)>>), Gives(<<Pairs(h, One)>>), a, n, N)
    <2>1. IsTable(Pairs(g, One), N) /\ Pairs(h, One) = Sliced(Pairs(g, One), a, n)
      BY <1>13, <1>14, PairsSliced
    <2>2. QED
      BY <2>1, OneGives
  <1>17. Local(PerOutput(x, g), PerOutput(y, h), a, n, N)
    BY <1>1, <1>13, <1>14, PerOutputSplits
  <1>18. QED
    BY <1>5, <1>6, <1>15, <1>16, <1>17 DEF y

-----------------------------------------------------------------------------
(***************************************************************************)
(* The operators shown to read row by row                                  *)
(***************************************************************************)

RowByRow ==
  {"Identity", "Concat", "ArgMax", "Cast", "SparseToDense", "MajorityVote", "WeightedMajorityVote",
   "StandardScaler", "MinMaxScaler", "RobustScaler", "MaxAbsScaler", "Normalizer",
   "Imputer", "Impute", "SimpleImputer", "OrdinalEncoder", "LabelEncoder", "LabelEncode"}
Reducing ==
  {"Sum", "Average", "Min", "Max", "Median", "WeightedSum", "WeightedAverage", "WeightedMedian"}

\* Calls whose answer on a slice of the rows is that slice of the answer, by the
\* operator they name and, for some, by the shape of what they read.
ReadsRows(x) ==
  \/ x.op \in RowByRow
  \/ x.op \in Reducing /\ Even(x)
  \/ x.op = "Gather" /\ Picks(x)
  \/ x.op \in {"OneHotEncoder", "OneHotEncode"} /\ Parted(x)
  \/ x.op = "LinearNode" /\ AsWide(x)

\* Reducers, votes and what moves columns.
LEMMA CoreLocal ==
  ASSUME NEW a, NEW n, NEW N, IsSlice(a, n, N), NEW x, CallOn(x, N), ReadsRows(x),
         NEW y, y = Part(x, a, n), x.op \in CoreNames
  PROVE  Local(Answer(x), Answer(y), a, n, N)
  <1>1. y.op = x.op /\ y.in = [i \in DOMAIN x.in |-> Sliced(x.in[i], a, n)]
    BY PartIs DEF CallOn
  <1>2. Answer(x) = CoreKernel(x) /\ Answer(y) = CoreKernel(y)
    BY <1>1, CoreAnswer
  <1>3. CASE x.op = "Identity"
    <2>1. CoreKernel(x) = Identity(x) /\ CoreKernel(y) = Identity(y)
      BY <1>1, <1>3 DEF CoreKernel
    <2>2. Local(Identity(x), Identity(y), a, n, N)
      BY IdentitySplits
    <2>3. QED
      BY <1>2, <2>1, <2>2
  <1>4. CASE x.op = "Concat"
    <2>1. CoreKernel(x) = Concat(x) /\ CoreKernel(y) = Concat(y)
      BY <1>1, <1>4 DEF CoreKernel
    <2>2. Local(Concat(x), Concat(y), a, n, N)
      BY ConcatSplits
    <2>3. QED
      BY <1>2, <2>1, <2>2
  <1>5. CASE x.op = "ArgMax"
    <2>1. CoreKernel(x) = ArgMax(x) /\ CoreKernel(y) = ArgMax(y)
      BY <1>1, <1>5 DEF CoreKernel
    <2>2. Local(ArgMax(x), ArgMax(y), a, n, N)
      BY ArgMaxSplits
    <2>3. QED
      BY <1>2, <2>1, <2>2
  <1>6. CASE x.op = "Cast"
    <2>1. CoreKernel(x) = Cast(x) /\ CoreKernel(y) = Cast(y)
      BY <1>1, <1>6 DEF CoreKernel
    <2>2. Local(Cast(x), Cast(y), a, n, N)
      BY CastSplits
    <2>3. QED
      BY <1>2, <2>1, <2>2
  <1>7. CASE x.op = "SparseToDense"
    <2>1. CoreKernel(x) = SparseToDense(x) /\ CoreKernel(y) = SparseToDense(y)
      BY <1>1, <1>7 DEF CoreKernel
    <2>2. Local(SparseToDense(x), SparseToDense(y), a, n, N)
      BY CastSplits
    <2>3. QED
      BY <1>2, <2>1, <2>2
  <1>8. CASE x.op = "MajorityVote"
    <2>1. CoreKernel(x) = MajorityVote(x) /\ CoreKernel(y) = MajorityVote(y)
      BY <1>1, <1>8 DEF CoreKernel
    <2>2. Local(MajorityVote(x), MajorityVote(y), a, n, N)
      BY MajorityVoteSplits
    <2>3. QED
      BY <1>2, <2>1, <2>2
  <1>9. CASE x.op = "WeightedMajorityVote"
    <2>1. CoreKernel(x) = WeightedMajorityVote(x) /\ CoreKernel(y) = WeightedMajorityVote(y)
      BY <1>1, <1>9 DEF CoreKernel
    <2>2. Local(WeightedMajorityVote(x), WeightedMajorityVote(y), a, n, N)
      BY WeightedMajorityVoteSplits
    <2>3. QED
      BY <1>2, <2>1, <2>2
  <1>10. CASE x.op = "Sum"
    <2>1. CoreKernel(x) = SumOp(x) /\ CoreKernel(y) = SumOp(y)
      BY <1>1, <1>10 DEF CoreKernel
    <2>2. Even(x)
      BY <1>10 DEF ReadsRows, RowByRow, Reducing
    <2>3. Local(SumOp(x), SumOp(y), a, n, N)
      BY <2>2, SumOpSplits
    <2>4. QED
      BY <1>2, <2>1, <2>3
  <1>11. CASE x.op = "Average"
    <2>1. CoreKernel(x) = Average(x) /\ CoreKernel(y) = Average(y)
      BY <1>1, <1>11 DEF CoreKernel
    <2>2. Even(x)
      BY <1>11 DEF ReadsRows, RowByRow, Reducing
    <2>3. Local(Average(x), Average(y), a, n, N)
      BY <2>2, AverageSplits
    <2>4. QED
      BY <1>2, <2>1, <2>3
  <1>12. CASE x.op = "Min"
    <2>1. CoreKernel(x) = MinOp(x) /\ CoreKernel(y) = MinOp(y)
      BY <1>1, <1>12 DEF CoreKernel
    <2>2. Even(x)
      BY <1>12 DEF ReadsRows, RowByRow, Reducing
    <2>3. Local(MinOp(x), MinOp(y), a, n, N)
      BY <2>2, MinOpSplits
    <2>4. QED
      BY <1>2, <2>1, <2>3
  <1>13. CASE x.op = "Max"
    <2>1. CoreKernel(x) = MaxOp(x) /\ CoreKernel(y) = MaxOp(y)
      BY <1>1, <1>13 DEF CoreKernel
    <2>2. Even(x)
      BY <1>13 DEF ReadsRows, RowByRow, Reducing
    <2>3. Local(MaxOp(x), MaxOp(y), a, n, N)
      BY <2>2, MaxOpSplits
    <2>4. QED
      BY <1>2, <2>1, <2>3
  <1>14. CASE x.op = "Median"
    <2>1. CoreKernel(x) = MedianOp(x) /\ CoreKernel(y) = MedianOp(y)
      BY <1>1, <1>14 DEF CoreKernel
    <2>2. Even(x)
      BY <1>14 DEF ReadsRows, RowByRow, Reducing
    <2>3. Local(MedianOp(x), MedianOp(y), a, n, N)
      BY <2>2, MedianOpSplits
    <2>4. QED
      BY <1>2, <2>1, <2>3
  <1>15. CASE x.op = "WeightedSum"
    <2>1. CoreKernel(x) = WeightedSum(x) /\ CoreKernel(y) = WeightedSum(y)
      BY <1>1, <1>15 DEF CoreKernel
    <2>2. Even(x)
      BY <1>15 DEF ReadsRows, RowByRow, Reducing
    <2>3. Local(WeightedSum(x), WeightedSum(y), a, n, N)
      BY <2>2, WeightedSumSplits
    <2>4. QED
      BY <1>2, <2>1, <2>3
  <1>16. CASE x.op = "WeightedAverage"
    <2>1. CoreKernel(x) = WeightedAverage(x) /\ CoreKernel(y) = WeightedAverage(y)
      BY <1>1, <1>16 DEF CoreKernel
    <2>2. Even(x)
      BY <1>16 DEF ReadsRows, RowByRow, Reducing
    <2>3. Local(WeightedAverage(x), WeightedAverage(y), a, n, N)
      BY <2>2, WeightedAverageSplits
    <2>4. QED
      BY <1>2, <2>1, <2>3
  <1>17. CASE x.op = "WeightedMedian"
    <2>1. CoreKernel(x) = WeightedMedian(x) /\ CoreKernel(y) = WeightedMedian(y)
      BY <1>1, <1>17 DEF CoreKernel
    <2>2. Even(x)
      BY <1>17 DEF ReadsRows, RowByRow, Reducing
    <2>3. Local(WeightedMedian(x), WeightedMedian(y), a, n, N)
      BY <2>2, WeightedMedianSplits
    <2>4. QED
      BY <1>2, <2>1, <2>3
  <1>18. CASE x.op = "Gather"
    <2>1. CoreKernel(x) = GatherColumns(x) /\ CoreKernel(y) = GatherColumns(y)
      BY <1>1, <1>18 DEF CoreKernel
    <2>2. Picks(x)
      BY <1>18 DEF ReadsRows, RowByRow, Reducing
    <2>3. Local(GatherColumns(x), GatherColumns(y), a, n, N)
      BY <2>2, GatherSplits
    <2>4. QED
      BY <1>2, <2>1, <2>3
  <1>19. QED
    BY <1>3, <1>4, <1>5, <1>6, <1>7, <1>8, <1>9, <1>10, <1>11, <1>12, <1>13, <1>14, <1>15, <1>16, <1>17, <1>18 DEF ReadsRows, RowByRow, Reducing, CoreNames

\* Scalers, encoders and imputers.
LEMMA FeatureLocal ==
  ASSUME NEW a, NEW n, NEW N, IsSlice(a, n, N), NEW x, CallOn(x, N), ReadsRows(x),
         NEW y, y = Part(x, a, n), x.op \in FeatureNames
  PROVE  Local(Answer(x), Answer(y), a, n, N)
  <1>1. y.op = x.op /\ y.in = [i \in DOMAIN x.in |-> Sliced(x.in[i], a, n)]
    BY PartIs DEF CallOn
  <1>2. Answer(x) = FeatureKernel(x) /\ Answer(y) = FeatureKernel(y)
    BY <1>1, FeatureAnswer
  <1>3. CASE x.op = "StandardScaler"
    <2>1. FeatureKernel(x) = StandardScaler(x) /\ FeatureKernel(y) = StandardScaler(y)
      BY <1>1, <1>3 DEF FeatureKernel
    <2>2. Local(StandardScaler(x), StandardScaler(y), a, n, N)
      BY StandardScalerSplits
    <2>3. QED
      BY <1>2, <2>1, <2>2
  <1>4. CASE x.op = "MinMaxScaler"
    <2>1. FeatureKernel(x) = MinMaxScaler(x) /\ FeatureKernel(y) = MinMaxScaler(y)
      BY <1>1, <1>4 DEF FeatureKernel
    <2>2. Local(MinMaxScaler(x), MinMaxScaler(y), a, n, N)
      BY MinMaxScalerSplits
    <2>3. QED
      BY <1>2, <2>1, <2>2
  <1>5. CASE x.op = "RobustScaler"
    <2>1. FeatureKernel(x) = RobustScaler(x) /\ FeatureKernel(y) = RobustScaler(y)
      BY <1>1, <1>5 DEF FeatureKernel
    <2>2. Local(RobustScaler(x), RobustScaler(y), a, n, N)
      BY RobustScalerSplits
    <2>3. QED
      BY <1>2, <2>1, <2>2
  <1>6. CASE x.op = "MaxAbsScaler"
    <2>1. FeatureKernel(x) = MaxAbsScaler(x) /\ FeatureKernel(y) = MaxAbsScaler(y)
      BY <1>1, <1>6 DEF FeatureKernel
    <2>2. Local(MaxAbsScaler(x), MaxAbsScaler(y), a, n, N)
      BY MaxAbsScalerSplits
    <2>3. QED
      BY <1>2, <2>1, <2>2
  <1>7. CASE x.op = "Normalizer"
    <2>1. FeatureKernel(x) = Normalizer(x) /\ FeatureKernel(y) = Normalizer(y)
      BY <1>1, <1>7 DEF FeatureKernel
    <2>2. Local(Normalizer(x), Normalizer(y), a, n, N)
      BY NormalizerSplits
    <2>3. QED
      BY <1>2, <2>1, <2>2
  <1>8. CASE x.op = "Imputer"
    <2>1. FeatureKernel(x) = SimpleImputer(x) /\ FeatureKernel(y) = SimpleImputer(y)
      BY <1>1, <1>8 DEF FeatureKernel
    <2>2. Local(SimpleImputer(x), SimpleImputer(y), a, n, N)
      BY SimpleImputerSplits
    <2>3. QED
      BY <1>2, <2>1, <2>2
  <1>9. CASE x.op = "Impute"
    <2>1. FeatureKernel(x) = SimpleImputer(x) /\ FeatureKernel(y) = SimpleImputer(y)
      BY <1>1, <1>9 DEF FeatureKernel
    <2>2. Local(SimpleImputer(x), SimpleImputer(y), a, n, N)
      BY SimpleImputerSplits
    <2>3. QED
      BY <1>2, <2>1, <2>2
  <1>10. CASE x.op = "SimpleImputer"
    <2>1. FeatureKernel(x) = SimpleImputer(x) /\ FeatureKernel(y) = SimpleImputer(y)
      BY <1>1, <1>10 DEF FeatureKernel
    <2>2. Local(SimpleImputer(x), SimpleImputer(y), a, n, N)
      BY SimpleImputerSplits
    <2>3. QED
      BY <1>2, <2>1, <2>2
  <1>11. CASE x.op = "OrdinalEncoder"
    <2>1. FeatureKernel(x) = OrdinalEncoder(x) /\ FeatureKernel(y) = OrdinalEncoder(y)
      BY <1>1, <1>11 DEF FeatureKernel
    <2>2. Local(OrdinalEncoder(x), OrdinalEncoder(y), a, n, N)
      BY OrdinalEncoderSplits
    <2>3. QED
      BY <1>2, <2>1, <2>2
  <1>12. CASE x.op = "LabelEncoder"
    <2>1. FeatureKernel(x) = LabelEncoder(x) /\ FeatureKernel(y) = LabelEncoder(y)
      BY <1>1, <1>12 DEF FeatureKernel
    <2>2. Local(LabelEncoder(x), LabelEncoder(y), a, n, N)
      BY LabelEncoderSplits
    <2>3. QED
      BY <1>2, <2>1, <2>2
  <1>13. CASE x.op = "LabelEncode"
    <2>1. FeatureKernel(x) = LabelEncoder(x) /\ FeatureKernel(y) = LabelEncoder(y)
      BY <1>1, <1>13 DEF FeatureKernel
    <2>2. Local(LabelEncoder(x), LabelEncoder(y), a, n, N)
      BY LabelEncoderSplits
    <2>3. QED
      BY <1>2, <2>1, <2>2
  <1>14. CASE x.op = "OneHotEncoder"
    <2>1. FeatureKernel(x) = OneHotEncoder(x) /\ FeatureKernel(y) = OneHotEncoder(y)
      BY <1>1, <1>14 DEF FeatureKernel
    <2>2. Parted(x)
      BY <1>14 DEF ReadsRows, RowByRow, Reducing
    <2>3. Local(OneHotEncoder(x), OneHotEncoder(y), a, n, N)
      BY <2>2, OneHotEncoderSplits
    <2>4. QED
      BY <1>2, <2>1, <2>3
  <1>15. CASE x.op = "OneHotEncode"
    <2>1. FeatureKernel(x) = OneHotEncoder(x) /\ FeatureKernel(y) = OneHotEncoder(y)
      BY <1>1, <1>15 DEF FeatureKernel
    <2>2. Parted(x)
      BY <1>15 DEF ReadsRows, RowByRow, Reducing
    <2>3. Local(OneHotEncoder(x), OneHotEncoder(y), a, n, N)
      BY <2>2, OneHotEncoderSplits
    <2>4. QED
      BY <1>2, <2>1, <2>3
  <1>16. QED
    BY <1>3, <1>4, <1>5, <1>6, <1>7, <1>8, <1>9, <1>10, <1>11, <1>12, <1>13, <1>14, <1>15 DEF ReadsRows, RowByRow, Reducing, FeatureNames

\* The linear node.
LEMMA NodeLocal ==
  ASSUME NEW a, NEW n, NEW N, IsSlice(a, n, N), NEW x, CallOn(x, N), ReadsRows(x),
         NEW y, y = Part(x, a, n), x.op \in NodeNames
  PROVE  Local(Answer(x), Answer(y), a, n, N)
  <1>1. y.op = x.op /\ y.in = [i \in DOMAIN x.in |-> Sliced(x.in[i], a, n)]
    BY PartIs DEF CallOn
  <1>2. Answer(x) = NodeKernel(x) /\ Answer(y) = NodeKernel(y)
    BY <1>1, NodeAnswer
  <1>3. CASE x.op = "LinearNode"
    <2>1. NodeKernel(x) = LinearNode(x) /\ NodeKernel(y) = LinearNode(y)
      BY <1>1, <1>3 DEF NodeKernel
    <2>2. AsWide(x)
      BY <1>3 DEF ReadsRows, RowByRow, Reducing
    <2>3. Local(LinearNode(x), LinearNode(y), a, n, N)
      BY <2>2, LinearNodeSplits
    <2>4. QED
      BY <1>2, <2>1, <2>3
  <1>4. QED
    BY <1>3 DEF ReadsRows, RowByRow, Reducing, NodeNames

\* An operator that reads row by row gives for each slice the slice of what it
\* gives for the batch.
LEMMA ReadsRowsLocal ==
  ASSUME NEW N \in Nat \ {0}, NEW x, CallOn(x, N), ReadsRows(x)
  PROVE  RowLocal(x, N)
  <1>1. x.op \in CoreNames \/ x.op \in FeatureNames \/ x.op \in NodeNames
    BY DEF ReadsRows, RowByRow, Reducing, CoreNames, FeatureNames, NodeNames
  <1>2. ASSUME NEW a, NEW n, IsSlice(a, n, N)
        PROVE  Local(Answer(x), Answer(Part(x, a, n)), a, n, N)
    BY <1>1, <1>2, CoreLocal, FeatureLocal, NodeLocal
  <1>3. QED
    BY <1>2, LocalIs

-----------------------------------------------------------------------------
(***************************************************************************)
(* The whole run                                                           *)
(***************************************************************************)

\* The reference runs one node after the other.
LEMMA AloneRuns ==
  ASSUME NEW j, Len(j.nodes) \in Nat
  PROVE  /\ AloneAfter(j)[0] = [ok |-> TRUE, values |-> Inputs(j, 0, BatchRows(j))]
         /\ \A k \in 1 .. Len(j.nodes) :
              AloneAfter(j)[k] = Step(j, AloneAfter(j)[k - 1], j.nodes[k])
  <1> DEFINE s == [ok |-> TRUE, values |-> Inputs(j, 0, BatchRows(j))]
             ns == j.nodes
             T == {m \in Nat : \E f : f = [k \in 0 .. m |-> IF k = 0 THEN s ELSE Step(j, f[k - 1], ns[k])]}
             run == CHOOSE f : f = [k \in 0 .. Len(ns) |-> IF k = 0 THEN s ELSE Step(j, f[k - 1], ns[k])]
  <1>0. AloneAfter(j) = run
    BY Zenon DEF AloneAfter
  <1> HIDE DEF s, ns
  <1>1. 0 \in T
    <2> DEFINE f == [i \in 0 .. 0 |-> s]
    <2>1. f = [k \in 0 .. 0 |-> IF k = 0 THEN s ELSE Step(j, f[k - 1], ns[k])]
      OBVIOUS
    <2>2. QED
      BY <2>1
  <1>2. ASSUME NEW m \in Nat, m \in T PROVE m + 1 \in T
    <2>1. PICK f : f = [k \in 0 .. m |-> IF k = 0 THEN s ELSE Step(j, f[k - 1], ns[k])]
      BY <1>2
    <2> DEFINE g == [i \in 0 .. m + 1 |-> IF i = m + 1 THEN Step(j, f[m], ns[(m + 1)]) ELSE f[i]]
    <2>2. ASSUME NEW i \in 0 .. m + 1 PROVE g[i] = IF i = 0 THEN s ELSE Step(j, g[i - 1], ns[i])
      <3>1. CASE i = m + 1
        <4>1. i # 0 /\ i - 1 = m /\ m \in 0 .. m + 1 /\ m # m + 1
          BY <3>1
        <4>2. g[m] = f[m]
          BY <4>1
        <4> HIDE DEF g
        <4>3. g[m + 1] = Step(j, f[m], ns[(m + 1)])
          BY <4>1 DEF g
        <4>4. QED
          BY <3>1, <4>1, <4>2, <4>3
      <3>2. CASE i # m + 1 /\ i # 0
        <4>1. i \in 0 .. m /\ i - 1 \in 0 .. m + 1 /\ i - 1 # m + 1
          BY <3>2
        <4>2. g[i] = f[i] /\ g[i - 1] = f[i - 1]
          BY <3>2, <4>1
        <4>3. f[i] = Step(j, f[i - 1], ns[i])
          BY <2>1, <3>2, <4>1
        <4> HIDE DEF g
        <4>4. QED
          BY <3>2, <4>2, <4>3
      <3>3. CASE i = 0
        <4>1. 0 \in 0 .. m /\ i # m + 1
          BY <3>3
        <4>2. g[i] = f[0]
          BY <3>3, <4>1
        <4>3. f[0] = s
          BY <2>1, <4>1
        <4>4. QED
          BY <3>3, <4>2, <4>3
      <3>4. QED
        BY <3>1, <3>2, <3>3
    <2>3. g = [k \in 0 .. m + 1 |-> IF k = 0 THEN s ELSE Step(j, g[k - 1], ns[k])]
      <3>1. g = [k \in 0 .. m + 1 |-> g[k]]
        OBVIOUS
      <3> HIDE DEF g
      <3>2. QED
        BY <2>2, <3>1
    <2> HIDE DEF g
    <2>4. \E h : h = [k \in 0 .. m + 1 |-> IF k = 0 THEN s ELSE Step(j, h[k - 1], ns[k])]
      BY <2>3
    <2>5. m + 1 \in Nat
      OBVIOUS
    <2>6. QED
      BY <2>4, <2>5
  <1>3. Nat \subseteq T
    <2> HIDE DEF T
    <2>1. QED
      BY <1>1, <1>2, NatSetInduction
  <1>4. Len(ns) \in Nat
    BY DEF ns
  <1>5. \E f : f = [k \in 0 .. Len(ns) |-> IF k = 0 THEN s ELSE Step(j, f[k - 1], ns[k])]
    BY <1>3, <1>4
  <1>6. run = [k \in 0 .. Len(ns) |-> IF k = 0 THEN s ELSE Step(j, run[k - 1], ns[k])]
    BY <1>5, Zenon
  <1> HIDE DEF run, T
  <1>7. \A k \in 0 .. Len(ns) : run[k] = IF k = 0 THEN s ELSE Step(j, run[k - 1], ns[k])
    BY <1>6
  <1>8. 0 \in 0 .. Len(ns) /\ \A k \in 1 .. Len(ns) : k \in 0 .. Len(ns) /\ k # 0
    BY <1>4
  <1>9. run[0] = s /\ \A k \in 1 .. Len(ns) : run[k] = Step(j, run[k - 1], ns[k])
    BY <1>7, <1>8
  <1>10. QED
    BY <1>0, <1>9 DEF s, ns

\* A run that has failed stays so.
LEMMA AloneStops ==
  ASSUME NEW j, Len(j.nodes) \in Nat, NEW k \in 0 .. Len(j.nodes), ~AloneAfter(j)[k].ok
  PROVE  ~Alone(j).ok
  <1> DEFINE L == Len(j.nodes)
             S == {m \in 0 .. L : m >= k => ~AloneAfter(j)[m].ok}
  <1>1. ASSUME NEW m \in 1 .. L, m - 1 \in S PROVE m \in S
    <2>1. CASE m > k
      <3>1. m - 1 >= k /\ m \in 0 .. L
        BY <2>1
      <3>2. ~AloneAfter(j)[m - 1].ok
        BY <1>1, <3>1
      <3>3. AloneAfter(j)[m] = Step(j, AloneAfter(j)[m - 1], j.nodes[m])
        BY AloneRuns
      <3>4. Step(j, AloneAfter(j)[m - 1], j.nodes[m]) = Stopped(AloneAfter(j)[m - 1])
        BY <3>2 DEF Step
      <3>5. QED
        BY <3>1, <3>3, <3>4 DEF Stopped
    <2>2. CASE ~(m > k)
      <3>1. m \in 0 .. L /\ (m >= k => m = k)
        BY <2>2
      <3>2. QED
        BY <3>1
    <2>3. QED
      BY <2>1, <2>2
  <1>2. 0 \in S
    OBVIOUS
  <1> HIDE DEF S
  <1>3. 0 .. L \subseteq S
    BY <1>1, <1>2, LoopInvariant
  <1>4. L \in S /\ L >= k
    BY <1>3
  <1>5. QED
    BY <1>4 DEF S, Alone

\* What a call has to be: of an operator shown above to read row by row, or one
\* that does so on this call.
Fits(x, N) == ReadsRows(x) \/ RowLocal(x, N)

\* With nothing to read or to write most operators do nothing.
Idle(node) == (node.in = << >> \/ node.out = << >>) /\ node.op \notin Eager

NodeFits(node, values, fns, N) ==
  /\ IsSeq(node.in) /\ IsSeq(node.out)
  /\ IF node.op = "OHENode" THEN HotFits(Called(node, values, fns), node.attrs["categories"], N)
     ELSE Idle(node) \/ Fits(Called(node, values, fns), N)

\* A batch of tables with N rows each, put through nodes that read row by row
\* what they are called with when the batch is run whole.
Orderly(j) ==
  LET N == BatchRows(j) IN
  /\ N \in Nat \ {0} /\ IsStore(j.in, N) /\ IsSeq(j.nodes)
  /\ \A k \in 1 .. Len(j.nodes) :
       LET s == AloneAfter(j)[k - 1]
           node == j.nodes[k]
       IN  s.ok /\ node.op \in Known /\ Reads(node, s.values) => NodeFits(node, s.values, j.fns, N)

\* The same where every node but the one-hot nodes is of an operator shown above.
RowFits(node, values, fns, N) ==
  /\ IsSeq(node.in) /\ IsSeq(node.out)
  /\ IF node.op = "OHENode" THEN HotFits(Called(node, values, fns), node.attrs["categories"], N)
     ELSE Idle(node) \/ ReadsRows(Called(node, values, fns))
RowGraph(j) ==
  LET N == BatchRows(j) IN
  /\ N \in Nat \ {0} /\ IsStore(j.in, N) /\ IsSeq(j.nodes)
  /\ \A k \in 1 .. Len(j.nodes) :
       LET s == AloneAfter(j)[k - 1]
           node == j.nodes[k]
       IN  s.ok /\ node.op \in Known /\ Reads(node, s.values) => RowFits(node, s.values, j.fns, N)

LEMMA CalledWith ==
  ASSUME NEW N, NEW V, IsStore(V, N), NEW node, NEW fns, IsSeq(node.in), Reads(node, V),
         NEW x, x = Called(node, V, fns)
  PROVE  AreTables(x.in, N) /\ Len(x.in) = Len(node.in) /\ IsStore(x.scope, N) /\ x.op = node.op
  <1> DEFINE ins == [i \in DOMAIN node.in |-> V[node.in[i]]]
  <1>1. x.in = ins /\ x.scope = V /\ x.op = node.op
    BY DEF Called
  <1>2. DOMAIN node.in = 1 .. Len(node.in) /\ Len(node.in) \in Nat
    BY DEF IsSeq
  <1>3. \A i \in 1 .. Len(node.in) : node.in[i] \in DOMAIN V
    BY <1>2 DEF Reads, Range
  <1>4. IsSeq(ins) /\ Len(ins) = Len(node.in) /\ \A i \in 1 .. Len(node.in) : ins[i] = V[node.in[i]]
    BY <1>2 DEF IsSeq
  <1> HIDE DEF ins
  <1>5. QED
    BY <1>1, <1>2, <1>3, <1>4 DEF AreTables, IsStore

LEMMA CalledIs ==
  ASSUME NEW node, NEW V, NEW fns, IsSeq(node.out)
  PROVE  IsCall(Called(node, V, fns))
  <1> DEFINE ins == [i \in DOMAIN node.in |-> V[node.in[i]]]
             m == Len(node.out)
  <1>1. m \in Nat
    BY DEF IsSeq
  <1>2. Called(node, V, fns) =
          [op |-> node.op, in |-> ins, names |-> node.in, outs |-> m, attrs |-> node.attrs,
           refs |-> node.refs, scope |-> V, fns |-> fns, order |-> HashOrder]
    BY DEF Called
  <1> HIDE DEF ins, m
  <1>3. QED
    BY <1>1, <1>2 DEF IsCall

LEMMA FitsSplits ==
  ASSUME NEW N \in Nat \ {0}, NEW x, Fits(x, N), ReadsRows(x) => CallOn(x, N)
  PROVE  RowLocal(x, N)
  BY ReadsRowsLocal DEF Fits

\* An operator that looks at more is none of those shown above.
LEMMA EagerNotShown ==
  ASSUME NEW x, x.op \in Eager
  PROVE  ~ReadsRows(x)
  BY DEF Eager, ExpressionNames, ReadsRows, RowByRow, Reducing

LEMMA OutcomeSplits ==
  ASSUME NEW N \in Nat \ {0}, NEW V, IsStore(V, N), NEW node, NEW fns,
         NodeFits(node, V, fns, N), Reads(node, V), node.op # "OHENode",
         NEW a, NEW n, IsSlice(a, n, N)
  PROVE  LET got == Outcome(node, V, fns)
         IN  /\ got.ok => AreTables(got.out, N)
             /\ Splits(got, Outcome(node, StoreSlice(V, a, n), fns), a, n)
  <1> DEFINE x == Called(node, V, fns)
  <1>1. IsSeq(node.in)
    BY DEF NodeFits
  <1>2. CASE Idle(node)
    <2> DEFINE e == [ok |-> TRUE, out |-> << >>]
    <2>1. Outcome(node, V, fns) = e /\ Outcome(node, StoreSlice(V, a, n), fns) = e
      BY <1>2 DEF Outcome, Nothing, Idle
    <2>2. AreTables(<< >>, N)
      BY DEF AreTables, IsSeq
    <2>3. [i \in DOMAIN << >> |-> Sliced(<< >>[i], a, n)] = << >>
      OBVIOUS
    <2>4. Splits(e, e, a, n) /\ e.out = << >>
      BY <2>3 DEF Splits, Shares, AreSlices
    <2> HIDE DEF e
    <2>5. QED
      BY <2>1, <2>2, <2>4
  <1>3. CASE ~Idle(node)
    <2>1. Fits(x, N)
      BY <1>3 DEF NodeFits
    <2>2. AreTables(x.in, N) /\ Len(x.in) = Len(node.in) /\ IsStore(x.scope, N)
      BY <1>1, CalledWith
    <2>3. Outcome(node, V, fns) = Answer(x) /\ x.op = node.op
      BY <1>3 DEF Outcome, Idle, Called
    <2>4. Called(node, StoreSlice(V, a, n), fns) = Part(x, a, n)
      BY <1>1, CalledSlice
    <2>5. Outcome(node, StoreSlice(V, a, n), fns) = Answer(Part(x, a, n))
      BY <1>3, <2>4 DEF Outcome, Idle
    <2> HIDE DEF x
    <2>6. ReadsRows(x) => x.in # << >>
      <3>1. ReadsRows(x) => node.op \notin Eager
        BY <2>3, EagerNotShown
      <3>2. node.in # << >> => Len(node.in) # 0
        BY <1>1 DEF IsSeq
      <3>3. QED
        BY <1>3, <2>2, <3>1, <3>2 DEF Idle
    <2>10. IsCall(Called(node, V, fns))
      BY CalledIs DEF NodeFits
    <2>7. RowLocal(x, N)
      BY <2>1, <2>2, <2>6, <2>10, FitsSplits DEF CallOn, x
    <2>8. a \in 0 .. N /\ n \in 1 .. N
      BY DEF IsSlice
    <2>9. QED
      BY <2>3, <2>5, <2>7, <2>8 DEF RowLocal
  <1>4. QED
    BY <1>2, <1>3

LEMMA HotSplits ==
  ASSUME NEW N \in Nat \ {0}, NEW V, IsStore(V, N), NEW node, NEW fns,
         NodeFits(node, V, fns, N), Reads(node, V), node.op = "OHENode",
         NEW a, NEW n, IsSlice(a, n, N), NEW old, IsSeq(old)
  PROVE  LET cats   == node.attrs["categories"]
             got    == HotAlone(Called(node, V, fns), cats)
             call   == Called(node, StoreSlice(V, a, n), fns)
             buffer == HotBuffer(call, cats, old)
         IN  /\ got.ok /\ AreTables(got.out, N) /\ IsSeq(buffer)
             /\ Shares(got, HotResult(call, cats, buffer), a, n)
  <1> DEFINE x == Called(node, V, fns)
             y == Called(node, StoreSlice(V, a, n), fns)
             cats == node.attrs["categories"]
  <1>1. IsSeq(node.in) /\ HotFits(x, cats, N)
    BY DEF NodeFits
  <1>2. AreTables(x.in, N)
    BY <1>1, CalledWith
  <1>3. y.in = [i \in DOMAIN x.in |-> Sliced(x.in[i], a, n)] /\ y.outs = x.outs
    <2> DEFINE W == StoreSlice(V, a, n)
               xin == [i \in DOMAIN node.in |-> V[node.in[i]]]
               yin == [i \in DOMAIN node.in |-> W[node.in[i]]]
    <2>1. x.in = xin /\ y.in = yin /\ y.outs = Len(node.out) /\ x.outs = Len(node.out)
      BY DEF Called
    <2>2. \A i \in DOMAIN node.in : node.in[i] \in DOMAIN V
      BY DEF Reads, Range
    <2>3. \A i \in DOMAIN node.in : W[node.in[i]] = Sliced(V[node.in[i]], a, n)
      BY <2>2 DEF StoreSlice
    <2> HIDE DEF x, y, W
    <2>4. DOMAIN x.in = DOMAIN node.in /\ \A i \in DOMAIN node.in : x.in[i] = V[node.in[i]]
      BY <2>1
    <2>5. yin = [i \in DOMAIN x.in |-> Sliced(x.in[i], a, n)]
      BY <2>3, <2>4
    <2>6. QED
      BY <2>1, <2>5
  <1> HIDE DEF x, y, cats
  <1>4. /\ HotAlone(x, cats).ok /\ AreTables(HotAlone(x, cats).out, N) /\ IsSeq(HotBuffer(y, cats, old))
        /\ Shares(HotAlone(x, cats), HotResult(y, cats, HotBuffer(y, cats, old)), a, n)
    BY <1>1, <1>2, <1>3, HotShares
  <1>5. QED
    BY <1>4 DEF x, y, cats

\* Once a step is shared, so is the store after it.
LEMMA PutsHolds ==
  ASSUME NEW N, NEW V, NEW node, NEW a, NEW n, NEW ts, NEW us,
         IsStore(V, N), IsSlice(a, n, N), AreTables(ts, N), AreSlices(ts, us, a, n)
  PROVE  IsStore(Puts(V, node, ts), N)
  BY PutsSlice DEF AreSlices

LEMMA PutsShared ==
  ASSUME NEW N, NEW V, NEW node, NEW a, NEW n, NEW ts, NEW us,
         IsStore(V, N), IsSlice(a, n, N), AreTables(ts, N), AreSlices(ts, us, a, n)
  PROVE  StoreSlice(Puts(V, node, ts), a, n) = Puts(StoreSlice(V, a, n), node, us)
  BY PutsSlice DEF AreSlices

\* While the reference has not failed, it holds tables of the whole batch.
LEMMA AloneHolds ==
  ASSUME NEW j, Orderly(j), NEW k \in 0 .. Len(j.nodes), AloneAfter(j)[k].ok
  PROVE  IsStore(AloneAfter(j)[k].values, BatchRows(j))
  <1> DEFINE N == BatchRows(j)
             L == Len(j.nodes)
             S == {m \in 0 .. L : AloneAfter(j)[m].ok => IsStore(AloneAfter(j)[m].values, N)}
  <1>1. N \in Nat \ {0} /\ IsStore(j.in, N) /\ L \in Nat
    BY DEF Orderly, IsSeq
  <1>2. 0 \in S
    <2>1. Inputs(j, 0, N) = StoreSlice(j.in, 0, N)
      BY DEF Inputs, StoreSlice
    <2>2. AloneAfter(j)[0].values = j.in
      <3>1. AloneAfter(j)[0] = [ok |-> TRUE, values |-> Inputs(j, 0, N)]
        BY <1>1, AloneRuns
      <3>2. Inputs(j, 0, N) = j.in
        BY <1>1, <2>1, StoreWhole
      <3>3. QED
        BY <3>1, <3>2
    <2>3. QED
      BY <1>1, <2>2
  <1>3. ASSUME NEW m \in 1 .. L, m - 1 \in S PROVE m \in S
    <2> DEFINE s == AloneAfter(j)[m - 1]
               node == j.nodes[m]
               hot == HotAlone(Called(node, s.values, j.fns), node.attrs["categories"])
               plain == Outcome(node, s.values, j.fns)
               got == IF node.op = "OHENode" THEN hot ELSE plain
    <2>1. AloneAfter(j)[m] = Step(j, s, node)
      BY <1>1, AloneRuns
    <2>2. m \in 0 .. L
      OBVIOUS
    <2>3. CASE ~s.ok \/ node.op \notin Known \/ ~Reads(node, s.values)
      <3>1. ~Step(j, s, node).ok
        BY <2>3 DEF Step, Stopped
      <3>2. QED
        BY <2>1, <2>2, <3>1
    <2>4. CASE s.ok /\ node.op \in Known /\ Reads(node, s.values)
      <3>1. IsStore(s.values, N)
        BY <1>3, <2>4
      <3>2. NodeFits(node, s.values, j.fns, N)
        BY <2>4 DEF Orderly
      <3>3. Step(j, s, node) = Given(s, node, got)
        BY <2>4 DEF Step
      <3>4. IsSlice(0, N, N) /\ IsSeq(<< >>)
        BY <1>1 DEF IsSlice, IsSeq
      <3>5. got.ok => AreTables(got.out, N) /\ \E part : Shares(got, part, 0, N)
        <4> HIDE DEF s, N, node
        <4>1. CASE node.op = "OHENode"
          <5> DEFINE call == Called(node, StoreSlice(s.values, 0, N), j.fns)
                     cats == node.attrs["categories"]
          <5>1. hot.ok /\ AreTables(hot.out, N)
                /\ Shares(hot, HotResult(call, cats, HotBuffer(call, cats, << >>)), 0, N)
            BY <1>1, <2>4, <3>1, <3>2, <3>4, <4>1, HotSplits
          <5> HIDE DEF hot
          <5>2. QED
            BY <4>1, <5>1
        <4>2. CASE node.op # "OHENode"
          <5>1. plain.ok => AreTables(plain.out, N)
            BY <1>1, <2>4, <3>1, <3>2, <3>4, <4>2, OutcomeSplits
          <5>2. Splits(plain, Outcome(node, StoreSlice(s.values, 0, N), j.fns), 0, N)
            BY <1>1, <2>4, <3>1, <3>2, <3>4, <4>2, OutcomeSplits
          <5> HIDE DEF plain
          <5>3. QED
            BY <4>2, <5>1, <5>2 DEF Splits
        <4>3. QED
          BY <4>1, <4>2
      <3> HIDE DEF got, s, N, node
      <3>6. CASE got.ok
        <4>1. IsStore(Puts(s.values, node, got.out), N)
          BY <1>1, <3>1, <3>4, <3>5, <3>6, PutsHolds DEF Shares
        <4>2. Step(j, s, node).values = Puts(s.values, node, got.out)
          BY <3>3, <3>6 DEF Given
        <4>3. QED
          BY <2>1, <2>2, <4>1, <4>2 DEF s, node
      <3>7. CASE ~got.ok
        <4>1. ~Step(j, s, node).ok
          BY <3>3, <3>7 DEF Given, Stopped
        <4>2. QED
          BY <2>1, <2>2, <4>1
      <3>8. QED
        BY <3>6, <3>7
    <2>5. QED
      BY <2>3, <2>4
  <1> HIDE DEF S
  <1>4. 0 .. L \subseteq S
    BY <1>1, <1>2, <1>3, LoopInvariant
  <1>5. k \in S
    BY <1>4
  <1>6. QED
    BY <1>5 DEF S

-----------------------------------------------------------------------------
(***************************************************************************)
(* How a batch is cut, and its pieces put together again                   *)
(***************************************************************************)

\* c cuts N rows, the slices ending where off says.
CutsAt(off, c, N) ==
  /\ IsSeq(c) /\ Len(c) \in Nat \ {0} /\ EndsAt(off, c) /\ off[Len(c)] = N
  /\ \A i \in 1 .. Len(c) : IsSlice(off[i - 1], c[i], N) /\ Sum(SubSeq(c, 1, i - 1)) = off[i - 1]

LEMMA CutLies ==
  ASSUME NEW N \in DOMAIN Cuts, NEW c \in Cuts[N]
  PROVE  \E off : CutsAt(off, c, N)
  <1>1. c \in Seq(Nat \ {0}) /\ c # << >> /\ Sum(c) = N
    BY OperatorAssumption
  <1>2. IsSeq(c) /\ Len(c) \in Nat \ {0} /\ \A i \in 1 .. Len(c) : c[i] \in Nat \ {0}
    <2>1. Len(c) # 0
      BY <1>1, EmptySeq
    <2>2. QED
      BY <1>1, <2>1, SeqIs
  <1>3. PICK off : /\ EndsAt(off, c) /\ Sum(c) = off[Len(c)]
                   /\ \A k \in 0 .. Len(c) : Sum(SubSeq(c, 1, k)) = off[k]
    BY <1>2, SumsAre
  <1>4. \A k \in 0 .. Len(c), m \in 0 .. Len(c) : k <= m => off[k] <= off[m]
    BY <1>2, <1>3, EndsGrow
  <1>5. ASSUME NEW i \in 1 .. Len(c)
        PROVE  IsSlice(off[i - 1], c[i], N) /\ Sum(SubSeq(c, 1, i - 1)) = off[i - 1]
    <2>1. i - 1 \in 0 .. Len(c) /\ i \in 0 .. Len(c) /\ Len(c) \in 0 .. Len(c) /\ i <= Len(c)
      BY <1>2
    <2>2. off[i - 1] \in Nat /\ off[i] = off[i - 1] + c[i] /\ off[i] <= off[Len(c)] /\ off[Len(c)] \in Nat
      BY <1>3, <1>4, <2>1 DEF EndsAt
    <2>3. c[i] \in Nat \ {0} /\ N = off[Len(c)]
      BY <1>1, <1>2, <1>3
    <2>4. QED
      BY <1>3, <2>1, <2>2, <2>3 DEF IsSlice
  <1>6. QED
    BY <1>1, <1>2, <1>3, <1>5 DEF CutsAt

\* All of a sequence is the sequence.
LEMMA PrefixIs ==
  ASSUME NEW s, IsSeq(s)
  PROVE  SubSeq(s, 1, Len(s)) = s
  <1> DEFINE z == 0
             m == Len(s)
             g == SubSeq(s, z + 1, z + m)
  <1>1. z \in Nat /\ m \in Nat /\ z + m <= Len(s) /\ z + 1 = 1 /\ z + m = m /\ \A i \in 1 .. m : z + i = i
    BY DEF IsSeq
  <1>2. m = Len(s)
    OBVIOUS
  <1> HIDE DEF z, m
  <1>3. IsSeq(g) /\ Len(g) = m /\ \A i \in 1 .. m : g[i] = s[z + i]
    BY <1>1, SubSeqIs
  <1>4. \A i \in 1 .. m : g[i] = s[i]
    BY <1>1, <1>3
  <1>5. g = SubSeq(s, 1, Len(s))
    BY <1>1, <1>2
  <1> HIDE DEF g
  <1>6. g = s
    BY <1>2, <1>3, <1>4, SameSeq
  <1>7. QED
    BY <1>5, <1>6

\* What the copy reads of a slice, of a type it copies whole: all its cells, row
\* by row those of the table.
LEMMA PieceStored ==
  ASSUME NEW a, NEW n, NEW N, IsSlice(a, n, N), NEW t, IsTable(t, N), t.type \in Joinable,
         NEW u, u = Sliced(t, a, n), NEW W, W = NCols(t)
  PROVE  /\ W \in Nat /\ n \in Nat \ {0} /\ u.type = t.type /\ NRows(u) = n /\ NCols(u) = W
         /\ n * W \in Nat /\ IsSeq(Flat(u)) /\ Len(Flat(u)) = n * W
         /\ Storage(u) = Flat(u) /\ SubSeq(Storage(u), 1, NRows(u) * W) = Flat(u)
         /\ \A q \in 1 .. n : a + q \in 1 .. N /\ FoundAt(Flat(u), (q - 1) * W, W, t.cells[a + q])
  <1>1. /\ IsTable(u, n) /\ u.type = t.type /\ NCols(u) = W /\ NRows(u) = n
        /\ \A q \in 1 .. n : a + q \in 1 .. N /\ u.cells[q] = t.cells[a + q]
    BY SlicedIs
  <1>2. n \in Nat \ {0} /\ 1 \in 1 .. n
    BY DEF IsSlice
  <1>3. \A q \in 1 .. n : IsSeq(Flat(u)) /\ Len(Flat(u)) = n * W /\ FoundAt(Flat(u), (q - 1) * W, W, u.cells[q])
    BY <1>1, <1>2, FlatCells
  <1>4. W \in Nat
    BY <1>2, <1>3 DEF FoundAt
  <1> DEFINE f == Flat(u)
             m == n * W
  <1>5. IsSeq(f) /\ Len(f) = m /\ m \in Nat
    BY <1>2, <1>3, <1>4 DEF IsSeq
  <1>6. Storage(u) = f
    BY <1>1 DEF Storage, Joinable
  <1>7. NRows(u) * W = m
    BY <1>1
  <1> HIDE DEF f, m
  <1>8. SubSeq(Storage(u), 1, NRows(u) * W) = f
    BY <1>5, <1>6, <1>7, PrefixIs
  <1>9. QED
    BY <1>1, <1>2, <1>3, <1>4, <1>5, <1>6, <1>8 DEF f, m

\* The ends of the slices, counted in cells.
LEMMA CellsEnd ==
  ASSUME NEW c, IsSeq(c), \A i \in 1 .. Len(c) : c[i] \in Nat, NEW off, EndsAt(off, c),
         NEW W \in Nat, NEW at, at = [k \in 0 .. Len(c) |-> off[k] * W],
         NEW lens, lens = [i \in 1 .. Len(c) |-> c[i] * W]
  PROVE  /\ IsSeq(lens) /\ Len(lens) = Len(c) /\ EndsAt(at, lens)
         /\ Sum(lens) = off[Len(c)] * W
  <1> DEFINE L == Len(c)
  <1>1. L \in Nat /\ \A k \in 0 .. L : off[k] \in Nat /\ off[0] = 0
    BY DEF IsSeq, EndsAt
  <1>2. \A k \in 0 .. L : at[k] = off[k] * W /\ at[k] \in Nat
    BY <1>1
  <1>3. \A i \in 1 .. L : lens[i] = c[i] * W /\ lens[i] \in Nat
    OBVIOUS
  <1>4. IsSeq(lens) /\ Len(lens) = L
    BY <1>1 DEF IsSeq
  <1>5. ASSUME NEW k \in 1 .. L PROVE at[k] = at[k - 1] + lens[k]
    <2>1. k \in 0 .. L /\ k - 1 \in 0 .. L /\ off[k] = off[k - 1] + c[k]
      BY <1>1 DEF EndsAt
    <2> DEFINE p == off[k - 1]
               q == c[k]
    <2>2. p \in Nat /\ q \in Nat
      BY <1>1, <2>1
    <2>3. at[k] = off[k] * W /\ at[k - 1] = p * W /\ lens[k] = q * W /\ off[k] = p + q
      BY <1>2, <1>3, <2>1
    <2> HIDE DEF p, q
    <2>4. (p + q) * W = p * W + q * W
      BY <2>2
    <2>5. QED
      BY <2>3, <2>4
  <1>6. at \in [0 .. L -> Nat] /\ at[0] = 0
    <2>1. at = [k \in 0 .. L |-> at[k]]
      OBVIOUS
    <2>2. at[0] = 0
      BY <1>1, <1>2
    <2>3. QED
      BY ONLY <1>2, <2>1, <2>2
  <1>7. EndsAt(at, lens)
    BY <1>4, <1>5, <1>6 DEF EndsAt
  <1>8. Sum(lens) = at[L]
    <2> HIDE DEF L
    <2>1. Sum(lens) = at[Len(lens)]
      BY ONLY <1>3, <1>4, <1>7, SumEnds
    <2>2. QED
      BY <1>4, <2>1
  <1>9. QED
    BY <1>1, <1>2, <1>4, <1>7, <1>8

\* The slices of a table of a type the copy handles, copied one behind the other,
\* are the table, and there is in each what is read of it.
LEMMA JoinedIs ==
  ASSUME NEW N \in Nat \ {0}, NEW c, NEW off, CutsAt(off, c, N), NEW t, IsTable(t, N),
         t.type \in Joinable, NEW ps, ps = [i \in 1 .. Len(c) |-> Sliced(t, off[i - 1], c[i])]
  PROVE  Vcat(ps) = t /\ Readable(ps)
  <1> DEFINE L == Len(c)
             W == NCols(t)
             ss == [i \in 1 .. L |-> Flat(ps[i])]
             f == FlattenSeq(ss)
             lens == [i \in 1 .. L |-> c[i] * W]
             at == [k \in 0 .. L |-> off[k] * W]
  <1>1. L \in Nat \ {0} /\ 1 \in 1 .. L /\ IsSeq(c) /\ EndsAt(off, c) /\ off[L] = N /\ DOMAIN ps = 1 .. L
    BY DEF CutsAt
  <1>2. ASSUME NEW i \in 1 .. L
        PROVE  /\ W \in Nat /\ c[i] \in Nat \ {0} /\ ps[i].type = t.type /\ NRows(ps[i]) = c[i]
               /\ NCols(ps[i]) = W /\ c[i] * W \in Nat /\ IsSeq(Flat(ps[i])) /\ Len(Flat(ps[i])) = c[i] * W
               /\ Storage(ps[i]) = Flat(ps[i]) /\ SubSeq(Storage(ps[i]), 1, NRows(ps[i]) * W) = Flat(ps[i])
               /\ \A q \in 1 .. c[i] : /\ off[i - 1] + q \in 1 .. N
                                       /\ FoundAt(Flat(ps[i]), (q - 1) * W, W, t.cells[off[i - 1] + q])
    <2>1. IsSlice(off[i - 1], c[i], N)
      BY DEF CutsAt
    <2>2. ps[i] = Sliced(t, off[i - 1], c[i])
      OBVIOUS
    <2> DEFINE a == off[i - 1]
               n == c[i]
               u == ps[i]
    <2> HIDE DEF a, n, u, W
    <2>3. IsSlice(a, n, N) /\ u = Sliced(t, a, n) /\ W = NCols(t)
      BY <2>1, <2>2 DEF a, n, u, W
    <2>4. /\ W \in Nat /\ n \in Nat \ {0} /\ u.type = t.type /\ NRows(u) = n /\ NCols(u) = W
          /\ n * W \in Nat /\ IsSeq(Flat(u)) /\ Len(Flat(u)) = n * W
          /\ Storage(u) = Flat(u) /\ SubSeq(Storage(u), 1, NRows(u) * W) = Flat(u)
          /\ \A q \in 1 .. n : a + q \in 1 .. N /\ FoundAt(Flat(u), (q - 1) * W, W, t.cells[a + q])
      BY <2>3, PieceStored
    <2>5. QED
      BY <2>4 DEF a, n, u
  <1>3. W \in Nat /\ NCols(ps[1]) = W /\ ps[1].type = t.type
    BY <1>1, <1>2
  <1>4. Readable(ps)
    <2>1. ASSUME NEW i \in 1 .. L
          PROVE  ps[i].type = ps[1].type /\ NRows(ps[i]) * NCols(ps[1]) <= Len(Storage(ps[i]))
      <3> DEFINE m == c[i] * W
      <3>1. NRows(ps[i]) * NCols(ps[1]) = m /\ Len(Storage(ps[i])) = m /\ m \in Nat
        BY <1>2, <1>3
      <3> HIDE DEF m
      <3>2. QED
        BY <1>2, <1>3, <3>1
    <2>2. QED
      BY <1>1, <2>1 DEF Readable
  <1>5. Sum([i \in DOMAIN ps |-> NRows(ps[i])]) = N
    <2>1. [i \in DOMAIN ps |-> NRows(ps[i])] = c
      <3>1. c = [i \in 1 .. L |-> c[i]]
        BY <1>1 DEF IsSeq
      <3>2. QED
        BY <1>1, <1>2, <3>1
    <2>2. Sum(c) = off[Len(c)]
      BY <1>1, <1>2, SumEnds
    <2>3. QED
      BY <1>1, <2>1, <2>2
  <1>6. Copied(ps, W) = f
    <2>1. [i \in DOMAIN ps |-> SubSeq(Storage(ps[i]), 1, NRows(ps[i]) * W)] = ss
      BY <1>1, <1>2
    <2>2. QED
      BY <2>1 DEF Copied
  <1>7. IsSeq(ss) /\ Len(ss) = L /\ \A i \in 1 .. L : ss[i] = Flat(ps[i]) /\ IsSeq(ss[i]) /\ Len(ss[i]) = c[i] * W
    <2>1. \A i \in 1 .. L : ss[i] = Flat(ps[i])
      OBVIOUS
    <2>2. IsSeq(ss) /\ Len(ss) = L
      BY <1>1 DEF IsSeq
    <2>3. QED
      BY <1>2, <2>1, <2>2
  <1>8. EndsAt(at, lens) /\ Sum(lens) = N * W /\ lens = [i \in 1 .. Len(ss) |-> Len(ss[i])]
    <2>1. \A i \in 1 .. L : c[i] \in Nat
      BY <1>2
    <2>2. lens = [i \in 1 .. Len(ss) |-> Len(ss[i])]
      BY <1>7
    <2> HIDE DEF W, ss
    <2>3. at = [k \in 0 .. L |-> off[k] * W] /\ lens = [i \in 1 .. L |-> c[i] * W] /\ L = Len(c)
      OBVIOUS
    <2> HIDE DEF L, at, lens
    <2>4. EndsAt(at, lens) /\ Sum(lens) = off[Len(c)] * W
      BY ONLY <1>1, <1>3, <2>1, <2>3, CellsEnd
    <2>5. QED
      BY <1>1, <2>2, <2>3, <2>4
  <1>9. \A k \in 1 .. L : at[k - 1] = off[k - 1] * W
    BY <1>1
  <1> HIDE DEF ss, lens, at
  <1>10. IsSeq(f) /\ Len(f) = N * W /\ LiesAt(f, at, ss)
    <2>1. \A i \in 1 .. Len(ss) : IsSeq(ss[i])
      BY <1>7
    <2>2. QED
      BY <1>7, <1>8, <2>1, FlattenIs
  <1> HIDE DEF f, W
  <1>11. Elements(t.type, f, N * W) = f
    BY DEF Elements, Joinable
  <1>12. ASSUME NEW r \in 1 .. N
         PROVE  SubSeq(f, (r - 1) * W + 1, r * W) = t.cells[r]
    <2>1. PICK k \in 1 .. L : \E q \in 1 .. c[k] : r = off[k - 1] + q
      <3>1. r \in 1 .. off[Len(c)] /\ \A i \in 1 .. Len(c) : c[i] \in Nat
        BY <1>1, <1>2
      <3>2. InPart(off, c, r)
        BY <1>1, <3>1, EndsGrow
      <3>3. QED
        BY <3>2 DEF InPart
    <2>2. PICK q \in 1 .. c[k] : r = off[k - 1] + q
      BY <2>1
    <2> DEFINE a == off[k - 1]
               b == (q - 1) * W
               p == t.cells[r]
               g == SubSeq(f, (r - 1) * W + 1, (r - 1) * W + W)
    <2>3. FoundAt(Flat(ps[k]), b, W, p)
      BY <1>2, <2>2
    <2>4. a \in Nat /\ q - 1 \in Nat /\ a * W \in Nat /\ b \in Nat
      <3>1. k - 1 \in 0 .. L
        BY <1>1
      <3>2. a \in Nat
        BY <1>1, <3>1 DEF EndsAt
      <3>3. q - 1 \in Nat
        BY <1>2
      <3>4. QED
        BY <1>3, <3>2, <3>3
    <2>5. (r - 1) * W = a * W + b
      <3> DEFINE z == q - 1
      <3>1. r - 1 = a + z /\ z \in Nat /\ b = z * W
        BY <2>2, <2>4
      <3> HIDE DEF a, b, z
      <3>2. (a + z) * W = a * W + z * W
        BY <1>3, <2>4, <3>1
      <3>3. QED
        BY <3>1, <3>2
    <2>6. (r - 1) * W \in Nat /\ (r - 1) * W + W = r * W /\ (r - 1) * W + W <= Len(f)
      BY <1>3, <1>10, RowsWithin
    <2>7. \A j \in 1 .. W : f[(r - 1) * W + j] = p[j]
      <3>1. TAKE j \in 1 .. W
      <3>2. b + W <= Len(ss[k]) /\ ss[k][b + j] = p[j]
        BY <1>7, <2>3 DEF FoundAt
      <3>3. b + j \in 1 .. Len(ss[k])
        <4>1. Len(ss[k]) \in Nat
          BY <1>7 DEF IsSeq
        <4>2. b \in Nat /\ b + W <= Len(ss[k])
          BY <2>4, <3>2
        <4> HIDE DEF b
        <4>3. QED
          BY <1>3, <4>1, <4>2
      <3>4. f[at[k - 1] + (b + j)] = ss[k][b + j]
        BY <1>7, <1>10, <3>3 DEF LiesAt
      <3>5. at[k - 1] + (b + j) = (r - 1) * W + j
        BY <1>9, <2>4, <2>5
      <3>6. QED
        BY <3>2, <3>4, <3>5
    <2>8. IsSeq(p) /\ Len(p) = W
      BY <2>3 DEF FoundAt
    <2> DEFINE e == (r - 1) * W
    <2>9. IsSeq(g) /\ Len(g) = W /\ \A j \in 1 .. W : g[j] = f[e + j]
      <3>1. e \in Nat /\ W \in Nat /\ e + W <= Len(f) /\ IsSeq(f)
        BY <1>3, <1>10, <2>6
      <3> HIDE DEF e
      <3>2. /\ IsSeq(SubSeq(f, e + 1, e + W)) /\ Len(SubSeq(f, e + 1, e + W)) = W
            /\ \A j \in 1 .. W : SubSeq(f, e + 1, e + W)[j] = f[e + j]
        BY ONLY <3>1, SubSeqIs
      <3>3. QED
        BY <3>2 DEF e
    <2>10. g = p
      <3>1. \A j \in 1 .. W : g[j] = p[j]
        BY <2>7, <2>9
      <3> HIDE DEF g, p
      <3>2. QED
        BY <2>8, <2>9, <3>1, SameSeq
    <2>11. QED
      BY <2>6, <2>10
  <1>13. [r \in 1 .. N |-> SubSeq(f, (r - 1) * W + 1, r * W)] = t.cells
    <2>1. t.cells = [r \in 1 .. N |-> t.cells[r]]
      BY DEF IsTable, IsSeq
    <2>2. QED
      BY <1>12, <2>1
  <1>14. Dense(ps[1]).type = t.type
    BY <1>3 DEF Dense, Joinable
  <1>15. Vcat(ps) = [type |-> t.type, cells |-> t.cells]
    <2>1. Vcat(ps) = [type |-> Dense(ps[1]).type,
                      cells |-> [r \in 1 .. N |-> SubSeq(f, (r - 1) * W + 1, r * W)]]
      <3> DEFINE width == NCols(ps[1])
                 count == Sum([i \in DOMAIN ps |-> NRows(ps[i])])
                 cells == Elements(ps[1].type, Copied(ps, width), count * width)
      <3>1. Vcat(ps) = [type |-> Dense(ps[1]).type,
                        cells |-> [r \in 1 .. count |-> SubSeq(cells, (r - 1) * width + 1, r * width)]]
        BY DEF Vcat
      <3>2. width = W /\ count = N
        BY <1>3, <1>5
      <3> HIDE DEF width, count
      <3>3. cells = f
        BY <1>3, <1>6, <1>11, <3>2
      <3> HIDE DEF cells
      <3>4. QED
        BY <3>1, <3>2, <3>3
    <2>2. QED
      BY <1>13, <1>14, <2>1
  <1>16. QED
    BY <1>4, <1>15 DEF IsTable

-----------------------------------------------------------------------------
(***************************************************************************)
(* The run of the slices follows that of the whole                         *)
(***************************************************************************)

Start(c, i) == Sum(SubSeq(c, 1, i - 1))

\* What the slice i holds of a store, and of the outputs.
Piece(values, c, i) == StoreSlice(values, Start(c, i), c[i])
Outputs(values, outs, c, i) == [n \in outs |-> Sliced(values[n], Start(c, i), c[i])]

\* Before node k the reference has not failed, and the slice i holds its part of
\* what the reference does.
Follows(j, k, c, i, store) ==
  AloneAfter(j)[k - 1].ok /\ store = Piece(AloneAfter(j)[k - 1].values, c, i)

Laid ==
  /\ job \in Jobs /\ cut \in Cuts[BatchRows(job)] /\ whole = Alone(job)
  /\ todo \subseteq DOMAIN cut /\ slice \in {0} \cup DOMAIN cut /\ slice \notin todo
  /\ DOMAIN parts = DOMAIN cut
Followed ==
  /\ IsSeq(scratch)
  /\ phase = "run" /\ slice # 0 =>
       pc \in 1 .. Len(job.nodes) + 1 /\ Follows(job, pc, cut, slice, vs)
  /\ \A i \in DOMAIN cut \ (todo \cup {slice}) :
       /\ whole.ok /\ job.outs \subseteq DOMAIN whole.values
       /\ parts[i] = Outputs(whole.values, job.outs, cut, i)
  /\ SplitInvisible
FollowInv == Laid /\ (Orderly(job) => Followed)

\* Where a slice of an orderly job lies.
LEMMA PieceLies ==
  ASSUME NEW j \in Jobs, Orderly(j), NEW c \in Cuts[BatchRows(j)]
  PROVE  /\ BatchRows(j) \in Nat \ {0} /\ Len(j.nodes) \in Nat /\ IsSeq(c) /\ DOMAIN c = 1 .. Len(c)
         /\ Len(c) \in Nat \ {0}
         /\ \A i \in DOMAIN c : IsSlice(Start(c, i), c[i], BatchRows(j))
  <1>1. BatchRows(j) \in DOMAIN Cuts
    BY OperatorAssumption
  <1>2. PICK off : CutsAt(off, c, BatchRows(j))
    BY <1>1, CutLies
  <1>3. BatchRows(j) \in Nat \ {0} /\ Len(j.nodes) \in Nat
    BY DEF Orderly, IsSeq
  <1>4. IsSeq(c) /\ Len(c) \in Nat \ {0} /\ DOMAIN c = 1 .. Len(c)
    BY <1>2, IsSeqDomain DEF CutsAt
  <1>5. \A i \in 1 .. Len(c) : IsSlice(Start(c, i), c[i], BatchRows(j))
    BY <1>2 DEF CutsAt, Start
  <1>6. QED
    BY <1>3, <1>4, <1>5

\* The next node of a slice reads its parts of what the reference reads.
LEMMA FollowsReads ==
  ASSUME NEW j, NEW k, NEW c, NEW i, NEW store, Follows(j, k, c, i, store), NEW node
  PROVE  /\ DOMAIN store = DOMAIN AloneAfter(j)[k - 1].values
         /\ Reads(node, store) <=> Reads(node, AloneAfter(j)[k - 1].values)
  BY DEF Follows, Piece, StoreSlice, Reads

LEMMA PieceShared ==
  ASSUME NEW N, NEW V, NEW node, NEW c, NEW i, NEW ts, NEW us,
         IsStore(V, N), IsSlice(Start(c, i), c[i], N), AreTables(ts, N),
         AreSlices(ts, us, Start(c, i), c[i])
  PROVE  Piece(Puts(V, node, ts), c, i) = Puts(Piece(V, c, i), node, us)
  BY PutsShared DEF Piece

\* A step that shares its answer keeps following.
LEMMA StepFollows ==
  ASSUME NEW j, NEW c, NEW i, NEW k, NEW store, NEW ts, NEW us,
         j \in Jobs, Orderly(j), c \in Cuts[BatchRows(j)], i \in DOMAIN c, k \in 1 .. Len(j.nodes),
         Follows(j, k, c, i, store), AreTables(ts, BatchRows(j)),
         AreSlices(ts, us, Start(c, i), c[i]), AloneAfter(j)[k].ok,
         AloneAfter(j)[k].values = Puts(AloneAfter(j)[k - 1].values, j.nodes[k], ts)
  PROVE  Follows(j, k + 1, c, i, Puts(store, j.nodes[k], us))
  <1> DEFINE N == BatchRows(j)
             V == AloneAfter(j)[k - 1].values
             W == AloneAfter(j)[k].values
             node == j.nodes[k]
  <1>1. IsSlice(Start(c, i), c[i], N)
    BY PieceLies
  <1>2. store = Piece(V, c, i) /\ W = Puts(V, node, ts)
    BY DEF Follows
  <1>3. IsStore(V, N)
    <2>1. k - 1 \in 0 .. Len(j.nodes) /\ AloneAfter(j)[k - 1].ok
      BY DEF Follows
    <2>2. QED
      BY <2>1, AloneHolds
  <1>4. AreTables(ts, N) /\ AreSlices(ts, us, Start(c, i), c[i])
    OBVIOUS
  <1>5. Follows(j, k + 1, c, i, Puts(store, node, us)) <=> Puts(store, node, us) = Piece(W, c, i)
    <2>1. (k + 1) - 1 = k
      OBVIOUS
    <2>2. QED
      BY <2>1 DEF Follows
  <1> HIDE DEF N, V, W, node
  <1>6. Piece(Puts(V, node, ts), c, i) = Puts(Piece(V, c, i), node, us)
    BY <1>1, <1>3, <1>4, PieceShared
  <1>7. QED
    BY <1>2, <1>5, <1>6 DEF node

\* Executing a node that is no OHENode.
LEMMA ExecuteFollows ==
  ASSUME FollowInv, Orderly(job), NEW names, names \subseteq Known, "OHENode" \notin names, Execute(names)
  PROVE  FollowInv'
  <1> DEFINE s == AloneAfter(job)[pc - 1]
             N == BatchRows(job)
             got == Outcome(Node, s.values, job.fns)
             part == Outcome(Node, vs, job.fns)
  <1>1. Laid /\ Followed
    BY DEF FollowInv
  <1>2. /\ phase = "run" /\ slice # 0 /\ pc <= Len(job.nodes) /\ Node.op \in names /\ Reads(Node, vs)
        /\ UNCHANGED <<job, cut, todo, slice, scratch, parts, result, whole>>
        /\ IF part.ok THEN vs' = Puts(vs, Node, part.out) /\ pc' = pc + 1 /\ UNCHANGED phase
                      ELSE phase' = "failed" /\ UNCHANGED <<vs, pc>>
    BY DEF Execute, CanRun
  <1>3. pc \in 1 .. Len(job.nodes) + 1 /\ Follows(job, pc, cut, slice, vs)
    BY <1>1, <1>2 DEF Followed
  <1>4. job \in Jobs /\ cut \in Cuts[BatchRows(job)] /\ slice \in DOMAIN cut /\ whole = Alone(job)
    BY <1>1, <1>2 DEF Laid
  <1>5. N \in Nat \ {0} /\ Len(job.nodes) \in Nat /\ IsSlice(Start(cut, slice), cut[slice], N)
    BY <1>4, PieceLies
  <1>6. pc \in 1 .. Len(job.nodes) /\ pc - 1 \in 0 .. Len(job.nodes)
    BY <1>2, <1>3, <1>5
  <1>7. s.ok /\ vs = StoreSlice(s.values, Start(cut, slice), cut[slice]) /\ Reads(Node, s.values)
    BY <1>2, <1>3, FollowsReads DEF Follows, Piece
  <1>8. IsStore(s.values, N)
    BY <1>6, <1>7, AloneHolds
  <1>9. Node = job.nodes[pc] /\ Node.op \in Known /\ Node.op # "OHENode"
    BY <1>2 DEF Node
  <1>10. NodeFits(Node, s.values, job.fns, N)
    BY <1>6, <1>7, <1>9 DEF Orderly
  <1>11. AloneAfter(job)[pc] = Given(s, Node, got)
    <2>1. AloneAfter(job)[pc] = Step(job, s, Node)
      BY <1>5, <1>6, <1>9, AloneRuns
    <2>2. QED
      BY <1>7, <1>9, <2>1 DEF Step
  <1>12. (got.ok => AreTables(got.out, N)) /\ Splits(got, part, Start(cut, slice), cut[slice])
    <2> HIDE DEF s, N
    <2>1. QED
      BY <1>5, <1>7, <1>8, <1>9, <1>10, OutcomeSplits
  <1> HIDE DEF got, part
  <1>13. Laid'
    BY <1>1, <1>2 DEF Laid
  <1>14. CASE part.ok
    <2>1. got.ok /\ Shares(got, part, Start(cut, slice), cut[slice])
      BY <1>12, <1>14 DEF Splits
    <2>2. Follows(job, pc + 1, cut, slice, Puts(vs, Node, part.out))
      <3>1. AloneAfter(job)[pc].ok /\ AloneAfter(job)[pc].values = Puts(s.values, Node, got.out)
        BY <1>11, <2>1 DEF Given
      <3>2. AreTables(got.out, N) /\ AreSlices(got.out, part.out, Start(cut, slice), cut[slice])
        BY <1>12, <2>1 DEF Shares
      <3>3. QED
        BY <1>3, <1>4, <1>6, <1>9, <3>1, <3>2, StepFollows
    <2>3. Followed'
      <3>1. SplitInvisible'
        BY <1>2, <1>14 DEF SplitInvisible
      <3>2. pc' \in 1 .. Len(job.nodes) + 1
        BY <1>2, <1>5, <1>6, <1>14
      <3>3. QED
        BY <1>1, <1>2, <1>14, <2>2, <3>1, <3>2 DEF Followed
    <2>4. QED
      BY <1>13, <2>3 DEF FollowInv
  <1>15. CASE ~part.ok
    <2>1. ~got.ok
      BY <1>12, <1>15 DEF Splits, Shares
    <2>2. ~AloneAfter(job)[pc].ok
      BY <1>11, <2>1 DEF Given, Stopped
    <2>3. ~whole.ok
      <3>1. pc \in 0 .. Len(job.nodes)
        BY <1>6
      <3>2. QED
        BY <1>4, <1>5, <2>2, <3>1, AloneStops
    <2>4. SplitInvisible'
      BY <1>2, <1>15, <2>3 DEF SplitInvisible
    <2>5. Followed'
      BY <1>1, <1>2, <1>15, <2>4 DEF Followed
    <2>6. QED
      BY <1>13, <2>5 DEF FollowInv
  <1>16. QED
    BY <1>14, <1>15

\* Executing an OHENode, whatever the buffer holds.
LEMMA HotFollows ==
  ASSUME FollowInv, Orderly(job), ExecuteHot
  PROVE  FollowInv'
  <1> DEFINE s == AloneAfter(job)[pc - 1]
             N == BatchRows(job)
             cats == Node.attrs["categories"]
             got == HotAlone(Called(Node, s.values, job.fns), cats)
             part == HotResult(HotCall, cats, HotBuffer(HotCall, cats, scratch))
  <1>1. Laid /\ Followed
    BY DEF FollowInv
  <1>2. /\ phase = "run" /\ slice # 0 /\ pc <= Len(job.nodes) /\ Node.op = "OHENode" /\ Reads(Node, vs)
        /\ UNCHANGED <<job, cut, todo, slice, parts, result, phase, whole>>
        /\ scratch' = HotBuffer(HotCall, cats, scratch)
        /\ vs' = Puts(vs, Node, part.out) /\ pc' = pc + 1
    <2>1. /\ scratch' = HotBuffer(HotCall, cats, scratch)
          /\ vs' = Puts(vs, Node, HotResult(HotCall, cats, scratch').out)
      BY DEF ExecuteHot
    <2>2. QED
      BY <2>1 DEF ExecuteHot, CanRun
  <1>3. pc \in 1 .. Len(job.nodes) + 1 /\ Follows(job, pc, cut, slice, vs) /\ IsSeq(scratch)
    BY <1>1, <1>2 DEF Followed
  <1>4. job \in Jobs /\ cut \in Cuts[BatchRows(job)] /\ slice \in DOMAIN cut /\ whole = Alone(job)
    BY <1>1, <1>2 DEF Laid
  <1>5. N \in Nat \ {0} /\ Len(job.nodes) \in Nat /\ IsSlice(Start(cut, slice), cut[slice], N)
    BY <1>4, PieceLies
  <1>6. pc \in 1 .. Len(job.nodes) /\ pc - 1 \in 0 .. Len(job.nodes)
    BY <1>2, <1>3, <1>5
  <1>7. s.ok /\ vs = StoreSlice(s.values, Start(cut, slice), cut[slice]) /\ Reads(Node, s.values)
    BY <1>2, <1>3, FollowsReads DEF Follows, Piece
  <1>8. IsStore(s.values, N)
    BY <1>6, <1>7, AloneHolds
  <1>9. Node = job.nodes[pc] /\ Node.op \in Known /\ Node.op = "OHENode"
    BY <1>2 DEF Node, Known
  <1>10. NodeFits(Node, s.values, job.fns, N)
    BY <1>6, <1>7, <1>9 DEF Orderly
  <1>11. AloneAfter(job)[pc] = Given(s, Node, got)
    <2>1. AloneAfter(job)[pc] = Step(job, s, Node)
      BY <1>5, <1>6, <1>9, AloneRuns
    <2>2. QED
      BY <1>7, <1>9, <2>1 DEF Step
  <1>12. /\ got.ok /\ AreTables(got.out, N) /\ IsSeq(HotBuffer(HotCall, cats, scratch))
         /\ Shares(got, part, Start(cut, slice), cut[slice])
    <2>1. HotCall = Called(Node, StoreSlice(s.values, Start(cut, slice), cut[slice]), job.fns)
      BY <1>7 DEF HotCall
    <2> HIDE DEF s, N
    <2>2. QED
      BY <1>3, <1>5, <1>7, <1>8, <1>9, <1>10, <2>1, HotSplits
  <1> HIDE DEF got, part
  <1>13. Laid'
    BY <1>1, <1>2 DEF Laid
  <1>14. Follows(job, pc + 1, cut, slice, Puts(vs, Node, part.out))
    <2>1. AloneAfter(job)[pc].ok /\ AloneAfter(job)[pc].values = Puts(s.values, Node, got.out)
      BY <1>11, <1>12 DEF Given
    <2>2. AreTables(got.out, N) /\ AreSlices(got.out, part.out, Start(cut, slice), cut[slice])
      BY <1>12 DEF Shares
    <2>3. QED
      BY <1>3, <1>4, <1>6, <1>9, <2>1, <2>2, StepFollows
  <1>15. SplitInvisible'
    BY <1>2 DEF SplitInvisible
  <1>16. pc' \in 1 .. Len(job.nodes) + 1
    BY <1>2, <1>5, <1>6
  <1>17. Followed'
    BY <1>1, <1>2, <1>12, <1>14, <1>15, <1>16 DEF Followed
  <1>18. QED
    BY <1>13, <1>17 DEF FollowInv

\* A slice begins with its part of the batch.
LEMMA BeginFollows ==
  ASSUME FollowInv, Orderly(job), NEW i \in todo, BeginSlice(i)
  PROVE  FollowInv'
  <1>1. Laid /\ Followed
    BY DEF FollowInv
  <1>2. /\ phase = "run" /\ slice = 0 /\ slice' = i /\ todo' = todo \ {i} /\ pc' = 1
        /\ vs' = Inputs(job, StartOf(i), cut[i])
        /\ UNCHANGED <<job, cut, scratch, parts, result, phase, whole>>
    BY DEF BeginSlice
  <1>3. job \in Jobs /\ cut \in Cuts[BatchRows(job)] /\ i \in DOMAIN cut
    BY <1>1 DEF Laid
  <1>4. Len(job.nodes) \in Nat /\ BatchRows(job) \in Nat \ {0} /\ IsStore(job.in, BatchRows(job))
    BY DEF Orderly, IsSeq
  <1>5. AloneAfter(job)[0].ok /\ AloneAfter(job)[0].values = job.in
    <2>1. Inputs(job, 0, BatchRows(job)) = StoreSlice(job.in, 0, BatchRows(job))
      BY DEF Inputs, StoreSlice
    <2>2. AloneAfter(job)[0] = [ok |-> TRUE, values |-> Inputs(job, 0, BatchRows(job))]
      BY <1>4, AloneRuns
    <2>3. Inputs(job, 0, BatchRows(job)) = job.in
      BY <1>4, <2>1, StoreWhole
    <2>4. QED
      BY <2>2, <2>3
  <1>6. vs' = Piece(job.in, cut, i)
    BY <1>2 DEF Inputs, StartOf, Piece, StoreSlice, Start
  <1>7. Follows(job, 1, cut, i, vs')
    <2>1. 1 - 1 = 0
      OBVIOUS
    <2>2. QED
      BY <1>5, <1>6, <2>1 DEF Follows
  <1>8. Laid'
    BY <1>1, <1>2, <1>3 DEF Laid
  <1>9. Followed'
    <2>1. SplitInvisible'
      BY <1>2 DEF SplitInvisible
    <2>2. pc' \in 1 .. Len(job.nodes) + 1
      BY <1>2, <1>4
    <2>3. DOMAIN cut \ (todo' \cup {slice'}) \subseteq DOMAIN cut \ (todo \cup {slice})
      <3>1. 0 \notin DOMAIN cut
        BY <1>3, PieceLies
      <3>2. QED
        BY <1>2, <3>1
    <2>4. QED
      BY <1>1, <1>2, <1>7, <2>1, <2>2, <2>3 DEF Followed
  <1>10. QED
    BY <1>8, <1>9 DEF FollowInv

\* A node nobody knows, or that has nothing to read, fails whole as well.
LEMMA FailFollows ==
  ASSUME FollowInv, Orderly(job), Fail
  PROVE  FollowInv'
  <1> DEFINE s == AloneAfter(job)[pc - 1]
  <1>1. Laid /\ Followed
    BY DEF FollowInv
  <1>2. /\ phase = "run" /\ slice # 0 /\ pc <= Len(job.nodes)
        /\ Node.op \notin Known \/ ~Reads(Node, vs)
        /\ phase' = "failed"
        /\ UNCHANGED <<job, cut, todo, slice, pc, vs, scratch, parts, result, whole>>
    BY DEF Fail, CanRun
  <1>3. pc \in 1 .. Len(job.nodes) + 1 /\ Follows(job, pc, cut, slice, vs)
    BY <1>1, <1>2 DEF Followed
  <1>4. job \in Jobs /\ cut \in Cuts[BatchRows(job)] /\ whole = Alone(job)
    BY <1>1, <1>2 DEF Laid
  <1>5. Len(job.nodes) \in Nat
    BY <1>4, PieceLies
  <1>6. pc \in 1 .. Len(job.nodes) /\ pc \in 0 .. Len(job.nodes)
    BY <1>2, <1>3, <1>5
  <1>7. AloneAfter(job)[pc] = Stopped(s)
    <2>1. AloneAfter(job)[pc] = Step(job, s, Node)
      BY <1>5, <1>6, AloneRuns DEF Node
    <2>2. Node.op \notin Known \/ ~Reads(Node, s.values)
      BY <1>2, <1>3, FollowsReads
    <2>3. QED
      BY <2>1, <2>2 DEF Step
  <1>8. ~whole.ok
    BY <1>4, <1>5, <1>6, <1>7, AloneStops DEF Stopped
  <1>9. SplitInvisible'
    BY <1>2, <1>8 DEF SplitInvisible
  <1>10. Followed' /\ Laid'
    BY <1>1, <1>2, <1>9 DEF Followed, Laid
  <1>11. QED
    BY <1>10 DEF FollowInv

\* At its end a slice holds its part of what the reference does.
LEMMA EndFollows ==
  ASSUME Laid, Followed, Orderly(job), phase = "run", slice # 0, pc > Len(job.nodes)
  PROVE  whole.ok /\ vs = Piece(whole.values, cut, slice) /\ DOMAIN vs = DOMAIN whole.values
  <1>1. pc \in 1 .. Len(job.nodes) + 1 /\ Follows(job, pc, cut, slice, vs)
    BY DEF Followed
  <1>2. job \in Jobs /\ cut \in Cuts[BatchRows(job)] /\ whole = Alone(job)
    BY DEF Laid
  <1>3. pc - 1 = Len(job.nodes)
    BY <1>1, <1>2, PieceLies
  <1>4. QED
    BY <1>1, <1>2, <1>3 DEF Follows, Alone, Piece, StoreSlice

LEMMA CollectFollows ==
  ASSUME FollowInv, Orderly(job), Collect
  PROVE  FollowInv'
  <1>1. Laid /\ Followed
    BY DEF FollowInv
  <1>2. /\ phase = "run" /\ slice # 0 /\ pc > Len(job.nodes) /\ job.outs \subseteq DOMAIN vs
        /\ parts' = [parts EXCEPT ![slice] = [n \in job.outs |-> vs[n]]] /\ slice' = 0
        /\ UNCHANGED <<job, cut, todo, pc, scratch, result, phase, whole>>
    BY DEF Collect
  <1>3. whole.ok /\ vs = Piece(whole.values, cut, slice) /\ DOMAIN vs = DOMAIN whole.values
    BY <1>1, <1>2, EndFollows
  <1>4. slice \in DOMAIN cut /\ DOMAIN parts = DOMAIN cut
    BY <1>1, <1>2 DEF Laid
  <1>5. job.outs \subseteq DOMAIN whole.values
        /\ parts'[slice] = Outputs(whole.values, job.outs, cut, slice)
    <2>1. \A n \in job.outs : vs[n] = Sliced(whole.values[n], Start(cut, slice), cut[slice])
      BY <1>2, <1>3 DEF Piece, StoreSlice
    <2>2. parts'[slice] = [n \in job.outs |-> vs[n]]
      BY <1>2, <1>4
    <2>3. QED
      BY <1>2, <1>3, <2>1, <2>2 DEF Outputs
  <1>6. \A i \in DOMAIN cut : i # slice => parts'[i] = parts[i]
    BY <1>2, <1>4
  <1>7. Laid'
    <2>1. 0 \notin todo
      <3>1. 0 \notin DOMAIN cut
        BY <1>1, PieceLies DEF Laid
      <3>2. QED
        BY <1>1, <3>1 DEF Laid
    <2>2. DOMAIN parts' = DOMAIN cut
      BY <1>2, <1>4
    <2>3. QED
      BY <1>1, <1>2, <2>1, <2>2 DEF Laid
  <1>8. Followed'
    <2>1. SplitInvisible'
      BY <1>2 DEF SplitInvisible
    <2>2. ASSUME NEW i \in DOMAIN cut, i \notin todo
          PROVE  parts'[i] = Outputs(whole.values, job.outs, cut, i)
      <3>1. CASE i = slice
        BY <1>5, <3>1
      <3>2. CASE i # slice
        BY <1>1, <1>6, <2>2, <3>2 DEF Followed
      <3>3. QED
        BY <3>1, <3>2
    <2>3. QED
      BY <1>1, <1>2, <1>3, <1>5, <2>1, <2>2 DEF Followed
  <1>9. QED
    BY <1>7, <1>8 DEF FollowInv

LEMMA CollectFailsFollows ==
  ASSUME FollowInv, Orderly(job), CollectFails
  PROVE  FollowInv'
  <1>1. Laid /\ Followed
    BY DEF FollowInv
  <1>2. /\ phase = "run" /\ slice # 0 /\ pc > Len(job.nodes) /\ ~(job.outs \subseteq DOMAIN vs)
        /\ phase' = "failed"
        /\ UNCHANGED <<job, cut, todo, slice, pc, vs, scratch, parts, result, whole>>
    BY DEF CollectFails
  <1>3. DOMAIN vs = DOMAIN whole.values
    BY <1>1, <1>2, EndFollows
  <1>4. SplitInvisible'
    BY <1>2, <1>3 DEF SplitInvisible
  <1>5. Followed' /\ Laid'
    BY <1>1, <1>2, <1>4 DEF Followed, Laid
  <1>6. QED
    BY <1>5 DEF FollowInv

\* When every slice is through, each has left its part of the outputs of the
\* batch run whole.
LEMMA AllFollowed ==
  ASSUME Laid, Followed, Orderly(job), slice = 0, todo = {}
  PROVE  /\ DOMAIN cut = 1 .. Len(cut) /\ 1 \in 1 .. Len(cut) /\ BatchRows(job) \in Nat \ {0}
         /\ whole.ok /\ job.outs \subseteq DOMAIN whole.values
         /\ \A n \in job.outs : IsTable(whole.values[n], BatchRows(job))
         /\ \E off : /\ CutsAt(off, cut, BatchRows(job))
                     /\ \A n \in job.outs : \A i \in 1 .. Len(cut) :
                          parts[i][n] = Sliced(whole.values[n], off[i - 1], cut[i])
  <1> DEFINE N == BatchRows(job)
             L == Len(cut)
  <1>1. job \in Jobs /\ cut \in Cuts[N] /\ whole = Alone(job)
    BY DEF Laid
  <1>2. /\ N \in Nat \ {0} /\ Len(job.nodes) \in Nat /\ DOMAIN cut = 1 .. L /\ L \in Nat \ {0}
        /\ N \in DOMAIN Cuts
    BY <1>1, PieceLies, OperatorAssumption
  <1>3. PICK off : CutsAt(off, cut, N)
    BY <1>1, <1>2, CutLies
  <1>4. \A i \in 1 .. L : /\ whole.ok /\ job.outs \subseteq DOMAIN whole.values
                          /\ parts[i] = Outputs(whole.values, job.outs, cut, i)
    <2>1. 0 \notin 1 .. L
      OBVIOUS
    <2>2. DOMAIN cut \ (todo \cup {slice}) = 1 .. L
      BY <1>2, <2>1
    <2>3. QED
      BY <2>2 DEF Followed
  <1>5. 1 \in 1 .. L
    BY <1>2
  <1>6. whole.ok /\ job.outs \subseteq DOMAIN whole.values
    BY <1>4, <1>5
  <1>7. \A n \in job.outs : IsTable(whole.values[n], N)
    <2>1. Len(job.nodes) \in 0 .. Len(job.nodes) /\ AloneAfter(job)[Len(job.nodes)].ok
          /\ whole = AloneAfter(job)[Len(job.nodes)]
      BY <1>1, <1>2, <1>6 DEF Alone
    <2>2. IsStore(whole.values, N)
      BY <2>1, AloneHolds
    <2>3. QED
      BY <1>6, <2>2 DEF IsStore
  <1>8. ASSUME NEW n \in job.outs, NEW i \in 1 .. L
        PROVE  parts[i][n] = Sliced(whole.values[n], off[i - 1], cut[i])
    <2>1. Start(cut, i) = off[i - 1]
      BY <1>3 DEF CutsAt, Start
    <2>2. parts[i] = Outputs(whole.values, job.outs, cut, i)
      BY <1>4
    <2>3. parts[i][n] = Sliced(whole.values[n], Start(cut, i), cut[i])
      BY <2>2 DEF Outputs
    <2>4. QED
      BY <2>1, <2>3
  <1>9. QED
    BY <1>2, <1>3, <1>5, <1>6, <1>7, <1>8

\* The pieces of an output the copy handles are read where they are, and put
\* together they are the output.
LEMMA PiecesJoin ==
  ASSUME Laid, Followed, Orderly(job), slice = 0, todo = {},
         NEW n \in job.outs, whole.values[n].type \in Joinable
  PROVE  Vcat(Pieces(n)) = whole.values[n] /\ Readable(Pieces(n))
  <1> DEFINE N == BatchRows(job)
             t == whole.values[n]
             ps == Pieces(n)
  <1>1. DOMAIN cut = 1 .. Len(cut) /\ N \in Nat \ {0} /\ IsTable(t, N)
    BY AllFollowed
  <1>2. PICK off : /\ CutsAt(off, cut, N)
                   /\ \A i \in 1 .. Len(cut) : parts[i][n] = Sliced(t, off[i - 1], cut[i])
    BY AllFollowed
  <1>3. ps = [i \in 1 .. Len(cut) |-> Sliced(t, off[i - 1], cut[i])]
    BY <1>1, <1>2 DEF Pieces
  <1> HIDE DEF N, t, ps
  <1>4. t.type \in Joinable
    BY DEF t
  <1>5. Vcat(ps) = t /\ Readable(ps)
    BY ONLY <1>1, <1>2, <1>3, <1>4, JoinedIs
  <1>6. QED
    BY <1>5 DEF t, ps

\* The pieces of an output, put together, are the output.
LEMMA AssembleFollows ==
  ASSUME FollowInv, Orderly(job), Assemble
  PROVE  FollowInv'
  <1> DEFINE N == BatchRows(job)
             L == Len(cut)
  <1>1. Laid /\ Followed
    BY DEF FollowInv
  <1>2. /\ phase = "run" /\ slice = 0 /\ todo = {} /\ phase' = "done"
        /\ result' = [n \in job.outs |-> IF Len(cut) = 1 THEN parts[1][n] ELSE Vcat(Pieces(n))]
        /\ UNCHANGED <<job, cut, todo, slice, pc, vs, scratch, parts, whole>>
    BY DEF Assemble
  <1>3. 1 \in 1 .. L /\ N \in Nat \ {0} /\ whole.ok
    BY <1>1, <1>2, AllFollowed
  <1>4. ASSUME NEW n \in job.outs, L = 1 \/ whole.values[n].type \in Joinable
        PROVE  result'[n] = whole.values[n]
    <2> DEFINE t == whole.values[n]
    <2>1. CASE L = 1
      <3>1. IsTable(t, N)
        BY <1>1, <1>2, AllFollowed
      <3>2. PICK off : CutsAt(off, cut, N) /\ parts[1][n] = Sliced(t, off[1 - 1], cut[1])
        BY <1>1, <1>2, <1>3, AllFollowed
      <3>3. off[1 - 1] = 0 /\ cut[1] = N
        <4>1. off[0] = 0 /\ off[1] = off[1 - 1] + cut[1] /\ off[1] = N /\ 1 - 1 = 0
              /\ IsSlice(off[1 - 1], cut[1], N)
          BY <1>3, <2>1, <3>2 DEF CutsAt, EndsAt
        <4>2. QED
          BY <4>1 DEF IsSlice
      <3>4. parts[1][n] = t
        BY <1>3, <3>1, <3>2, <3>3, SlicedWhole
      <3>5. result'[n] = parts[1][n]
        BY <1>2, <2>1
      <3>6. QED
        BY <3>4, <3>5
    <2>2. CASE L # 1
      <3>1. result'[n] = Vcat(Pieces(n))
        BY <1>2, <2>2
      <3>2. Vcat(Pieces(n)) = t
        BY <1>1, <1>2, <1>4, <2>2, PiecesJoin
      <3>3. QED
        BY <3>1, <3>2
    <2>3. QED
      BY <2>1, <2>2
  <1>5. SplitInvisible'
    BY <1>2, <1>3, <1>4 DEF SplitInvisible
  <1>6. Followed' /\ Laid'
    BY <1>1, <1>2, <1>5 DEF Followed, Laid
  <1>7. QED
    BY <1>6 DEF FollowInv

\* The copy goes astray only for an output it does not handle.
LEMMA AstrayFollows ==
  ASSUME FollowInv, Orderly(job), AssembleAstray
  PROVE  FollowInv'
  <1>1. Laid /\ Followed
    BY DEF FollowInv
  <1>2. /\ phase = "run" /\ slice = 0 /\ todo = {} /\ phase' = "undefined" /\ ~CanJoin
        /\ UNCHANGED <<job, cut, todo, slice, pc, vs, scratch, parts, result, whole>>
    BY DEF AssembleAstray
  <1>3. whole.ok
    BY <1>1, <1>2, AllFollowed
  <1>4. PICK n \in job.outs : ~Readable(Pieces(n))
    BY <1>2 DEF CanJoin
  <1>5. whole.values[n].type \notin Joinable
    BY <1>1, <1>2, <1>4, PiecesJoin
  <1>6. SplitInvisible'
    BY <1>2, <1>3, <1>4, <1>5 DEF SplitInvisible
  <1>7. Followed' /\ Laid'
    BY <1>1, <1>2, <1>6 DEF Followed, Laid
  <1>8. QED
    BY <1>7 DEF FollowInv

\* What does not depend on the job being orderly.
LEMMA NextLaid ==
  ASSUME Laid, [ONext]_ovars
  PROVE  Laid' /\ job' = job
  <1> USE DEF Laid
  <1>1. ASSUME NEW i \in todo, BeginSlice(i) PROVE Laid' /\ job' = job
    BY <1>1 DEF BeginSlice
  <1>2. ASSUME NEW names, Execute(names) PROVE Laid' /\ job' = job
    BY <1>2 DEF Execute
  <1>3. CASE ExecuteHot
    BY <1>3 DEF ExecuteHot
  <1>4. CASE Fail
    BY <1>4 DEF Fail
  <1>5. CASE Collect
    <2>1. 0 \notin DOMAIN cut
      <3>1. BatchRows(job) \in DOMAIN Cuts
        BY OperatorAssumption
      <3>2. cut \in Seq(Nat \ {0})
        BY <3>1, OperatorAssumption
      <3>3. QED
        BY <3>2
    <2>2. DOMAIN parts' = DOMAIN parts
      BY <1>5 DEF Collect
    <2>3. slice' = 0 /\ UNCHANGED <<job, cut, todo, whole>>
      BY <1>5 DEF Collect
    <2>4. QED
      BY <2>1, <2>2, <2>3
  <1>6. CASE CollectFails
    BY <1>6 DEF CollectFails
  <1>7. CASE Assemble
    BY <1>7 DEF Assemble
  <1>8. CASE AssembleAstray
    BY <1>8 DEF AssembleAstray
  <1>9. CASE UNCHANGED ovars
    BY <1>9 DEF ovars
  <1>10. QED
    BY <1>1, <1>2, <1>3, <1>4, <1>5, <1>6, <1>7, <1>8, <1>9
       DEF ONext, ExecuteCore, ExecuteFeature, ExecuteLearned, ExecuteText, ExecuteExpression, ExecuteModel

LEMMA InitFollows ==
  ASSUME OInit
  PROVE  FollowInv
  <1>1. Laid
    <2>1. job \in Jobs /\ cut \in Cuts[BatchRows(job)] /\ todo = DOMAIN cut /\ slice = 0
          /\ whole = Alone(job) /\ DOMAIN parts = DOMAIN cut
      BY DEF OInit
    <2>2. 0 \notin DOMAIN cut
      <3>1. BatchRows(job) \in DOMAIN Cuts
        BY <2>1, OperatorAssumption
      <3>2. cut \in Seq(Nat \ {0})
        BY <2>1, <3>1, OperatorAssumption
      <3>3. QED
        BY <3>2
    <2>3. QED
      BY <2>1, <2>2 DEF Laid
  <1>2. Followed
    <2>1. IsSeq(scratch) /\ phase = "run" /\ slice = 0 /\ todo = DOMAIN cut
      BY DEF OInit, IsSeq
    <2>2. QED
      BY <2>1 DEF Followed, SplitInvisible
  <1>3. QED
    BY <1>1, <1>2 DEF FollowInv

\* However a batch is cut and in whatever order its slices run, with the buffer
\* the thread keeps between them, an orderly job has the answer of the batch in one
\* piece in every output of floats, doubles or int32s, and fails exactly when that
\* does; of an output of another type, which vcat_tensors does not copy whole, it
\* says so only of a batch that is not cut (run_graph's chunks, graph_executor.cpp).
THEOREM SplitNeverShows == OSpec => [](Orderly(job) => SplitInvisible)
  <1>1. OInit => FollowInv
    BY InitFollows
  <1>2. FollowInv /\ [ONext]_ovars => FollowInv'
    <2>1. SUFFICES ASSUME FollowInv, [ONext]_ovars PROVE FollowInv'
      OBVIOUS
    <2>2. Laid' /\ job' = job
      BY <2>1, NextLaid DEF FollowInv
    <2>3. CASE ~Orderly(job)
      BY <2>2, <2>3 DEF FollowInv
    <2>4. CASE Orderly(job)
      <3>1. ASSUME NEW i \in todo, BeginSlice(i) PROVE FollowInv'
        BY <2>1, <2>4, <3>1, BeginFollows
      <3>2. ASSUME NEW names, names \subseteq Known, "OHENode" \notin names, Execute(names) PROVE FollowInv'
        BY <2>1, <2>4, <3>2, ExecuteFollows
      <3>3. CASE ExecuteCore
        BY <3>2, <3>3 DEF ExecuteCore, Known, Registered, CoreNames
      <3>4. CASE ExecuteFeature
        BY <3>2, <3>4 DEF ExecuteFeature, Known, Registered, FeatureNames
      <3>5. CASE ExecuteLearned
        BY <3>2, <3>5 DEF ExecuteLearned, Known, Registered, LearnedNames
      <3>6. CASE ExecuteText
        BY <3>2, <3>6 DEF ExecuteText, Known, Registered, TextNames
      <3>7. CASE ExecuteExpression
        BY <3>2, <3>7 DEF ExecuteExpression, Known, Registered, ExpressionNames
      <3>8. CASE ExecuteModel
        BY <3>2, <3>8 DEF ExecuteModel, Known, NodeNames
      <3>9. CASE ExecuteHot
        BY <2>1, <2>4, <3>9, HotFollows
      <3>10. CASE Fail
        BY <2>1, <2>4, <3>10, FailFollows
      <3>11. CASE Collect
        BY <2>1, <2>4, <3>11, CollectFollows
      <3>12. CASE CollectFails
        BY <2>1, <2>4, <3>12, CollectFailsFollows
      <3>13. CASE Assemble
        BY <2>1, <2>4, <3>13, AssembleFollows
      <3>14. CASE AssembleAstray
        BY <2>1, <2>4, <3>14, AstrayFollows
      <3>15. CASE UNCHANGED ovars
        <4>1. Followed'
          BY <2>1, <2>4, <3>15 DEF FollowInv, Followed, SplitInvisible, ovars
        <4>2. QED
          BY <2>2, <4>1 DEF FollowInv
      <3>16. QED
        BY <2>1, <3>1, <3>3, <3>4, <3>5, <3>6, <3>7, <3>8, <3>9, <3>10, <3>11, <3>12, <3>13, <3>14,
           <3>15 DEF ONext
    <2>5. QED
      BY <2>3, <2>4
  <1>3. FollowInv => (Orderly(job) => SplitInvisible)
    BY DEF FollowInv, Followed
  <1>4. QED
    BY <1>1, <1>2, <1>3, PTL DEF OSpec

\* So it is of any graph of copies, casts, reductions, votes, scalers, encoders,
\* imputers, one-hot and linear nodes: what these make of a row depends on no
\* other row (the kernels of operator_registry.cpp, LinearNode, OHENode).  That is
\* the scores of a linear node, and its label where it is cast to floats: the int64
\* label itself is right only in a batch that is not cut.
THEOREM RowGraphsNeverShow == OSpec => [](RowGraph(job) => SplitInvisible)
  <1>1. RowGraph(job) => Orderly(job)
    <2>1. \A node, values, fns, N : RowFits(node, values, fns, N) => NodeFits(node, values, fns, N)
      BY DEF RowFits, NodeFits, Fits
    <2>2. QED
      BY <2>1 DEF RowGraph, Orderly
  <1>2. QED
    BY <1>1, SplitNeverShows, PTL

=============================================================================
