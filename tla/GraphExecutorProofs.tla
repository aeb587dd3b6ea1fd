------------------------ MODULE GraphExecutorProofs ------------------------
(***************************************************************************)
(* Proofs about GraphExecutor: for any number of threads and of rows, any  *)
(* threshold (one that has wrapped around included), any outputs and any   *)
(* filter, splitting a batch into chunks is invisible.                     *)
(***************************************************************************)
EXTENDS GraphExecutor, Loops, SequenceTheorems, FiniteSetTheorems

-----------------------------------------------------------------------------
(***************************************************************************)
(* Tensors                                                                 *)
(***************************************************************************)

\* A value takes one word or two.
LEMMA WidthType == \A o : Width(o) \in {1, 2}
  BY DEF Width

\* The tensor of rows a .. b - 1 has its words, and no other.
LEMMA WordsType ==
  ASSUME NEW o, NEW a \in Nat, NEW b \in Nat, a <= b
  PROVE  /\ Words(o, a, b) \in Seq(Int \X Int)
         /\ Len(Words(o, a, b)) = (b - a) * Width(o)
         /\ \A i \in 1 .. ((b - a) * Width(o)) :
              Words(o, a, b)[i] = <<a + ((i - 1) \div Width(o)), (i - 1) % Width(o)>>
  <1> DEFINE w == Width(o)
             n == (b - a) * w
  <1>1. w \in {1, 2}
    BY WidthType
  <1>2. Words(o, a, b) = [i \in 1 .. n |-> <<a + ((i - 1) \div w), (i - 1) % w>>]
    BY DEF Words
  <1> HIDE DEF w
  <1>3. n \in Nat
    BY <1>1
  <1> HIDE DEF n
  <1>4. \A i \in 1 .. n : <<a + ((i - 1) \div w), (i - 1) % w>> \in Int \X Int
    BY <1>1, <1>3
  <1>5. Words(o, a, b) \in [1 .. n -> Int \X Int]
    BY <1>2, <1>4
  <1>6. Words(o, a, b) \in Seq(Int \X Int) /\ Len(Words(o, a, b)) = n
    BY <1>3, <1>5
  <1>7. QED
    BY <1>2, <1>6 DEF n, w

\* The words of rows a .. b - 1 followed by those of b .. c - 1 are the words of
\* a .. c - 1.
LEMMA WordsJoin ==
  ASSUME NEW o, NEW a \in Nat, NEW b \in Nat, NEW c \in Nat, a <= b, b <= c
  PROVE  Words(o, a, b) \o Words(o, b, c) = Words(o, a, c)
  <1> DEFINE w == Width(o)
             n == (b - a) * w
             m == (c - b) * w
             x == Words(o, a, b)
             y == Words(o, b, c)
             z == Words(o, a, c)
  <1>1. w \in {1, 2}
    BY WidthType
  <1>2. /\ x \in Seq(Int \X Int) /\ Len(x) = n
        /\ \A i \in 1 .. n : x[i] = <<a + ((i - 1) \div w), (i - 1) % w>>
    BY WordsType
  <1>3. /\ y \in Seq(Int \X Int) /\ Len(y) = m
        /\ \A i \in 1 .. m : y[i] = <<b + ((i - 1) \div w), (i - 1) % w>>
    BY WordsType
  <1>4. /\ z \in Seq(Int \X Int) /\ Len(z) = (c - a) * w
        /\ \A i \in 1 .. ((c - a) * w) : z[i] = <<a + ((i - 1) \div w), (i - 1) % w>>
    <2>1. a <= c
      OBVIOUS
    <2>2. QED
      BY <2>1, WordsType
  <1> HIDE DEF x, y, z, w
  <1>5. n \in Nat /\ m \in Nat /\ (c - a) * w = n + m
    BY <1>1
  <1> HIDE DEF n, m
  <1>6. /\ x \o y \in Seq(Int \X Int) /\ Len(x \o y) = n + m
        /\ \A i \in 1 .. n + m : (x \o y)[i] = IF i <= n THEN x[i] ELSE y[i - n]
    BY <1>2, <1>3, ConcatProperties
  <1>7. ASSUME NEW i \in 1 .. n + m PROVE (x \o y)[i] = z[i]
    <2>1. z[i] = <<a + ((i - 1) \div w), (i - 1) % w>>
      BY <1>4, <1>5
    <2>2. CASE i <= n
      <3>1. i \in 1 .. n
        BY <1>5, <2>2
      <3>2. QED
        BY <1>2, <1>6, <2>1, <2>2, <3>1
    <2>3. CASE ~(i <= n)
      <3>1. i - n \in 1 .. m
        BY <1>5, <2>3
      <3>2. (x \o y)[i] = y[i - n]
        BY <1>6, <2>3
      <3>3. y[i - n] = <<b + ((i - n - 1) \div w), (i - n - 1) % w>>
        BY <1>3, <3>1
      <3>4. /\ b + ((i - n - 1) \div w) = a + ((i - 1) \div w)
            /\ (i - n - 1) % w = (i - 1) % w
        <4>1. CASE w = 1
          BY <1>5, <4>1 DEF n
        <4>2. CASE w = 2
          BY <1>5, <4>2 DEF n
        <4>3. QED
          BY <1>1, <4>1, <4>2
      <3>5. QED
        BY <2>1, <3>2, <3>3, <3>4
    <2>4. QED
      BY <2>2, <2>3
  <1>8. x \o y = z
    <2>1. Len(z) = n + m
      BY <1>4, <1>5
    <2>2. QED
      BY <1>4, <1>6, <1>7, <2>1, SeqEqual
  <1>9. QED
    BY <1>8 DEF x, y, z

\* vcat_tensors puts the parts of a batch that was cut up behind each other
\* together again: with the rows cut at cut[0] = 0, cut[1] .. cut[m] it makes the
\* tensor of rows 0 .. cut[m] - 1, provided a value is as wide as it copies.
LEMMA VcatJoins ==
  ASSUME NEW o, CopyWidth(o) = Width(o),
         NEW m \in Nat, NEW cut \in [0 .. m -> Nat],
         cut[0] = 0, \A k \in 1 .. m : cut[k - 1] <= cut[k],
         NEW ps, Len(ps) = m,
         \A k \in 1 .. m : ps[k] = [rows  |-> cut[k] - cut[k - 1],
                                    words |-> Words(o, cut[k - 1], cut[k])]
  PROVE  Vcat(o, ps) = [rows |-> cut[m], words |-> Words(o, 0, cut[m])]
  <1> DEFINE off == CHOOSE off :
                      off = [k \in 0 .. Len(ps) |->
                               IF k = 0 THEN 0 ELSE off[k - 1] + ps[k].rows]
             copied == CHOOSE copied :
                         copied = [k \in 0 .. Len(ps) |->
                                     IF k = 0 THEN << >>
                                     ELSE copied[k - 1] \o
                                            SubSeq(ps[k].words, 1, ps[k].rows * CopyWidth(o))]
             total == off[Len(ps)]
             out   == copied[Len(ps)]
  <1>1. Vcat(o, ps) = [rows  |-> total,
                       words |-> [i \in 1 .. (total * Width(o)) |->
                                    IF i <= Len(out) THEN out[i] ELSE Zero]]
    BY Zenon DEF Vcat
  <1>3. ASSUME NEW k \in 1 .. m
        PROVE  /\ cut[k] \in Nat /\ cut[k - 1] \in Nat /\ cut[k - 1] <= cut[k]
               /\ ps[k].rows = cut[k] - cut[k - 1]
               /\ SubSeq(ps[k].words, 1, ps[k].rows * CopyWidth(o)) = Words(o, cut[k - 1], cut[k])
    <2>1. cut[k] \in Nat /\ cut[k - 1] \in Nat /\ cut[k - 1] <= cut[k]
      OBVIOUS
    <2>2. ps[k].rows = cut[k] - cut[k - 1] /\ ps[k].words = Words(o, cut[k - 1], cut[k])
      OBVIOUS
    <2>3. /\ Words(o, cut[k - 1], cut[k]) \in Seq(Int \X Int)
          /\ Len(Words(o, cut[k - 1], cut[k])) = ps[k].rows * CopyWidth(o)
      BY <2>1, <2>2, WordsType
    <2>4. QED
      BY <2>1, <2>2, <2>3, SubSeqFull
  <1>4. off = cut
    <2>1. cut = [k \in 0 .. Len(ps) |-> IF k = 0 THEN 0 ELSE cut[k - 1] + ps[k].rows]
      <3>1. \A k \in 0 .. m : cut[k] = IF k = 0 THEN 0 ELSE cut[k - 1] + ps[k].rows
        BY <1>3
      <3>2. QED
        BY <3>1
    <2>2. off = [k \in 0 .. Len(ps) |-> IF k = 0 THEN 0 ELSE off[k - 1] + ps[k].rows]
      <3>1. \E f : f = [k \in 0 .. Len(ps) |-> IF k = 0 THEN 0 ELSE f[k - 1] + ps[k].rows]
        BY <2>1, Zenon
      <3>2. QED
        BY <3>1, Zenon
    <2> HIDE DEF off
    <2>3. off = [k \in 0 .. m |-> off[k]]
      BY <2>2
    <2>4. \A k \in 0 .. m : off[k] = IF k = 0 THEN 0 ELSE off[k - 1] + ps[k].rows
      BY <2>2, Zenon
    <2>5. \A k \in 1 .. m : off[k - 1] = cut[k - 1] => off[k] = cut[k]
      <3>1. TAKE k \in 1 .. m
      <3>2. k \in 0 .. m /\ k # 0
        OBVIOUS
      <3>3. off[k] = off[k - 1] + ps[k].rows
        BY <2>4, <3>2, Zenon
      <3>4. ps[k].rows = cut[k] - cut[k - 1] /\ cut[k] \in Nat /\ cut[k - 1] \in Nat
        BY <1>3
      <3>5. QED
        BY <3>3, <3>4
    <2>6. off[0] = cut[0]
      BY <2>4
    <2>7. \A k \in 0 .. m : off[k] = cut[k]
      <3> DEFINE S == {k \in 0 .. m : off[k] = cut[k]}
      <3>1. 0 \in S /\ \A k \in 1 .. m : k - 1 \in S => k \in S
        BY <2>5, <2>6
      <3> HIDE DEF S
      <3>2. 0 .. m \subseteq S
        BY <3>1, LoopInvariant
      <3>3. QED
        BY <3>2 DEF S
    <2>8. QED
      BY <2>3, <2>7
  <1>5. copied[m] = Words(o, 0, cut[m])
    <2> DEFINE g == [k \in 0 .. m |-> Words(o, 0, cut[k])]
    <2>1. Words(o, 0, 0) = << >>
      BY WidthType DEF Words
    <2>2. \A k \in 1 .. m : g[k] = g[k - 1] \o Words(o, cut[k - 1], cut[k])
      <3>1. TAKE k \in 1 .. m
      <3>2. g[k] = Words(o, 0, cut[k]) /\ g[k - 1] = Words(o, 0, cut[k - 1])
        OBVIOUS
      <3>3. /\ cut[k] \in Nat /\ cut[k - 1] \in Nat /\ 0 \in Nat
            /\ 0 <= cut[k - 1] /\ cut[k - 1] <= cut[k]
        BY <1>3
      <3> HIDE DEF g
      <3>4. Words(o, 0, cut[k]) = Words(o, 0, cut[k - 1]) \o Words(o, cut[k - 1], cut[k])
        BY <3>3, WordsJoin, Zenon
      <3>5. QED
        BY <3>2, <3>4
    <2>3. g = [k \in 0 .. Len(ps) |->
                 IF k = 0 THEN << >>
                 ELSE g[k - 1] \o SubSeq(ps[k].words, 1, ps[k].rows * CopyWidth(o))]
      <3>1. \A k \in 0 .. m :
              g[k] = IF k = 0 THEN << >>
                     ELSE g[k - 1] \o SubSeq(ps[k].words, 1, ps[k].rows * CopyWidth(o))
        <4>1. g[0] = << >>
          BY <2>1
        <4> HIDE DEF g
        <4>2. ASSUME NEW k \in 0 .. m, k # 0
              PROVE  g[k] = g[k - 1] \o SubSeq(ps[k].words, 1, ps[k].rows * CopyWidth(o))
          <5>1. k \in 1 .. m
            BY <4>2
          <5>2. QED
            BY <1>3, <2>2, <5>1
        <4>3. QED
          BY <4>1, <4>2
      <3>2. g = [k \in 0 .. m |-> g[k]]
        OBVIOUS
      <3> HIDE DEF g
      <3>3. QED
        BY <3>1, <3>2
    <2>4. copied = [k \in 0 .. Len(ps) |->
                      IF k = 0 THEN << >>
                      ELSE copied[k - 1] \o SubSeq(ps[k].words, 1, ps[k].rows * CopyWidth(o))]
      BY <2>3, Zenon
    <2> HIDE DEF copied
    <2>5. copied[0] = g[0]
      <3>1. copied[0] = << >>
        BY <2>4
      <3>2. QED
        BY <2>1, <3>1
    <2>6. ASSUME NEW k \in 1 .. m, copied[k - 1] = g[k - 1] PROVE copied[k] = g[k]
      <3>1. k \in 0 .. Len(ps) /\ k # 0
        OBVIOUS
      <3>2. copied[k] = copied[k - 1] \o SubSeq(ps[k].words, 1, ps[k].rows * CopyWidth(o))
        BY <2>4, <3>1, Zenon
      <3> HIDE DEF g
      <3>3. QED
        BY <1>3, <2>2, <2>6, <3>2
    <2> HIDE DEF g
    <2>7. \A k \in 0 .. m : copied[k] = g[k]
      <3> DEFINE S == {k \in 0 .. m : copied[k] = g[k]}
      <3>1. 0 \in S /\ \A k \in 1 .. m : k - 1 \in S => k \in S
        BY <2>5, <2>6
      <3> HIDE DEF S
      <3>2. 0 .. m \subseteq S
        BY <3>1, LoopInvariant
      <3>3. QED
        BY <3>2 DEF S
    <2>8. QED
      BY <2>7 DEF g
  <1>6. total = cut[m] /\ out = Words(o, 0, cut[m])
    BY <1>4, <1>5
  <1> HIDE DEF total, out
  <1>7. [i \in 1 .. (total * Width(o)) |-> IF i <= Len(out) THEN out[i] ELSE Zero] = out
    <2>1. /\ out \in Seq(Int \X Int) /\ Len(out) = total * Width(o)
      BY <1>6, WordsType
    <2>2. out = [i \in 1 .. Len(out) |-> out[i]]
      BY <2>1
    <2>3. QED
      BY <2>1, <2>2
  <1>8. QED
    BY <1>1, <1>6, <1>7

-----------------------------------------------------------------------------
(***************************************************************************)
(* The chunks of a batch                                                   *)
(***************************************************************************)

LEMMA Quotient ==
  ASSUME NEW a \in Nat, NEW b \in Nat \ {0}
  PROVE  /\ a \div b \in Nat
         /\ b * (a \div b) <= a
         /\ a < b * (a \div b) + b
  OBVIOUS

LEMMA ProductMonotone ==
  ASSUME NEW a \in Nat, NEW b \in Nat, NEW c \in Nat \ {0}
  PROVE  /\ a <= b => a * c <= b * c
         /\ a < b => a * c + c <= b * c
  <1>1. ASSUME a <= b PROVE a * c <= b * c
    BY <1>1
  <1>2. ASSUME a < b PROVE a * c + c <= b * c
    <2>1. (a + 1) * c <= b * c
      BY <1>2
    <2>2. (a + 1) * c = a * c + c
      OBVIOUS
    <2>3. QED
      BY <2>1, <2>2
  <1>3. QED
    BY <1>1, <1>2

\* The chunks are not empty and reach over all rows.
LEMMA ChunksCover ==
  ASSUME n_rows \in Nat \ {0}
  PROVE  /\ ChunkRows \in Nat \ {0}
         /\ n_rows <= NThreads * ChunkRows
  <1> DEFINE a == n_rows + NThreads - 1
  <1>1. a \in Nat /\ NThreads \in Nat \ {0} /\ a >= NThreads
    BY ExecutorAssumption
  <1>2. ChunkRows = a \div NThreads
    BY DEF ChunkRows
  <1>3. /\ ChunkRows \in Nat
        /\ a < NThreads * ChunkRows + NThreads
    <2> HIDE DEF a
    <2>1. QED
      BY <1>1, <1>2, Quotient
  <1>4. ChunkRows # 0
    BY <1>1, <1>3
  <1>5. QED
    <2>1. NThreads * ChunkRows \in Nat
      BY <1>1, <1>3
    <2>2. QED
      BY <1>1, <1>3, <1>4, <2>1

\* The chunks that hold rows are the first m.
LEMMA ChunkCount ==
  ASSUME n_rows \in Nat \ {0}
  PROVE  \E m \in 1 .. NThreads : \A t \in Nat : Start(t) < n_rows <=> t < m
  <1> DEFINE c == ChunkRows
  <1>1. c \in Nat \ {0} /\ n_rows <= NThreads * c /\ NThreads \in Nat \ {0}
    BY ChunksCover, ExecutorAssumption
  <1> HIDE DEF c
  <1> DEFINE q == (n_rows - 1) \div c
  <1>2. q \in Nat /\ q * c <= n_rows - 1 /\ n_rows - 1 < q * c + c
    BY <1>1, Quotient
  <1> HIDE DEF q
  <1>3. q * c < NThreads * c
    <2>1. q * c \in Nat /\ NThreads * c \in Nat
      BY <1>1, <1>2
    <2>2. QED
      BY <1>1, <1>2, <2>1
  <1>4. q < NThreads
    <2>1. SUFFICES ASSUME NThreads <= q PROVE FALSE
      BY <1>1, <1>2
    <2>2. NThreads * c <= q * c
      BY <1>1, <1>2, <2>1, ProductMonotone
    <2>3. q * c \in Nat /\ NThreads * c \in Nat
      BY <1>1, <1>2
    <2>4. QED
      BY <1>3, <2>2, <2>3
  <1>5. ASSUME NEW t \in Nat PROVE t * c < n_rows <=> t < q + 1
    <2>1. t * c \in Nat /\ q * c \in Nat
      BY <1>1, <1>2
    <2>2. CASE t <= q
      <3>1. t * c <= q * c
        BY <1>1, <1>2, <2>2, ProductMonotone
      <3>2. QED
        BY <1>2, <2>1, <2>2, <3>1
    <2>3. CASE q < t
      <3>1. q * c + c <= t * c
        BY <1>1, <1>2, <2>3, ProductMonotone
      <3>2. QED
        BY <1>1, <1>2, <2>1, <2>3, <3>1
    <2>4. QED
      BY <1>2, <2>2, <2>3
  <1>6. q + 1 \in 1 .. NThreads
    BY <1>1, <1>2, <1>4
  <1>7. QED
    BY <1>5, <1>6 DEF Start, c

-----------------------------------------------------------------------------
(***************************************************************************)
(* The inductive invariant                                                 *)
(***************************************************************************)

LEMMA InitGInv == GInit => GInv
  <1> SUFFICES ASSUME GInit PROVE GInv
    OBVIOUS
  <1>1. phase = "idle" /\ n_rows = 0 /\ filter = {} /\ faulty = FALSE /\ todo = {} /\ doing = {}
    BY DEF GInit, PFInit
  <1>2. GTypeOK
    BY <1>1 DEF GTypeOK
  <1>3. QED
    BY <1>1, <1>2 DEF GInv, NoResultOfFault

\* A call that is split starts with every chunk to be taken.
LEMMA SplitStep ==
  ASSUME NEW c, NEW n \in RowCounts, NEW f \in Filters, NEW b \in BOOLEAN,
         PredictParallel(c, n, f, b)
  PROVE  GInv'
  <1>1. /\ phase' = "parallel" /\ n_rows' = n /\ filter' = f /\ faulty' = b
        /\ todo' = 0 .. (NThreads - 1) /\ doing' = {} /\ n > 0
        /\ parts' = [t \in Chunks |-> Nothing]
    BY DEF PredictParallel, Arrive, Call
  <1>2. GTypeOK'
    BY <1>1, ExecutorAssumption DEF GTypeOK, Chunks
  <1>3. PartsComplete'
    <2>1. \A t \in Chunks : t \in todo' \cup doing' /\ parts'[t] = Nothing
      BY <1>1 DEF Chunks
    <2>2. todo' \cap doing' = {} /\ parts' = [t \in Chunks |-> parts'[t]]
      BY <1>1
    <2>3. QED
      BY <2>1, <2>2 DEF PartsComplete
  <1>4. QED
    BY <1>1, <1>2, <1>3 DEF GInv, NoResultOfFault

\* A worker that finishes a chunk leaves its part behind, and may take another.
LEMMA ChunkStep ==
  ASSUME GInv, NEW t \in doing, ChunkDone(t),
         NEW J \in SUBSET todo,
         todo' = todo \ J, doing' = (doing \ {t}) \cup J
  PROVE  GInv'
  <1>1. /\ phase = "parallel" /\ phase' = "parallel" /\ n_rows' = n_rows
        /\ filter' = filter /\ faulty' = faulty
        /\ Start(t) >= n_rows \/ ~faulty
    BY DEF ChunkDone
  <1>2. GTypeOK /\ GTypeOK'
    BY <1>1 DEF GInv, GTypeOK
  <1>3. PartsComplete /\ t \in Chunks /\ t \notin todo
    BY <1>1, <1>2 DEF GInv, PartsComplete, GTypeOK
  <1>4. ASSUME NEW u PROVE Start(u)' = Start(u) /\ End(u)' = End(u)
    BY <1>1 DEF Start, End, ChunkRows
  <1>5. PartsComplete'
    <2>1. todo' \cap doing' = {}
      BY <1>3 DEF PartsComplete
    <2>2. parts' = [u \in Chunks |-> parts'[u]]
      BY <1>3 DEF ChunkDone, PartsComplete
    <2>3. ASSUME NEW u \in Chunks
          PROVE  IF u \in todo' \cup doing' \/ Start(u)' >= n_rows'
                 THEN parts'[u] = Nothing
                 ELSE ~faulty' /\ parts'[u] = RunGraph(Start(u)', End(u)', filter')
      <3>1. IF u \in todo \cup doing \/ Start(u) >= n_rows
            THEN parts[u] = Nothing
            ELSE ~faulty /\ parts[u] = RunGraph(Start(u), End(u), filter)
        BY <1>3 DEF PartsComplete
      <3>2. CASE u = t
        <4>1. u \notin todo' \cup doing' /\ parts[u] = Nothing
          BY <1>3, <3>1, <3>2
        <4>2. CASE Start(t) >= n_rows
          BY <1>1, <1>4, <3>2, <4>1, <4>2 DEF ChunkDone
        <4>3. CASE ~(Start(t) >= n_rows)
          <5>1. ~faulty
            BY <1>1, <4>3
          <5>2. parts'[t] = RunGraph(Start(t), End(t), filter)
            BY <1>3, <4>3 DEF ChunkDone, PartsComplete
          <5>3. QED
            BY <1>1, <1>4, <3>2, <4>1, <4>3, <5>1, <5>2
        <4>4. QED
          BY <4>2, <4>3
      <3>3. CASE u # t
        <4>1. parts'[u] = parts[u]
          BY <1>3, <3>3 DEF ChunkDone, PartsComplete
        <4>2. u \in todo' \cup doing' <=> u \in todo \cup doing
          BY <3>3
        <4>3. QED
          BY <1>1, <1>4, <3>1, <4>1, <4>2
      <3>4. QED
        BY <3>2, <3>3
    <2>4. QED
      BY <2>1, <2>2, <2>3 DEF PartsComplete
  <1>6. QED
    BY <1>1, <1>2, <1>5 DEF GInv, NoResultOfFault

\* When nobody holds a chunk and none is left, no chunk failed.
LEMMA GatherStep ==
  ASSUME GInv, Gather
  PROVE  GInv'
  <1>1. /\ phase = "parallel" /\ phase' = "returned"
        /\ UNCHANGED <<n_rows, filter, faulty, todo, doing>>
        /\ todo = {} /\ doing = {} /\ n_rows \in Nat \ {0}
    BY DEF Gather, Return, GInv, GTypeOK
  <1>2. 0 \in Chunks /\ Start(0) = 0
    BY <1>1, ChunksCover, ExecutorAssumption DEF Chunks, Start
  <1>3. ~faulty
    BY <1>1, <1>2 DEF GInv, PartsComplete
  <1>4. QED
    BY <1>1, <1>3 DEF GInv, GTypeOK, NoResultOfFault

\* Every step of the executor keeps the inductive invariant.
LEMMA NextGInv == GInv /\ [GNext]_gvars => GInv'
  <1> SUFFICES ASSUME GInv, [GNext]_gvars PROVE GInv'
    OBVIOUS
  <1>1. ASSUME NEW n \in RowCounts, NEW f \in Filters, NEW b \in BOOLEAN,
               PredictNothing(n, f, b)
        PROVE  GInv'
    BY <1>1, ExecutorAssumption
       DEF PredictNothing, Arrive, GInv, GTypeOK, NoResultOfFault, pfvars
  <1>2. ASSUME NEW n \in RowCounts, NEW f \in Filters, NEW b \in BOOLEAN,
               PredictSerial(n, f, b)
        PROVE  GInv'
    BY <1>2, ExecutorAssumption
       DEF PredictSerial, Arrive, GInv, GTypeOK, NoResultOfFault, pfvars
  <1>3. ASSUME NEW c \in Clients, NEW n \in RowCounts, NEW f \in Filters, NEW b \in BOOLEAN,
               PredictParallel(c, n, f, b)
        PROVE  GInv'
    BY <1>3, SplitStep
  <1>4. CASE RunSerial
    BY <1>4 DEF RunSerial, GInv, GTypeOK, NoResultOfFault, pfvars
  <1>5. CASE SerialThrows
    BY <1>5 DEF SerialThrows, GInv, GTypeOK, NoResultOfFault, pfvars
  <1>6. ASSUME NEW t \in todo, TakeChunk(t) PROVE GInv'
    <2>1. /\ phase = "parallel" /\ UNCHANGED evars
          /\ todo' = todo \ {t} /\ doing' = doing \cup {t}
      BY <1>6 DEF TakeChunk, Take
    <2>2. UNCHANGED <<phase, n_rows, filter, faulty, parts>>
      BY <2>1 DEF evars
    <2>3. GTypeOK /\ GTypeOK' /\ PartsComplete
      BY <2>1, <2>2 DEF GInv, GTypeOK
    <2>4. todo' \cup doing' = todo \cup doing /\ todo' \cap doing' = {}
      BY <2>1, <2>3 DEF PartsComplete
    <2>5. \A u : Start(u)' = Start(u) /\ End(u)' = End(u)
      BY <2>2 DEF Start, End, ChunkRows
    <2>6. PartsComplete'
      BY <2>2, <2>3, <2>4, <2>5 DEF PartsComplete
    <2>7. QED
      BY <2>1, <2>2, <2>3, <2>6 DEF GInv, NoResultOfFault
  <1>7. ASSUME NEW t \in doing, RunChunk(t) PROVE GInv'
    <2>1. todo' = todo \ {} /\ doing' = (doing \ {t}) \cup {} /\ {} \in SUBSET todo
      BY <1>7 DEF RunChunk, Done
    <2>2. ChunkDone(t)
      BY <1>7 DEF RunChunk
    <2>3. QED
      BY <2>1, <2>2, ChunkStep
  <1>8. ASSUME NEW t \in doing, NEW u \in todo, RunChunkAndTake(t, u) PROVE GInv'
    BY <1>8, ChunkStep DEF RunChunkAndTake, DoneAndTake
  <1>9. ASSUME NEW t \in doing, ChunkThrows(t) PROVE GInv'
    BY <1>9 DEF ChunkThrows, GInv, GTypeOK, NoResultOfFault, pfvars
  <1>10. CASE Gather
    BY <1>10, GatherStep
  <1>11. CASE UNCHANGED gvars
    <2>1. UNCHANGED <<phase, n_rows, filter, faulty, parts, todo, doing>>
      BY <1>11 DEF gvars, evars, pfvars
    <2>2. \A u : Start(u)' = Start(u) /\ End(u)' = End(u)
      BY <2>1 DEF Start, End, ChunkRows
    <2>3. PartsComplete' <=> PartsComplete
      BY <2>1, <2>2 DEF PartsComplete
    <2>4. QED
      BY <2>1, <2>3 DEF GInv, GTypeOK, NoResultOfFault
  <1>12. QED
    BY <1>1, <1>2, <1>3, <1>4, <1>5, <1>6, <1>7, <1>8, <1>9, <1>10, <1>11
       DEF GNext, Predicts, CallStep, Terminated

-----------------------------------------------------------------------------
(***************************************************************************)
(* The result of a call                                                    *)
(***************************************************************************)

\* The loop over the parts keeps the first m when only those are filled.
LEMMA ValidIsPrefix ==
  ASSUME NEW m \in 0 .. NThreads,
         \A t \in Chunks : DOMAIN parts[t] # {} <=> t < m
  PROVE  Valid = [i \in 1 .. m |-> i - 1]
  <1> DEFINE valid == CHOOSE valid :
                        valid = [t \in 0 .. NThreads |->
                                   IF t = 0 THEN << >>
                                   ELSE IF DOMAIN parts[t - 1] # {}
                                        THEN Append(valid[t - 1], t - 1)
                                        ELSE valid[t - 1]]
             upto(t) == [i \in 1 .. t |-> i - 1]
             g == [t \in 0 .. NThreads |-> IF t <= m THEN upto(t) ELSE upto(m)]
  <1>1. Valid = valid[NThreads]
    BY Zenon DEF Valid
  <1>2. NThreads \in Nat \ {0} /\ m \in Nat /\ m <= NThreads
    BY ExecutorAssumption
  <1>3. \A t \in Nat : upto(t) \in Seq(Int) /\ Len(upto(t)) = t
                       /\ \A i \in 1 .. t : upto(t)[i] = i - 1
    OBVIOUS
  <1>4. ASSUME NEW t \in Nat \ {0} PROVE upto(t) = Append(upto(t - 1), t - 1)
    <2> DEFINE x == upto(t - 1)
               y == upto(t)
    <2>1. t - 1 \in Nat
      OBVIOUS
    <2>2. /\ x \in Seq(Int) /\ Len(x) = t - 1 /\ \A i \in 1 .. (t - 1) : x[i] = i - 1
          /\ y \in Seq(Int) /\ Len(y) = t /\ \A i \in 1 .. t : y[i] = i - 1
      BY <1>3, <2>1
    <2> HIDE DEF x, y
    <2>3. /\ Append(x, t - 1) \in Seq(Int) /\ Len(Append(x, t - 1)) = t
          /\ \A i \in 1 .. (t - 1) : Append(x, t - 1)[i] = x[i]
          /\ Append(x, t - 1)[t] = t - 1
      BY <2>2, AppendProperties
    <2>4. \A i \in 1 .. t : y[i] = Append(x, t - 1)[i]
      <3>1. TAKE i \in 1 .. t
      <3>2. i = t \/ i \in 1 .. (t - 1)
        OBVIOUS
      <3>3. QED
        BY <2>2, <2>3, <3>2
    <2>5. y = Append(x, t - 1)
      BY <2>2, <2>3, <2>4, SeqEqual
    <2>6. QED
      BY <2>5 DEF x, y
  <1> HIDE DEF upto
  <1>5. ASSUME NEW t \in 0 .. NThreads
        PROVE  g[t] = IF t = 0 THEN << >>
                      ELSE IF DOMAIN parts[t - 1] # {} THEN Append(g[t - 1], t - 1)
                      ELSE g[t - 1]
    <2>1. CASE t = 0
      BY <1>2, <2>1 DEF upto
    <2>2. CASE t # 0
      <3>1. t - 1 \in Chunks /\ t - 1 \in 0 .. NThreads /\ t \in Nat \ {0}
        BY <1>2, <2>2 DEF Chunks
      <3>2. DOMAIN parts[t - 1] # {} <=> t <= m
        BY <1>2, <3>1
      <3>3. CASE t <= m
        <4>1. g[t] = upto(t) /\ g[t - 1] = upto(t - 1)
          BY <1>2, <3>1, <3>3
        <4>2. QED
          BY <1>4, <2>2, <3>1, <3>2, <3>3, <4>1
      <3>4. CASE ~(t <= m)
        <4>1. t - 1 = m \/ ~(t - 1 <= m)
          BY <1>2, <3>1, <3>4
        <4>2. g[t] = upto(m) /\ g[t - 1] = upto(m)
          BY <1>2, <3>1, <3>4, <4>1
        <4>3. QED
          BY <2>2, <3>2, <3>4, <4>2
      <3>5. QED
        BY <3>3, <3>4
    <2>3. QED
      BY <2>1, <2>2
  <1>6. g[NThreads] = upto(m)
    <2>1. NThreads \in 0 .. NThreads /\ (NThreads <= m => NThreads = m)
      BY <1>2
    <2>2. QED
      BY <2>1
  <1>7. g = [t \in 0 .. NThreads |-> g[t]]
    OBVIOUS
  <1> HIDE DEF g
  <1>8. valid = [t \in 0 .. NThreads |->
                   IF t = 0 THEN << >>
                   ELSE IF DOMAIN parts[t - 1] # {} THEN Append(valid[t - 1], t - 1)
                   ELSE valid[t - 1]]
    <2>1. g = [t \in 0 .. NThreads |->
                 IF t = 0 THEN << >>
                 ELSE IF DOMAIN parts[t - 1] # {} THEN Append(g[t - 1], t - 1)
                 ELSE g[t - 1]]
      BY <1>5, <1>7
    <2>2. \E f : f = [t \in 0 .. NThreads |->
                        IF t = 0 THEN << >>
                        ELSE IF DOMAIN parts[t - 1] # {} THEN Append(f[t - 1], t - 1)
                        ELSE f[t - 1]]
      BY <2>1, Zenon
    <2>3. QED
      BY <2>2, Zenon
  <1> HIDE DEF valid
  <1>9. \A t \in 0 .. NThreads :
          valid[t] = IF t = 0 THEN << >>
                     ELSE IF DOMAIN parts[t - 1] # {} THEN Append(valid[t - 1], t - 1)
                     ELSE valid[t - 1]
    BY <1>8, Zenon
  <1>10. valid[NThreads] = g[NThreads]
    <2> DEFINE S == {t \in 0 .. NThreads : valid[t] = g[t]}
    <2>1. 0 \in S
      <3>1. 0 \in 0 .. NThreads
        BY <1>2
      <3>2. QED
        BY <1>5, <1>9, <3>1
    <2>2. ASSUME NEW t \in 1 .. NThreads, t - 1 \in S PROVE t \in S
      <3>1. t \in 0 .. NThreads /\ t # 0 /\ valid[t - 1] = g[t - 1]
        BY <2>2
      <3>2. QED
        BY <1>5, <1>9, <3>1, Zenon
    <2>3. 0 .. NThreads \subseteq S
      <3>1. \A t \in 1 .. NThreads : t - 1 \in S => t \in S
        BY <2>2
      <3> HIDE DEF S
      <3>2. QED
        BY <1>2, <2>1, <3>1, LoopInvariant
    <2>4. QED
      BY <1>2, <2>3
  <1>11. QED
    BY <1>1, <1>6, <1>10 DEF upto

\* No output is an Int64 tensor, which vcat_tensors would not copy whole.
CopiedWhole == \A o \in Outputs : OutType[o] # "i64"

\* What Gather puts together is what one run over all rows returns.
LEMMA GatherResult ==
  ASSUME GInv, Gather, CopiedWhole
  PROVE  result' = RunGraph(0, n_rows, filter)
  <1>1. /\ todo = {} /\ doing = {} /\ n_rows \in Nat \ {0} /\ PartsComplete
    BY DEF Gather, Return, GInv, GTypeOK
  <1>2. PICK m \in 1 .. NThreads : \A t \in Nat : Start(t) < n_rows <=> t < m
    BY <1>1, ChunkCount
  <1>3. NThreads \in Nat \ {0} /\ m \in Nat \ {0} /\ m <= NThreads
        /\ ChunkRows \in Nat \ {0}
    BY <1>1, <1>2, ChunksCover, ExecutorAssumption
  <1>4. ASSUME NEW t \in Nat
        PROVE  /\ Start(t) \in Nat /\ End(t) \in Nat
               /\ t < m => Start(t) <= End(t) /\ End(t) <= n_rows
               /\ t + 1 < m => End(t) = Start(t + 1)
               /\ t + 1 = m => End(t) = n_rows
    <2>1. Start(t) \in Nat /\ Start(t + 1) = Start(t) + ChunkRows
      BY <1>3 DEF Start
    <2>2. t < m => Start(t) < n_rows
      BY <1>2
    <2>3. t + 1 < m <=> Start(t + 1) < n_rows
      BY <1>2
    <2>4. End(t) = IF Start(t + 1) < n_rows THEN Start(t + 1) ELSE n_rows
      BY <2>1 DEF End
    <2>5. QED
      BY <1>1, <1>3, <2>1, <2>2, <2>3, <2>4
  <1>5. ASSUME NEW t \in Chunks
        PROVE  /\ t \in Nat
               /\ t < m => parts[t] = RunGraph(Start(t), End(t), filter)
               /\ ~(t < m) => parts[t] = Nothing
    <2>1. t \in Nat
      BY <1>3 DEF Chunks
    <2>2. Start(t) >= n_rows <=> ~(t < m)
      BY <1>1, <1>2, <1>4, <2>1
    <2>3. QED
      BY <1>1, <2>1, <2>2 DEF PartsComplete
  <1>6. \A t \in Nat : t < m => t \in Chunks
    BY <1>3 DEF Chunks
  <1>7. CASE Selected(filter) = {}
    <2>1. \A s, e : RunGraph(s, e, filter) = Nothing
      BY <1>7 DEF RunGraph, Nothing
    <2>2. \A t \in Chunks : DOMAIN parts[t] = {}
      <3>1. \A t \in Chunks : parts[t] = Nothing
        BY <1>5, <2>1
      <3>2. QED
        BY <3>1 DEF Nothing
    <2>3. 0 \in 0 .. NThreads /\ \A t \in Chunks : DOMAIN parts[t] # {} <=> t < 0
      BY <1>3, <1>5, <2>2
    <2>4. Valid = [i \in 1 .. 0 |-> i - 1]
      BY <2>3, ValidIsPrefix
    <2>5. Len(Valid) = 0
      BY <2>4
    <2>6. result' = Nothing
      BY <2>5, Zenon DEF Gather
    <2>7. QED
      BY <2>1, <2>6
  <1>8. CASE Selected(filter) # {}
    <2>1. \A t \in Chunks : DOMAIN parts[t] # {} <=> t < m
      BY <1>5, <1>8 DEF RunGraph, Nothing
    <2>2. Valid = [i \in 1 .. m |-> i - 1]
      <3>1. m \in 0 .. NThreads
        BY <1>3
      <3>2. QED
        BY <2>1, <3>1, ValidIsPrefix
    <2>3. Len(Valid) = m /\ \A i \in 1 .. m : Valid[i] = i - 1
      BY <1>3, <2>2
    <2>4. parts[0] = RunGraph(0, End(0), filter) /\ Valid[1] = 0
      <3>1. 0 \in Chunks /\ 0 < m /\ Start(0) = 0 /\ 1 \in 1 .. m
        BY <1>3, <1>6 DEF Start
      <3>2. QED
        BY <1>5, <2>3, <3>1
    <2>5. CASE m = 1
      <3>1. Len(Valid) = 1 /\ Len(Valid) # 0
        BY <2>3, <2>5
      <3>2. result' = parts[0]
        BY <2>4, <3>1, Zenon DEF Gather
      <3>3. End(0) = n_rows
        BY <1>4, <2>5
      <3>4. QED
        BY <2>4, <3>2, <3>3
    <2>6. CASE m # 1
      <3>1. result' = [o \in DOMAIN parts[0] |->
                         Vcat(o, [i \in 1 .. m |-> parts[Valid[i]][o]])]
        BY <1>3, <2>3, <2>4, <2>6 DEF Gather
      <3>2. DOMAIN parts[0] = Selected(filter)
        BY <2>4 DEF RunGraph
      <3>3. ASSUME NEW o \in Selected(filter)
            PROVE  Vcat(o, [i \in 1 .. m |-> parts[Valid[i]][o]])
                     = [rows |-> n_rows - 0, words |-> Words(o, 0, n_rows)]
        <4> DEFINE cut == [k \in 0 .. m |-> IF k = 0 THEN 0 ELSE End(k - 1)]
                   ps  == [i \in 1 .. m |-> parts[Valid[i]][o]]
        <4>1. CopyWidth(o) = Width(o)
          BY ExecutorAssumption DEF CopiedWhole, Selected, CopyWidth, Width
        <4>2. cut \in [0 .. m -> Nat] /\ cut[0] = 0
          BY <1>3, <1>4
        <4>3. ASSUME NEW k \in 1 .. m
              PROVE  cut[k - 1] = Start(k - 1) /\ cut[k] = End(k - 1)
          <5>1. k - 1 \in Nat /\ k \in 0 .. m /\ k - 1 \in 0 .. m /\ k # 0
            OBVIOUS
          <5>2. CASE k = 1
            BY <1>3, <5>1, <5>2 DEF Start
          <5>3. CASE k # 1
            <6>1. k - 2 \in Nat /\ (k - 2) + 1 = k - 1 /\ k - 1 < m /\ (k - 1) - 1 = k - 2
              BY <1>3, <5>3
            <6>2. End(k - 2) = Start(k - 1)
              BY <1>4, <6>1
            <6>3. QED
              BY <5>1, <5>3, <6>1, <6>2
          <5>4. QED
            BY <5>2, <5>3
        <4>4. ASSUME NEW k \in 1 .. m
              PROVE  /\ cut[k - 1] <= cut[k]
                     /\ ps[k] = [rows  |-> cut[k] - cut[k - 1],
                                 words |-> Words(o, cut[k - 1], cut[k])]
          <5>1. k - 1 \in Nat /\ k - 1 < m
            BY <1>3
          <5>2. Valid[k] = k - 1 /\ k - 1 \in Chunks
            BY <1>6, <2>3, <5>1
          <5>3. ps[k] = parts[k - 1][o]
            BY <5>2
          <5>4. parts[k - 1] = RunGraph(Start(k - 1), End(k - 1), filter)
            BY <1>5, <5>1, <5>2
          <5>5. parts[k - 1][o] = [rows  |-> End(k - 1) - Start(k - 1),
                                   words |-> Words(o, Start(k - 1), End(k - 1))]
            BY <5>4 DEF RunGraph
          <5>6. Start(k - 1) <= End(k - 1)
            BY <1>4, <5>1
          <5> HIDE DEF cut, ps
          <5>7. QED
            BY <4>3, <5>3, <5>5, <5>6
        <4>5. Len(ps) = m
          BY <1>3
        <4>6. cut[m] = n_rows
          <5>1. m \in 1 .. m /\ m - 1 \in Nat /\ (m - 1) + 1 = m
            BY <1>3
          <5>2. cut[m] = End(m - 1)
            BY <4>3, <5>1
          <5>3. QED
            BY <1>4, <5>1, <5>2
        <4> HIDE DEF cut, ps
        <4>7. Vcat(o, ps) = [rows |-> cut[m], words |-> Words(o, 0, cut[m])]
          BY <1>3, <4>1, <4>2, <4>4, <4>5, VcatJoins
        <4>8. QED
          BY <1>1, <4>6, <4>7 DEF ps
      <3>4. QED
        BY <3>1, <3>2, <3>3 DEF RunGraph
    <2>7. QED
      BY <2>5, <2>6
  <1>9. QED
    BY <1>7, <1>8

\* The words of row r are in a tensor of rows a .. b - 1 exactly when r is one of
\* those.
LEMMA WordsOfRow ==
  ASSUME NEW o, NEW a \in Nat, NEW b \in Nat, a <= b, NEW r \in Nat, NEW w \in 0 .. (Width(o) - 1)
  PROVE  (\E i \in DOMAIN Words(o, a, b) : Words(o, a, b)[i] = <<r, w>>) <=> a <= r /\ r < b
  <1> DEFINE v == Width(o)
             n == (b - a) * v
             s == Words(o, a, b)
  <1>1. v \in {1, 2} /\ w \in 0 .. (v - 1)
    BY WidthType
  <1>2. s = [i \in 1 .. n |-> <<a + ((i - 1) \div v), (i - 1) % v>>]
    BY DEF Words
  <1> HIDE DEF v, s
  <1>3. DOMAIN s = 1 .. n /\ \A i \in 1 .. n : s[i] = <<a + ((i - 1) \div v), (i - 1) % v>>
    BY <1>2
  <1>4. ASSUME NEW i \in 1 .. n, s[i] = <<r, w>> PROVE a <= r /\ r < b
    <2>1. r = a + ((i - 1) \div v)
      BY <1>3, <1>4
    <2>2. CASE v = 1
      BY <2>1, <2>2
    <2>3. CASE v = 2
      BY <2>1, <2>3
    <2>4. QED
      BY <1>1, <2>2, <2>3
  <1>5. ASSUME a <= r, r < b PROVE \E i \in 1 .. n : s[i] = <<r, w>>
    <2> DEFINE i == (r - a) * v + w + 1
    <2>1. i \in 1 .. n /\ a + ((i - 1) \div v) = r /\ (i - 1) % v = w
      <3>1. CASE v = 1
        BY <1>1, <1>5, <3>1
      <3>2. CASE v = 2
        BY <1>1, <1>5, <3>2
      <3>3. QED
        BY <1>1, <3>1, <3>2
    <2> HIDE DEF i, n
    <2>2. QED
      BY <1>3, <2>1
  <1>6. QED
    BY <1>3, <1>4, <1>5 DEF s

\* Every row is in the bounds of exactly one chunk.
LEMMA OneChunk ==
  ASSUME GInv, phase = "parallel", NEW r \in 0 .. (n_rows - 1)
  PROVE  Cardinality({t \in Chunks : InBounds(t, r)}) = 1
  <1> DEFINE c == ChunkRows
             q == r \div c
  <1>1. n_rows \in Nat \ {0} /\ r \in Nat /\ r < n_rows
    BY DEF GInv, GTypeOK
  <1>2. c \in Nat \ {0} /\ n_rows <= NThreads * c /\ NThreads \in Nat \ {0}
    BY <1>1, ChunksCover, ExecutorAssumption
  <1> HIDE DEF c
  <1>3. q \in Nat /\ q * c \in Nat /\ q * c <= r /\ r < q * c + c
    BY <1>1, <1>2, Quotient
  <1> HIDE DEF q
  <1>4. ASSUME NEW t \in Nat
        PROVE  Start(t) <= r /\ r < End(t) <=> t = q
    <2>1. Start(t) = t * c /\ t * c \in Nat /\ End(t) = IF t * c + c < n_rows THEN t * c + c ELSE n_rows
      BY <1>2 DEF Start, End, c
    <2>2. CASE t = q
      BY <1>1, <1>2, <1>3, <2>1, <2>2
    <2>3. CASE t < q
      <3>1. t * c + c <= q * c
        BY <1>2, <1>3, <2>3, ProductMonotone
      <3>2. QED
        BY <1>1, <1>2, <1>3, <2>1, <2>3, <3>1
    <2>4. CASE q < t
      <3>1. q * c + c <= t * c
        BY <1>2, <1>3, <2>4, ProductMonotone
      <3>2. QED
        BY <1>1, <1>2, <1>3, <2>1, <2>4, <3>1
    <2>5. QED
      BY <1>3, <2>2, <2>3, <2>4
  <1>5. q \in Chunks
    <2>1. q < NThreads
      <3>1. SUFFICES ASSUME NThreads <= q PROVE FALSE
        BY <1>2, <1>3
      <3>2. NThreads * c <= q * c
        BY <1>2, <1>3, <3>1, ProductMonotone
      <3>3. NThreads * c \in Nat
        BY <1>2
      <3>4. QED
        BY <1>1, <1>2, <1>3, <3>2, <3>3
    <2>2. QED
      BY <1>2, <1>3, <2>1 DEF Chunks
  <1>6. {t \in Chunks : InBounds(t, r)} = {q}
    <2>1. \A t \in Chunks : t \in Nat
      BY <1>2 DEF Chunks
    <2>2. QED
      BY <1>4, <1>5, <2>1 DEF InBounds
  <1>7. QED
    BY <1>6, FS_Singleton

\* A chunk's part has a row's words exactly when the row is one of the chunk's and
\* the chunk is finished.
LEMMA PartHoldsRow ==
  ASSUME GInv, phase = "parallel", NEW r \in 0 .. (n_rows - 1), NEW t \in Chunks,
         NEW o \in Selected(filter), NEW w \in 0 .. (Width(o) - 1)
  PROVE  Holds(t, o, <<r, w>>) <=> InBounds(t, r) /\ t \notin todo \cup doing
  <1> DEFINE a == Start(t)
             b == End(t)
  <1>1. PartsComplete /\ n_rows \in Nat \ {0} /\ r \in Nat /\ r < n_rows
    BY DEF GInv, GTypeOK
  <1>2. a \in Nat /\ b \in Nat /\ (a < n_rows => a <= b) /\ b <= n_rows
    <2>1. ChunkRows \in Nat \ {0} /\ t \in Nat
      BY <1>1, ChunksCover, ExecutorAssumption DEF Chunks
    <2> DEFINE c == ChunkRows
    <2>2. a = t * c /\ t * c \in Nat /\ c \in Nat
      BY <2>1 DEF Start
    <2>3. b = IF a + c < n_rows THEN a + c ELSE n_rows
      BY DEF End
    <2> HIDE DEF a, b, c
    <2>4. QED
      BY <1>1, <2>2, <2>3
  <1>3. CASE t \in todo \cup doing \/ a >= n_rows
    <2>1. parts[t] = Nothing
      BY <1>1, <1>3 DEF PartsComplete
    <2>2. ~Holds(t, o, <<r, w>>)
      BY <2>1 DEF Holds, Nothing
    <2>3. a >= n_rows => ~InBounds(t, r)
      BY <1>1, <1>2 DEF InBounds
    <2>4. QED
      BY <1>3, <2>2, <2>3
  <1>4. CASE ~(t \in todo \cup doing \/ a >= n_rows)
    <2>1. parts[t] = RunGraph(a, b, filter)
      BY <1>1, <1>4 DEF PartsComplete
    <2>2. o \in DOMAIN parts[t] /\ parts[t][o].words = Words(o, a, b)
      BY <2>1 DEF RunGraph
    <2>3. a <= b
      BY <1>1, <1>2, <1>4
    <2> HIDE DEF a, b
    <2>4. (\E i \in DOMAIN Words(o, a, b) : Words(o, a, b)[i] = <<r, w>>) <=> a <= r /\ r < b
      <3>1. a \in Nat /\ b \in Nat /\ a <= b /\ r \in Nat /\ w \in 0 .. (Width(o) - 1)
        BY <1>1, <1>2, <2>3
      <3>2. QED
        BY ONLY <3>1, WordsOfRow
    <2>5. Holds(t, o, <<r, w>>) <=> \E i \in DOMAIN Words(o, a, b) : Words(o, a, b)[i] = <<r, w>>
      BY <2>2 DEF Holds
    <2>6. InBounds(t, r) <=> a <= r /\ r < b
      BY DEF InBounds, a, b
    <2>7. QED
      BY <1>4, <2>4, <2>5, <2>6
  <1>5. QED
    BY <1>3, <1>4

\* With the invariant, every step leaves a result that is the one of a single run.
LEMMA NextResult ==
  ASSUME CopiedWhole
  PROVE  GInv /\ ResultIsSerial /\ [GNext]_gvars => ResultIsSerial'
  <1> SUFFICES ASSUME GInv, ResultIsSerial, [GNext]_gvars PROVE ResultIsSerial'
    OBVIOUS
  <1>1. ASSUME NEW n \in RowCounts, NEW f \in Filters, NEW b \in BOOLEAN,
               PredictNothing(n, f, b)
        PROVE  ResultIsSerial'
    BY <1>1 DEF PredictNothing, Arrive, ResultIsSerial
  <1>2. ASSUME NEW n \in RowCounts, NEW f \in Filters, NEW b \in BOOLEAN,
               PredictSerial(n, f, b)
        PROVE  ResultIsSerial'
    BY <1>2 DEF PredictSerial, ResultIsSerial
  <1>3. ASSUME NEW c \in Clients, NEW n \in RowCounts, NEW f \in Filters, NEW b \in BOOLEAN,
               PredictParallel(c, n, f, b)
        PROVE  ResultIsSerial'
    BY <1>3 DEF PredictParallel, ResultIsSerial
  <1>4. CASE RunSerial
    BY <1>4 DEF RunSerial, GInv, GTypeOK, ResultIsSerial
  <1>5. CASE SerialThrows
    BY <1>5 DEF SerialThrows, ResultIsSerial
  <1>6. ASSUME NEW t \in todo, TakeChunk(t) PROVE ResultIsSerial'
    BY <1>6 DEF TakeChunk, evars, ResultIsSerial
  <1>7. ASSUME NEW t \in doing, ChunkDone(t) PROVE ResultIsSerial'
    BY <1>7 DEF ChunkDone, ResultIsSerial
  <1>8. ASSUME NEW t \in doing, ChunkThrows(t) PROVE ResultIsSerial'
    BY <1>8 DEF ChunkThrows, ResultIsSerial
  <1>9. CASE Gather
    <2>1. result' = RunGraph(0, n_rows, filter)
      BY <1>9, GatherResult
    <2>2. n_rows # 0 /\ n_rows' = n_rows /\ filter' = filter
      BY <1>9 DEF Gather, GInv, GTypeOK
    <2>3. QED
      BY <2>1, <2>2 DEF ResultIsSerial
  <1>10. CASE UNCHANGED gvars
    BY <1>10 DEF gvars, evars, ResultIsSerial
  <1>11. QED
    BY <1>1, <1>2, <1>3, <1>4, <1>5, <1>6, <1>7, <1>8, <1>9, <1>10
       DEF GNext, Predicts, CallStep, Terminated, RunChunk, RunChunkAndTake

-----------------------------------------------------------------------------
(***************************************************************************)
(* The theorems                                                            *)
(***************************************************************************)

\* The inductive invariant holds in every reachable state.
THEOREM ExecutorInvariant == GSpec => []GInv
  <1>1. GInit => GInv
    BY InitGInv
  <1>2. GInv /\ [GNext]_gvars => GInv'
    BY NextGInv
  <1>3. QED
    BY <1>1, <1>2, PTL DEF GSpec

\* predict_named never hands out a result of a call the graph could not run.
THEOREM FaultsAreKept == GSpec => []NoResultOfFault
  <1>1. GInv => NoResultOfFault
    BY DEF GInv
  <1>2. QED
    BY <1>1, ExecutorInvariant, PTL

\* The chunks of a split batch partition its rows, and their parts the finished
\* ones: a row's words are in the part of the chunk it belongs to from when that
\* chunk is finished, and in no other - also when the threshold has wrapped around
\* and there are fewer rows than threads (the lambda predict_named gives the pool).
THEOREM RowsArePartitioned == GSpec => []ChunksPartition
  <1>1. GInv => ChunksPartition
    BY OneChunk, PartHoldsRow DEF ChunksPartition
  <1>2. QED
    BY <1>1, ExecutorInvariant, PTL

\* With no Int64 output the caller of predict_named cannot tell whether, and
\* how, its batch was split.
THEOREM SplittingIsInvisible ==
  ASSUME CopiedWhole
  PROVE  GSpec => []ResultIsSerial
  <1>1. GInit => ResultIsSerial
    BY DEF GInit, ResultIsSerial
  <1>2. GInv /\ ResultIsSerial /\ [GNext]_gvars => ResultIsSerial'
    BY NextResult
  <1>3. QED
    BY <1>1, <1>2, ExecutorInvariant, PTL DEF GSpec

\* The executor keeps to the contract of parallel_for: what it does to the pool
\* is what ParallelFor lets a client and the workers do.
THEOREM ExecutorUsesThePool ==
  ASSUME NThreads \in TaskCounts
  PROVE  GSpec => PFSpec
  <1>1. GInit => PFInit
    BY DEF GInit
  <1>2. [GNext]_gvars => [PFNext]_pfvars
    <2> SUFFICES ASSUME [GNext]_gvars PROVE [PFNext]_pfvars
      OBVIOUS
    <2>1. ASSUME NEW n, NEW f, NEW b, PredictNothing(n, f, b) \/ PredictSerial(n, f, b)
          PROVE  UNCHANGED pfvars
      BY <2>1 DEF PredictNothing, PredictSerial
    <2>2. ASSUME NEW c \in Clients, NEW n, NEW f, NEW b, PredictParallel(c, n, f, b)
          PROVE  PFNext
      BY <2>2 DEF PredictParallel, PFNext
    <2>3. CASE RunSerial \/ SerialThrows \/ (\E t \in doing : ChunkThrows(t)) \/ UNCHANGED gvars
      BY <2>3 DEF RunSerial, SerialThrows, ChunkThrows, gvars
    <2>4. ASSUME NEW t \in todo, TakeChunk(t) PROVE PFNext
      BY <2>4 DEF TakeChunk, PFNext
    <2>5. ASSUME NEW t \in doing, RunChunk(t) PROVE PFNext
      BY <2>5 DEF RunChunk, PFNext
    <2>6. ASSUME NEW t \in doing, NEW u \in todo, RunChunkAndTake(t, u) PROVE PFNext
      BY <2>6 DEF RunChunkAndTake, PFNext
    <2>7. CASE Gather
      BY <2>7 DEF Gather, PFNext
    <2>8. QED
      BY <2>1, <2>2, <2>3, <2>4, <2>5, <2>6, <2>7
         DEF GNext, Predicts, CallStep, Terminated
  <1>3. QED
    BY <1>1, <1>2, PTL DEF GSpec, PFSpec
=============================================================================
