------------------------ MODULE OperatorAnswerProofs ------------------------
(***************************************************************************)
(* What single nodes answer, and that it stands in the store whatever nodes*)
(* and slices come after: values that are only moved come out unchanged,   *)
(* the label of a choice is the one that won, and an encoder tells its     *)
(* categories apart.                                                       *)
(***************************************************************************)
EXTENDS OperatorGraphProofs

-----------------------------------------------------------------------------
(***************************************************************************)
(* What a node gave stands in the store                                    *)
(***************************************************************************)

\* No name is written twice, nor after it was read, nor is an input's.
SingleWriter(j) ==
  /\ Len(j.nodes) \in Nat
  /\ \A k \in 1 .. Len(j.nodes) :
       LET node == j.nodes[k] IN
       /\ IsSeq(node.in) /\ IsSeq(node.out)
       /\ Range(node.out) \cap (DOMAIN j.in \cup Range(node.in)) = {}
       /\ \A m \in 1 .. k - 1 :
            Range(node.out) \cap (Range(j.nodes[m].in) \cup Range(j.nodes[m].out)) = {}

\* Of a node, what it read is there, and what it gave where it writes.
StandsFrom(node, fns, V, store) ==
  LET got == Outcome(node, V, fns) IN
  /\ \A n \in Range(node.in) : n \in DOMAIN V /\ n \in DOMAIN store /\ V[n] = store[n]
  /\ \A n \in Range(node.out) \cap DOMAIN store :
       \E i \in DOMAIN node.out \cap DOMAIN got.out : node.out[i] = n /\ store[n] = got.out[i]
  /\ got.ok /\ \A i \in DOMAIN node.out \cap DOMAIN got.out : node.out[i] \in DOMAIN store
Stands(node, fns, store) == \E V : StandsFrom(node, fns, V, store)

StandsTo(j, k, store) ==
  /\ DOMAIN store \subseteq DOMAIN j.in \cup UNION {Range(j.nodes[m].out) : m \in 1 .. k - 1}
  /\ \A m \in 1 .. k - 1 : j.nodes[m].op # "OHENode" => Stands(j.nodes[m], j.fns, store)
StandInv ==
  SingleWriter(job) /\ slice # 0 => pc \in 1 .. Len(job.nodes) + 1 /\ StandsTo(job, pc, vs)

\* Putting tensors leaves the names they are not put under.
Kept(V, node, ts, W) ==
  /\ DOMAIN V \subseteq DOMAIN W /\ DOMAIN W \subseteq DOMAIN V \cup Range(node.out)
  /\ \A n \in DOMAIN W \ Range(node.out) : n \in DOMAIN V /\ W[n] = V[n]
  /\ \A n \in DOMAIN W \ DOMAIN V :
       \E i \in DOMAIN node.out \cap DOMAIN ts : node.out[i] = n /\ W[n] = ts[i]
  /\ \A i \in DOMAIN node.out \cap DOMAIN ts : node.out[i] \in DOMAIN W

LEMMA PutsKeeps ==
  ASSUME NEW V, NEW node, IsSeq(node.out), NEW ts, NEW W, W = Puts(V, node, ts)
  PROVE  Kept(V, node, ts, W)
  <1> DEFINE named == DOMAIN ts \cap DOMAIN node.out
             as(n) == {i \in named : node.out[i] = n}
             names == DOMAIN V \cup {node.out[i] : i \in named}
  <1>1. W = [n \in names |-> IF as(n) = {} THEN V[n] ELSE ts[Max(as(n))]]
    BY DEF Puts
  <1>2. DOMAIN W = names /\ \A n \in names : W[n] = IF as(n) = {} THEN V[n] ELSE ts[Max(as(n))]
    BY <1>1
  <1>3. \A n : as(n) # {} => n \in Range(node.out)
    BY DEF Range
  <1>4. names \subseteq DOMAIN V \cup Range(node.out)
    BY DEF Range
  <1>5. ASSUME NEW n \in names \ Range(node.out) PROVE n \in DOMAIN V /\ W[n] = V[n]
    BY <1>2, <1>3, <1>4, <1>5
  <1>6. ASSUME NEW n \in names \ DOMAIN V
        PROVE  \E i \in named : node.out[i] = n /\ W[n] = ts[i]
    <2> DEFINE S == as(n)
    <2>1. S # {} /\ S \subseteq 1 .. Len(node.out) /\ Len(node.out) \in Nat
      BY <1>6, IsSeqDomain DEF IsSeq
    <2>2. W[n] = ts[Max(S)]
      BY <1>2, <1>6, <2>1
    <2>3. \A i \in S : i \in named /\ node.out[i] = n
      OBVIOUS
    <2> HIDE DEF S
    <2>4. Max(S) \in S
      BY <2>1, MaxIsIn
    <2>5. QED
      BY <2>2, <2>3, <2>4
  <1>7. QED
    BY <1>2, <1>4, <1>5, <1>6 DEF Kept

\* A step of one node keeps what the nodes before it gave.
LEMMA StepStands ==
  ASSUME NEW j, SingleWriter(j), NEW k \in 1 .. Len(j.nodes), NEW V, StandsTo(j, k, V),
         NEW node, node = j.nodes[k], Reads(node, V), NEW ts, NEW W, W = Puts(V, node, ts),
         node.op # "OHENode" => Outcome(node, V, j.fns).ok /\ ts = Outcome(node, V, j.fns).out
  PROVE  StandsTo(j, k + 1, W)
  <1>1. /\ IsSeq(node.in) /\ IsSeq(node.out) /\ Len(j.nodes) \in Nat
        /\ Range(node.out) \cap (DOMAIN j.in \cup Range(node.in)) = {}
        /\ \A m \in 1 .. k - 1 :
             Range(node.out) \cap (Range(j.nodes[m].in) \cup Range(j.nodes[m].out)) = {}
    BY DEF SingleWriter
  <1>2. /\ DOMAIN V \subseteq DOMAIN W /\ DOMAIN W \subseteq DOMAIN V \cup Range(node.out)
        /\ \A n \in DOMAIN W \ Range(node.out) : n \in DOMAIN V /\ W[n] = V[n]
        /\ \A n \in DOMAIN W \ DOMAIN V :
             \E i \in DOMAIN node.out \cap DOMAIN ts : node.out[i] = n /\ W[n] = ts[i]
        /\ \A i \in DOMAIN node.out \cap DOMAIN ts : node.out[i] \in DOMAIN W
    <2>1. IsSeq(node.out)
      BY <1>1
    <2>2. Kept(V, node, ts, W)
      BY <2>1, PutsKeeps
    <2>3. QED
      BY ONLY <2>2 DEF Kept
  <1>3. 1 .. (k + 1) - 1 = (1 .. k - 1) \cup {k} /\ k \notin 1 .. k - 1
    BY <1>1
  <1>4. DOMAIN W \subseteq DOMAIN j.in \cup UNION {Range(j.nodes[m].out) : m \in 1 .. (k + 1) - 1}
    BY <1>2, <1>3 DEF StandsTo
  <1>5. ASSUME NEW m \in 1 .. k - 1, j.nodes[m].op # "OHENode"
        PROVE  Stands(j.nodes[m], j.fns, W)
    <2> DEFINE before == j.nodes[m]
    <2>1. Stands(before, j.fns, V)
      BY <1>5 DEF StandsTo
    <2>2. Range(node.out) \cap (Range(before.in) \cup Range(before.out)) = {}
      BY <1>1
    <2> HIDE DEF before
    <2>3. PICK U : StandsFrom(before, j.fns, U, V)
      BY <2>1 DEF Stands
    <2>4. \A n \in Range(before.in) : n \in DOMAIN U /\ n \in DOMAIN W /\ U[n] = W[n]
      BY <1>2, <2>2, <2>3 DEF StandsFrom
    <2>5. \A n \in Range(before.out) \cap DOMAIN W : n \in DOMAIN V /\ V[n] = W[n]
      BY <1>2, <2>2
    <2> DEFINE got == Outcome(before, U, j.fns)
    <2>6. /\ \A n \in Range(before.out) \cap DOMAIN V :
               \E i \in DOMAIN before.out \cap DOMAIN got.out : before.out[i] = n /\ V[n] = got.out[i]
          /\ got.ok /\ \A i \in DOMAIN before.out \cap DOMAIN got.out : before.out[i] \in DOMAIN V
      BY ONLY <2>3 DEF StandsFrom
    <2> HIDE DEF got
    <2>7. /\ \A n \in Range(before.out) \cap DOMAIN W :
               \E i \in DOMAIN before.out \cap DOMAIN got.out : before.out[i] = n /\ W[n] = got.out[i]
          /\ got.ok /\ \A i \in DOMAIN before.out \cap DOMAIN got.out : before.out[i] \in DOMAIN W
      BY ONLY <1>2, <2>5, <2>6
    <2>8. StandsFrom(before, j.fns, U, W)
      BY <2>4, <2>7 DEF StandsFrom, got
    <2>9. Stands(before, j.fns, W)
      BY <2>8 DEF Stands
    <2>10. QED
      BY <2>9 DEF before
  <1>6. ASSUME node.op # "OHENode" PROVE Stands(node, j.fns, W)
    <2>1. \A n \in Range(node.in) : n \in DOMAIN V /\ n \in DOMAIN W /\ V[n] = W[n]
      BY <1>1, <1>2 DEF Reads
    <2>2. ASSUME NEW n \in Range(node.out) \cap DOMAIN W PROVE n \notin DOMAIN V
      BY <1>1, <2>2 DEF StandsTo
    <2>3. Outcome(node, V, j.fns).ok /\ ts = Outcome(node, V, j.fns).out
      BY <1>6
    <2>4. StandsFrom(node, j.fns, V, W)
      BY <1>2, <2>1, <2>2, <2>3 DEF StandsFrom
    <2>5. QED
      BY <2>4 DEF Stands
  <1>7. QED
    BY <1>3, <1>4, <1>5, <1>6 DEF StandsTo

LEMMA ExecuteStands ==
  ASSUME StandInv, NEW names, "OHENode" \notin names, Execute(names)
  PROVE  StandInv'
  <1> DEFINE got == Outcome(Node, vs, job.fns)
  <1>1. /\ phase = "run" /\ slice # 0 /\ pc <= Len(job.nodes) /\ Node.op # "OHENode" /\ Reads(Node, vs)
        /\ job' = job /\ slice' = slice
        /\ IF got.ok THEN vs' = Puts(vs, Node, got.out) /\ pc' = pc + 1 ELSE UNCHANGED <<vs, pc>>
    BY DEF Execute, CanRun
  <1>2. CASE ~SingleWriter(job)
    BY <1>1, <1>2 DEF StandInv
  <1>3. CASE SingleWriter(job) /\ ~got.ok
    BY <1>1, <1>3 DEF StandInv
  <1>4. CASE SingleWriter(job) /\ got.ok
    <2>1. pc \in 1 .. Len(job.nodes) /\ pc + 1 \in 1 .. Len(job.nodes) + 1 /\ StandsTo(job, pc, vs)
      <3>1. pc \in 1 .. Len(job.nodes) + 1 /\ StandsTo(job, pc, vs)
        BY <1>1, <1>4 DEF StandInv
      <3>2. Len(job.nodes) \in Nat
        BY <1>4 DEF SingleWriter
      <3>3. QED
        BY <1>1, <3>1, <3>2
    <2>2. Node = job.nodes[pc] /\ vs' = Puts(vs, Node, got.out)
      BY <1>1, <1>4 DEF Node
    <2> HIDE DEF got
    <2>3. StandsTo(job, pc + 1, vs')
      BY <1>1, <1>4, <2>1, <2>2, StepStands DEF got
    <2>4. QED
      BY <1>1, <1>4, <2>1, <2>3 DEF StandInv
  <1>5. QED
    BY <1>2, <1>3, <1>4

LEMMA HotStands ==
  ASSUME StandInv, ExecuteHot
  PROVE  StandInv'
  <1> DEFINE out == HotResult(HotCall, Node.attrs["categories"], scratch').out
  <1>1. /\ slice # 0 /\ pc <= Len(job.nodes) /\ Node.op = "OHENode" /\ Reads(Node, vs)
        /\ job' = job /\ slice' = slice /\ vs' = Puts(vs, Node, out) /\ pc' = pc + 1
    BY DEF ExecuteHot, CanRun
  <1> HIDE DEF out
  <1>2. CASE ~SingleWriter(job)
    BY <1>1, <1>2 DEF StandInv
  <1>3. CASE SingleWriter(job)
    <2>1. pc \in 1 .. Len(job.nodes) /\ pc + 1 \in 1 .. Len(job.nodes) + 1 /\ StandsTo(job, pc, vs)
      <3>1. pc \in 1 .. Len(job.nodes) + 1 /\ StandsTo(job, pc, vs)
        BY <1>1, <1>3 DEF StandInv
      <3>2. Len(job.nodes) \in Nat
        BY <1>3 DEF SingleWriter
      <3>3. QED
        BY <1>1, <3>1, <3>2
    <2>2. StandsTo(job, pc + 1, vs')
      BY <1>1, <1>3, <2>1, StepStands DEF Node
    <2>3. QED
      BY <1>1, <1>3, <2>1, <2>2 DEF StandInv
  <1>4. QED
    BY <1>2, <1>3

LEMMA BeginStands ==
  ASSUME NEW i \in todo, BeginSlice(i)
  PROVE  StandInv'
  <1>1. job' = job /\ pc' = 1 /\ vs' = Inputs(job, StartOf(i), cut[i])
    BY DEF BeginSlice
  <1>2. DOMAIN vs' = DOMAIN job.in
    BY <1>1 DEF Inputs
  <1>3. SingleWriter(job) => pc' \in 1 .. Len(job.nodes) + 1
    BY <1>1 DEF SingleWriter
  <1>4. 1 .. pc' - 1 = {}
    BY <1>1
  <1>5. QED
    BY <1>1, <1>2, <1>3, <1>4 DEF StandInv, StandsTo

\* In the store of a slice stands what its nodes gave, whatever ran in between.
LEMMA AllStand == OSpec => []StandInv
  <1>1. OInit => StandInv
    BY DEF OInit, StandInv
  <1>2. StandInv /\ [ONext]_ovars => StandInv'
    <2>1. SUFFICES ASSUME StandInv, [ONext]_ovars PROVE StandInv'
      OBVIOUS
    <2>2. ASSUME NEW i \in todo, BeginSlice(i) PROVE StandInv'
      BY <2>2, BeginStands
    <2>3. CASE ExecuteCore
      BY <2>1, <2>3, ExecuteStands DEF ExecuteCore, CoreNames
    <2>4. CASE ExecuteFeature
      BY <2>1, <2>4, ExecuteStands DEF ExecuteFeature, FeatureNames
    <2>5. CASE ExecuteLearned
      BY <2>1, <2>5, ExecuteStands DEF ExecuteLearned, LearnedNames
    <2>6. CASE ExecuteText
      BY <2>1, <2>6, ExecuteStands DEF ExecuteText, TextNames
    <2>7. CASE ExecuteExpression
      BY <2>1, <2>7, ExecuteStands DEF ExecuteExpression, ExpressionNames
    <2>8. CASE ExecuteModel
      BY <2>1, <2>8, ExecuteStands DEF ExecuteModel, NodeNames
    <2>9. CASE ExecuteHot
      BY <2>1, <2>9, HotStands
    <2>10. CASE Fail \/ CollectFails
      BY <2>1, <2>10 DEF Fail, CollectFails, StandInv
    <2>11. CASE Collect
      BY <2>11 DEF Collect, StandInv
    <2>12. CASE Assemble
      BY <2>1, <2>12 DEF Assemble, StandInv
    <2>13. CASE AssembleAstray
      BY <2>1, <2>13 DEF AssembleAstray, StandInv
    <2>14. CASE UNCHANGED ovars
      BY <2>1, <2>14 DEF ovars, StandInv
    <2>15. QED
      BY <2>1, <2>2, <2>3, <2>4, <2>5, <2>6, <2>7, <2>8, <2>9, <2>10, <2>11, <2>12, <2>13, <2>14 DEF ONext
  <1>3. QED
    BY <1>1, <1>2, PTL DEF OSpec

-----------------------------------------------------------------------------
(***************************************************************************)
(* What only moves values changes none                                     *)
(***************************************************************************)

\* Tables of numbers, those of a float tensor floats.
AreNumbers(ts, N) ==
  \A k \in 1 .. Len(ts) :
    /\ ts[k].type \in {"f32", "f64"}
    /\ ts[k].type = "f32" =>
         \A r \in 1 .. N : \A c \in Cols(ts[k]) : Narrow(ts[k].cells[r][c]) = ts[k].cells[r][c]

\* What row r of the inputs holds, and an answer that gives nothing else.
RowHolds(ts, r) == UNION {Range(ts[k].cells[r]) : k \in DOMAIN ts}
CarriesRow(t, ts, r) == Range(t.cells[r]) \subseteq RowHolds(ts, r)
Carries(got, ts, N) == \A i \in DOMAIN got.out : \A r \in 1 .. N : CarriesRow(got.out[i], ts, r)

\* A value of row r of some of the inputs, at a width that does not change it.
Unaltered(v, ts, r, T) == v \in RowHolds(ts, r) /\ Hold(T, v) = v

LEMMA OneCarries ==
  ASSUME NEW ts, NEW N, NEW t, \A r \in 1 .. N : CarriesRow(t, ts, r)
  PROVE  Carries(Gives(<<t>>), ts, N)
  BY DEF Carries, Gives

\* An element read is one of its row's.
LEMMA ReadIs ==
  ASSUME NEW N, NEW t, IsTable(t, N), t.type # "str", NEW r \in 1 .. N, NEW c \in Cols(t)
  PROVE  Get(t, r, c) = t.cells[r][c] /\ Get(t, r, c) \in Range(t.cells[r])
  <1>1. IsSeq(t.cells) /\ Len(t.cells) = N /\ IsSeq(t.cells[r]) /\ Len(t.cells[r]) = NCols(t)
    BY DEF IsTable
  <1>2. N \in Nat /\ c \in 1 .. Len(t.cells[r]) /\ DOMAIN t.cells[r] = 1 .. Len(t.cells[r])
    BY <1>1 DEF IsSeq, Cols
  <1>3. Get(t, r, c) = t.cells[r][c]
    <2>1. NRows(t) = 1 /\ NCols(t) = 1 => r = 1 /\ c = 1
      BY <1>1, <1>2 DEF NRows, Cols
    <2>2. QED
      BY <2>1 DEF Get
  <1>4. QED
    BY <1>2, <1>3 DEF Range

LEMMA ReadKept ==
  ASSUME NEW N, NEW ts, AreTables(ts, N), AreNumbers(ts, N), NEW k \in 1 .. Len(ts),
         NEW r \in 1 .. N, NEW c \in Cols(ts[k])
  PROVE  /\ Unaltered(Get(ts[k], r, c), ts, r, AnyF64(ts))
         /\ Unaltered(Get(ts[k], r, c), ts, r, Width(ts[k]))
  <1> DEFINE t == ts[k]
             v == Get(t, r, c)
  <1>1. IsTable(t, N) /\ t.type \in {"f32", "f64"} /\ k \in DOMAIN ts
    BY DEF AreTables, AreNumbers, IsSeq
  <1>2. t.type = "f32" => Narrow(t.cells[r][c]) = t.cells[r][c]
    BY DEF AreNumbers
  <1>3. v = t.cells[r][c] /\ v \in Range(t.cells[r])
    BY <1>1, ReadIs
  <1>4. v \in RowHolds(ts, r)
    BY <1>1, <1>3 DEF RowHolds
  <1>5. AnyF64(ts) = "f32" => t.type = "f32"
    BY <1>1 DEF AnyF64
  <1>6. Width(t) = "f32" => t.type = "f32"
    BY <1>1 DEF Width
  <1> HIDE DEF t, v
  <1>7. \A T : (T = "f32" => t.type = "f32") => Hold(T, v) = v
    BY <1>2, <1>3 DEF Hold
  <1>8. QED
    BY <1>4, <1>5, <1>6, <1>7 DEF Unaltered, t, v

\* A table filled with values of the same rows of the inputs.
LEMMA FilledCarries ==
  ASSUME NEW N, NEW W, NEW T, NEW G, AreRows(G, N, W), NEW ts,
         \A r \in 1 .. N : \A c \in 1 .. W : Unaltered(G[r][c], ts, r, T)
  PROVE  \A r \in 1 .. N : CarriesRow(Stored(T, G), ts, r)
  <1>1. TAKE r \in 1 .. N
  <1>2. N \in Nat \ {0}
    BY DEF AreRows, IsSeq
  <1> DEFINE row == G[r]
             u == Stored(T, G)
  <1>3. u.cells[r] = HeldRow(T, row)
    BY <1>2, StoredIs
  <1>4. IsSeq(row) /\ Len(row) = W /\ \A c \in 1 .. W : Unaltered(row[c], ts, r, T)
    BY DEF AreRows
  <1> HIDE DEF row, u
  <1> DEFINE h == HeldRow(T, row)
  <1>5. IsSeq(h) /\ Len(h) = W /\ \A c \in 1 .. W : h[c] = Hold(T, row[c])
    BY <1>4, HeldRowIs
  <1> HIDE DEF h
  <1>6. \A c \in 1 .. W : h[c] \in RowHolds(ts, r)
    BY <1>4, <1>5 DEF Unaltered
  <1>7. DOMAIN h = 1 .. W
    BY <1>5, IsSeqDomain
  <1>8. Range(h) \subseteq RowHolds(ts, r)
    BY <1>6, <1>7 DEF Range
  <1>9. QED
    BY <1>3, <1>8 DEF CarriesRow, u, h

LEMMA IdentityCarries ==
  ASSUME NEW N, NEW x, AreTables(x.in, N), x.outs \in Nat
  PROVE  Carries(Identity(x), x.in, N)
  <1> DEFINE m == IF Len(x.in) < x.outs THEN Len(x.in) ELSE x.outs
             ts == x.in
  <1>1. Identity(x).out = [i \in 1 .. m |-> ts[i]]
    BY DEF Identity, Gives
  <1>2. IsSeq(ts)
    BY DEF AreTables
  <1>3. \A i \in 1 .. m : i \in DOMAIN ts
    <2>1. ASSUME NEW i \in 1 .. m PROVE i <= Len(ts)
      <3>1. CASE Len(ts) < x.outs
        BY <3>1
      <3>2. CASE ~(Len(ts) < x.outs)
        BY <1>2, <3>2 DEF IsSeq
      <3>3. QED
        BY <3>1, <3>2
    <2>2. QED
      BY <1>2, <2>1, IsSeqDomain
  <1> HIDE DEF m, ts
  <1>4. \A i \in 1 .. m : \A r \in 1 .. N : CarriesRow(ts[i], ts, r)
    BY <1>3 DEF CarriesRow, RowHolds
  <1>5. QED
    BY <1>1, <1>4 DEF Carries, ts

\* Some columns of one of the inputs.
LEMMA PickedCarries ==
  ASSUME NEW N, NEW ts, AreTables(ts, N), AreNumbers(ts, N), NEW k \in 1 .. Len(ts),
         NEW cols, Len(cols) \in Nat, \A j \in 1 .. Len(cols) : cols[j] + 1 \in Cols(ts[k])
  PROVE  \A r \in 1 .. N : CarriesRow(Picked(ts[k], cols, Width(ts[k])), ts, r)
  <1> DEFINE t == ts[k]
             W == Len(cols)
             T == Width(t)
             G == [r \in 1 .. N |-> [j \in 1 .. W |-> Get(t, r, cols[j] + 1)]]
  <1>1. NRows(t) = N
    BY DEF AreTables, IsTable, NRows
  <1>2. N \in Nat
    BY <1>1 DEF AreTables, IsTable, IsSeq, NRows
  <1>3. Picked(t, cols, T) = Stored(T, G)
    BY <1>1 DEF Picked
  <1>4. IsGrid(G, N, W)
    BY DEF IsGrid
  <1>5. ASSUME NEW r \in 1 .. N, NEW j \in 1 .. W PROVE Unaltered(G[r][j], ts, r, T)
    <2>1. Unaltered(Get(t, r, cols[j] + 1), ts, r, T)
      BY ReadKept
    <2>2. G[r][j] = Get(t, r, cols[j] + 1)
      OBVIOUS
    <2> HIDE DEF G, T, t
    <2>3. QED
      BY <2>1, <2>2
  <1> HIDE DEF G, T, t
  <1>6. AreRows(G, N, W)
    BY <1>2, <1>4, GridRows
  <1>7. \A r \in 1 .. N : CarriesRow(Stored(T, G), ts, r)
    BY <1>5, <1>6, FilledCarries
  <1>8. QED
    BY <1>3, <1>7 DEF T, t

LEMMA WholeCarries ==
  ASSUME NEW N, NEW ts, NEW k \in DOMAIN ts
  PROVE  \A r \in 1 .. N : CarriesRow(ts[k], ts, r)
  BY DEF CarriesRow, RowHolds

LEMMA GatherCarries ==
  ASSUME NEW N, NEW x, AreTables(x.in, N), x.in # << >>, AreNumbers(x.in, N),
         NEW cols, cols = Attr(x, "indices", << >>),
         Len(cols) \in Nat, \A j \in 1 .. Len(cols) : cols[j] + 1 \in Cols(x.in[1])
  PROVE  Carries(GatherColumns(x), x.in, N)
  <1> DEFINE ts == x.in
             u == IF cols = << >> THEN ts[1] ELSE Picked(ts[1], cols, Width(ts[1]))
  <1>1. 1 \in 1 .. Len(ts) /\ 1 \in DOMAIN ts
    BY DEF AreTables, IsSeq
  <1>2. GatherColumns(x) = Gives(<<u>>)
    BY DEF GatherColumns
  <1>3. \A r \in 1 .. N : CarriesRow(ts[1], ts, r)
    BY <1>1, WholeCarries
  <1>4. \A r \in 1 .. N : CarriesRow(Picked(ts[1], cols, Width(ts[1])), ts, r)
    BY <1>1, PickedCarries
  <1>5. \A r \in 1 .. N : CarriesRow(u, ts, r)
    BY <1>3, <1>4
  <1> HIDE DEF u, ts
  <1>6. Carries(Gives(<<u>>), ts, N)
    BY <1>5, OneCarries
  <1>7. QED
    BY <1>2, <1>6 DEF ts

\* What FlattenSeq makes holds nothing but what it is made of.
LEMMA FlattenFrom ==
  ASSUME NEW ss, IsSeq(ss), \A i \in 1 .. Len(ss) : IsSeq(ss[i]),
         NEW c \in 1 .. Len(FlattenSeq(ss))
  PROVE  \E i \in 1 .. Len(ss) : \E j \in 1 .. Len(ss[i]) : FlattenSeq(ss)[c] = ss[i][j]
  <1> DEFINE L == Len(ss)
             T == UNION {{ss[i][j] : j \in 1 .. Len(ss[i])} : i \in 1 .. L}
             f == FlattenSeq(ss)
  <1>1. L \in Nat /\ ss = [i \in 1 .. L |-> ss[i]]
    BY DEF IsSeq
  <1>2. ss \in [1 .. L -> Seq(T)]
    <2>1. ASSUME NEW i \in 1 .. L PROVE ss[i] \in Seq(T)
      <3> DEFINE s == ss[i]
      <3>1. s = [j \in 1 .. Len(s) |-> s[j]] /\ Len(s) \in Nat
        BY DEF IsSeq
      <3>2. \A j \in 1 .. Len(s) : s[j] \in T
        OBVIOUS
      <3> HIDE DEF T, s
      <3>3. s \in Seq(T)
        BY <3>1, <3>2
      <3>4. QED
        BY <3>3 DEF s
    <2> HIDE DEF T, L
    <2>2. QED
      BY <1>1, <2>1
  <1> HIDE DEF T
  <1>3. f \in Seq(T)
    BY <1>1, <1>2, FlattenPlaces
  <1> HIDE DEF f
  <1>4. f[c] \in T
    BY <1>3, ElementOfSeq DEF f
  <1>5. QED
    BY <1>4 DEF T, f

\* Inputs side by side: a table of their width, each of its cells a cell of one.
LEMMA BesideIs ==
  ASSUME NEW N \in Nat \ {0}, NEW ts, AreTables(ts, N), ts # << >>, AreNumbers(ts, N)
  PROVE  /\ IsTable(Beside(ts), N) /\ Beside(ts).type = AnyF64(ts)
         /\ \A r \in 1 .. N : CarriesRow(Beside(ts), ts, r)
         /\ \A r \in 1 .. N : \A c \in Cols(Beside(ts)) :
              Unaltered(Get(Beside(ts), r, c), ts, r, AnyF64(ts))
  <1> DEFINE L == Len(ts)
             T == AnyF64(ts)
             row(r) == [i \in 1 .. L |-> [c \in 1 .. NCols(ts[i]) |-> Get(ts[i], r, c)]]
             G == [r \in 1 .. N |-> FlattenSeq(row(r))]
             u == Beside(ts)
  <1>1. L \in Nat /\ 1 \in 1 .. L /\ \A i \in 1 .. L : IsTable(ts[i], N)
    BY DEF AreTables, IsSeq
  <1>2. \A i \in 1 .. L : NRows(ts[i]) = N /\ NCols(ts[i]) \in Nat /\ Cols(ts[i]) = 1 .. NCols(ts[i])
    <2>1. TAKE i \in 1 .. L
    <2>2. IsTable(ts[i], N) /\ 1 \in 1 .. N
      BY <1>1
    <2>3. QED
      BY <2>2 DEF IsTable, IsSeq, NRows, NCols, Cols
  <1>3. u = Stored(T, G)
    BY <1>1, <1>2 DEF Beside
  <1>4. IsSlice(0, N, N)
    BY DEF IsSlice
  <1>5. IsTable(u, N)
    <2> DEFINE us == [i \in DOMAIN ts |-> Sliced(ts[i], 0, N)]
    <2>1. us = [i \in DOMAIN ts |-> Sliced(ts[i], 0, N)]
      OBVIOUS
    <2> HIDE DEF us
    <2>2. QED
      BY <1>4, <2>1, BesideSplits
  <1>6. ASSUME NEW r \in 1 .. N
        PROVE  /\ IsSeq(row(r)) /\ Len(row(r)) = L
               /\ \A i \in 1 .. L : /\ IsSeq(row(r)[i]) /\ Len(row(r)[i]) = NCols(ts[i])
                                    /\ \A c \in 1 .. NCols(ts[i]) : row(r)[i][c] = Get(ts[i], r, c)
    <2> DEFINE ss == row(r)
    <2>1. IsSeq(ss) /\ Len(ss) = L
      <3>1. Len(ss) = L
        BY <1>1
      <3>2. QED
        BY <1>1, <3>1 DEF IsSeq
    <2>2. \A i \in 1 .. L : /\ IsSeq(ss[i]) /\ Len(ss[i]) = NCols(ts[i])
                            /\ \A c \in 1 .. NCols(ts[i]) : ss[i][c] = Get(ts[i], r, c)
      <3>1. TAKE i \in 1 .. L
      <3> DEFINE s == [c \in 1 .. NCols(ts[i]) |-> Get(ts[i], r, c)]
      <3>2. ss[i] = s /\ NCols(ts[i]) \in Nat
        BY <1>2
      <3>3. Len(s) = NCols(ts[i])
        BY <3>2
      <3>4. IsSeq(s) /\ \A c \in 1 .. NCols(ts[i]) : s[c] = Get(ts[i], r, c)
        BY <3>2, <3>3 DEF IsSeq
      <3> HIDE DEF s, ss
      <3>5. QED
        BY <3>2, <3>3, <3>4
    <2>3. QED
      BY <2>1, <2>2
  <1>7. AreRows(G, N, NCols(u))
    <2> DEFINE lens == [i \in 1 .. L |-> NCols(ts[i])]
    <2>1. ASSUME NEW r \in 1 .. N
          PROVE  IsSeq(FlattenSeq(row(r))) /\ Len(FlattenSeq(row(r))) = Sum(lens) /\ Sum(lens) \in Nat
      <3> DEFINE ss == row(r)
      <3>1. IsSeq(ss) /\ Len(ss) = L /\ \A i \in 1 .. L : IsSeq(ss[i]) /\ Len(ss[i]) = NCols(ts[i])
        BY <1>6
      <3> HIDE DEF ss, L
      <3>2. lens = [i \in 1 .. Len(ss) |-> Len(ss[i])]
        BY <3>1
      <3> HIDE DEF lens
      <3>3. IsSeq(FlattenSeq(ss)) /\ Len(FlattenSeq(ss)) = Sum(lens) /\ Sum(lens) \in Nat
        BY <3>1, <3>2, FlattenIs
      <3>4. QED
        BY <3>3 DEF ss
    <2> HIDE DEF lens, row
    <2>2. Len(G) = N /\ IsSeq(G)
      BY DEF IsSeq
    <2>3. AreRows(G, N, Sum(lens))
      <3>1. 1 \in 1 .. N
        OBVIOUS
      <3>2. Sum(lens) \in Nat
        BY <2>1, <3>1
      <3>3. QED
        BY <2>1, <2>2, <3>2 DEF AreRows
    <2> HIDE DEF G, u
    <2>4. NCols(Stored(T, G)) = Sum(lens)
      BY <2>3, StoredIs
    <2>5. QED
      BY <1>3, <2>3, <2>4
  <1>8. u.type = T
    <2> HIDE DEF G, T, u
    <2>1. QED
      BY <1>3, <1>7, StoredIs
  <1>9. ASSUME NEW r \in 1 .. N, NEW c \in 1 .. NCols(u) PROVE Unaltered(G[r][c], ts, r, T)
    <2> DEFINE ss == row(r)
               f == FlattenSeq(ss)
    <2>1. IsSeq(ss) /\ Len(ss) = L
          /\ \A i \in 1 .. L : /\ IsSeq(ss[i]) /\ Len(ss[i]) = NCols(ts[i])
                               /\ \A d \in 1 .. NCols(ts[i]) : ss[i][d] = Get(ts[i], r, d)
      BY <1>6
    <2>2. G[r] = f
      OBVIOUS
    <2>3. c \in 1 .. Len(f)
      <3>1. Len(G[r]) = NCols(u)
        BY <1>7 DEF AreRows
      <3> HIDE DEF G, u, f
      <3>2. QED
        BY <2>2, <3>1
    <2> HIDE DEF ss
    <2>4. PICK i \in 1 .. L : \E d \in 1 .. Len(ss[i]) : f[c] = ss[i][d]
      BY <2>1, <2>3, FlattenFrom
    <2>5. PICK d \in 1 .. NCols(ts[i]) : f[c] = Get(ts[i], r, d)
      BY <2>1, <2>4
    <2>6. d \in Cols(ts[i])
      BY <1>2
    <2>7. Unaltered(Get(ts[i], r, d), ts, r, T)
      BY <2>6, ReadKept
    <2> HIDE DEF f, G, T
    <2>8. QED
      BY <2>2, <2>5, <2>7
  <1> HIDE DEF G, T, u, row
  <1>10. \A r \in 1 .. N : CarriesRow(u, ts, r)
    BY <1>3, <1>7, <1>9, FilledCarries
  <1>11. ASSUME NEW r \in 1 .. N, NEW c \in Cols(u) PROVE Unaltered(Get(u, r, c), ts, r, T)
    <2>1. c \in 1 .. NCols(u)
      BY DEF Cols
    <2>2. u.type # "str"
      BY <1>8 DEF T, AnyF64
    <2>3. Get(u, r, c) = u.cells[r][c]
      BY <1>5, <2>2, ReadIs
    <2>4. u.cells[r] = HeldRow(T, G[r])
      BY <1>3, <1>7, StoredIs
    <2> DEFINE g == G[r]
    <2>5. IsSeq(g) /\ Len(g) = NCols(u)
      BY <1>7 DEF AreRows
    <2>6. Unaltered(g[c], ts, r, T)
      BY <1>9, <2>1
    <2> HIDE DEF g
    <2>7. HeldRow(T, g)[c] = Hold(T, g[c])
      BY <2>1, <2>5, HeldRowIs
    <2>8. Get(u, r, c) = g[c]
      BY <2>3, <2>4, <2>6, <2>7 DEF Unaltered, g
    <2>9. QED
      BY <2>6, <2>8
  <1>12. QED
    BY <1>5, <1>8, <1>10, <1>11 DEF u, T

LEMMA ConcatCarries ==
  ASSUME NEW N \in Nat \ {0}, NEW x, AreTables(x.in, N), x.in # << >>, AreNumbers(x.in, N)
  PROVE  Carries(Concat(x), x.in, N)
  <1> DEFINE ts == x.in
  <1>1. Concat(x) = Gives(<<Beside(ts)>>)
    BY DEF Concat
  <1>2. AreTables(ts, N) /\ ts # << >> /\ AreNumbers(ts, N)
    OBVIOUS
  <1> HIDE DEF ts
  <1>3. \A r \in 1 .. N : CarriesRow(Beside(ts), ts, r)
    BY <1>2, BesideIs
  <1> DEFINE u == Beside(ts)
  <1> HIDE DEF u
  <1>4. Carries(Gives(<<u>>), ts, N)
    BY <1>3, OneCarries DEF u
  <1>5. QED
    BY <1>1, <1>4 DEF ts, u

LEMMA TakeSlotsCarries ==
  ASSUME NEW N \in Nat \ {0}, NEW x, AreTables(x.in, N), x.in # << >>, AreNumbers(x.in, N),
         NEW cols, cols = Attr(x, "indices", << >>),
         Len(cols) \in Nat, \A j \in 1 .. Len(cols) : cols[j] + 1 \in Cols(Beside(x.in))
  PROVE  Carries(TakeSlots(x), x.in, N)
  <1> DEFINE ts == x.in
             wide == Beside(ts)
             W == Len(cols)
             T == Width(wide)
             G == [r \in 1 .. N |-> [j \in 1 .. W |-> Get(wide, r, cols[j] + 1)]]
             u == IF cols = << >> THEN wide ELSE Picked(wide, cols, T)
  <1>1. TakeSlots(x) = Gives(<<u>>)
    BY DEF TakeSlots
  <1>2. AreTables(ts, N) /\ ts # << >> /\ AreNumbers(ts, N) /\ \A j \in 1 .. W : cols[j] + 1 \in Cols(wide)
    OBVIOUS
  <1> HIDE DEF ts
  <1>3. /\ IsTable(wide, N) /\ wide.type = AnyF64(ts)
        /\ \A r \in 1 .. N : CarriesRow(wide, ts, r)
        /\ \A r \in 1 .. N : \A c \in Cols(wide) : Unaltered(Get(wide, r, c), ts, r, AnyF64(ts))
    BY <1>2, BesideIs
  <1> HIDE DEF wide
  <1>4. T = AnyF64(ts)
    BY <1>3 DEF Width, AnyF64
  <1>5. NRows(wide) = N
    BY <1>3 DEF IsTable, NRows
  <1>6. Picked(wide, cols, T) = Stored(T, G)
    BY <1>5 DEF Picked
  <1>7. IsGrid(G, N, W)
    BY DEF IsGrid
  <1>8. ASSUME NEW r \in 1 .. N, NEW j \in 1 .. W PROVE Unaltered(G[r][j], ts, r, T)
    <2>1. G[r][j] = Get(wide, r, cols[j] + 1)
      OBVIOUS
    <2> HIDE DEF G, T
    <2>2. QED
      BY <1>2, <1>3, <1>4, <2>1
  <1> HIDE DEF G, T
  <1>9. AreRows(G, N, W)
    BY <1>7, GridRows
  <1>10. \A r \in 1 .. N : CarriesRow(Stored(T, G), ts, r)
    BY <1>8, <1>9, FilledCarries
  <1>11. \A r \in 1 .. N : CarriesRow(u, ts, r)
    BY <1>3, <1>6, <1>10
  <1> HIDE DEF u
  <1>12. Carries(Gives(<<u>>), ts, N)
    BY <1>11, OneCarries
  <1>13. QED
    BY <1>1, <1>12 DEF ts

\* Sections one after the other within a number of columns.
AreSections(secs, W) ==
  IsSeq(secs) /\ (\A s \in 1 .. Len(secs) : secs[s] \in Nat) /\ Sum(secs) <= W

LEMMA SectionsLie ==
  ASSUME NEW W \in Nat, NEW secs, AreSections(secs, W), NEW s \in 1 .. Len(secs), NEW c \in 1 .. secs[s]
  PROVE  (Sum(SubSeq(secs, 1, s - 1)) + c - 1) + 1 \in 1 .. W
  <1>1. IsSeq(secs) /\ (\A k \in 1 .. Len(secs) : secs[k] \in Nat) /\ Len(secs) \in Nat /\ Sum(secs) <= W
    BY DEF AreSections, IsSeq
  <1>2. PICK off : /\ EndsAt(off, secs) /\ Sum(secs) = off[Len(secs)]
                   /\ \A k \in 0 .. Len(secs) : Sum(SubSeq(secs, 1, k)) = off[k]
    BY <1>1, SumsAre
  <1>3. s - 1 \in 0 .. Len(secs) /\ s \in 0 .. Len(secs) /\ Len(secs) \in 0 .. Len(secs) /\ s <= Len(secs)
    BY <1>1
  <1>4. off[s] <= off[Len(secs)]
    BY <1>1, <1>2, <1>3, EndsGrow
  <1>5. off[s - 1] \in Nat /\ off[s] = off[s - 1] + secs[s] /\ off[Len(secs)] \in Nat
    BY <1>2, <1>3 DEF EndsAt
  <1>6. off[s - 1] + c <= W
    BY <1>1, <1>2, <1>4, <1>5
  <1>7. Sum(SubSeq(secs, 1, s - 1)) = off[s - 1]
    BY <1>2, <1>3
  <1>8. QED
    BY <1>5, <1>6, <1>7

LEMMA SplitCarries ==
  ASSUME NEW N \in Nat \ {0}, NEW x, AreTables(x.in, N), x.in # << >>, AreNumbers(x.in, N), x.outs \in Nat,
         NEW secs, secs = Attr(x, "sections", << >>), AreSections(secs, NCols(x.in[1]))
  PROVE  Carries(SplitColumns(x), x.in, N)
  <1> DEFINE ts == x.in
             t == ts[1]
             cols(s) == [c \in 1 .. secs[s] |-> Sum(SubSeq(secs, 1, s - 1)) + c - 1]
             m == IF Len(secs) < x.outs THEN Len(secs) ELSE x.outs
             us == [s \in 1 .. m |-> Picked(t, cols(s), Width(t))]
  <1>1. SplitColumns(x) = IF secs = << >> THEN Gives(<<t>>) ELSE Gives(us)
    BY DEF SplitColumns
  <1>2. 1 \in 1 .. Len(ts) /\ 1 \in DOMAIN ts /\ IsTable(t, N)
    BY DEF AreTables, IsSeq
  <1>3. NCols(t) \in Nat /\ Cols(t) = 1 .. NCols(t)
    <2>1. 1 \in 1 .. N
      OBVIOUS
    <2>2. QED
      BY <1>2, <2>1 DEF IsTable, IsSeq, NCols, Cols
  <1>4. Carries(Gives(<<t>>), ts, N)
    BY <1>2, WholeCarries, OneCarries
  <1>5. ASSUME NEW s \in 1 .. m PROVE \A r \in 1 .. N : CarriesRow(us[s], ts, r)
    <2> DEFINE cs == cols(s)
    <2>1. s \in 1 .. Len(secs) /\ secs[s] \in Nat
      <3>1. Len(secs) \in Nat
        BY DEF AreSections, IsSeq
      <3>2. m <= Len(secs)
        BY <3>1
      <3>3. QED
        BY <3>1, <3>2 DEF AreSections
    <2>2. Len(cs) = secs[s] /\ \A c \in 1 .. secs[s] : cs[c] = Sum(SubSeq(secs, 1, s - 1)) + c - 1
      BY <2>1
    <2> HIDE DEF cs
    <2>3. \A c \in 1 .. secs[s] : cs[c] + 1 \in Cols(t)
      BY <1>3, <2>1, <2>2, SectionsLie
    <2>4. \A r \in 1 .. N : CarriesRow(Picked(t, cs, Width(t)), ts, r)
      BY <1>2, <2>1, <2>2, <2>3, PickedCarries
    <2>5. us[s] = Picked(t, cs, Width(t))
      BY DEF cs
    <2> HIDE DEF us, t, ts
    <2>6. QED
      BY <2>4, <2>5
  <1>6. DOMAIN us = 1 .. m
    OBVIOUS
  <1> HIDE DEF us, t, ts, m
  <1>7. Carries(Gives(us), ts, N)
    BY <1>5, <1>6 DEF Carries, Gives
  <1>8. QED
    BY <1>1, <1>4, <1>7 DEF ts

\* Candidates of one width, chosen among by a whole number.
AreChosen(ts, N) ==
  /\ \A k \in 2 .. Len(ts) : NCols(ts[k]) = NCols(ts[2])
  /\ \A r \in 1 .. N : Get(ts[1], r, 1) \in Int

LEMMA SelectCarries ==
  ASSUME NEW N \in Nat \ {0}, NEW x, AreTables(x.in, N), x.in # << >>, AreNumbers(x.in, N),
         AreChosen(x.in, N)
  PROVE  Carries(Select(x), x.in, N)
  <1> DEFINE ts == x.in
             cands == Tail(ts)
             L == Len(ts) - 1
             T == AnyF64(cands)
             W == NCols(ts[2])
             sel(r) == Get(ts[1], r, 1)
             at(r) == IF sel(r) < 0 THEN 1 ELSE IF sel(r) >= Len(cands) THEN Len(cands) ELSE sel(r) + 1
             G == [r \in 1 .. N |-> [c \in 1 .. W |-> Get(cands[at(r)], r, c)]]
  <1>1. Len(ts) \in Nat /\ Len(ts) # 0 /\ IsSeq(ts) /\ \A k \in 1 .. Len(ts) : IsTable(ts[k], N)
    BY DEF AreTables, IsSeq
  <1>2. CASE Len(ts) < 2
    <2>1. Select(x) = Nothing
      BY <1>2 DEF Select
    <2>2. QED
      BY <2>1 DEF Nothing, Carries
  <1>3. CASE ~(Len(ts) < 2)
    <2>1. IsSeq(cands) /\ Len(cands) = L /\ L \in Nat \ {0} /\ \A k \in 1 .. L : k + 1 \in 1 .. Len(ts) /\ cands[k] = ts[k + 1]
      <3>1. cands = [k \in 1 .. L |-> ts[k + 1]]
        BY <1>1 DEF IsSeq
      <3>2. L \in Nat \ {0}
        BY <1>1, <1>3
      <3> HIDE DEF cands
      <3>3. Len(cands) = L
        BY <3>1, <3>2
      <3>4. QED
        BY <3>1, <3>2, <3>3 DEF IsSeq
    <2> HIDE DEF cands
    <2>2. NRows(ts[1]) = N /\ W \in Nat /\ \A k \in 1 .. L : Cols(cands[k]) = 1 .. W
      <3>1. 1 \in 1 .. Len(ts) /\ 2 \in 1 .. Len(ts) /\ 1 \in 1 .. N
        BY <1>1, <1>3
      <3>2. NRows(ts[1]) = N /\ W \in Nat
        BY <1>1, <3>1 DEF IsTable, IsSeq, NRows, NCols
      <3>3. \A k \in 1 .. L : NCols(cands[k]) = W
        <4>1. \A k \in 1 .. L : k + 1 \in 2 .. Len(ts)
          BY <2>1
        <4>2. QED
          BY <2>1, <4>1 DEF AreChosen
      <3>4. QED
        BY <3>2, <3>3 DEF Cols
    <2>3. Select(x) = Gives(<<Stored(T, G)>>)
      <3>1. Cols(cands[1]) = 1 .. W
        <4> HIDE DEF L, W, ts
        <4>1. 1 \in 1 .. L
          BY <2>1
        <4>2. QED
          BY <2>2, <4>1
      <3>2. QED
        BY <1>3, <2>2, <3>1 DEF Select, Rows, cands
    <2>4. AreTables(cands, N) /\ AreNumbers(cands, N)
      <3>1. \A k \in 1 .. L : IsTable(cands[k], N)
        BY <1>1, <2>1
      <3>2. \A k \in 1 .. L : k + 1 \in 1 .. Len(ts) /\ cands[k] = ts[k + 1]
        BY <2>1
      <3>3. AreNumbers(ts, N)
        OBVIOUS
      <3> HIDE DEF ts
      <3> DEFINE IsNumbers(t) ==
                   /\ t.type \in {"f32", "f64"}
                   /\ t.type = "f32" => \A r \in 1 .. N : \A c \in Cols(t) : Narrow(t.cells[r][c]) = t.cells[r][c]
      <3>4. (AreNumbers(ts, N) <=> \A k \in 1 .. Len(ts) : IsNumbers(ts[k]))
            /\ (AreNumbers(cands, N) <=> \A k \in 1 .. Len(cands) : IsNumbers(cands[k]))
        BY DEF AreNumbers
      <3> HIDE DEF IsNumbers, L
      <3>5. \A k \in 1 .. L : IsNumbers(cands[k])
        BY <3>2, <3>3, <3>4
      <3>6. QED
        BY <2>1, <3>1, <3>4, <3>5 DEF AreTables
    <2>5. ASSUME NEW r \in 1 .. N, NEW v, Unaltered(v, cands, r, T) PROVE Unaltered(v, ts, r, T)
      <3>1. PICK k \in DOMAIN cands : v \in Range(cands[k].cells[r])
        BY <2>5 DEF Unaltered, RowHolds
      <3>2. k \in 1 .. L
        BY <2>1, IsSeqDomain
      <3>3. cands[k] = ts[k + 1] /\ k + 1 \in DOMAIN ts
        BY <1>1, <2>1, <3>2, IsSeqDomain
      <3> HIDE DEF ts, T
      <3>4. QED
        BY <2>5, <3>1, <3>3 DEF Unaltered, RowHolds
    <2>6. ASSUME NEW r \in 1 .. N, NEW c \in 1 .. W PROVE Unaltered(G[r][c], ts, r, T)
      <3> DEFINE k == at(r)
      <3>1. G[r][c] = Get(cands[k], r, c)
        OBVIOUS
      <3>2. sel(r) \in Int
        BY DEF AreChosen
      <3> HIDE DEF G
      <3>3. k \in 1 .. Len(cands)
        <4> DEFINE i == sel(r)
        <4>1. k = IF i < 0 THEN 1 ELSE IF i >= Len(cands) THEN Len(cands) ELSE i + 1
          OBVIOUS
        <4>2. i \in Int /\ Len(cands) \in Nat \ {0}
          BY <2>1, <3>2
        <4> HIDE DEF i, k
        <4>3. QED
          BY <4>1, <4>2
      <3> HIDE DEF k, T, W
      <3>4. c \in Cols(cands[k])
        BY <2>1, <2>2, <3>3
      <3>5. Unaltered(Get(cands[k], r, c), cands, r, T)
        BY <2>4, <3>3, <3>4, ReadKept DEF T
      <3>6. QED
        BY <2>5, <3>1, <3>5
    <2>7. IsGrid(G, N, W)
      BY DEF IsGrid
    <2> HIDE DEF G, T, W, ts
    <2>8. AreRows(G, N, W)
      BY <2>2, <2>7, GridRows
    <2>9. \A r \in 1 .. N : CarriesRow(Stored(T, G), ts, r)
      BY <2>6, <2>8, FilledCarries
    <2> DEFINE u == Stored(T, G)
    <2> HIDE DEF u
    <2>10. Carries(Gives(<<u>>), ts, N)
      BY <2>9, OneCarries DEF u
    <2>11. QED
      BY <2>3, <2>10 DEF u, ts
  <1>4. QED
    BY <1>2, <1>3

LEMMA DividesOut ==
  ASSUME NEW n \in Nat \ {0}, NEW w \in Nat
  PROVE  (n * w) \div n = w
  BY SMTT(30)

\* A grid whose rows are those of the table, of W columns.
KeepsGrid(sh, W) == sh \in {<< >>, <<-1>>, <<W>>} \/ (W # 0 /\ sh = <<-1, W>>)

LEMMA ReshapeCarries ==
  ASSUME NEW N \in Nat \ {0}, NEW x, AreTables(x.in, N), x.in # << >>,
         NEW sh, sh = Attr(x, "new_shape", << >>), KeepsGrid(sh, NCols(x.in[1]))
  PROVE  Carries(Reshape(x), x.in, N)
  <1> DEFINE ts == x.in
             t == ts[1]
             W == NCols(t)
             flat == Flat(t)
             total == Len(flat)
             rows == IF Len(sh) < 2 THEN NRows(t) ELSE IF sh[1] = -1 THEN total \div sh[2] ELSE sh[1]
             cols == IF Len(sh) = 1 THEN IF sh[1] = -1 THEN total \div rows ELSE sh[1]
                     ELSE IF sh[2] = -1 THEN total \div rows ELSE sh[2]
             G == [r \in 1 .. rows |-> [c \in 1 .. cols |-> flat[(r - 1) * cols + c]]]
             d == Dense(t)
             u == IF sh = << >> THEN t ELSE [d EXCEPT !.cells = G]
  <1>1. Reshape(x) = Gives(<<u>>)
    BY DEF Reshape
  <1>2. 1 \in 1 .. Len(ts) /\ 1 \in DOMAIN ts /\ IsTable(t, N) /\ KeepsGrid(sh, W)
    BY DEF AreTables, IsSeq
  <1> HIDE DEF ts
  <1>3. NRows(t) = N /\ W \in Nat
    <2>1. 1 \in 1 .. N
      OBVIOUS
    <2>2. QED
      BY <1>2, <2>1 DEF IsTable, IsSeq, NRows, NCols
  <1>4. \A r \in 1 .. N : CarriesRow(t, ts, r)
    BY <1>2, WholeCarries
  <1>5. ASSUME sh # << >> PROVE \A r \in 1 .. N : CarriesRow(u, ts, r)
    <2>1. total = N * W
      <3>1. 1 \in 1 .. N
        OBVIOUS
      <3>2. QED
        BY <1>2, <3>1, FlatCells
    <2> HIDE DEF total, W, flat, t
    <2>2. rows = N /\ cols = W
      <3>1. CASE sh = <<-1>>
        <4>1. rows = N /\ cols = total \div N
          BY <1>3, <3>1
        <4>2. QED
          BY <1>3, <2>1, <4>1, DividesOut
      <3>2. CASE sh = <<W>>
        <4>1. Len(sh) = 1 /\ sh[1] = W
          BY <3>2
        <4>2. W # -1
          BY <1>3
        <4>3. Len(sh) < 2
          BY ONLY <4>1
        <4>4. rows = N
          BY <1>3, <4>3, Zenon
        <4> HIDE DEF rows
        <4>5. cols = W
          BY <4>1, <4>2
        <4>6. QED
          BY <4>4, <4>5
      <3>3. CASE W # 0 /\ sh = <<-1, W>>
        <4>1. rows = total \div W /\ cols = W
          BY <1>3, <3>3
        <4>2. N * W = W * N
          BY <1>3
        <4>3. QED
          BY <1>3, <2>1, <3>3, <4>1, <4>2, DividesOut
      <3>4. QED
        BY <1>2, <1>5, <3>1, <3>2, <3>3 DEF KeepsGrid
    <2> HIDE DEF rows, cols
    <2>3. u.cells = G
      <3>1. d = [type |-> d.type, cells |-> d.cells]
        <4>1. t = [type |-> t.type, cells |-> t.cells]
          BY <1>2 DEF IsTable
        <4>2. d = t \/ d = [type |-> "f32", cells |-> t.cells]
          BY <4>1 DEF Dense
        <4>3. QED
          BY <4>1, <4>2
      <3> HIDE DEF d, G
      <3>2. [d EXCEPT !.cells = G] = [type |-> d.type, cells |-> G]
        BY <3>1, CellsChanged
      <3>3. QED
        BY <1>5, <3>2
    <2> HIDE DEF u
    <2>4. TAKE r \in 1 .. N
    <2> DEFINE b == (r - 1) * W
               row == t.cells[r]
               g == [c \in 1 .. W |-> flat[b + c]]
    <2>5. FoundAt(flat, b, W, row)
      BY <1>2, FlatCells DEF W, flat
    <2>6. u.cells[r] = g
      BY <2>2, <2>3
    <2>7. DOMAIN g = 1 .. W /\ \A c \in 1 .. W : g[c] = flat[b + c]
      OBVIOUS
    <2> HIDE DEF g, b, row
    <2>8. DOMAIN row = 1 .. W
      BY <2>5, IsSeqDomain DEF FoundAt
    <2>9. Range(g) \subseteq Range(row)
      BY <2>5, <2>7, <2>8 DEF FoundAt, Range
    <2>10. CarriesRow(t, ts, r)
      BY <1>4
    <2>11. QED
      BY <2>6, <2>9, <2>10 DEF CarriesRow, row
  <1>6. \A r \in 1 .. N : CarriesRow(u, ts, r)
    BY <1>4, <1>5
  <1> HIDE DEF u
  <1>7. Carries(Gives(<<u>>), ts, N)
    BY <1>6, OneCarries
  <1>8. QED
    BY <1>1, <1>7 DEF ts

-----------------------------------------------------------------------------

\* A call that only moves values, of what is there.
WithinReach(x, N) ==
  LET ts   == x.in
      cols == Attr(x, "indices", << >>)
  IN  /\ AreTables(ts, N)
      /\ x.op \notin {"Identity", "Reshape"} => AreNumbers(ts, N)
      /\ x.op \in {"Gather", "TakeSlots"} => Len(cols) \in Nat
      /\ x.op = "Gather"    => \A j \in 1 .. Len(cols) : cols[j] + 1 \in Cols(ts[1])
      /\ x.op = "TakeSlots" => \A j \in 1 .. Len(cols) : cols[j] + 1 \in Cols(Beside(ts))
      /\ x.op = "Split"     => AreSections(Attr(x, "sections", << >>), NCols(ts[1]))
      /\ x.op = "Select"    => AreChosen(ts, N)
      /\ x.op = "Reshape"   => KeepsGrid(Attr(x, "new_shape", << >>), NCols(ts[1]))

LEMMA MovesCarry ==
  ASSUME NEW N \in Nat \ {0}, NEW x, x.op \in Copying, x.in # << >>, x.outs \in Nat, WithinReach(x, N)
  PROVE  Carries(Answer(x), x.in, N)
  <1> DEFINE cols == Attr(x, "indices", << >>)
             secs == Attr(x, "sections", << >>)
             sh == Attr(x, "new_shape", << >>)
  <1>1. Answer(x) = CoreKernel(x)
    BY CoreAnswer DEF Copying, CoreNames
  <1>2. AreTables(x.in, N)
    BY DEF WithinReach
  <1>3. CASE x.op = "Identity"
    <2>1. CoreKernel(x) = Identity(x)
      BY <1>3 DEF CoreKernel
    <2>2. QED
      BY <1>1, <1>2, <2>1, IdentityCarries
  <1>4. CASE x.op = "Concat"
    <2>1. CoreKernel(x) = Concat(x)
      BY <1>4 DEF CoreKernel
    <2>2. AreNumbers(x.in, N)
      BY <1>4 DEF WithinReach
    <2>3. QED
      BY <1>1, <1>2, <2>1, <2>2, ConcatCarries
  <1>5. CASE x.op = "Gather"
    <2>1. CoreKernel(x) = GatherColumns(x)
      BY <1>5 DEF CoreKernel
    <2>2. AreNumbers(x.in, N) /\ Len(cols) \in Nat /\ \A j \in 1 .. Len(cols) : cols[j] + 1 \in Cols(x.in[1])
      BY <1>5 DEF WithinReach
    <2>3. QED
      BY <1>1, <1>2, <2>1, <2>2, GatherCarries
  <1>6. CASE x.op = "TakeSlots"
    <2>1. CoreKernel(x) = TakeSlots(x)
      BY <1>6 DEF CoreKernel
    <2>2. AreNumbers(x.in, N) /\ Len(cols) \in Nat /\ \A j \in 1 .. Len(cols) : cols[j] + 1 \in Cols(Beside(x.in))
      BY <1>6 DEF WithinReach
    <2>3. QED
      BY <1>1, <1>2, <2>1, <2>2, TakeSlotsCarries
  <1>7. CASE x.op = "Split"
    <2>1. CoreKernel(x) = SplitColumns(x)
      BY <1>7 DEF CoreKernel
    <2>2. AreNumbers(x.in, N) /\ AreSections(secs, NCols(x.in[1]))
      BY <1>7 DEF WithinReach
    <2>3. QED
      BY <1>1, <1>2, <2>1, <2>2, SplitCarries
  <1>8. CASE x.op = "Select"
    <2>1. CoreKernel(x) = Select(x)
      BY <1>8 DEF CoreKernel
    <2>2. AreNumbers(x.in, N) /\ AreChosen(x.in, N)
      BY <1>8 DEF WithinReach
    <2>3. QED
      BY <1>1, <1>2, <2>1, <2>2, SelectCarries
  <1>9. CASE x.op = "Reshape"
    <2>1. CoreKernel(x) = Reshape(x)
      BY <1>9 DEF CoreKernel
    <2>2. KeepsGrid(sh, NCols(x.in[1]))
      BY <1>9 DEF WithinReach
    <2>3. QED
      BY <1>1, <1>2, <2>1, <2>2, ReshapeCarries
  <1>10. QED
    BY <1>3, <1>4, <1>5, <1>6, <1>7, <1>8, <1>9 DEF Copying

\* Row r of what a node wrote as o holds nothing but what it read.
MovedOnly(store, node, o, r) ==
  Range(store[o].cells[r]) \subseteq UNION {Range(store[node.in[i]].cells[r]) : i \in DOMAIN node.in}

\* So it is of a node that only moves values, where what it gave stands.
LEMMA StandsCarries ==
  ASSUME NEW node, NEW fns, NEW store, Stands(node, fns, store), node.op \in Copying,
         IsSeq(node.in), IsSeq(node.out), NEW N, WithinReach(Called(node, store, fns), N),
         NEW o \in Range(node.out) \cap DOMAIN store, NEW r \in 1 .. N
  PROVE  MovedOnly(store, node, o, r)
  <1> DEFINE x == Called(node, store, fns)
  <1>1. PICK V : StandsFrom(node, fns, V, store)
    BY DEF Stands
  <1> DEFINE y == Called(node, V, fns)
             got == Outcome(node, V, fns)
             ins == [i \in DOMAIN node.in |-> store[node.in[i]]]
  <1>2. PICK i \in DOMAIN got.out : store[o] = got.out[i]
    BY <1>1 DEF StandsFrom
  <1>3. node.in # << >> /\ node.out # << >> /\ got = Answer(y)
    <2>1. got = IF node.in = << >> \/ node.out = << >> THEN [ok |-> TRUE, out |-> << >>] ELSE Answer(y)
      BY DEF Outcome, Nothing, Eager, ExpressionNames, Copying
    <2> HIDE DEF got, y
    <2>2. got # [ok |-> TRUE, out |-> << >>]
      BY <1>2
    <2>3. QED
      BY <2>1, <2>2
  <1>4. y.in = ins /\ x.in = ins /\ y.op = node.op /\ x.op = node.op
        /\ y.attrs = node.attrs /\ x.attrs = node.attrs /\ y.outs = Len(node.out)
    <2>1. \A k \in DOMAIN node.in : V[node.in[k]] = store[node.in[k]]
      BY <1>1 DEF StandsFrom, Range
    <2>2. [k \in DOMAIN node.in |-> V[node.in[k]]] = ins
      BY <2>1
    <2> HIDE DEF ins
    <2>3. QED
      BY <2>2 DEF Called, ins
  <1>5. DOMAIN node.in = 1 .. Len(node.in) /\ Len(node.in) \in Nat \ {0} /\ Len(node.out) \in Nat
    BY <1>3 DEF IsSeq
  <1>6. ins # << >> /\ DOMAIN ins = DOMAIN node.in /\ 1 \in DOMAIN ins /\ Len(ins) = Len(node.in)
    <2>1. DOMAIN ins = DOMAIN node.in
      OBVIOUS
    <2> HIDE DEF ins
    <2>2. 1 \in DOMAIN ins /\ Len(ins) = Len(node.in)
      BY <1>5, <2>1
    <2>3. QED
      BY <2>1, <2>2
  <1> HIDE DEF x, y, got
  <1>7. WithinReach(y, N)
    <2>1. WithinReach(x, N)
      BY DEF x
    <2>2. \A name, def : Attr(y, name, def) = Attr(x, name, def)
      BY <1>4 DEF Attr
    <2> HIDE DEF ins
    <2>3. y.in = x.in /\ y.op = x.op
      BY <1>4
    <2>4. QED
      BY ONLY <2>1, <2>2, <2>3 DEF WithinReach
  <1>8. N \in Nat \ {0}
    <2>1. IsTable(ins[1], N)
      <3> HIDE DEF ins
      <3>1. QED
        BY <1>4, <1>5, <1>6, <1>7 DEF WithinReach, AreTables
    <2>2. N \in Nat
      BY <2>1 DEF IsTable, IsSeq
    <2>3. QED
      BY <2>2
  <1>9. Carries(Answer(y), y.in, N)
    <2>1. y.op \in Copying /\ y.in # << >> /\ y.outs \in Nat
      BY <1>4, <1>5, <1>6
    <2>2. QED
      BY <1>7, <1>8, <2>1, MovesCarry
  <1>10. Range(store[o].cells[r]) \subseteq RowHolds(ins, r)
    <2> HIDE DEF ins
    <2>1. QED
      BY <1>2, <1>3, <1>4, <1>9 DEF Carries, CarriesRow
  <1>11. RowHolds(ins, r) = UNION {Range(store[node.in[k]].cells[r]) : k \in DOMAIN node.in}
    BY DEF RowHolds
  <1>12. QED
    BY <1>10, <1>11 DEF MovedOnly

\* What the nodes that only move values were called with is within their reach.
CopiesWithin ==
  \A node \in {m \in Ran : m.op \in Copying} :
    WithinReach(Called(node, vs, job.fns), cut[slice])

\* Where no name is written twice and no index leads out of its table, a value
\* that goes through copying operators comes out unchanged, in the row it was
\* in, through whatever nodes and slices come after (op_gather, op_split,
\* op_select and their like, ValueStore::put).
THEOREM CopiesAreExact == OSpec => [](SingleWriter(job) /\ CopiesWithin => CopiesExact)
  <1>1. StandInv => (SingleWriter(job) /\ CopiesWithin => CopiesExact)
    <2> SUFFICES ASSUME StandInv, SingleWriter(job), CopiesWithin,
                        NEW node \in Ran, node.op \in Copying,
                        NEW o \in Range(node.out) \cap DOMAIN vs, NEW r \in SliceRows
                 PROVE  Range(vs[o].cells[r]) \subseteq
                          UNION {Range(In(node, i).cells[r]) : i \in DOMAIN node.in}
      BY DEF CopiesExact
    <2>1. slice # 0 /\ \E m \in 1 .. pc - 1 : node = job.nodes[m]
      BY DEF Ran
    <2>2. PICK m \in 1 .. pc - 1 : node = job.nodes[m]
      BY <2>1
    <2>3. pc \in 1 .. Len(job.nodes) + 1 /\ StandsTo(job, pc, vs)
      BY <2>1 DEF StandInv
    <2>4. m \in 1 .. Len(job.nodes)
      BY <2>3 DEF SingleWriter
    <2>5. IsSeq(node.in) /\ IsSeq(node.out)
      BY <2>2, <2>4 DEF SingleWriter
    <2>6. node.op # "OHENode"
      BY DEF Copying
    <2>7. Stands(node, job.fns, vs)
      BY <2>2, <2>3, <2>6 DEF StandsTo
    <2>8. WithinReach(Called(node, vs, job.fns), cut[slice])
      BY DEF CopiesWithin
    <2>9. r \in 1 .. cut[slice]
      BY DEF SliceRows
    <2> DEFINE N == cut[slice]
    <2> HIDE DEF N
    <2>10. WithinReach(Called(node, vs, job.fns), N) /\ r \in 1 .. N
      BY <2>8, <2>9 DEF N
    <2>11. MovedOnly(vs, node, o, r)
      BY <2>5, <2>7, <2>10, StandsCarries
    <2>12. QED
      BY <2>11 DEF In, MovedOnly
  <1>2. QED
    BY <1>1, AllStand, PTL

-----------------------------------------------------------------------------
(***************************************************************************)
(* Who wins                                                                *)
(***************************************************************************)

\* Of finitely many numbers one is the highest.
LEMMA HighestIs ==
  ASSUME NEW n \in Nat \ {0}, NEW f, \A i \in 1 .. n : f[i] \in Int
  PROVE  \E b \in 1 .. n : \A i \in 1 .. n : f[i] <= f[b]
  <1> DEFINE S == {k \in 0 .. n : k = 0 \/ \E b \in 1 .. k : \A i \in 1 .. k : f[i] <= f[b]}
  <1>1. 0 \in S
    OBVIOUS
  <1>2. ASSUME NEW k \in 1 .. n, k - 1 \in S PROVE k \in S
    <2>1. CASE k = 1
      <3>1. 1 .. 1 = {1}
        OBVIOUS
      <3>2. \E b \in 1 .. k : \A i \in 1 .. k : f[i] <= f[b]
        BY <2>1, <3>1
      <3>3. QED
        BY <3>2
    <2>2. CASE k # 1
      <3>1. PICK b \in 1 .. k - 1 : \A i \in 1 .. k - 1 : f[i] <= f[b]
        BY <1>2, <2>2
      <3>2. \A i \in 1 .. k : i \in 1 .. k - 1 \/ i = k
        OBVIOUS
      <3>3. f[b] \in Int /\ f[k] \in Int /\ b \in 1 .. k /\ k \in 1 .. k /\ \A i \in 1 .. k : f[i] \in Int
        OBVIOUS
      <3>4. CASE f[k] <= f[b]
        <4>1. \A i \in 1 .. k : f[i] <= f[b]
          BY <3>1, <3>2, <3>4
        <4>2. QED
          BY <3>3, <4>1
      <3>5. CASE ~(f[k] <= f[b])
        <4>1. \A i \in 1 .. k : f[i] <= f[k]
          BY <3>1, <3>2, <3>3, <3>5
        <4>2. QED
          BY <3>3, <4>1
      <3>6. QED
        BY <3>4, <3>5
    <2>3. QED
      BY <2>1, <2>2
  <1> HIDE DEF S
  <1>3. 0 .. n \subseteq S
    BY <1>1, <1>2, LoopInvariant
  <1>4. n \in S
    BY <1>3
  <1>5. QED
    BY <1>4 DEF S

LEMMA MinIsIn ==
  ASSUME NEW S, S \subseteq Nat, S # {}
  PROVE  Min(S) \in S /\ \A m \in S : Min(S) <= m
  <1>1. \E n \in S : \A m \in S : n <= m
    BY LeastOf
  <1>2. QED
    BY <1>1 DEF Min

\* Column l is the first of the highest of a row of numbers.
FirstHighest(row, l) ==
  NaN \notin Range(row) => \A c \in DOMAIN row : row[c] <= row[l] /\ (c < l => row[c] < row[l])

\* BestOf finds it, and says its place from zero.
LEMMA BestIs ==
  ASSUME NEW W \in Nat \ {0}, NEW row, row = [c \in 1 .. W |-> row[c]],
         \A c \in 1 .. W : row[c] \in Int
  PROVE  BestOf(row) + 1 \in 1 .. W /\ BestOf(row) = (BestOf(row) + 1) - 1
         /\ FirstHighest(row, BestOf(row) + 1)
  <1> DEFINE nums == {c \in DOMAIN row : row[c] # NaN}
             best == {c \in nums : \A d \in nums : row[d] <= row[c]}
             l == Min(best)
  <1>1. nums = 1 .. W /\ DOMAIN row = 1 .. W
    BY OperatorAssumption
  <1>2. PICK b \in 1 .. W : \A c \in 1 .. W : row[c] <= row[b]
    BY HighestIs
  <1>3. b \in best
    BY <1>1, <1>2
  <1>4. best \subseteq 1 .. W /\ best \subseteq Nat /\ best # {}
    BY <1>1, <1>3
  <1>5. l \in best /\ \A m \in best : l <= m
    <2> HIDE DEF best
    <2>1. QED
      BY <1>4, MinIsIn
  <1>6. BestOf(row) = l - 1
    <2>1. BestOf(row) = IF best = {} THEN 0 ELSE l - 1
      BY DEF BestOf
    <2>2. QED
      BY <1>4, <2>1
  <1> HIDE DEF l
  <1>7. l \in 1 .. W /\ \A d \in 1 .. W : row[d] <= row[l]
    BY <1>1, <1>5
  <1>8. ASSUME NEW c \in 1 .. W, c < l PROVE row[c] < row[l]
    <2>1. c \notin best
      <3> HIDE DEF best
      <3>1. QED
        BY <1>4, <1>5, <1>7, <1>8
    <2>2. PICK d \in 1 .. W : ~(row[d] <= row[c])
      BY <1>1, <2>1
    <2>3. row[d] <= row[l] /\ row[d] \in Int /\ row[c] \in Int /\ row[l] \in Int
      BY <1>7
    <2>4. QED
      BY <2>2, <2>3
  <1>9. BestOf(row) + 1 = l /\ BestOf(row) = l - 1
    BY <1>6, <1>7
  <1>10. FirstHighest(row, l)
    BY <1>1, <1>7, <1>8 DEF FirstHighest
  <1>11. QED
    BY <1>7, <1>9, <1>10

\* A label for each row, stored as a float.
LEMMA LabelsAre ==
  ASSUME NEW N \in Nat \ {0}, NEW g, DOMAIN g = 1 .. N, NEW r \in 1 .. N
  PROVE  Labels(g).cells[r][1] = Narrow(g[r])
  <1> DEFINE G == [q \in 1 .. N |-> <<g[q]>>]
  <1>1. Labels(g) = Stored("f32", G)
    BY DEF Labels
  <1>2. IsSeq(G) /\ Len(G) = N
    BY MadeSeq
  <1>3. \A q \in 1 .. N : IsSeq(G[q]) /\ Len(G[q]) = 1 /\ G[q][1] = g[q]
    <2>1. TAKE q \in 1 .. N
    <2> DEFINE v == g[q]
               w == <<v>>
    <2>2. G[q] = w
      OBVIOUS
    <2> HIDE DEF v, G
    <2>3. Len(w) = 1 /\ IsSeq(w) /\ w[1] = v
      BY DEF IsSeq
    <2>4. QED
      BY <2>2, <2>3 DEF v
  <1> HIDE DEF G
  <1>4. AreRows(G, N, 1)
    BY <1>2, <1>3 DEF AreRows
  <1> DEFINE row == G[r]
             u == Stored("f32", G)
  <1>5. u.cells[r] = HeldRow("f32", row)
    BY <1>4, StoredIs
  <1>6. IsSeq(row) /\ Len(row) = 1 /\ row[1] = g[r]
    BY <1>3
  <1> HIDE DEF row, u
  <1>7. HeldRow("f32", row)[1] = Hold("f32", row[1])
    BY <1>6, HeldRowIs
  <1>8. QED
    BY <1>1, <1>5, <1>6, <1>7 DEF Hold, u

\* A one for each of a set of places sums to how many there are.
LEMMA OnesCount ==
  ASSUME NEW n \in Nat, NEW A, A \subseteq 1 .. n, NEW s, s = [k \in 1 .. n |-> IF k \in A THEN 1 ELSE 0]
  PROVE  Sum(s) = Cardinality(A) /\ Cardinality(A) \in Nat /\ Cardinality(A) <= n
  <1> DEFINE upto(k) == A \cap 1 .. k
             off == [k \in 0 .. n |-> Cardinality(upto(k))]
  <1>1. IsSeq(s) /\ Len(s) = n /\ \A i \in 1 .. n : s[i] \in Nat /\ s[i] = IF i \in A THEN 1 ELSE 0
    <2>1. IsSeq(s) /\ Len(s) = n
      <3>1. Len(s) = n
        OBVIOUS
      <3>2. QED
        BY <3>1 DEF IsSeq
    <2>2. QED
      BY <2>1
  <1>2. ASSUME NEW k \in 0 .. n PROVE IsFiniteSet(upto(k)) /\ Cardinality(upto(k)) \in Nat
    <2>1. IsFiniteSet(1 .. k)
      BY FS_Interval
    <2>2. IsFiniteSet(upto(k))
      BY <2>1, FS_Subset
    <2>3. QED
      BY <2>2, FS_CardinalityType
  <1>3. Cardinality(upto(0)) = 0
    <2>1. upto(0) = {}
      OBVIOUS
    <2>2. QED
      BY <2>1, FS_EmptySet
  <1>4. ASSUME NEW k \in 1 .. n PROVE Cardinality(upto(k)) = Cardinality(upto(k - 1)) + s[k]
    <2>1. k - 1 \in 0 .. n /\ k \notin upto(k - 1)
      OBVIOUS
    <2>2. CASE k \in A
      <3>1. upto(k) = upto(k - 1) \cup {k}
        BY <2>2
      <3>2. Cardinality(upto(k)) = Cardinality(upto(k - 1)) + 1
        <4> HIDE DEF upto
        <4>1. QED
          BY <1>2, <2>1, <3>1, FS_AddElement
      <3>3. QED
        BY <1>1, <2>2, <3>2
    <2>3. CASE k \notin A
      <3>1. upto(k) = upto(k - 1)
        BY <2>3
      <3>2. Cardinality(upto(k - 1)) \in Nat /\ s[k] = 0
        BY <1>1, <1>2, <2>1, <2>3
      <3> HIDE DEF upto
      <3>3. QED
        BY <3>1, <3>2
    <2>4. QED
      BY <2>2, <2>3
  <1> HIDE DEF upto
  <1>5. EndsAt(off, s)
    <2>1. off \in [0 .. n -> Nat]
      BY <1>2
    <2>2. \A k \in 0 .. n : off[k] = Cardinality(upto(k))
      OBVIOUS
    <2> HIDE DEF off
    <2>3. off[0] = 0
      BY <1>3, <2>2
    <2>4. \A k \in 1 .. n : k - 1 \in 0 .. n /\ k \in 0 .. n
      OBVIOUS
    <2>5. \A k \in 1 .. n : off[k] = off[k - 1] + s[k]
      BY <1>4, <2>2, <2>4
    <2>6. QED
      BY <1>1, <2>1, <2>3, <2>5 DEF EndsAt
  <1>6. Sum(s) = off[n]
    <2> HIDE DEF off
    <2>1. QED
      BY <1>1, <1>5, SumEnds
  <1>7. off[n] = Cardinality(A)
    <2>1. upto(n) = A
      BY DEF upto
    <2>2. QED
      BY <2>1
  <1>8. IsFiniteSet(1 .. n) /\ Cardinality(1 .. n) = n
    BY FS_Interval
  <1>9. Cardinality(A) \in Nat /\ Cardinality(A) <= n
    <2>1. IsFiniteSet(A) /\ Cardinality(A) <= Cardinality(1 .. n)
      BY <1>8, FS_Subset
    <2>2. QED
      BY <1>8, <2>1, FS_CardinalityType
  <1>10. QED
    BY <1>6, <1>7, <1>9

\* Of votes, the winner is a label no other has more votes than.
LEMMA WinnerIs ==
  ASSUME NEW votes, NEW n \in Nat, DOMAIN votes # {},
         \A l \in DOMAIN votes : votes[l] \in Nat /\ votes[l] <= n,
         NEW order, Len(order) \in Nat, \A l \in DOMAIN votes : \E i \in 1 .. Len(order) : order[i] = l
  PROVE  Winner(votes, order) \in DOMAIN votes /\ \A m \in DOMAIN votes : votes[m] <= votes[Winner(votes, order)]
  <1> DEFINE most == {l \in DOMAIN votes : \A m \in DOMAIN votes : votes[m] <= votes[l]}
             first(i) == order[i] \in most /\ \A j \in 1 .. i - 1 : order[j] \notin most
             at == CHOOSE i \in 1 .. Len(order) : first(i)
  <1>1. most # {}
    <2> DEFINE V == {votes[l] : l \in DOMAIN votes}
    <2>1. V \subseteq Nat /\ V # {} /\ \A v \in V : v <= n
      OBVIOUS
    <2>2. PICK v \in V : \A w \in V : v >= w
      <3> HIDE DEF V
      <3>1. QED
        BY <2>1, GreatestOf
    <2>3. PICK l \in DOMAIN votes : votes[l] = v
      BY <2>2
    <2>4. \A m \in DOMAIN votes : votes[m] <= votes[l]
      BY <2>2, <2>3
    <2>5. QED
      BY <2>4
  <1>2. Winner(votes, order) = order[at]
    BY DEF Winner
  <1>3. most \subseteq DOMAIN votes
    OBVIOUS
  <1> DEFINE S == {i \in 1 .. Len(order) : order[i] \in most}
  <1>4. S \subseteq Nat /\ S # {}
    <2> HIDE DEF most
    <2>1. QED
      BY <1>1, <1>3
  <1>5. PICK i \in S : \A j \in S : i <= j
    <2> HIDE DEF S
    <2>1. QED
      BY <1>4, LeastOf
  <1>6. i \in 1 .. Len(order) /\ first(i)
    <2> HIDE DEF most
    <2>1. \A j \in 1 .. i - 1 : j \in 1 .. Len(order) /\ ~(i <= j)
      BY <1>5
    <2>2. QED
      BY <1>5, <2>1
  <1> HIDE DEF S, most
  <1>7. at \in 1 .. Len(order) /\ first(at)
    BY <1>6
  <1> HIDE DEF at
  <1>8. order[at] \in most
    BY <1>7
  <1> DEFINE w == order[at]
  <1> HIDE DEF w
  <1>9. w \in DOMAIN votes /\ \A m \in DOMAIN votes : votes[m] <= votes[w]
    BY <1>8 DEF most, w
  <1>10. QED
    BY <1>2, <1>9 DEF w

\* A table of whole numbers and gaps, the places of whose columns are floats.
AreScores(t, N) ==
  /\ t.type \in {"f32", "f64"} /\ 1 \in Cols(t)
  /\ \A r \in 1 .. N : \A c \in Cols(t) : t.cells[r][c] \in Int \cup {NaN}
  /\ \A c \in Cols(t) : Narrow(c - 1) = c - 1

\* A single vote an input in each row, for a label that is a float and that the
\* order of the votes has a place for.
AreVotes(ts, N, order) ==
  /\ Len(order) \in Nat
  /\ \A k \in 1 .. Len(ts) :
       /\ ts[k].type \in {"f32", "f64"} /\ 1 \in Cols(ts[k])
       /\ \A r \in 1 .. N : LET l == ts[k].cells[r][1] IN
            Narrow(l) = l /\ \E i \in 1 .. Len(order) : order[i] = l

\* ArgMax says the first of the highest.
LEMMA ArgMaxWins ==
  ASSUME NEW N \in Nat \ {0}, NEW x, x.op = "ArgMax", AreTables(x.in, N), x.in # << >>,
         AreScores(x.in[1], N), NEW r \in 1 .. N
  PROVE  Answer(x) = ArgMax(x) /\ FirstHighest(x.in[1].cells[r], ArgMax(x).out[1].cells[r][1] + 1)
  <1>1. Answer(x) = ArgMax(x)
    <2>1. Answer(x) = CoreKernel(x)
      BY CoreAnswer DEF CoreNames
    <2>2. QED
      BY <2>1 DEF CoreKernel
  <1> DEFINE t == x.in[1]
             W == NCols(t)
             row == t.cells[r]
             g == [q \in 1 .. N |-> BestOf(RowOf(t, q))]
             u == Labels(g)
             l == BestOf(RowOf(t, r))
  <1>2. IsTable(t, N) /\ t.type # "str" /\ AreScores(t, N)
    BY DEF AreTables, IsSeq, AreScores
  <1>3. NRows(t) = N
    BY <1>2 DEF IsTable, NRows
  <1>4. ArgMax(x).out[1] = u
    BY <1>3 DEF ArgMax, Gives, Rows
  <1> HIDE DEF t
  <1>5. DOMAIN row = 1 .. W /\ W \in Nat \ {0} /\ Cols(t) = 1 .. W
    <2>1. IsSeq(row) /\ Len(row) = W
      BY <1>2 DEF IsTable
    <2>2. Cols(t) = 1 .. W /\ 1 \in Cols(t)
      BY <1>2 DEF Cols, AreScores
    <2>3. QED
      BY <2>1, <2>2, IsSeqDomain DEF IsSeq
  <1>6. RowOf(t, r) = [c \in 1 .. W |-> row[c]]
    <2>1. \A c \in 1 .. W : Get(t, r, c) = row[c]
      BY <1>2, <1>5, ReadIs
    <2>2. QED
      BY <1>5, <2>1 DEF RowOf
  <1>7. \A c \in 1 .. W : row[c] \in Int \cup {NaN}
    BY <1>2, <1>5 DEF AreScores
  <1>8. u.cells[r][1] = Narrow(l)
    <2>1. DOMAIN g = 1 .. N /\ g[r] = l
      OBVIOUS
    <2> HIDE DEF g, l
    <2>2. QED
      BY <2>1, LabelsAre
  <1> HIDE DEF u, W, row
  <1>9. ASSUME NaN \notin Range(row)
        PROVE  FirstHighest(row, u.cells[r][1] + 1)
    <2> DEFINE s == [c \in 1 .. W |-> row[c]]
    <2>1. \A c \in 1 .. W : row[c] \in Int
      BY <1>5, <1>7, <1>9 DEF Range
    <2>2. s = [c \in 1 .. W |-> s[c]] /\ \A c \in 1 .. W : s[c] = row[c] /\ s[c] \in Int
      BY <2>1
    <2>3. DOMAIN s = 1 .. W /\ l = BestOf(s)
      BY <1>6
    <2> HIDE DEF s, l
    <2>4. l + 1 \in 1 .. W /\ l = (l + 1) - 1 /\ FirstHighest(s, l + 1)
      BY <1>5, <2>2, <2>3, BestIs
    <2>5. Narrow(l) = l
      BY <1>2, <1>5, <2>4 DEF AreScores
    <2>6. Range(s) = Range(row)
      BY <1>5, <2>2, <2>3 DEF Range
    <2> DEFINE m == l + 1
    <2>7. m \in 1 .. W /\ FirstHighest(s, m) /\ u.cells[r][1] + 1 = m
      BY <1>8, <2>4, <2>5
    <2> HIDE DEF m
    <2>8. FirstHighest(row, m)
      BY <1>5, <2>2, <2>3, <2>6, <2>7 DEF FirstHighest
    <2>9. QED
      BY <2>7, <2>8
  <1>10. FirstHighest(row, u.cells[r][1] + 1)
    BY <1>9 DEF FirstHighest
  <1>11. QED
    BY <1>1, <1>4, <1>10 DEF row, t

\* The inputs whose vote in row r is for l, and a label none has more of.
VotesOf(ts, r, l) == Cardinality({i \in DOMAIN ts : ts[i].cells[r][1] = l})
MostVotes(ts, r, l) == \A i \in DOMAIN ts : VotesOf(ts, r, ts[i].cells[r][1]) <= VotesOf(ts, r, l)

\* The votes of row r, a number for each label there is.
Tallied(votes, ts, r) ==
  /\ DOMAIN votes = {ts[k].cells[r][1] : k \in DOMAIN ts}
  /\ \A l \in DOMAIN votes : votes[l] = VotesOf(ts, r, l) /\ votes[l] \in Nat /\ votes[l] <= Len(ts)

LEMMA EqualWeights ==
  ASSUME NEW n \in Nat \ {0}
  PROVE  \A k \in 1 .. n : Weights(<< >>, n)[k] = 1
  BY DEF Weights

\* With equal weights, the votes for a label are the inputs that name it.
LEMMA VotesAre ==
  ASSUME NEW N \in Nat \ {0}, NEW x, AreTables(x.in, N), x.in # << >>,
         NEW order, AreVotes(x.in, N, order), NEW r \in 1 .. N,
         NEW votes, votes = Votes(x, Weights(<< >>, Len(x.in)), r)
  PROVE  Tallied(votes, x.in, r)
  <1> DEFINE ts == x.in
             n == Len(ts)
             ws == Weights(<< >>, n)
             cast == [k \in 1 .. n |-> Get(ts[k], r, 1)]
             at(l) == {k \in 1 .. n : cast[k] = l}
             ones(l) == [k \in 1 .. n |-> IF cast[k] = l THEN ws[k] ELSE 0]
             marks(l) == [k \in 1 .. n |-> IF k \in at(l) THEN 1 ELSE 0]
  <1>1. n \in Nat \ {0} /\ DOMAIN ts = 1 .. n
    BY DEF AreTables, IsSeq
  <1>2. votes = [l \in Range(cast) |-> Sum(ones(l))]
    BY DEF Votes
  <1>3. \A k \in 1 .. n : cast[k] = ts[k].cells[r][1]
    <2> TAKE k \in 1 .. n
    <2>1. IsTable(ts[k], N) /\ ts[k].type # "str" /\ 1 \in Cols(ts[k])
      BY DEF AreTables, AreVotes
    <2>2. QED
      BY <2>1, ReadIs
  <1>4. \A k \in 1 .. n : ws[k] = 1
    <2> HIDE DEF n
    <2>1. QED
      BY <1>1, EqualWeights
  <1> HIDE DEF ws, ts, n
  <1>5. DOMAIN votes = {ts[k].cells[r][1] : k \in DOMAIN ts}
    <2>1. DOMAIN votes = {cast[k] : k \in 1 .. n}
      BY <1>2 DEF Range
    <2> HIDE DEF cast
    <2>2. \A k \in 1 .. n : cast[k] = ts[k].cells[r][1]
      BY <1>3
    <2>3. {cast[k] : k \in 1 .. n} = {ts[k].cells[r][1] : k \in 1 .. n}
      BY ONLY <2>2
    <2>4. QED
      BY <1>1, <2>1, <2>3
  <1> HIDE DEF cast
  <1>6. ASSUME NEW l \in DOMAIN votes
        PROVE  votes[l] = VotesOf(ts, r, l) /\ votes[l] \in Nat /\ votes[l] <= n
    <2>1. votes[l] = Sum(ones(l))
      BY <1>2
    <2>2. ones(l) = marks(l)
      BY <1>4
    <2> DEFINE A == at(l)
               s == marks(l)
    <2>3. A \subseteq 1 .. n /\ s = [k \in 1 .. n |-> IF k \in A THEN 1 ELSE 0]
      OBVIOUS
    <2>4. A = {i \in DOMAIN ts : ts[i].cells[r][1] = l}
      BY <1>1, <1>3
    <2>5. votes[l] = Sum(s)
      BY <2>1, <2>2
    <2> HIDE DEF A, s
    <2>6. Sum(s) = Cardinality(A) /\ Cardinality(A) \in Nat /\ Cardinality(A) <= n
      BY <1>1, <2>3, OnesCount
    <2>7. QED
      BY <2>4, <2>5, <2>6 DEF VotesOf
  <1>7. QED
    BY <1>5, <1>6 DEF ts, n, Tallied

\* MajorityVote says one of the most frequent.
LEMMA MajorityWins ==
  ASSUME NEW N \in Nat \ {0}, NEW x, x.op = "MajorityVote", AreTables(x.in, N), x.in # << >>,
         AreVotes(x.in, N, x.order), NEW r \in 1 .. N
  PROVE  Answer(x) = MajorityVote(x) /\ MostVotes(x.in, r, MajorityVote(x).out[1].cells[r][1])
  <1>1. Answer(x) = MajorityVote(x)
    <2>1. Answer(x) = CoreKernel(x)
      BY CoreAnswer DEF CoreNames
    <2>2. QED
      BY <2>1 DEF CoreKernel
  <1> DEFINE ts == x.in
             n == Len(ts)
             order == x.order
             ws == Weights(<< >>, n)
             votes == Votes(x, ws, r)
             g == [q \in 1 .. N |-> Winner(Votes(x, ws, q), order)]
             u == Labels(g)
             w == Winner(votes, order)
  <1>2. n \in Nat \ {0} /\ DOMAIN ts = 1 .. n /\ IsTable(ts[1], N)
    BY DEF AreTables, IsSeq
  <1>3. MajorityVote(x).out[1] = u
    <2>1. NRows(x.in[1]) = N
      BY <1>2 DEF IsTable, NRows
    <2>2. QED
      BY <2>1 DEF MajorityVote, Gives, Rows
  <1>4. u.cells[r][1] = Narrow(w)
    <2>1. DOMAIN g = 1 .. N /\ g[r] = w
      OBVIOUS
    <2> HIDE DEF g, w
    <2>2. QED
      BY <2>1, LabelsAre
  <1> HIDE DEF u
  <1>5. /\ DOMAIN votes = {ts[k].cells[r][1] : k \in DOMAIN ts}
        /\ \A l \in DOMAIN votes : votes[l] = VotesOf(ts, r, l) /\ votes[l] \in Nat /\ votes[l] <= n
    <2> DEFINE v == votes
    <2>1. v = Votes(x, Weights(<< >>, Len(x.in)), r)
      OBVIOUS
    <2> HIDE DEF v
    <2>2. Tallied(v, x.in, r)
      BY <2>1, VotesAre
    <2>3. Tallied(votes, ts, r)
      BY <2>2 DEF v
    <2> HIDE DEF votes, ts
    <2>4. QED
      BY <2>3 DEF Tallied
  <1>6. \A k \in DOMAIN ts : LET l == ts[k].cells[r][1] IN
          Narrow(l) = l /\ \E i \in 1 .. Len(order) : order[i] = l
    BY <1>2 DEF AreVotes
  <1>7. Len(order) \in Nat
    BY DEF AreVotes
  <1> HIDE DEF votes, ts, n, order
  <1>8. w \in DOMAIN votes /\ \A m \in DOMAIN votes : votes[m] <= votes[w]
    <2>1. DOMAIN votes # {}
      <3>1. 1 \in DOMAIN ts
        BY <1>2
      <3>2. ts[1].cells[r][1] \in DOMAIN votes
        BY <1>5, <3>1
      <3>3. QED
        BY <3>2
    <2>2. \A l \in DOMAIN votes : \E i \in 1 .. Len(order) : order[i] = l
      BY <1>5, <1>6
    <2>3. QED
      BY <1>2, <1>5, <1>7, <2>1, <2>2, WinnerIs
  <1> HIDE DEF w
  <1>9. Narrow(w) = w
    BY <1>5, <1>6, <1>8
  <1>10. MostVotes(ts, r, w)
    <2> SUFFICES ASSUME NEW i \in DOMAIN ts
                 PROVE  VotesOf(ts, r, ts[i].cells[r][1]) <= VotesOf(ts, r, w)
      BY DEF MostVotes
    <2> DEFINE m == ts[i].cells[r][1]
    <2>1. m \in DOMAIN votes
      BY <1>5
    <2> HIDE DEF m
    <2>2. votes[m] <= votes[w] /\ votes[m] = VotesOf(ts, r, m) /\ votes[w] = VotesOf(ts, r, w)
      BY <1>5, <1>8, <2>1
    <2>3. QED
      BY <2>2 DEF m
  <1>11. QED
    BY <1>1, <1>3, <1>4, <1>9, <1>10 DEF ts

\* A call of an operator that chooses, among what it can choose from.
Choosing == {"ArgMax", "MajorityVote"}
Contest(x, N) ==
  /\ AreTables(x.in, N)
  /\ x.op = "ArgMax"       => AreScores(x.in[1], N)
  /\ x.op = "MajorityVote" => AreVotes(x.in, N, x.order)

\* The choice between these inputs in row r, and the label of the choice.
Wins(op, ts, r, l) ==
  /\ op = "ArgMax"       => FirstHighest(ts[1].cells[r], l + 1)
  /\ op = "MajorityVote" => MostVotes(ts, r, l)

\* Both operators answer with one tensor, of the winners.
LEMMA ContestWon ==
  ASSUME NEW N \in Nat \ {0}, NEW x, x.op \in Choosing, x.in # << >>, Contest(x, N), NEW r \in 1 .. N
  PROVE  DOMAIN Answer(x).out = {1} /\ Wins(x.op, x.in, r, Answer(x).out[1].cells[r][1])
  <1>1. AreTables(x.in, N)
    BY DEF Contest
  <1>2. CASE x.op = "ArgMax"
    <2>1. AreScores(x.in[1], N)
      BY <1>2 DEF Contest
    <2>2. Answer(x) = ArgMax(x) /\ FirstHighest(x.in[1].cells[r], ArgMax(x).out[1].cells[r][1] + 1)
      BY <1>1, <1>2, <2>1, ArgMaxWins
    <2>3. DOMAIN ArgMax(x).out = {1}
      BY DEF ArgMax, Gives
    <2>4. QED
      BY <1>2, <2>2, <2>3 DEF Wins
  <1>3. CASE x.op = "MajorityVote"
    <2>1. AreVotes(x.in, N, x.order)
      BY <1>3 DEF Contest
    <2>2. Answer(x) = MajorityVote(x) /\ MostVotes(x.in, r, MajorityVote(x).out[1].cells[r][1])
      BY <1>1, <1>3, <2>1, MajorityWins
    <2>3. DOMAIN MajorityVote(x).out = {1}
      BY DEF MajorityVote, Gives
    <2>4. QED
      BY <1>3, <2>2, <2>3 DEF Wins
  <1>4. QED
    BY <1>2, <1>3 DEF Choosing

\* Where what it gave stands, the first name a node writes holds the winners.
LEMMA StandsWins ==
  ASSUME NEW node, NEW fns, NEW store, Stands(node, fns, store), node.op \in Choosing,
         IsSeq(node.in), IsSeq(node.out), node.in # << >>, node.out # << >>,
         NEW N, Contest(Called(node, store, fns), N), NEW r \in 1 .. N,
         NEW ins, ins = [i \in DOMAIN node.in |-> store[node.in[i]]]
  PROVE  Wins(node.op, ins, r, store[node.out[1]].cells[r][1])
  <1> DEFINE x == Called(node, store, fns)
  <1>1. PICK V : StandsFrom(node, fns, V, store)
    BY DEF Stands
  <1> DEFINE y == Called(node, V, fns)
             got == Outcome(node, V, fns)
             o == node.out[1]
  <1>2. got = Answer(y)
    BY DEF Outcome
  <1>3. y.in = ins /\ x.in = ins /\ y.op = node.op /\ x.op = node.op /\ y.order = x.order
    <2>1. \A k \in DOMAIN node.in : V[node.in[k]] = store[node.in[k]]
      BY <1>1 DEF StandsFrom, Range
    <2>2. [k \in DOMAIN node.in |-> V[node.in[k]]] = ins
      BY <2>1
    <2>3. QED
      BY <2>2 DEF Called
  <1>4. ins # << >> /\ 1 \in DOMAIN ins /\ 1 \in 1 .. Len(ins)
    <2>1. DOMAIN node.in = 1 .. Len(node.in) /\ Len(node.in) \in Nat \ {0}
      BY DEF IsSeq
    <2>2. DOMAIN ins = 1 .. Len(node.in)
      BY <2>1
    <2>3. Len(ins) = Len(node.in)
      BY <2>1, <2>2
    <2>4. QED
      BY <2>1, <2>2, <2>3
  <1>5. o \in Range(node.out) /\ 1 \in DOMAIN node.out
    BY DEF IsSeq, Range
  <1> HIDE DEF x, y, got
  <1>6. Contest(y, N)
    <2>1. Contest(x, N)
      BY DEF x
    <2>2. y.in = x.in /\ y.op = x.op /\ y.order = x.order
      BY <1>3
    <2>3. QED
      BY ONLY <2>1, <2>2 DEF Contest
  <1>7. N \in Nat \ {0}
    <2>1. IsTable(ins[1], N)
      BY <1>3, <1>4, <1>6 DEF Contest, AreTables
    <2>2. N \in Nat
      BY <2>1 DEF IsTable, IsSeq
    <2>3. QED
      BY <2>2
  <1>8. DOMAIN got.out = {1} /\ Wins(y.op, y.in, r, got.out[1].cells[r][1])
    <2>1. y.op \in Choosing /\ y.in # << >>
      BY <1>3, <1>4
    <2>2. QED
      BY <1>2, <1>6, <1>7, <2>1, ContestWon
  <1>9. o \in DOMAIN store
    BY <1>1, <1>5, <1>8 DEF StandsFrom, got
  <1>10. PICK i \in DOMAIN got.out : store[o] = got.out[i]
    BY <1>1, <1>5, <1>9 DEF StandsFrom, got
  <1>11. store[o] = got.out[1]
    BY <1>8, <1>10
  <1>12. QED
    BY <1>3, <1>8, <1>11

\* What the nodes that choose were called with can be chosen from.
ContestsFair ==
  \A node \in {m \in Ran : m.op \in Choosing} :
    node.in # << >> /\ node.out # << >> /\ Contest(Called(node, vs, job.fns), cut[slice])

\* So it is of every such node the current slice has been through.
LEMMA RanWins ==
  ASSUME StandInv, SingleWriter(job), ContestsFair,
         NEW node \in Ran, node.op \in Choosing, NEW r \in SliceRows,
         NEW ins, ins = [i \in DOMAIN node.in |-> vs[node.in[i]]]
  PROVE  1 \in DOMAIN node.in /\ Wins(node.op, ins, r, Out(node).cells[r][1])
  <1>1. slice # 0 /\ \E m \in 1 .. pc - 1 : node = job.nodes[m]
    BY DEF Ran
  <1>2. PICK m \in 1 .. pc - 1 : node = job.nodes[m]
    BY <1>1
  <1>3. pc \in 1 .. Len(job.nodes) + 1 /\ StandsTo(job, pc, vs)
    BY <1>1 DEF StandInv
  <1>4. m \in 1 .. Len(job.nodes)
    BY <1>3 DEF SingleWriter
  <1>5. IsSeq(node.in) /\ IsSeq(node.out)
    BY <1>2, <1>4 DEF SingleWriter
  <1>6. node.op # "OHENode"
    BY DEF Choosing
  <1>7. Stands(node, job.fns, vs)
    BY <1>2, <1>3, <1>6 DEF StandsTo
  <1>8. node.in # << >> /\ node.out # << >> /\ Contest(Called(node, vs, job.fns), cut[slice])
    BY DEF ContestsFair
  <1> DEFINE N == cut[slice]
  <1> HIDE DEF N
  <1>9. Contest(Called(node, vs, job.fns), N) /\ r \in 1 .. N
    BY <1>8 DEF N, SliceRows
  <1>10. Wins(node.op, ins, r, vs[node.out[1]].cells[r][1])
    BY <1>5, <1>7, <1>8, <1>9, StandsWins
  <1>11. QED
    BY <1>5, <1>8, <1>10 DEF IsSeq, Out

\* Where no name is written twice, each vote names a label and places are exact
\* as floats, the label that stands in the store is the one that won: the first of
\* the highest scores, or one no other has more votes than (op_argmax,
\* op_majority_vote).
THEOREM WinnersDoWin == OSpec => [](SingleWriter(job) /\ ContestsFair => WinnersWin)
  <1>1. ASSUME StandInv, SingleWriter(job), ContestsFair, NEW node \in Ran, NEW r \in SliceRows
        PROVE  /\ node.op = "ArgMax" => FirstHighest(In(node, 1).cells[r], Out(node).cells[r][1] + 1)
               /\ node.op = "MajorityVote" =>
                    \A i \in DOMAIN node.in :
                      VotesFor(node, r, In(node, i).cells[r][1]) <= VotesFor(node, r, Out(node).cells[r][1])
    <2> DEFINE ins == [i \in DOMAIN node.in |-> vs[node.in[i]]]
    <2>1. node.op \in Choosing => 1 \in DOMAIN node.in /\ Wins(node.op, ins, r, Out(node).cells[r][1])
      BY <1>1, RanWins
    <2>2. \A i \in DOMAIN node.in : ins[i] = In(node, i)
      BY DEF In
    <2>3. DOMAIN ins = DOMAIN node.in
      OBVIOUS
    <2> HIDE DEF ins
    <2>4. \A l : VotesFor(node, r, l) = VotesOf(ins, r, l)
      <3> TAKE l
      <3>1. {i \in DOMAIN node.in : In(node, i).cells[r][1] = l} = {i \in DOMAIN ins : ins[i].cells[r][1] = l}
        BY <2>2, <2>3
      <3>2. QED
        BY <3>1 DEF VotesFor, VotesOf
    <2>5. ASSUME node.op = "ArgMax"
          PROVE  FirstHighest(In(node, 1).cells[r], Out(node).cells[r][1] + 1)
      <3>1. 1 \in DOMAIN node.in /\ FirstHighest(ins[1].cells[r], Out(node).cells[r][1] + 1)
        BY <2>1, <2>5 DEF Choosing, Wins
      <3>2. QED
        BY <2>2, <3>1
    <2>6. ASSUME node.op = "MajorityVote", NEW i \in DOMAIN node.in
          PROVE  VotesFor(node, r, In(node, i).cells[r][1]) <= VotesFor(node, r, Out(node).cells[r][1])
      <3>1. MostVotes(ins, r, Out(node).cells[r][1])
        BY <2>1, <2>6 DEF Choosing, Wins
      <3>2. QED
        BY <2>2, <2>3, <2>4, <3>1 DEF MostVotes
    <2>7. QED
      BY <2>5, <2>6
  <1>2. StandInv => (SingleWriter(job) /\ ContestsFair => WinnersWin)
    BY <1>1 DEF WinnersWin, FirstHighest
  <1>3. QED
    BY <1>2, AllStand, PTL

-----------------------------------------------------------------------------
(***************************************************************************)
(* What an encoder keeps apart                                             *)
(***************************************************************************)

\* The categories a call has for feature f, in the order of the model file: those of
\* the attribute, or a part of the table between two offsets.
CatsName(x) == IF x.op = "LabelEncoder" THEN "labels" ELSE "categories"
OffsName(x) == IF x.op = "LabelEncoder" THEN "label_offsets" ELSE "category_offsets"
CatsTable(x) == Flat(x.refs[CatsName(x)])
CatsOffsets(x) ==
  IF OffsName(x) \in DOMAIN x.refs THEN Flat(x.refs[OffsName(x)]) ELSE <<0, Len(CatsTable(x))>>
Cats(x, f) ==
  IF x.op = "OHENode" THEN x.attrs["categories"][f]
  ELSE SubSeq(CatsTable(x), CatsOffsets(x)[f] + 1, CatsOffsets(x)[f + 1])
CatsWidth(x, f) ==
  IF x.op = "OHENode" THEN Len(x.attrs["categories"][f])
  ELSE CatsOffsets(x)[f + 1] - CatsOffsets(x)[f]

\* Offsets that give each feature a part of the table.
Tabled(x) ==
  /\ CatsName(x) \in DOMAIN x.refs /\ x.refs[CatsName(x)].type # "none" /\ IsSeq(CatsTable(x))
  /\ OffsName(x) \in DOMAIN x.refs => x.refs[OffsName(x)].type \notin {"none", "f64"}
  /\ IsSeq(CatsOffsets(x))
  /\ \A f \in 1 .. NFeatures(x) :
       /\ f + 1 \in 1 .. Len(CatsOffsets(x))
       /\ CatsOffsets(x)[f] \in Nat /\ CatsOffsets(x)[f + 1] \in Nat
       /\ CatsOffsets(x)[f] <= CatsOffsets(x)[f + 1] /\ CatsOffsets(x)[f + 1] <= Len(CatsTable(x))

Whole == {"LabelEncoder", "OrdinalEncoder", "TargetEncoder"}

\* What the cells of feature f are, and the kind its categories are of.
SameKinds(x, f) ==
  IsString(InputOf(x, f)) = (x.op = "OHENode" \/ x.refs[CatsName(x)].type = "str")

\* The code of feature f in a row of the answer.
CodeIn(x, row, f) ==
  IF x.op \in Whole THEN <<row[f]>>
  ELSE LET off == Sum([g \in 1 .. f - 1 |-> CatsWidth(x, g)])
       IN  SubSeq(row, off + 1, off + CatsWidth(x, f))

\* Tensor t has the codes of two rows equal exactly when it should.
TellsApart(x, t, f, N) ==
  \A r, q \in 1 .. N :
    (CodeIn(x, t.cells[r], f) = CodeIn(x, t.cells[q], f))
      <=> (Text(x, r, f) = Text(x, q, f) \/ {Text(x, r, f), Text(x, q, f)} \cap Range(Cats(x, f)) = {})

\* A search finds an entry equal to what it looks for, and none only where there is none.
LEMMA FindHits ==
  ASSUME NEW s, IsSeq(s), NaN \notin Range(s), NEW v
  PROVE  /\ Find(s, v) \in -1 .. Len(s) - 1
         /\ v \in Range(s) => Find(s, v) + 1 \in 1 .. Len(s) /\ s[Find(s, v) + 1] = v
         /\ v \notin Range(s) => Find(s, v) = -1
  <1> DEFINE hits == {k \in 1 .. Len(s) : s[k] = v /\ v # NaN}
  <1>1. Find(s, v) = IF hits = {} THEN -1 ELSE Min(hits) - 1
    BY DEF Find
  <1>2. DOMAIN s = 1 .. Len(s) /\ Len(s) \in Nat
    BY DEF IsSeq
  <1>3. v \in Range(s) => hits # {}
    BY <1>2 DEF Range
  <1>4. v \notin Range(s) => hits = {}
    BY <1>2 DEF Range
  <1>5. hits \subseteq 1 .. Len(s) /\ \A k \in hits : s[k] = v
    OBVIOUS
  <1> HIDE DEF hits
  <1>6. ASSUME hits # {} PROVE Min(hits) \in hits
    <2>1. hits \subseteq Nat
      BY <1>2, <1>5
    <2>2. QED
      BY <1>6, <2>1, MinIsIn
  <1>7. ASSUME v \in Range(s) PROVE Find(s, v) + 1 \in 1 .. Len(s) /\ s[Find(s, v) + 1] = v
    <2>1. Min(hits) \in 1 .. Len(s) /\ s[Min(hits)] = v /\ Find(s, v) = Min(hits) - 1
      BY <1>1, <1>3, <1>5, <1>6, <1>7
    <2>2. (Min(hits) - 1) + 1 = Min(hits)
      BY <1>2, <2>1
    <2>3. QED
      BY <2>1, <2>2
  <1>8. QED
    BY <1>1, <1>4, <1>7, FindIs

\* The position of a category tells it from the others, and from what is none.
LEMMA FindTells ==
  ASSUME NEW s, IsSeq(s), NaN \notin Range(s), NEW a, NEW b
  PROVE  (Find(s, a) = Find(s, b)) <=> (a = b \/ {a, b} \cap Range(s) = {})
  <1>1. /\ a \in Range(s) => Find(s, a) + 1 \in 1 .. Len(s) /\ s[Find(s, a) + 1] = a
        /\ a \notin Range(s) => Find(s, a) = -1
    BY FindHits
  <1>2. /\ b \in Range(s) => Find(s, b) + 1 \in 1 .. Len(s) /\ s[Find(s, b) + 1] = b
        /\ b \notin Range(s) => Find(s, b) = -1
    BY FindHits
  <1>3. Len(s) \in Nat
    BY DEF IsSeq
  <1>4. CASE a \in Range(s) /\ b \in Range(s)
    BY <1>1, <1>2, <1>4
  <1>5. CASE a \in Range(s) /\ b \notin Range(s)
    <2>1. Find(s, a) # -1
      BY <1>1, <1>3, <1>5
    <2>2. QED
      BY <1>2, <1>5, <2>1
  <1>6. CASE a \notin Range(s) /\ b \in Range(s)
    <2>1. Find(s, b) # -1
      BY <1>2, <1>3, <1>6
    <2>2. QED
      BY <1>1, <1>6, <2>1
  <1>7. CASE a \notin Range(s) /\ b \notin Range(s)
    BY <1>1, <1>2, <1>7
  <1>8. QED
    BY <1>4, <1>5, <1>6, <1>7

\* Whatever stands for the positions, if it is different for each.
LEMMA CodedTells ==
  ASSUME NEW x, NEW t, NEW f, NEW N, IsSeq(Cats(x, f)), NaN \notin Range(Cats(x, f)), NEW g,
         \A p, q \in -1 .. Len(Cats(x, f)) - 1 : g[p] = g[q] => p = q,
         \A r \in 1 .. N : CodeIn(x, t.cells[r], f) = g[Find(Cats(x, f), Text(x, r, f))]
  PROVE  TellsApart(x, t, f, N)
  <1> DEFINE s == Cats(x, f)
  <1>1. ASSUME NEW r \in 1 .. N, NEW q \in 1 .. N
        PROVE  (CodeIn(x, t.cells[r], f) = CodeIn(x, t.cells[q], f))
                 <=> (Text(x, r, f) = Text(x, q, f) \/ {Text(x, r, f), Text(x, q, f)} \cap Range(s) = {})
    <2> DEFINE a == Text(x, r, f)
               b == Text(x, q, f)
    <2>1. CodeIn(x, t.cells[r], f) = g[Find(s, a)] /\ CodeIn(x, t.cells[q], f) = g[Find(s, b)]
      OBVIOUS
    <2>2. \A i, j \in -1 .. Len(s) - 1 : g[i] = g[j] => i = j
      OBVIOUS
    <2>3. IsSeq(s) /\ NaN \notin Range(s)
      OBVIOUS
    <2> HIDE DEF s, a, b
    <2>4. Find(s, a) \in -1 .. Len(s) - 1 /\ Find(s, b) \in -1 .. Len(s) - 1
      BY <2>3, FindIs
    <2>5. (Find(s, a) = Find(s, b)) <=> (a = b \/ {a, b} \cap Range(s) = {})
      BY <2>3, FindTells
    <2>6. (CodeIn(x, t.cells[r], f) = CodeIn(x, t.cells[q], f)) <=> (a = b \/ {a, b} \cap Range(s) = {})
      BY <2>1, <2>2, <2>4, <2>5
    <2>7. QED
      BY <2>6 DEF a, b
  <1>2. QED
    BY <1>1 DEF TellsApart

\* A constant an attribute names, where no input stands at its slot.
LEMMA RefsRead ==
  ASSUME NEW x, Len(x.in) \in Nat, NEW k \in Nat, k > Len(x.in), NEW name
  PROVE  /\ name \in DOMAIN x.refs => /\ Resolve(x, k, name) = Stowed(x.refs[name])
                                      /\ Resolve64(x, k, name) = x.refs[name]
         /\ name \notin DOMAIN x.refs => Resolve(x, k, name) = NoTensor
  <1>1. ~(k <= Len(x.in))
    OBVIOUS
  <1>2. ASSUME name \in DOMAIN x.refs PROVE Resolve(x, k, name) = Stowed(x.refs[name])
    BY <1>1, <1>2 DEF Resolve
  <1>3. ASSUME name \in DOMAIN x.refs PROVE Resolve64(x, k, name) = x.refs[name]
    BY <1>2, <1>3 DEF Resolve64, Stowed
  <1>4. ASSUME name \notin DOMAIN x.refs PROVE Resolve(x, k, name) = NoTensor
    BY <1>1, <1>4 DEF Resolve
  <1>5. QED
    BY <1>2, <1>3, <1>4

\* The part of the table a kernel looks in is the feature's, whether the offsets are
\* given or not.
LEMMA PlacesAre ==
  ASSUME NEW N \in Nat \ {0}, NEW x, AreTables(x.in, N), x.in # << >>, x.op # "OHENode", Tabled(x),
         NEW f \in 1 .. NFeatures(x), NEW k \in Nat, k > Len(x.in),
         NEW offs, offs = FlatOr(Resolve(x, k, OffsName(x)), 0, 0)
  PROVE  /\ Own(CatsTable(x), offs, f) = Cats(x, f)
         /\ IsSeq(Cats(x, f)) /\ Len(Cats(x, f)) = CatsWidth(x, f) /\ CatsWidth(x, f) \in Nat
         /\ Begin(offs, f, Len(CatsTable(x))) = CatsOffsets(x)[f]
         /\ TargetBlock(offs, f, Len(CatsTable(x)), NFeatures(x)) = <<CatsOffsets(x)[f], CatsOffsets(x)[f + 1]>>
  <1> DEFINE table == CatsTable(x)
             n == Len(table)
             at == CatsOffsets(x)
             b == at[f]
             e == at[f + 1]
             K == NFeatures(x)
  <1>1. /\ IsSeq(table) /\ n \in Nat /\ IsSeq(at) /\ Len(at) \in Nat
        /\ f + 1 \in 1 .. Len(at) /\ b \in Nat /\ e \in Nat /\ b <= e /\ e <= n
    BY DEF Tabled, IsSeq
  <1>2. Len(x.in) \in Nat /\ K \in Nat /\ f \in Nat /\ f >= 1
    <2>1. K \in Nat
      BY FeaturesAre
    <2>2. QED
      BY <2>1 DEF AreTables, IsSeq
  <1>3. /\ Begin(offs, f, n) = b /\ End(offs, f, n) = e
        /\ TargetBlock(offs, f, n, K) = <<b, e>>
    <2>1. CASE OffsName(x) \in DOMAIN x.refs
      <3> DEFINE given == x.refs[OffsName(x)]
      <3>1. given.type \notin {"none", "f64"}
        BY <2>1 DEF Tabled
      <3>2. given # NoTensor
        BY <3>1 DEF NoTensor
      <3>3. Resolve(x, k, OffsName(x)) = given
        BY <1>2, <2>1, <3>1, RefsRead DEF Stowed
      <3>4. offs = at
        BY <2>1, <3>2, <3>3 DEF FlatOr, CatsOffsets
      <3> HIDE DEF table, n, at, b, e, K, given
      <3>5. b = offs[f] /\ e = offs[f + 1]
        BY <3>4 DEF b, e
      <3>6. f <= Len(offs) /\ f + 1 <= Len(offs) /\ ~(n < b) /\ ~(n < e)
        BY <1>1, <1>2, <3>4
      <3>7. Least(b, n) = b /\ Least(e, n) = e
        BY <1>1, <1>2 DEF Least
      <3>8. QED
        BY <3>5, <3>6, <3>7 DEF Begin, End, TargetBlock
    <2>2. CASE OffsName(x) \notin DOMAIN x.refs
      <3>1. at = <<0, n>>
        BY <2>2 DEF CatsOffsets
      <3>2. Len(at) = 2 /\ at[1] = 0 /\ at[2] = n
        BY <3>1
      <3> HIDE DEF at
      <3>3. f = 1
        BY <1>1, <1>2, <3>2
      <3>4. b = 0 /\ e = n
        BY <3>2, <3>3
      <3>5. offs = [i \in 1 .. 0 |-> 0]
        BY <1>2, <2>2, RefsRead DEF FlatOr
      <3>6. Len(offs) = 0
        BY <3>5
      <3> HIDE DEF table, n, b, e
      <3>7. ~(f <= Len(offs)) /\ ~(f + 1 <= Len(offs))
        BY <1>2, <3>6
      <3>8. K = 1
        <4>1. \A g \in 1 .. K : g + 1 \in 1 .. Len(at)
          BY DEF Tabled, at
        <4>2. K \in 1 .. K
          BY <1>2
        <4>3. K + 1 <= 2
          BY <3>2, <4>1, <4>2
        <4>4. QED
          BY <1>2, <4>2, <4>3
      <3>9. (f - 1) * (n \div K) = 0 /\ f * (n \div K) = n
        <4> HIDE DEF K
        <4>1. n \div 1 = n
          BY <1>1
        <4>2. QED
          BY <1>1, <3>3, <3>8, <4>1
      <3>10. QED
        BY <3>4, <3>7, <3>9 DEF Begin, End, TargetBlock
    <2>3. QED
      BY <2>1, <2>2
  <1>4. Own(table, offs, f) = SubSeq(table, b + 1, e) /\ Cats(x, f) = SubSeq(table, b + 1, e)
    <2>1. Cats(x, f) = SubSeq(table, b + 1, e)
      BY DEF Cats
    <2> HIDE DEF table, n, at, b, e
    <2>2. QED
      BY <1>3, <2>1 DEF Own, n
  <1>5. CatsWidth(x, f) = e - b
    BY DEF CatsWidth
  <1> DEFINE c == Cats(x, f)
             w == CatsWidth(x, f)
  <1>6. IsSeq(c) /\ Len(c) = w /\ w \in Nat
    <2>1. c = SubSeq(table, b + 1, e) /\ w = e - b
      BY <1>4, <1>5
    <2> HIDE DEF table, at, b, e, c, w
    <2>2. w \in Nat /\ e = b + w /\ b + w <= Len(table)
      BY <1>1, <2>1 DEF n
    <2>3. c = SubSeq(table, b + 1, b + w)
      BY <2>1, <2>2
    <2>4. QED
      BY <1>1, <2>2, <2>3, SubSeqIs
  <1>7. QED
    BY <1>3, <1>4, <1>6

\* A cell read as a number is the cell, where it is no string.
LEMMA CellsRead ==
  ASSUME NEW N \in Nat \ {0}, NEW x, AreTables(x.in, N), x.in # << >>,
         NEW f \in 1 .. NFeatures(x), NEW r \in 1 .. N, ~IsString(InputOf(x, f))
  PROVE  Num(x, r, f) = Text(x, r, f)
  <1> DEFINE t == InputOf(x, f)
             c == IF PerCol(x) THEN 1 ELSE f
  <1>1. Num(x, r, f) = Get(t, r, c) /\ Text(x, r, f) = t.cells[r][c] /\ t.type # "str"
    BY DEF Num, Text, IsString
  <1>2. IsTable(t, N) /\ NFeatures(x) \in Nat
    BY FeaturesAre
  <1>3. ASSUME NCols(t) = 1 PROVE c = 1
    <2>1. CASE PerCol(x)
      BY <2>1
    <2>2. CASE ~PerCol(x)
      <3>1. NFeatures(x) = 1
        BY <1>3, <2>2 DEF NFeatures, InputOf
      <3>2. f = 1
        BY <3>1
      <3>3. QED
        BY <2>2, <3>2
    <2>3. QED
      BY <2>1, <2>2
  <1> HIDE DEF t, c
  <1>4. NRows(t) = N
    BY <1>2 DEF IsTable, NRows
  <1>5. CASE NRows(t) = 1 /\ NCols(t) = 1
    <2>1. r = 1 /\ c = 1
      BY <1>3, <1>4, <1>5
    <2>2. QED
      BY <1>1, <1>5, <2>1 DEF Get
  <1>6. CASE ~(NRows(t) = 1 /\ NCols(t) = 1)
    BY <1>1, <1>6 DEF Get
  <1>7. QED
    BY <1>5, <1>6

\* Categories that are numbers are their own keys.
LEMMA KeysAre ==
  ASSUME NEW s, IsSeq(s), NaN \notin Range(s)
  PROVE  Keys(s) = s
  <1>1. DOMAIN s = 1 .. Len(s) /\ s = [k \in 1 .. Len(s) |-> s[k]]
    BY DEF IsSeq
  <1>2. \A k \in 1 .. Len(s) : s[k] # NaN
    BY <1>1 DEF Range
  <1>3. Keys(s) = [k \in 1 .. Len(s) |-> s[k]]
    BY <1>2 DEF Keys
  <1>4. QED
    BY <1>1, <1>3

\* The position of a cell is that of its text among the categories of its feature.
LEMMA PositionIs ==
  ASSUME NEW N \in Nat \ {0}, NEW x, AreTables(x.in, N), x.in # << >>, x.op \in Whole, Tabled(x),
         NEW f \in 1 .. NFeatures(x), SameKinds(x, f), IsString(InputOf(x, f)) = IsString(x.in[1]),
         NaN \notin Range(Cats(x, f)), NEW k \in Nat, k > Len(x.in),
         NEW offs, offs = FlatOr(Resolve(x, k, OffsName(x)), 0, 0), NEW r \in 1 .. N
  PROVE  PositionOf(x, x.refs[CatsName(x)], offs, r, f) = Find(Cats(x, f), Text(x, r, f))
  <1> DEFINE cats == x.refs[CatsName(x)]
             c == Cats(x, f)
             table == CatsTable(x)
  <1>1. x.op # "OHENode"
    BY DEF Whole
  <1>2. Own(table, offs, f) = c /\ IsSeq(c)
    BY <1>1, PlacesAre
  <1>3. table = Flat(cats)
    BY DEF CatsTable
  <1>4. IsString(x.in[1]) = IsString(cats)
    BY <1>1 DEF SameKinds, IsString
  <1>5. NaN \notin Range(c)
    OBVIOUS
  <1> HIDE DEF cats, c, table
  <1>6. CASE IsString(cats)
    BY <1>2, <1>3, <1>4, <1>6 DEF PositionOf, cats, c
  <1>7. CASE ~IsString(cats)
    <2>1. Num(x, r, f) = Text(x, r, f)
      BY <1>4, <1>7, CellsRead
    <2>2. Numbers(cats) = table
      BY <1>3, <1>7 DEF Numbers
    <2>3. Keys(Own(Numbers(cats), offs, f)) = c
      BY <1>2, <1>5, <2>2, KeysAre
    <2>4. QED
      BY <1>4, <1>7, <2>1, <2>3 DEF PositionOf, cats, c
  <1>8. QED
    BY <1>6, <1>7

\* An attribute is looked for behind the data.
LEMMA SlotBehind ==
  ASSUME NEW N, NEW x, AreTables(x.in, N), x.in # << >>
  PROVE  /\ Len(x.in) \in Nat \ {0}
         /\ \A k \in {2, 3} : Slot(x, k) \in Nat /\ Slot(x, k) > Len(x.in)
  <1>1. Len(x.in) \in Nat \ {0}
    BY DEF AreTables, IsSeq
  <1>2. ASSUME NEW k \in {2, 3} PROVE Slot(x, k) \in Nat /\ Slot(x, k) > Len(x.in)
    BY <1>1 DEF Slot, PerCol
  <1>3. QED
    BY <1>1, <1>2

\* What a stored grid holds, cell by cell.
LEMMA GridHolds ==
  ASSUME NEW N \in Nat \ {0}, NEW W \in Nat, NEW T, NEW G, IsGrid(G, N, W), NEW r \in 1 .. N, NEW c \in 1 .. W
  PROVE  Stored(T, G).cells[r][c] = Hold(T, G[r][c])
  <1>1. AreRows(G, N, W)
    BY GridRows
  <1>2. Stored(T, G).cells[r] = HeldRow(T, G[r])
    BY <1>1, StoredIs
  <1>3. IsSeq(G[r]) /\ Len(G[r]) = W
    BY <1>1 DEF AreRows
  <1>4. HeldRow(T, G[r])[c] = Hold(T, G[r][c])
    BY <1>3, HeldRowIs
  <1>5. QED
    BY <1>2, <1>4

\* An encoder that writes a cell for each feature: what it stores has to be different
\* for each position.
LEMMA WholeTells ==
  ASSUME NEW N \in Nat \ {0}, NEW x, x.op \in Whole, NEW K \in Nat, NEW f \in 1 .. K,
         IsSeq(Cats(x, f)), NaN \notin Range(Cats(x, f)),
         NEW T, NEW G, IsGrid(G, N, K), NEW g,
         \A p, q \in -1 .. Len(Cats(x, f)) - 1 : Hold(T, g[p]) = Hold(T, g[q]) => p = q,
         \A r \in 1 .. N : G[r][f] = g[Find(Cats(x, f), Text(x, r, f))]
  PROVE  TellsApart(x, Stored(T, G), f, N)
  <1> DEFINE t == Stored(T, G)
             s == Cats(x, f)
             h == [p \in -1 .. Len(s) - 1 |-> <<Hold(T, g[p])>>]
  <1>1. \A r \in 1 .. N : t.cells[r][f] = Hold(T, G[r][f])
    BY GridHolds
  <1>2. \A r \in 1 .. N : CodeIn(x, t.cells[r], f) = <<t.cells[r][f]>>
    BY DEF CodeIn
  <1> HIDE DEF t
  <1>3. ASSUME NEW r \in 1 .. N PROVE CodeIn(x, t.cells[r], f) = h[Find(s, Text(x, r, f))]
    <2>1. Find(s, Text(x, r, f)) \in -1 .. Len(s) - 1
      BY FindIs
    <2>2. CodeIn(x, t.cells[r], f) = <<Hold(T, g[Find(s, Text(x, r, f))])>>
      BY <1>1, <1>2
    <2>3. QED
      BY <2>1, <2>2
  <1>4. ASSUME NEW p \in -1 .. Len(s) - 1, NEW q \in -1 .. Len(s) - 1, h[p] = h[q] PROVE p = q
    <2>1. Hold(T, g[p]) = Hold(T, g[q])
      BY <1>4
    <2>2. QED
      BY <2>1
  <1> HIDE DEF h
  <1>5. TellsApart(x, t, f, N)
    BY <1>3, <1>4, CodedTells
  <1>6. QED
    BY <1>5 DEF t

\* What the ordinal and the target encoder store for position k of feature f, -1 for
\* an unknown category.
OrdinalCode(x, f, k) ==
  LET given == Resolve64(x, Len(x.in) + 1, "encoded_values")
      vals  == FlatOr(given, 0, 0)
      def   == FlatOr(Resolve64(x, Len(x.in) + 1, "default_values"), 0, 0)
      at    == CatsOffsets(x)[f] + k + 1
  IN  Hold(AnyF64(x.in \o <<given>>),
           IF k < 0 THEN IF f <= Len(def) THEN def[f] ELSE NaN
           ELSE IF at <= Len(vals) THEN vals[at] ELSE k)
TargetCode(x, f, k) ==
  LET enc == Resolve64(x, Len(x.in) + 2, "encoded_values")
      def == FlatOr(Resolve64(x, Len(x.in) + 4, "default_values"), NFeatures(x), 0)
  IN  Hold(AnyF64(x.in \o <<enc>>), IF k < 0 THEN def[f] ELSE Flat(enc)[CatsOffsets(x)[f] + k + 1])

\* Calls of the three: features that are all of one kind, no category NaN, and codes
\* that are different as they are stored, which of a label its position has to be.
WholeFits(x) ==
  /\ Tabled(x)
  /\ \A f \in 1 .. NFeatures(x) :
       /\ IsString(InputOf(x, f)) = IsString(x.in[1])
       /\ NaN \notin Range(Cats(x, f))
       /\ x.op = "LabelEncoder" => \A p \in 0 .. Len(Cats(x, f)) - 1 : Narrow(p) = p
       /\ x.op = "OrdinalEncoder" =>
            \A p, q \in -1 .. Len(Cats(x, f)) - 1 : OrdinalCode(x, f, p) = OrdinalCode(x, f, q) => p = q
       /\ x.op = "TargetEncoder" =>
            \A p, q \in -1 .. Len(Cats(x, f)) - 1 : TargetCode(x, f, p) = TargetCode(x, f, q) => p = q
  /\ x.op = "TargetEncoder" => Resolve64(x, Len(x.in) + 2, "encoded_values") # NoTensor

\* op_label_encoder.
LEMMA LabelEncoderTells ==
  ASSUME NEW N \in Nat \ {0}, NEW x, AreTables(x.in, N), x.in # << >>, x.outs = 1,
         x.op = "LabelEncoder", WholeFits(x), NEW f \in 1 .. NFeatures(x), SameKinds(x, f)
  PROVE  LabelEncoder(x).ok /\ TellsApart(x, LabelEncoder(x).out[1], f, N)
  <1> DEFINE K == NFeatures(x)
             cats == x.refs["labels"]
             k == Slot(x, 3)
             offs == FlatOr(Resolve(x, k, "label_offsets"), 0, 0)
             code(p) == IF p < 0 THEN NaN ELSE p
             T == AnyF64(x.in)
             G == [r \in 1 .. N |-> [h \in 1 .. K |-> code(PositionOf(x, cats, offs, r, h))]]
             s == Cats(x, f)
             g == [p \in -1 .. Len(s) - 1 |-> code(p)]
  <1>1. Rows(x) = 1 .. N /\ K \in Nat
    BY FeaturesAre
  <1>2. /\ Tabled(x) /\ IsString(InputOf(x, f)) = IsString(x.in[1]) /\ NaN \notin Range(s)
        /\ \A p \in 0 .. Len(s) - 1 : Narrow(p) = p
    BY DEF WholeFits
  <1>3. CatsName(x) = "labels" /\ OffsName(x) = "label_offsets" /\ x.op \in Whole /\ x.op # "OHENode"
    BY DEF CatsName, OffsName, Whole
  <1>4. k \in Nat /\ k > Len(x.in) /\ Slot(x, 2) \in Nat /\ Slot(x, 2) > Len(x.in) /\ Len(x.in) \in Nat
    BY SlotBehind
  <1>5. Resolve64(x, Slot(x, 2), "labels") = cats /\ cats # NoTensor
    <2>1. "labels" \in DOMAIN x.refs /\ cats.type # "none"
      BY <1>2, <1>3 DEF Tabled
    <2>2. QED
      BY <1>4, <2>1, RefsRead DEF NoTensor
  <1>6. LabelEncoder(x) = Gives(<<Stored(T, G)>>)
    BY <1>1, <1>5 DEF LabelEncoder, Spread
  <1>7. IsGrid(G, N, K)
    BY DEF IsGrid
  <1>8. IsSeq(s) /\ Len(s) \in Nat
    <2> DEFINE o == FlatOr(Resolve(x, k, OffsName(x)), 0, 0)
    <2>1. o = FlatOr(Resolve(x, k, OffsName(x)), 0, 0)
      OBVIOUS
    <2> HIDE DEF o, k
    <2>2. x.op # "OHENode" /\ Tabled(x) /\ k \in Nat /\ k > Len(x.in)
      BY <1>2, <1>3, <1>4
    <2>3. IsSeq(Cats(x, f))
      BY <2>1, <2>2, PlacesAre
    <2>4. QED
      BY <2>3 DEF IsSeq
  <1>9. ASSUME NEW r \in 1 .. N PROVE G[r][f] = g[Find(s, Text(x, r, f))]
    <2> DEFINE p == PositionOf(x, cats, offs, r, f)
               v == Find(s, Text(x, r, f))
    <2>1. p = v
      <3>1. offs = FlatOr(Resolve(x, k, OffsName(x)), 0, 0)
        BY <1>3
      <3> HIDE DEF k, offs, s
      <3>2. PositionOf(x, x.refs[CatsName(x)], offs, r, f) = Find(Cats(x, f), Text(x, r, f))
        BY <1>2, <1>3, <1>4, <3>1, PositionIs DEF s
      <3>3. QED
        BY <1>3, <3>2 DEF s
    <2>2. v \in -1 .. Len(s) - 1
      BY <1>8, FindIs
    <2> HIDE DEF code
    <2>3. G[r][f] = code(p) /\ g[v] = code(v)
      BY <2>2
    <2>4. QED
      BY <2>1, <2>3
  <1>10. ASSUME NEW p \in -1 .. Len(s) - 1, NEW q \in -1 .. Len(s) - 1, Hold(T, g[p]) = Hold(T, g[q])
         PROVE  p = q
    <2>1. ASSUME NEW i \in -1 .. Len(s) - 1 PROVE Hold(T, g[i]) = g[i]
      <3>1. CASE i < 0
        BY <3>1 DEF Hold, Narrow
      <3>2. CASE ~(i < 0)
        <4>1. i \in 0 .. Len(s) - 1 /\ g[i] = i
          BY <1>8, <3>2
        <4>2. QED
          BY <1>2, <4>1 DEF Hold
      <3>3. QED
        BY <3>1, <3>2
    <2>2. g[p] = g[q]
      BY <1>10, <2>1
    <2>3. g[p] = code(p) /\ g[q] = code(q)
      OBVIOUS
    <2>4. p \in Int /\ q \in Int /\ (p < 0 => p = -1) /\ (q < 0 => q = -1)
      BY <1>8
    <2>5. NaN \notin Int
      BY OperatorAssumption
    <2>6. p < 0 => code(p) = NaN
      OBVIOUS
    <2>7. ~(p < 0) => code(p) = p
      OBVIOUS
    <2>8. q < 0 => code(q) = NaN
      OBVIOUS
    <2>9. ~(q < 0) => code(q) = q
      OBVIOUS
    <2> HIDE DEF code, g, s
    <2>10. code(p) = code(q)
      BY <2>2, <2>3
    <2>11. CASE p < 0 /\ q < 0
      BY <2>4, <2>11
    <2>12. CASE ~(p < 0) /\ ~(q < 0)
      BY <2>7, <2>9, <2>10, <2>12
    <2>13. CASE p < 0 /\ ~(q < 0)
      BY <2>4, <2>5, <2>6, <2>9, <2>10, <2>13
    <2>14. CASE ~(p < 0) /\ q < 0
      BY <2>4, <2>5, <2>7, <2>8, <2>10, <2>14
    <2>15. QED
      BY <2>11, <2>12, <2>13, <2>14
  <1> HIDE DEF G, g, T, K
  <1>11. TellsApart(x, Stored(T, G), f, N)
    BY <1>1, <1>2, <1>3, <1>7, <1>8, <1>9, <1>10, WholeTells DEF K
  <1>12. QED
    BY <1>6, <1>11 DEF Gives

\* op_ordinal_encoder.
LEMMA OrdinalEncoderTells ==
  ASSUME NEW N \in Nat \ {0}, NEW x, AreTables(x.in, N), x.in # << >>,
         x.op = "OrdinalEncoder", WholeFits(x), NEW f \in 1 .. NFeatures(x), SameKinds(x, f)
  PROVE  OrdinalEncoder(x).ok /\ TellsApart(x, OrdinalEncoder(x).out[1], f, N)
  <1> DEFINE K == NFeatures(x)
             cats == x.refs["categories"]
             k == Slot(x, 3)
             offs == FlatOr(Resolve(x, k, "category_offsets"), 0, 0)
             given == Resolve64(x, Len(x.in) + 1, "encoded_values")
             vals == FlatOr(given, 0, 0)
             def == FlatOr(Resolve64(x, Len(x.in) + 1, "default_values"), 0, 0)
             worth(h, p) ==
               LET at == Begin(offs, h, Len(Flat(cats))) + p + 1
               IN  IF p < 0 THEN IF h <= Len(def) THEN def[h] ELSE NaN
                   ELSE IF at <= Len(vals) THEN vals[at] ELSE p
             T == AnyF64(x.in \o <<given>>)
             G == [r \in 1 .. N |-> [h \in 1 .. K |-> worth(h, PositionOf(x, cats, offs, r, h))]]
             s == Cats(x, f)
             g == [p \in -1 .. Len(s) - 1 |-> worth(f, p)]
  <1>1. Rows(x) = 1 .. N /\ K \in Nat
    BY FeaturesAre
  <1>2. /\ Tabled(x) /\ IsString(InputOf(x, f)) = IsString(x.in[1]) /\ NaN \notin Range(s)
    BY DEF WholeFits
  <1>3. CatsName(x) = "categories" /\ OffsName(x) = "category_offsets" /\ x.op \in Whole /\ x.op # "OHENode"
    BY DEF CatsName, OffsName, Whole
  <1>4. k \in Nat /\ k > Len(x.in) /\ Slot(x, 2) \in Nat /\ Slot(x, 2) > Len(x.in) /\ Len(x.in) \in Nat
    BY SlotBehind
  <1>5. Resolve64(x, Slot(x, 2), "categories") = cats /\ cats # NoTensor
    <2>1. "categories" \in DOMAIN x.refs /\ cats.type # "none"
      BY <1>2, <1>3 DEF Tabled
    <2>2. QED
      BY <1>4, <2>1, RefsRead DEF NoTensor
  <1>6. OrdinalEncoder(x) = Gives(<<Stored(T, G)>>)
    BY <1>1, <1>5 DEF OrdinalEncoder
  <1>7. IsGrid(G, N, K)
    BY DEF IsGrid
  <1>8. IsSeq(s) /\ Begin(offs, f, Len(Flat(cats))) = CatsOffsets(x)[f]
    <2> HIDE DEF k
    <2>1. offs = FlatOr(Resolve(x, k, OffsName(x)), 0, 0)
      BY <1>3
    <2> DEFINE o == offs
    <2> HIDE DEF o
    <2>2. o = FlatOr(Resolve(x, k, OffsName(x)), 0, 0)
      BY <2>1 DEF o
    <2>3. x.op # "OHENode" /\ Tabled(x) /\ k \in Nat /\ k > Len(x.in)
      BY <1>2, <1>3, <1>4
    <2>4. IsSeq(Cats(x, f)) /\ Begin(o, f, Len(CatsTable(x))) = CatsOffsets(x)[f]
      BY <2>2, <2>3, PlacesAre
    <2>5. CatsTable(x) = Flat(cats)
      BY <1>3 DEF CatsTable
    <2>6. QED
      BY <2>4, <2>5 DEF o
  <1>9. ASSUME NEW r \in 1 .. N PROVE G[r][f] = g[Find(s, Text(x, r, f))]
    <2> DEFINE p == PositionOf(x, cats, offs, r, f)
               v == Find(s, Text(x, r, f))
    <2>1. p = v
      <3>1. offs = FlatOr(Resolve(x, k, OffsName(x)), 0, 0)
        BY <1>3
      <3> HIDE DEF k, offs, s
      <3>2. PositionOf(x, x.refs[CatsName(x)], offs, r, f) = Find(Cats(x, f), Text(x, r, f))
        BY <1>2, <1>3, <1>4, <3>1, PositionIs DEF s
      <3>3. QED
        BY <1>3, <3>2 DEF s
    <2>2. v \in -1 .. Len(s) - 1
      BY <1>8, FindIs
    <2> HIDE DEF worth
    <2>3. G[r][f] = worth(f, p) /\ g[v] = worth(f, v)
      BY <2>2
    <2>4. QED
      BY <2>1, <2>3
  <1>10. \A p \in -1 .. Len(s) - 1 : Hold(T, g[p]) = OrdinalCode(x, f, p)
    <2>1. TAKE p \in -1 .. Len(s) - 1
    <2>2. g[p] = worth(f, p)
      OBVIOUS
    <2>3. Hold(T, worth(f, p)) = OrdinalCode(x, f, p)
      BY <1>8 DEF OrdinalCode
    <2> HIDE DEF g, worth, T
    <2>4. QED
      BY <2>2, <2>3
  <1>11. \A p, q \in -1 .. Len(s) - 1 : Hold(T, g[p]) = Hold(T, g[q]) => p = q
    <2>1. \A p, q \in -1 .. Len(s) - 1 : OrdinalCode(x, f, p) = OrdinalCode(x, f, q) => p = q
      BY DEF WholeFits
    <2> HIDE DEF g, T
    <2>2. QED
      BY <1>10, <2>1
  <1> HIDE DEF G, g, T, K
  <1>12. TellsApart(x, Stored(T, G), f, N)
    BY <1>1, <1>2, <1>3, <1>7, <1>8, <1>9, <1>11, WholeTells DEF K
  <1>13. QED
    BY <1>6, <1>12 DEF Gives

\* op_target_encoder.
LEMMA TargetEncoderTells ==
  ASSUME NEW N \in Nat \ {0}, NEW x, AreTables(x.in, N), x.in # << >>,
         x.op = "TargetEncoder", WholeFits(x), NEW f \in 1 .. NFeatures(x), SameKinds(x, f)
  PROVE  TargetEncoder(x).ok /\ TellsApart(x, TargetEncoder(x).out[1], f, N)
  <1> DEFINE K == NFeatures(x)
             n == Len(x.in)
             cats == x.refs["categories"]
             enc == Resolve64(x, n + 2, "encoded_values")
             offs == FlatOr(Resolve(x, n + 3, "category_offsets"), 0, 0)
             def == FlatOr(Resolve64(x, n + 4, "default_values"), K, 0)
             keys == IF IsString(x.in[1]) /\ IsString(cats) THEN Flat(cats) ELSE Numbers(cats)
             mean(r, h) ==
               LET b == TargetBlock(offs, h, Len(keys), K)
                   v == IF IsString(x.in[1]) /\ IsString(cats) THEN Text(x, r, h) ELSE Num(x, r, h)
                   k == Find(SubSeq(keys, b[1] + 1, b[2]), v)
               IN  IF k < 0 THEN def[h] ELSE Flat(enc)[b[1] + k + 1]
             T == AnyF64(x.in \o <<enc>>)
             G == [r \in 1 .. N |-> [h \in 1 .. K |-> mean(r, h)]]
             s == Cats(x, f)
             begin == CatsOffsets(x)[f]
             g == [p \in -1 .. Len(s) - 1 |-> IF p < 0 THEN def[f] ELSE Flat(enc)[begin + p + 1]]
  <1>1. Rows(x) = 1 .. N /\ K \in Nat
    BY FeaturesAre
  <1>2. /\ Tabled(x) /\ IsString(InputOf(x, f)) = IsString(x.in[1]) /\ NaN \notin Range(s)
        /\ enc # NoTensor
    BY DEF WholeFits
  <1>3. CatsName(x) = "categories" /\ OffsName(x) = "category_offsets" /\ x.op \in Whole /\ x.op # "OHENode"
    BY DEF CatsName, OffsName, Whole
  <1>4. n \in Nat \ {0} /\ n = IF PerCol(x) THEN Len(x.in) ELSE 1
    BY SlotBehind DEF PerCol
  <1>5. Resolve64(x, n + 1, "categories") = cats /\ cats # NoTensor
    <2>1. "categories" \in DOMAIN x.refs /\ cats.type # "none"
      BY <1>2, <1>3 DEF Tabled
    <2>2. n + 1 \in Nat /\ n + 1 > n
      BY <1>4
    <2>3. QED
      BY <1>4, <2>1, <2>2, RefsRead DEF NoTensor
  <1>6. TargetEncoder(x) = Gives(<<Stored(T, G)>>)
    <2> DEFINE m == IF PerCol(x) THEN Len(x.in) ELSE 1
    <2>1. m = n
      BY <1>4
    <2> DEFINE catsAt == Resolve64(x, m + 1, "categories")
               encAt == Resolve64(x, m + 2, "encoded_values")
               offsAt == FlatOr(Resolve(x, m + 3, "category_offsets"), 0, 0)
               defAt == FlatOr(Resolve64(x, m + 4, "default_values"), K, 0)
               keysAt == IF IsString(x.in[1]) /\ IsString(catsAt) THEN Flat(catsAt) ELSE Numbers(catsAt)
               meanAt(r, h) ==
                 LET b == TargetBlock(offsAt, h, Len(keysAt), K)
                     v == IF IsString(x.in[1]) /\ IsString(catsAt) THEN Text(x, r, h) ELSE Num(x, r, h)
                     k == Find(SubSeq(keysAt, b[1] + 1, b[2]), v)
                 IN  IF k < 0 THEN defAt[h] ELSE Flat(encAt)[b[1] + k + 1]
    <2>2. TargetEncoder(x) =
            IF NoTensor \in {catsAt, encAt} THEN Gives(<<x.in[1]>>)
            ELSE Gives(<<Stored(AnyF64(x.in \o <<encAt>>), [r \in Rows(x) |-> [h \in 1 .. K |-> meanAt(r, h)]])>>)
      BY DEF TargetEncoder
    <2> HIDE DEF m
    <2>3. catsAt = cats /\ encAt = enc /\ offsAt = offs /\ defAt = def
      BY <1>5, <2>1
    <2> HIDE DEF catsAt, encAt, offsAt, defAt, cats, enc, offs, def
    <2>4. NoTensor \notin {cats, enc}
      BY <1>2, <1>5
    <2>5. QED
      BY <1>1, <2>2, <2>3, <2>4
  <1>7. IsGrid(G, N, K)
    BY DEF IsGrid
  <1>8. keys = CatsTable(x) /\ IsString(cats) = IsString(x.in[1])
    <2>1. IsString(x.in[1]) = IsString(cats)
      BY <1>2, <1>3 DEF SameKinds, IsString
    <2>2. CatsTable(x) = Flat(cats)
      BY <1>3 DEF CatsTable
    <2>3. QED
      BY <2>1, <2>2 DEF Numbers
  <1>9. /\ IsSeq(s) /\ TargetBlock(offs, f, Len(CatsTable(x)), K) = <<begin, CatsOffsets(x)[f + 1]>>
        /\ s = SubSeq(CatsTable(x), begin + 1, CatsOffsets(x)[f + 1])
    <2> DEFINE j == n + 3
    <2>1. j \in Nat /\ j > Len(x.in)
      BY <1>4
    <2> HIDE DEF j
    <2>2. offs = FlatOr(Resolve(x, j, OffsName(x)), 0, 0)
      BY <1>3 DEF j
    <2> HIDE DEF offs
    <2>3. IsSeq(s) /\ TargetBlock(offs, f, Len(CatsTable(x)), K) = <<begin, CatsOffsets(x)[f + 1]>>
      BY <1>2, <1>3, <2>1, <2>2, PlacesAre
    <2>4. s = SubSeq(CatsTable(x), begin + 1, CatsOffsets(x)[f + 1])
      BY <1>3 DEF Cats
    <2>5. QED
      BY <2>3, <2>4
  <1> HIDE DEF offs, keys, def, enc, begin
  <1>10. ASSUME NEW r \in 1 .. N PROVE G[r][f] = g[Find(s, Text(x, r, f))]
    <2> DEFINE b == TargetBlock(offs, f, Len(keys), K)
               v == IF IsString(x.in[1]) /\ IsString(cats) THEN Text(x, r, f) ELSE Num(x, r, f)
               w == Text(x, r, f)
    <2>1. v = w
      <3>1. CASE IsString(cats)
        BY <1>8, <3>1
      <3>2. CASE ~IsString(cats)
        <4>1. Num(x, r, f) = w
          BY <1>2, <1>8, <3>2, CellsRead
        <4>2. QED
          BY <3>2, <4>1
      <3>3. QED
        BY <3>1, <3>2
    <2> HIDE DEF s, b, v, w
    <2>2. b[1] = begin /\ b[2] = CatsOffsets(x)[f + 1]
      BY <1>8, <1>9 DEF b
    <2>3. Find(s, w) \in -1 .. Len(s) - 1
      BY <1>9, FindIs
    <2>4. SubSeq(keys, b[1] + 1, b[2]) = s
      BY <1>8, <1>9, <2>2
    <2>5. mean(r, f) = LET k == Find(SubSeq(keys, b[1] + 1, b[2]), v)
                       IN  IF k < 0 THEN def[f] ELSE Flat(enc)[b[1] + k + 1]
      BY DEF b, v
    <2> HIDE DEF mean
    <2>6. mean(r, f) = IF Find(s, w) < 0 THEN def[f] ELSE Flat(enc)[begin + Find(s, w) + 1]
      BY <2>1, <2>2, <2>4, <2>5
    <2>7. G[r][f] = mean(r, f)
      OBVIOUS
    <2> HIDE DEF G
    <2>8. QED
      BY <2>3, <2>6, <2>7 DEF w
  <1>11. \A p, q \in -1 .. Len(s) - 1 : Hold(T, g[p]) = Hold(T, g[q]) => p = q
    <2>1. \A p \in -1 .. Len(s) - 1 : Hold(T, g[p]) = TargetCode(x, f, p)
      <3>1. TAKE p \in -1 .. Len(s) - 1
      <3>2. g[p] = IF p < 0 THEN def[f] ELSE Flat(enc)[begin + p + 1]
        OBVIOUS
      <3>3. TargetCode(x, f, p) = Hold(T, IF p < 0 THEN def[f] ELSE Flat(enc)[begin + p + 1])
        BY DEF TargetCode, def, enc, begin
      <3> HIDE DEF g, T
      <3>4. QED
        BY <3>2, <3>3
    <2>2. \A p, q \in -1 .. Len(s) - 1 : TargetCode(x, f, p) = TargetCode(x, f, q) => p = q
      BY DEF WholeFits
    <2> HIDE DEF g, T
    <2>3. QED
      BY <2>1, <2>2
  <1> HIDE DEF G, g, T, K
  <1>12. TellsApart(x, Stored(T, G), f, N)
    BY <1>1, <1>2, <1>3, <1>7, <1>9, <1>10, <1>11, WholeTells DEF K
  <1>13. QED
    BY <1>6, <1>12 DEF Gives

-----------------------------------------------------------------------------
\* Blocks that lie one behind the other have no element in common.
LEMMA BlocksApart ==
  ASSUME NEW w, IsSeq(w), \A k \in 1 .. Len(w) : w[k] \in Nat, NEW off, EndsAt(off, w),
         NEW f \in 1 .. Len(w), NEW g \in 1 .. Len(w), NEW i \in 1 .. w[f], NEW j \in 1 .. w[g],
         off[f - 1] + i = off[g - 1] + j
  PROVE  f = g /\ i = j
  <1>1. Len(w) \in Nat
    BY DEF IsSeq
  <1>2. /\ off[f] = off[f - 1] + w[f] /\ off[g] = off[g - 1] + w[g]
        /\ off[f - 1] \in Nat /\ off[g - 1] \in Nat /\ w[f] \in Nat /\ w[g] \in Nat
    <2>1. f - 1 \in 0 .. Len(w) /\ g - 1 \in 0 .. Len(w)
      BY <1>1
    <2>2. QED
      BY <2>1 DEF EndsAt
  <1>3. ASSUME NEW a \in 1 .. Len(w), NEW b \in 1 .. Len(w), a < b PROVE off[a] <= off[b - 1]
    <2>1. a \in 0 .. Len(w) /\ b - 1 \in 0 .. Len(w) /\ a <= b - 1
      BY <1>1, <1>3
    <2>2. QED
      BY <2>1, EndsGrow
  <1>4. CASE f < g
    <2>1. off[f] <= off[g - 1]
      BY <1>3, <1>4
    <2>2. QED
      BY <1>2, <2>1
  <1>5. CASE g < f
    <2>1. off[g] <= off[f - 1]
      BY <1>3, <1>5
    <2>2. QED
      BY <1>2, <2>1
  <1>6. CASE f = g
    BY <1>2, <1>6
  <1>7. QED
    BY <1>1, <1>4, <1>5, <1>6

\* Where the blocks of the features begin.
LEMMA BlockStarts ==
  ASSUME NEW x, NEW K \in Nat, \A g \in 1 .. K : CatsWidth(x, g) \in Nat,
         NEW w, w = [g \in 1 .. K |-> CatsWidth(x, g)], NEW off, EndsAt(off, w), NEW f \in 1 .. K
  PROVE  Sum([g \in 1 .. f - 1 |-> CatsWidth(x, g)]) = off[f - 1] /\ off[f - 1] \in Nat
  <1> DEFINE m == f - 1
             u == [g \in 1 .. m |-> CatsWidth(x, g)]
             ends == [g \in 0 .. m |-> off[g]]
  <1>1. m \in Nat /\ m <= K /\ \A g \in 1 .. m : g \in 1 .. K /\ g - 1 \in 0 .. m /\ g \in 0 .. m
    OBVIOUS
  <1>2. Len(w) = K /\ \A g \in 1 .. K : w[g] = CatsWidth(x, g)
    OBVIOUS
  <1>3. IsSeq(u) /\ Len(u) = m /\ \A g \in 1 .. m : u[g] = CatsWidth(x, g)
    <2>1. Len(u) = m
      BY <1>1
    <2>2. QED
      BY <1>1, <2>1 DEF IsSeq
  <1> HIDE DEF u
  <1>4. EndsAt(ends, u) /\ ends[m] = off[m] /\ off[m] \in Nat
    <2>1. off \in [0 .. K -> Nat] /\ off[0] = 0 /\ \A k \in 1 .. K : off[k] = off[k - 1] + w[k]
      BY <1>2 DEF EndsAt
    <2>2. \A g \in 0 .. m : g \in 0 .. K
      BY <1>1
    <2>3. ends \in [0 .. m -> Nat] /\ ends[0] = 0 /\ ends[m] = off[m] /\ off[m] \in Nat
      BY <1>1, <2>1, <2>2
    <2>4. ASSUME NEW k \in 1 .. m PROVE ends[k] = ends[k - 1] + u[k]
      <3>1. ends[k] = off[k] /\ ends[k - 1] = off[k - 1]
        BY <1>1
      <3>2. off[k] = off[k - 1] + w[k] /\ w[k] = u[k]
        BY <1>1, <1>2, <1>3, <2>1
      <3>3. QED
        BY <3>1, <3>2
    <2> HIDE DEF ends
    <2>5. QED
      BY <1>3, <2>3, <2>4 DEF EndsAt
  <1>5. \A g \in 1 .. Len(u) : u[g] \in Nat
    BY <1>1, <1>3
  <1> HIDE DEF ends, m
  <1>6. Sum(u) = ends[Len(u)]
    BY <1>3, <1>4, <1>5, SumEnds
  <1>7. QED
    BY <1>3, <1>4, <1>6 DEF u, m

\* A block shows the position of its one, and whether there is any.
LEMMA HotDiffers ==
  ASSUME NEW n \in Nat, NEW p \in -1 .. n - 1, NEW q \in -1 .. n - 1, Hot(p, n) = Hot(q, n)
  PROVE  p = q
  <1>1. /\ \A j \in 1 .. n : Hot(p, n)[j] = IF j = p + 1 THEN 1 ELSE 0
        /\ \A j \in 1 .. n : Hot(q, n)[j] = IF j = q + 1 THEN 1 ELSE 0
    BY DEF Hot
  <1>2. \A j \in 1 .. n : (j = p + 1) <=> (j = q + 1)
    BY <1>1
  <1>3. (p # -1 => p + 1 \in 1 .. n) /\ (q # -1 => q + 1 \in 1 .. n)
    OBVIOUS
  <1>4. CASE p # -1
    <2>1. p + 1 = q + 1
      BY <1>2, <1>3, <1>4
    <2>2. QED
      BY <2>1
  <1>5. CASE q # -1
    <2>1. q + 1 = p + 1
      BY <1>2, <1>3, <1>5
    <2>2. QED
      BY <2>1
  <1>6. QED
    BY <1>4, <1>5

\* An encoder that writes a block for each feature, with a one where its category is.
LEMMA BlockTells ==
  ASSUME NEW N \in Nat \ {0}, NEW x, x.op \notin Whole, Narrow(0) = 0, Narrow(1) = 1,
         NEW K \in Nat, \A g \in 1 .. K : CatsWidth(x, g) \in Nat,
         NEW w, w = [g \in 1 .. K |-> CatsWidth(x, g)], NEW off, EndsAt(off, w), NEW f \in 1 .. K,
         IsSeq(Cats(x, f)), Len(Cats(x, f)) = CatsWidth(x, f), NaN \notin Range(Cats(x, f)),
         NEW G, AreRows(G, N, off[K]),
         \A r \in 1 .. N, j \in 1 .. CatsWidth(x, f) :
           G[r][off[f - 1] + j] = IF j = Find(Cats(x, f), Text(x, r, f)) + 1 THEN 1 ELSE 0
  PROVE  TellsApart(x, Stored("f32", G), f, N)
  <1> DEFINE t == Stored("f32", G)
             s == Cats(x, f)
             n == CatsWidth(x, f)
             b == off[f - 1]
             g == [p \in -1 .. Len(s) - 1 |-> Hot(p, n)]
  <1>1. Sum([h \in 1 .. f - 1 |-> CatsWidth(x, h)]) = b /\ b \in Nat
    BY BlockStarts
  <1>2. n \in Nat /\ off[f] = b + n /\ off[f] <= off[K] /\ off[K] \in Nat
    <2>1. Len(w) = K /\ IsSeq(w) /\ \A h \in 1 .. K : w[h] = CatsWidth(x, h)
      <3>1. Len(w) = K
        OBVIOUS
      <3>2. QED
        BY <3>1 DEF IsSeq
    <2>2. f \in 0 .. K /\ K \in 0 .. K /\ f <= K
      OBVIOUS
    <2>3. off[f] <= off[K]
      BY <2>1, <2>2, EndsGrow
    <2>4. QED
      BY <2>1, <2>2, <2>3 DEF EndsAt
  <1>3. ASSUME NEW r \in 1 .. N PROVE CodeIn(x, t.cells[r], f) = g[Find(s, Text(x, r, f))]
    <2> DEFINE row == t.cells[r]
               held == HeldRow("f32", G[r])
               p == Find(s, Text(x, r, f))
               c == SubSeq(row, b + 1, b + n)
    <2>1. CodeIn(x, row, f) = c
      BY <1>1 DEF CodeIn
    <2>2. row = held
      <3> DEFINE W == off[K]
      <3>1. AreRows(G, N, W)
        OBVIOUS
      <3> HIDE DEF W
      <3>2. Stored("f32", G).cells[r] = HeldRow("f32", G[r])
        BY <3>1, StoredIs
      <3>3. QED
        BY <3>2
    <2>3. IsSeq(G[r]) /\ Len(G[r]) = off[K]
      BY DEF AreRows
    <2>4. IsSeq(held) /\ Len(held) = off[K] /\ \A j \in 1 .. off[K] : held[j] = Narrow(G[r][j])
      BY <2>3, HeldRowIs DEF Hold
    <2> HIDE DEF row, held, t
    <2>5. IsSeq(c) /\ Len(c) = n /\ \A j \in 1 .. n : c[j] = row[b + j]
      <3>1. b + n <= Len(row) /\ IsSeq(row)
        BY <1>2, <2>2, <2>4
      <3>2. b \in Nat /\ n \in Nat
        BY <1>1, <1>2
      <3> HIDE DEF b, n
      <3>3. QED
        BY ONLY <3>1, <3>2, SubSeqIs
    <2>6. p \in -1 .. Len(s) - 1
      BY FindIs
    <2>7. ASSUME NEW j \in 1 .. n PROVE c[j] = IF j = p + 1 THEN 1 ELSE 0
      <3>1. b + j \in 1 .. off[K]
        BY <1>1, <1>2
      <3>2. c[j] = Narrow(G[r][b + j])
        BY <2>2, <2>4, <2>5, <3>1
      <3>3. G[r][b + j] = IF j = p + 1 THEN 1 ELSE 0
        OBVIOUS
      <3> HIDE DEF c, p, b
      <3>4. QED
        BY <3>2, <3>3
    <2> HIDE DEF c, p, s, n
    <2>8. c = Hot(p, n)
      <3>1. c = [j \in 1 .. n |-> c[j]]
        BY <2>5 DEF IsSeq
      <3>2. QED
        BY <2>7, <3>1 DEF Hot
    <2>9. g[p] = Hot(p, n)
      BY <2>6
    <2>10. QED
      BY <2>1, <2>8, <2>9 DEF p, row
  <1>4. ASSUME NEW p \in -1 .. Len(s) - 1, NEW q \in -1 .. Len(s) - 1, g[p] = g[q] PROVE p = q
    <2>1. Hot(p, n) = Hot(q, n)
      BY <1>4
    <2>2. Len(s) = n
      OBVIOUS
    <2> HIDE DEF g, s, n
    <2>3. QED
      BY <1>2, <2>1, <2>2, HotDiffers
  <1> HIDE DEF g, t
  <1>5. TellsApart(x, t, f, N)
    BY <1>3, <1>4, CodedTells
  <1>6. QED
    BY <1>5 DEF t

\* Calls of a one-hot encoder: categories of which none is NaN, not in doubles, which
\* are narrowed before they are compared.
OneHotFits(x) ==
  /\ Tabled(x) /\ x.refs["categories"].type # "f64"
  /\ Narrow(0) = 0 /\ Narrow(1) = 1
  /\ \A f \in 1 .. NFeatures(x) : NaN \notin Range(Cats(x, f))

\* op_one_hot_encoder.
LEMMA OneHotEncoderTells ==
  ASSUME NEW N \in Nat \ {0}, NEW x, AreTables(x.in, N), x.in # << >>, x.outs = 1,
         x.op = "OneHotEncoder", OneHotFits(x), NEW f \in 1 .. NFeatures(x), SameKinds(x, f)
  PROVE  OneHotEncoder(x).ok /\ TellsApart(x, OneHotEncoder(x).out[1], f, N)
  <1> DEFINE K == NFeatures(x)
             cats == x.refs["categories"]
             k == Slot(x, 3)
             offs == FlatOr(Resolve(x, k, "category_offsets"), 0, 0)
             own(h) == Own(FlatOr(cats, 0, 0), offs, h)
             lens == [h \in 1 .. K |-> Len(own(h))]
             hots(r) == [h \in 1 .. K |-> Hot(HotPosition(x, cats, own(h), r, h), lens[h])]
             G == [r \in 1 .. N |-> FlattenSeq(hots(r))]
             s == Cats(x, f)
             w == [h \in 1 .. K |-> CatsWidth(x, h)]
  <1>1. Rows(x) = 1 .. N /\ K \in Nat
    BY FeaturesAre
  <1>2. /\ Tabled(x) /\ cats.type # "f64" /\ NaN \notin Range(s) /\ Narrow(0) = 0 /\ Narrow(1) = 1
    BY DEF OneHotFits
  <1>3. CatsName(x) = "categories" /\ OffsName(x) = "category_offsets" /\ x.op # "OHENode" /\ x.op \notin Whole
    BY DEF CatsName, OffsName, Whole
  <1>4. k \in Nat /\ k > Len(x.in) /\ Slot(x, 2) \in Nat /\ Slot(x, 2) > Len(x.in) /\ Len(x.in) \in Nat
    BY SlotBehind
  <1>5. Resolve(x, Slot(x, 2), "categories") = cats /\ cats # NoTensor
    <2>1. "categories" \in DOMAIN x.refs /\ cats.type # "none"
      BY <1>2, <1>3 DEF Tabled
    <2>2. Stowed(cats) = cats
      BY <1>2 DEF Stowed
    <2>3. QED
      BY <1>4, <2>1, <2>2, RefsRead DEF NoTensor
  <1>6. OneHotEncoder(x) = Gives(<<Stored("f32", G)>>)
    BY <1>1, <1>5 DEF OneHotEncoder, Spread
  <1>7. FlatOr(cats, 0, 0) = CatsTable(x)
    BY <1>3, <1>5 DEF FlatOr, CatsTable
  <1>8. ASSUME NEW h \in 1 .. K
        PROVE  own(h) = Cats(x, h) /\ IsSeq(Cats(x, h)) /\ Len(Cats(x, h)) = CatsWidth(x, h) /\ CatsWidth(x, h) \in Nat
    <2>1. offs = FlatOr(Resolve(x, k, OffsName(x)), 0, 0)
      BY <1>3
    <2> HIDE DEF k, offs
    <2>2. Own(CatsTable(x), offs, h) = Cats(x, h) /\ IsSeq(Cats(x, h)) /\ Len(Cats(x, h)) = CatsWidth(x, h)
          /\ CatsWidth(x, h) \in Nat
      BY <1>2, <1>3, <1>4, <2>1, PlacesAre
    <2>3. QED
      BY <1>7, <2>2
  <1> HIDE DEF k, offs, own
  <1>9. \A h \in 1 .. K : lens[h] = CatsWidth(x, h)
    BY <1>8
  <1>10. Len(w) = K /\ IsSeq(w) /\ \A h \in 1 .. K : w[h] = CatsWidth(x, h) /\ w[h] \in Nat
    <2>1. Len(w) = K
      BY <1>1
    <2>2. QED
      BY <1>1, <1>8, <2>1 DEF IsSeq
  <1> HIDE DEF lens
  <1>11. PICK off : EndsAt(off, w) /\ Sum(w) = off[Len(w)]
    <2> HIDE DEF w
    <2>1. QED
      BY <1>10, SumsAre
  <1>12. ASSUME NEW r \in 1 .. N
         PROVE  /\ IsSeq(G[r]) /\ Len(G[r]) = off[K] /\ off[K] \in Nat
                /\ \A h \in 1 .. K : \A j \in 1 .. CatsWidth(x, h) :
                     G[r][off[h - 1] + j] = Hot(HotPosition(x, cats, own(h), r, h), CatsWidth(x, h))[j]
    <2> DEFINE ss == hots(r)
               long == [h \in 1 .. Len(ss) |-> Len(ss[h])]
    <2>1. Len(ss) = K /\ IsSeq(ss)
      <3>1. Len(ss) = K
        BY <1>1
      <3>2. QED
        BY <1>1, <3>1 DEF IsSeq
    <2>2. ASSUME NEW h \in 1 .. K
          PROVE  /\ ss[h] = Hot(HotPosition(x, cats, own(h), r, h), CatsWidth(x, h))
                 /\ IsSeq(ss[h]) /\ Len(ss[h]) = CatsWidth(x, h)
      <3> DEFINE b == Hot(HotPosition(x, cats, own(h), r, h), CatsWidth(x, h))
                 p == HotPosition(x, cats, own(h), r, h)
                 m == CatsWidth(x, h)
      <3>1. ss[h] = b
        BY <1>9
      <3>2. b = [j \in 1 .. m |-> IF j = p + 1 THEN 1 ELSE 0] /\ m \in Nat
        BY <1>8 DEF Hot
      <3> HIDE DEF b, p, m, ss
      <3>3. Len(b) = m
        BY <3>2
      <3>4. IsSeq(b)
        BY <3>2, <3>3 DEF IsSeq
      <3>5. QED
        BY <3>1, <3>3, <3>4 DEF b, p, m
    <2>3. G[r] = FlattenSeq(ss)
      OBVIOUS
    <2> HIDE DEF ss, G
    <2>4. long = w
      <3>1. Len(long) = K /\ IsSeq(long)
        <4>1. Len(long) = K
          BY <1>1, <2>1
        <4>2. QED
          BY <1>1, <2>1, <4>1 DEF IsSeq
      <3>2. \A h \in 1 .. K : long[h] = w[h]
        BY <1>10, <2>1, <2>2
      <3> HIDE DEF long, w
      <3>3. QED
        BY <1>10, <3>1, <3>2, SameSeq
    <2>5. /\ IsSeq(FlattenSeq(ss)) /\ Len(FlattenSeq(ss)) = Sum(long) /\ Sum(long) \in Nat
          /\ LiesAt(FlattenSeq(ss), off, ss)
      <3>1. \A h \in 1 .. Len(ss) : IsSeq(ss[h])
        BY <2>1, <2>2
      <3>2. EndsAt(off, long)
        BY <1>11, <2>4
      <3>3. QED
        BY <2>1, <3>1, <3>2, FlattenIs
    <2>6. ASSUME NEW h \in 1 .. K, NEW j \in 1 .. CatsWidth(x, h)
          PROVE  G[r][off[h - 1] + j] = Hot(HotPosition(x, cats, own(h), r, h), CatsWidth(x, h))[j]
      <3>1. h \in 1 .. Len(ss) /\ j \in 1 .. Len(ss[h])
        BY <2>1, <2>2
      <3>2. FlattenSeq(ss)[off[h - 1] + j] = ss[h][j]
        BY <2>5, <3>1 DEF LiesAt
      <3>3. QED
        BY <2>2, <2>3, <3>2
    <2>7. Sum(long) = off[K]
      BY <1>10, <1>11, <2>4
    <2>8. QED
      BY <2>3, <2>5, <2>6, <2>7
  <1>13. Len(G) = N /\ IsSeq(G)
    <2>1. Len(G) = N
      OBVIOUS
    <2>2. QED
      BY <2>1 DEF IsSeq
  <1> HIDE DEF G
  <1>14. AreRows(G, N, off[K])
    <2>1. 1 \in 1 .. N
      OBVIOUS
    <2>2. QED
      BY <1>12, <1>13, <2>1 DEF AreRows
  <1>15. ASSUME NEW r \in 1 .. N, NEW j \in 1 .. CatsWidth(x, f)
         PROVE  G[r][off[f - 1] + j] = IF j = Find(s, Text(x, r, f)) + 1 THEN 1 ELSE 0
    <2> DEFINE p == HotPosition(x, cats, own(f), r, f)
    <2>1. own(f) = s
      BY <1>8
    <2>2. IsString(InputOf(x, f)) = IsString(cats)
      BY <1>3 DEF SameKinds, IsString
    <2>3. p = Find(s, Text(x, r, f))
      <3>1. CASE IsString(cats)
        BY <2>1, <2>2, <3>1 DEF HotPosition
      <3>2. CASE ~IsString(cats)
        <4>1. Num(x, r, f) = Text(x, r, f)
          BY <2>2, <3>2, CellsRead
        <4>2. QED
          BY <1>5, <2>1, <2>2, <3>2, <4>1 DEF HotPosition
      <3>3. QED
        BY <3>1, <3>2
    <2>4. G[r][off[f - 1] + j] = Hot(p, CatsWidth(x, f))[j]
      BY <1>12
    <2> HIDE DEF p, s
    <2>5. Hot(p, CatsWidth(x, f))[j] = IF j = p + 1 THEN 1 ELSE 0
      BY DEF Hot
    <2>6. QED
      BY <2>3, <2>4, <2>5
  <1> HIDE DEF w, K
  <1>16. TellsApart(x, Stored("f32", G), f, N)
    BY <1>1, <1>2, <1>3, <1>8, <1>11, <1>14, <1>15, BlockTells DEF w, K
  <1>17. QED
    BY <1>6, <1>16 DEF Gives

\* Calls of an OHENode: categories for each feature, of which none is NaN.
HotNodeFits(x, N) ==
  /\ HotFits(x, x.attrs["categories"], N) /\ NFeatures(x) <= Len(x.attrs["categories"])
  /\ Narrow(0) = 0 /\ Narrow(1) = 1
  /\ \A f \in 1 .. NFeatures(x) : NaN \notin Range(Cats(x, f))

\* Its buffer may hold anything before.
LEMMA HotNodeTells ==
  ASSUME NEW N \in Nat \ {0}, NEW x, AreTables(x.in, N), x.in # << >>, x.outs = 1, x.op = "OHENode",
         HotNodeFits(x, N), NEW f \in 1 .. NFeatures(x), SameKinds(x, f), NEW old, IsSeq(old),
         NEW cats, cats = x.attrs["categories"]
  PROVE  TellsApart(x, HotResult(x, cats, HotBuffer(x, cats, old)).out[1], f, N)
  <1> DEFINE K == Len(cats)
             w == [h \in 1 .. K |-> Len(cats[h])]
             s == Cats(x, f)
  <1>1. /\ IsSeq(cats) /\ (\A h \in 1 .. K : IsSeq(cats[h])) /\ NFeatures(x) <= K /\ HotFits(x, cats, N)
        /\ Narrow(0) = 0 /\ Narrow(1) = 1 /\ NaN \notin Range(s)
    BY DEF HotNodeFits, HotFits
  <1>2. K \in Nat /\ NFeatures(x) \in Nat /\ f \in 1 .. K /\ HotFeatures(x, cats) = 1 .. NFeatures(x)
    <2>1. NFeatures(x) \in Nat
      BY FeaturesAre
    <2>2. K \in Nat
      BY <1>1 DEF IsSeq
    <2>3. Least(K, NFeatures(x)) = NFeatures(x)
      BY <1>1, <2>1, <2>2 DEF Least
    <2>4. QED
      BY <1>1, <2>1, <2>2, <2>3 DEF HotFeatures
  <1>3. x.op \notin Whole /\ s = cats[f] /\ \A h \in 1 .. K : CatsWidth(x, h) = Len(cats[h]) /\ Len(cats[h]) \in Nat
    BY <1>1 DEF Whole, Cats, CatsWidth, IsSeq
  <1>4. /\ w = [h \in 1 .. K |-> CatsWidth(x, h)] /\ Len(w) = K /\ IsSeq(w)
        /\ \A h \in 1 .. K : w[h] = Len(cats[h]) /\ w[h] \in Nat
    <2>1. w = [h \in 1 .. K |-> CatsWidth(x, h)]
      BY <1>3
    <2>2. Len(w) = K
      BY <1>2
    <2>3. QED
      BY <1>2, <1>3, <2>1, <2>2 DEF IsSeq
  <1>5. PICK off : EndsAt(off, w) /\ Sum(w) = off[K]
    <2> HIDE DEF w
    <2>1. \E off : EndsAt(off, w) /\ Sum(w) = off[Len(w)]
      BY <1>4, SumsAre
    <2>2. QED
      BY <1>4, <2>1
  <1> DEFINE G == [r \in 1 .. N |-> HotRow(x, cats, off, r)]
  <1>6. /\ AreRows(G, N, off[K])
        /\ HotResult(x, cats, HotBuffer(x, cats, old)) = Spread(x, Stored("f32", G), w)
    BY <1>1, <1>5, HotAnswers
  <1>7. HotResult(x, cats, HotBuffer(x, cats, old)).out[1] = Stored("f32", G)
    BY <1>6 DEF Spread, Gives
  <1>8. ASSUME NEW r \in 1 .. N, NEW j \in 1 .. CatsWidth(x, f)
        PROVE  G[r][off[f - 1] + j] = IF j = Find(s, Text(x, r, f)) + 1 THEN 1 ELSE 0
    <2> DEFINE i == off[f - 1] + j
               p == Find(s, Text(x, r, f))
    <2>1. HotAt(x, cats, r, f) = p
      BY <1>3 DEF HotAt, SameKinds
    <2>2. ASSUME NEW g \in HotFeatures(x, cats)
          PROVE  g \in 1 .. K /\ HotAt(x, cats, r, g) \in -1 .. Len(cats[g]) - 1
      <3>1. N \in Nat \ {0} /\ r \in 1 .. N /\ AreTables(x.in, N) /\ HotFits(x, cats, N)
        BY <1>1
      <3>2. g \in 1 .. Len(cats) /\ HotAt(x, cats, r, g) \in -1 .. Len(cats[g]) - 1
        BY ONLY <2>2, <3>1, HotAtIs
      <3>3. QED
        BY <3>2
    <2>3. i \in 1 .. off[K]
      <3>1. off[f] = off[f - 1] + w[f] /\ off[f - 1] \in Nat /\ off[K] \in Nat
        <4>1. f - 1 \in 0 .. K /\ K \in 0 .. K
          BY <1>2
        <4>2. QED
          BY <1>2, <1>4, <1>5, <4>1 DEF EndsAt
      <3>2. off[f] <= off[K]
        <4>1. f \in 0 .. K /\ K \in 0 .. K /\ f <= K
          BY <1>2
        <4> HIDE DEF w
        <4>2. QED
          BY <1>4, <1>5, <4>1, EndsGrow
      <3>3. w[f] = CatsWidth(x, f) /\ w[f] \in Nat
        BY <1>2, <1>3, <1>4
      <3> HIDE DEF w, K
      <3>4. QED
        BY <3>1, <3>2, <3>3
    <2>4. IsHot(x, cats, off, r, i) <=> j = p + 1
      <3>1. ASSUME NEW g \in HotFeatures(x, cats), HotAt(x, cats, r, g) >= 0,
                   i = off[g - 1] + HotAt(x, cats, r, g) + 1
            PROVE  j = p + 1
        <4> DEFINE q == HotAt(x, cats, r, g) + 1
        <4>1. g \in 1 .. K /\ q \in 1 .. w[g]
          <5> DEFINE h == HotAt(x, cats, r, g)
                     l == Len(cats[g])
          <5>1. g \in 1 .. K /\ h \in -1 .. l - 1 /\ h >= 0
            BY <2>2, <3>1
          <5>2. w[g] = l /\ l \in Nat
            BY <1>3, <1>4, <5>1
          <5> HIDE DEF h, l, w
          <5>3. h + 1 \in 1 .. l
            BY <5>1, <5>2
          <5>4. QED
            BY <5>1, <5>2, <5>3 DEF h
        <4>2. f \in 1 .. Len(w) /\ g \in 1 .. Len(w) /\ j \in 1 .. w[f]
          BY <1>2, <1>3, <1>4, <4>1
        <4>3. off[g - 1] \in Nat
          <5>1. g - 1 \in 0 .. K
            BY <1>2, <4>1
          <5>2. QED
            BY <1>4, <1>5, <5>1 DEF EndsAt
        <4>4. off[f - 1] + j = off[g - 1] + q
          <5> DEFINE h == HotAt(x, cats, r, g)
          <5>1. h \in Int
            BY <1>3, <2>2
          <5> HIDE DEF h
          <5>2. QED
            BY <3>1, <4>3, <5>1 DEF h
        <4> HIDE DEF w, q
        <4>5. f = g /\ j = q
          <5>1. \A h \in 1 .. Len(w) : w[h] \in Nat
            BY <1>4
          <5>2. IsSeq(w) /\ EndsAt(off, w)
            BY <1>4, <1>5
          <5>3. QED
            BY ONLY <4>1, <4>2, <4>4, <5>1, <5>2, BlocksApart
        <4>6. QED
          BY <2>1, <4>5 DEF q
      <3>2. ASSUME j = p + 1
            PROVE  IsHot(x, cats, off, r, i)
        <4>1. f \in HotFeatures(x, cats)
          BY <1>2
        <4>2. p \in Int /\ p >= 0
          <5>1. p \in -1 .. Len(cats[f]) - 1
            BY <2>1, <2>2, <4>1
          <5>2. j \in Int /\ j >= 1
            BY <1>2, <1>3
          <5> HIDE DEF p
          <5>3. p \in Int
            BY <5>1
          <5>4. QED
            BY <3>2, <5>2, <5>3
        <4>3. off[f - 1] \in Nat
          <5>1. f - 1 \in 0 .. K
            BY <1>2
          <5>2. QED
            BY <1>4, <1>5, <5>1 DEF EndsAt
        <4> HIDE DEF p
        <4>4. i = off[f - 1] + p + 1
          BY <3>2, <4>2, <4>3
        <4>5. QED
          BY <2>1, <4>1, <4>2, <4>4 DEF IsHot
      <3>3. QED
        BY <3>1, <3>2 DEF IsHot
    <2>5. G[r] = HotRow(x, cats, off, r)
      OBVIOUS
    <2> HIDE DEF i, p, G
    <2>6. HotRow(x, cats, off, r)[i] = IF IsHot(x, cats, off, r, i) THEN 1 ELSE 0
      BY <2>3 DEF HotRow
    <2>7. QED
      BY <2>4, <2>5, <2>6 DEF i, p
  <1> HIDE DEF w, G, K
  <1>9. TellsApart(x, Stored("f32", G), f, N)
    BY <1>1, <1>2, <1>3, <1>4, <1>5, <1>6, <1>8, BlockTells
  <1>10. QED
    BY <1>7, <1>9

\* What an encoder's call has to be: tables, one output, and categories it can hold apart.
Encodes(x, N) ==
  /\ AreTables(x.in, N) /\ x.in # << >> /\ x.outs = 1
  /\ x.op \in Whole           => WholeFits(x)
  /\ x.op = "OneHotEncoder"   => OneHotFits(x)
  /\ x.op = "OHENode"         => HotNodeFits(x, N)

\* Calls alike but for the store they are made from.
SameCalls(x, y) ==
  y.op = x.op /\ y.in = x.in /\ y.outs = x.outs /\ y.attrs = x.attrs /\ y.refs = x.refs

\* Such calls read the same,
LEMMA SameReads ==
  ASSUME NEW x, NEW y, SameCalls(x, y)
  PROVE  /\ PerCol(y) = PerCol(x) /\ NFeatures(y) = NFeatures(x)
         /\ \A f : InputOf(y, f) = InputOf(x, f)
         /\ \A r, f : Text(y, r, f) = Text(x, r, f) /\ Num(y, r, f) = Num(x, r, f)
         /\ \A k, name : Resolve64(y, k, name) = Resolve64(x, k, name)
  <1>1. y.in = x.in /\ y.refs = x.refs
    BY DEF SameCalls
  <1>2. PerCol(y) = PerCol(x)
    BY <1>1 DEF PerCol
  <1>3. NFeatures(y) = NFeatures(x)
    BY <1>1, <1>2 DEF NFeatures
  <1>4. \A f : InputOf(y, f) = InputOf(x, f)
    BY <1>1, <1>2 DEF InputOf
  <1>5. \A r, f : Text(y, r, f) = Text(x, r, f)
    BY <1>2, <1>4 DEF Text
  <1>6. \A r, f : Num(y, r, f) = Num(x, r, f)
    BY <1>2, <1>4 DEF Num
  <1>7. \A k, name : Resolve(y, k, name) = Resolve(x, k, name)
    BY <1>1 DEF Resolve
  <1>8. \A k, name : Resolve64(y, k, name) = Resolve64(x, k, name)
    BY <1>1, <1>7 DEF Resolve64
  <1>9. QED
    BY <1>2, <1>3, <1>4, <1>5, <1>6, <1>8

\* look it up in the same categories,
LEMMA SameCats ==
  ASSUME NEW x, NEW y, SameCalls(x, y)
  PROVE  /\ CatsName(y) = CatsName(x) /\ OffsName(y) = OffsName(x)
         /\ CatsTable(y) = CatsTable(x) /\ CatsOffsets(y) = CatsOffsets(x)
         /\ \A f : Cats(y, f) = Cats(x, f) /\ CatsWidth(y, f) = CatsWidth(x, f)
         /\ Tabled(y) <=> Tabled(x)
  <1>1. y.op = x.op /\ y.attrs = x.attrs /\ y.refs = x.refs
    BY DEF SameCalls
  <1>2. CatsName(y) = CatsName(x) /\ OffsName(y) = OffsName(x)
    BY <1>1 DEF CatsName, OffsName
  <1>3. CatsTable(y) = CatsTable(x)
    BY <1>1, <1>2 DEF CatsTable
  <1>4. CatsOffsets(y) = CatsOffsets(x)
    BY <1>1, <1>2, <1>3 DEF CatsOffsets
  <1>5. \A f : Cats(y, f) = Cats(x, f)
    BY <1>1, <1>3, <1>4 DEF Cats
  <1>6. \A f : CatsWidth(y, f) = CatsWidth(x, f)
    BY <1>1, <1>4 DEF CatsWidth
  <1>7. NFeatures(y) = NFeatures(x)
    BY SameReads
  <1>8. Tabled(y) <=> Tabled(x)
    BY ONLY <1>1, <1>2, <1>3, <1>4, <1>7 DEF Tabled
  <1>9. QED
    BY <1>2, <1>3, <1>4, <1>5, <1>6, <1>8

\* fit alike, and their answers are read alike.
LEMMA SameFits ==
  ASSUME NEW x, NEW y, SameCalls(x, y), NEW N
  PROVE  /\ Encodes(y, N) <=> Encodes(x, N)
         /\ \A f : SameKinds(y, f) <=> SameKinds(x, f)
         /\ \A t, f : TellsApart(y, t, f, N) <=> TellsApart(x, t, f, N)
  <1>1. y.op = x.op /\ y.in = x.in /\ y.outs = x.outs /\ y.attrs = x.attrs /\ y.refs = x.refs
    BY DEF SameCalls
  <1>2. /\ PerCol(y) = PerCol(x) /\ NFeatures(y) = NFeatures(x)
        /\ \A f : InputOf(y, f) = InputOf(x, f)
        /\ \A r, f : Text(y, r, f) = Text(x, r, f) /\ Num(y, r, f) = Num(x, r, f)
        /\ \A k, name : Resolve64(y, k, name) = Resolve64(x, k, name)
    BY SameReads
  <1>3. /\ CatsName(y) = CatsName(x) /\ OffsName(y) = OffsName(x)
        /\ CatsTable(y) = CatsTable(x) /\ CatsOffsets(y) = CatsOffsets(x)
        /\ \A f : Cats(y, f) = Cats(x, f) /\ CatsWidth(y, f) = CatsWidth(x, f)
        /\ Tabled(y) <=> Tabled(x)
    BY SameCats
  <1>4. \A f, k : OrdinalCode(y, f, k) = OrdinalCode(x, f, k)
    BY ONLY <1>1, <1>2, <1>3 DEF OrdinalCode
  <1>5. \A f, k : TargetCode(y, f, k) = TargetCode(x, f, k)
    BY ONLY <1>1, <1>2, <1>3 DEF TargetCode
  <1>6. WholeFits(y) <=> WholeFits(x)
    BY ONLY <1>1, <1>2, <1>3, <1>4, <1>5 DEF WholeFits
  <1>7. OneHotFits(y) <=> OneHotFits(x)
    BY ONLY <1>1, <1>2, <1>3 DEF OneHotFits
  <1>8. HotNodeFits(y, N) <=> HotNodeFits(x, N)
    <2>1. \A cats : HotFeatures(y, cats) = HotFeatures(x, cats)
      BY <1>2 DEF HotFeatures
    <2>2. \A cats : HotFits(y, cats, N) <=> HotFits(x, cats, N)
      BY ONLY <1>1, <1>2, <2>1 DEF HotFits
    <2>3. QED
      BY ONLY <1>1, <1>2, <1>3, <2>2 DEF HotNodeFits
  <1>9. Encodes(y, N) <=> Encodes(x, N)
    BY ONLY <1>1, <1>6, <1>7, <1>8 DEF Encodes
  <1>10. \A f : SameKinds(y, f) <=> SameKinds(x, f)
    BY ONLY <1>1, <1>2, <1>3 DEF SameKinds
  <1>11. ASSUME NEW row, NEW f PROVE CodeIn(y, row, f) = CodeIn(x, row, f)
    <2> DEFINE v == [g \in 1 .. f - 1 |-> CatsWidth(y, g)]
               w == [g \in 1 .. f - 1 |-> CatsWidth(x, g)]
    <2>1. v = w
      BY <1>3
    <2>2. /\ CodeIn(y, row, f) = IF y.op \in Whole THEN <<row[f]>>
                                 ELSE SubSeq(row, Sum(v) + 1, Sum(v) + CatsWidth(y, f))
          /\ CodeIn(x, row, f) = IF x.op \in Whole THEN <<row[f]>>
                                 ELSE SubSeq(row, Sum(w) + 1, Sum(w) + CatsWidth(x, f))
      BY DEF CodeIn
    <2> HIDE DEF v, w
    <2>3. QED
      BY <1>1, <1>3, <2>1, <2>2
  <1>12. ASSUME NEW t, NEW f PROVE TellsApart(y, t, f, N) <=> TellsApart(x, t, f, N)
    BY ONLY <1>2, <1>3, <1>11 DEF TellsApart
  <1>13. QED
    BY <1>9, <1>10, <1>12

\* The encoders the registry has answer with one tensor, which tells apart what it
\* should.
LEMMA EncoderTells ==
  ASSUME NEW N \in Nat \ {0}, NEW x, Encodes(x, N), x.op \in Whole \cup {"OneHotEncoder"},
         NEW f \in 1 .. NFeatures(x), SameKinds(x, f)
  PROVE  DOMAIN Answer(x).out = {1} /\ TellsApart(x, Answer(x).out[1], f, N)
  <1>1. AreTables(x.in, N) /\ x.in # << >> /\ x.outs = 1
    BY DEF Encodes
  <1>2. Answer(x) = FeatureKernel(x)
    <2>1. x.op \in FeatureNames
      BY DEF FeatureNames, Whole
    <2>2. QED
      BY <2>1, FeatureAnswer
  <1>3. CASE x.op = "LabelEncoder"
    <2>1. WholeFits(x)
      BY <1>3 DEF Encodes, Whole
    <2>2. TellsApart(x, LabelEncoder(x).out[1], f, N)
      BY <1>1, <1>3, <2>1, LabelEncoderTells
    <2>3. FeatureKernel(x) = LabelEncoder(x)
      BY <1>3 DEF FeatureKernel
    <2>4. DOMAIN LabelEncoder(x).out = {1}
      BY <1>1 DEF LabelEncoder, Spread, Gives
    <2>5. QED
      BY <1>2, <2>2, <2>3, <2>4
  <1>4. CASE x.op = "OrdinalEncoder"
    <2>1. WholeFits(x)
      BY <1>4 DEF Encodes, Whole
    <2>2. TellsApart(x, OrdinalEncoder(x).out[1], f, N)
      BY <1>1, <1>4, <2>1, OrdinalEncoderTells
    <2>3. FeatureKernel(x) = OrdinalEncoder(x)
      BY <1>4 DEF FeatureKernel
    <2>4. DOMAIN OrdinalEncoder(x).out = {1}
      BY DEF OrdinalEncoder, Gives
    <2>5. QED
      BY <1>2, <2>2, <2>3, <2>4
  <1>5. CASE x.op = "TargetEncoder"
    <2>1. WholeFits(x)
      BY <1>5 DEF Encodes, Whole
    <2>2. TellsApart(x, TargetEncoder(x).out[1], f, N)
      BY <1>1, <1>5, <2>1, TargetEncoderTells
    <2>3. FeatureKernel(x) = TargetEncoder(x)
      BY <1>5 DEF FeatureKernel
    <2>4. DOMAIN TargetEncoder(x).out = {1}
      BY DEF TargetEncoder, Gives
    <2>5. QED
      BY <1>2, <2>2, <2>3, <2>4
  <1>6. CASE x.op = "OneHotEncoder"
    <2>1. OneHotFits(x)
      BY <1>6 DEF Encodes
    <2>2. TellsApart(x, OneHotEncoder(x).out[1], f, N)
      BY <1>1, <1>6, <2>1, OneHotEncoderTells
    <2>3. FeatureKernel(x) = OneHotEncoder(x)
      BY <1>6 DEF FeatureKernel
    <2>4. DOMAIN OneHotEncoder(x).out = {1}
      BY <1>1 DEF OneHotEncoder, Spread, Gives
    <2>5. QED
      BY <1>2, <2>2, <2>3, <2>4
  <1>7. QED
    BY <1>3, <1>4, <1>5, <1>6 DEF Whole

\* The property reads of the store what the call does.
LEMMA EncoderRead ==
  ASSUME NEW node, IsSeq(node.in), node.in # << >>, node.op \in Encoding,
         NEW x, x = Called(node, vs, job.fns)
  PROVE  /\ Features(node) = NFeatures(x)
         /\ \A f \in 1 .. NFeatures(x) :
              /\ SameKind(node, f) <=> SameKinds(x, f)
              /\ DeclaredFor(node, f) = Range(Cats(x, f))
              /\ \A r : Cell(node, r, f) = Text(x, r, f)
              /\ \A r : Code(node, r, f) = CodeIn(x, Out(node).cells[r], f)
  <1> DEFINE ins == [i \in DOMAIN node.in |-> vs[node.in[i]]]
  <1>1. x.op = node.op /\ x.in = ins /\ x.attrs = node.attrs /\ x.refs = node.refs
    BY DEF Called
  <1>2. DOMAIN node.in = 1 .. Len(node.in) /\ Len(node.in) \in Nat \ {0}
    BY DEF IsSeq
  <1>3. Len(ins) = Len(node.in) /\ \A i \in 1 .. Len(node.in) : ins[i] = In(node, i)
    BY <1>2 DEF In
  <1> HIDE DEF ins
  <1>4. x.in[1] = In(node, 1) /\ Len(x.in) = Len(node.in)
    BY <1>1, <1>2, <1>3
  <1>5. PerCol(x) = (Len(node.in) > 1) /\ Features(node) = NFeatures(x)
    BY <1>4 DEF PerCol, Features, NFeatures
  <1>6. ASSUME NEW f \in 1 .. NFeatures(x)
        PROVE  /\ InputOf(x, f) = (IF Len(node.in) > 1 THEN In(node, f) ELSE In(node, 1))
               /\ \A r : Cell(node, r, f) = Text(x, r, f)
    <2>1. Len(node.in) > 1 => f \in 1 .. Len(node.in)
      BY <1>4, <1>5 DEF NFeatures
    <2>2. InputOf(x, f) = (IF Len(node.in) > 1 THEN In(node, f) ELSE In(node, 1))
      BY <1>1, <1>3, <1>4, <1>5, <2>1 DEF InputOf
    <2>3. \A r : Cell(node, r, f) = Text(x, r, f)
      BY <1>5, <2>2 DEF Cell, Text
    <2>4. QED
      BY <2>2, <2>3
  <1>7. ASSUME NEW f \in 1 .. NFeatures(x) PROVE SameKind(node, f) <=> SameKinds(x, f)
    BY <1>1, <1>6 DEF SameKind, SameKinds, CatsName
  <1>8. Table(node) = CatsTable(x)
    BY <1>1 DEF Table, CatsTable, CatsName
  <1>9. Offsets(node) = CatsOffsets(x)
    BY <1>1, <1>8 DEF Offsets, CatsOffsets, OffsName
  <1>10. \A f : DeclaredFor(node, f) = Range(Cats(x, f))
    BY <1>1, <1>8, <1>9 DEF DeclaredFor, Cats
  <1>11. ASSUME NEW r, NEW f PROVE Code(node, r, f) = CodeIn(x, Out(node).cells[r], f)
    <2> DEFINE width(g) == IF node.op = "OHENode" THEN Len(node.attrs["categories"][g])
                           ELSE Offsets(node)[g + 1] - Offsets(node)[g]
               v == [g \in 1 .. f - 1 |-> width(g)]
               w == [g \in 1 .. f - 1 |-> CatsWidth(x, g)]
               row == Out(node).cells[r]
    <2>1. \A g : width(g) = CatsWidth(x, g)
      BY <1>1, <1>9 DEF CatsWidth
    <2>2. v = w
      BY <2>1
    <2>3. Code(node, r, f) = IF node.op \notin {"OneHotEncoder", "OHENode"} THEN <<row[f]>>
                             ELSE SubSeq(row, Sum(v) + 1, Sum(v) + width(f))
      BY DEF Code
    <2>4. CodeIn(x, row, f) = IF x.op \in Whole THEN <<row[f]>>
                              ELSE SubSeq(row, Sum(w) + 1, Sum(w) + CatsWidth(x, f))
      BY DEF CodeIn
    <2>5. (node.op \notin {"OneHotEncoder", "OHENode"}) <=> x.op \in Whole
      BY <1>1 DEF Encoding, Whole
    <2> HIDE DEF v, w, width, row
    <2>6. Code(node, r, f) = CodeIn(x, row, f)
      BY <2>1, <2>2, <2>3, <2>4, <2>5
    <2>7. QED
      BY <2>6 DEF row
  <1>12. QED
    BY <1>5, <1>6, <1>7, <1>10, <1>11

\* Of a node that gave these tensors, what it read is there, and what it gave where
\* it writes.
LeftBy(node, V, ts, store) ==
  /\ \A n \in Range(node.in) : n \in DOMAIN V /\ n \in DOMAIN store /\ V[n] = store[n]
  /\ \A n \in Range(node.out) \cap DOMAIN store :
       \E i \in DOMAIN node.out \cap DOMAIN ts : node.out[i] = n /\ store[n] = ts[i]
  /\ \A i \in DOMAIN node.out \cap DOMAIN ts : node.out[i] \in DOMAIN store

\* What an OHENode gives with this in its buffer.
HotGave(node, V, fns, old) ==
  LET x == Called(node, V, fns)
      cats == node.attrs["categories"]
  IN  HotResult(x, cats, HotBuffer(x, cats, old)).out
HotStood(node, fns, store) ==
  \E V, old : IsSeq(old) /\ LeftBy(node, V, HotGave(node, V, fns, old), store)
HotLeft(j, k, store) ==
  \A m \in 1 .. k - 1 : j.nodes[m].op = "OHENode" => HotStood(j.nodes[m], j.fns, store)
HotInv == IsSeq(scratch) /\ (slice # 0 => HotLeft(job, pc, vs))

\* It stays so through a later node.
LEMMA LeftStays ==
  ASSUME NEW j, SingleWriter(j), NEW k \in 1 .. Len(j.nodes), NEW m \in 1 .. k - 1,
         NEW V, NEW U, NEW us, LeftBy(j.nodes[m], U, us, V),
         NEW ts, NEW W, W = Puts(V, j.nodes[k], ts)
  PROVE  LeftBy(j.nodes[m], U, us, W)
  <1> DEFINE node == j.nodes[k]
             before == j.nodes[m]
  <1>1. IsSeq(node.out) /\ Range(node.out) \cap (Range(before.in) \cup Range(before.out)) = {}
    BY DEF SingleWriter
  <1>2. Kept(V, node, ts, W)
    BY <1>1, PutsKeeps
  <1>3. LeftBy(before, U, us, V)
    OBVIOUS
  <1> HIDE DEF node, before
  <1>4. /\ DOMAIN V \subseteq DOMAIN W
        /\ \A n \in DOMAIN W \ Range(node.out) : n \in DOMAIN V /\ W[n] = V[n]
    BY ONLY <1>2 DEF Kept
  <1>5. \A n \in Range(before.in) : n \in DOMAIN U /\ n \in DOMAIN W /\ U[n] = W[n]
    BY ONLY <1>1, <1>3, <1>4 DEF LeftBy
  <1>6. \A n \in Range(before.out) \cap DOMAIN W : n \in DOMAIN V /\ V[n] = W[n]
    BY ONLY <1>1, <1>4
  <1>7. /\ \A n \in Range(before.out) \cap DOMAIN V :
             \E i \in DOMAIN before.out \cap DOMAIN us : before.out[i] = n /\ V[n] = us[i]
        /\ \A i \in DOMAIN before.out \cap DOMAIN us : before.out[i] \in DOMAIN V
    BY ONLY <1>3 DEF LeftBy
  <1>8. /\ \A n \in Range(before.out) \cap DOMAIN W :
             \E i \in DOMAIN before.out \cap DOMAIN us : before.out[i] = n /\ W[n] = us[i]
        /\ \A i \in DOMAIN before.out \cap DOMAIN us : before.out[i] \in DOMAIN W
    BY ONLY <1>4, <1>6, <1>7
  <1>9. LeftBy(before, U, us, W)
    BY ONLY <1>5, <1>8 DEF LeftBy
  <1>10. QED
    BY <1>9 DEF before

\* It is so of the node that was just put.
LEMMA LeftNew ==
  ASSUME NEW j, SingleWriter(j), NEW k \in 1 .. Len(j.nodes), NEW V, StandsTo(j, k, V),
         NEW node, node = j.nodes[k], Reads(node, V), NEW ts, NEW W, W = Puts(V, node, ts)
  PROVE  LeftBy(node, V, ts, W)
  <1>1. /\ IsSeq(node.out) /\ Range(node.out) \cap (DOMAIN j.in \cup Range(node.in)) = {}
        /\ \A m \in 1 .. k - 1 : Range(node.out) \cap Range(j.nodes[m].out) = {}
    BY DEF SingleWriter
  <1>2. Kept(V, node, ts, W)
    BY <1>1, PutsKeeps
  <1>3. /\ DOMAIN V \subseteq DOMAIN W
        /\ \A n \in DOMAIN W \ Range(node.out) : n \in DOMAIN V /\ W[n] = V[n]
        /\ \A n \in DOMAIN W \ DOMAIN V :
             \E i \in DOMAIN node.out \cap DOMAIN ts : node.out[i] = n /\ W[n] = ts[i]
        /\ \A i \in DOMAIN node.out \cap DOMAIN ts : node.out[i] \in DOMAIN W
    BY ONLY <1>2 DEF Kept
  <1>4. \A n \in Range(node.in) : n \in DOMAIN V /\ n \in DOMAIN W /\ V[n] = W[n]
    BY <1>1, <1>3 DEF Reads
  <1>5. \A n \in Range(node.out) : n \notin DOMAIN V
    BY <1>1 DEF StandsTo
  <1>6. QED
    BY ONLY <1>3, <1>4, <1>5 DEF LeftBy

\* A step of one node keeps what the OHENodes before it gave.
LEMMA HotKept ==
  ASSUME NEW j, SingleWriter(j), NEW k \in 1 .. Len(j.nodes), NEW V, StandsTo(j, k, V), HotLeft(j, k, V),
         NEW node, node = j.nodes[k], Reads(node, V), NEW ts, NEW W, W = Puts(V, node, ts),
         node.op = "OHENode" => \E old : IsSeq(old) /\ ts = HotGave(node, V, j.fns, old)
  PROVE  HotLeft(j, k + 1, W)
  <1>1. 1 .. (k + 1) - 1 = (1 .. k - 1) \cup {k}
    BY DEF SingleWriter
  <1>2. ASSUME NEW m \in 1 .. k - 1, j.nodes[m].op = "OHENode"
        PROVE  HotStood(j.nodes[m], j.fns, W)
    <2>1. HotStood(j.nodes[m], j.fns, V)
      BY <1>2 DEF HotLeft
    <2>2. PICK U, old : IsSeq(old) /\ LeftBy(j.nodes[m], U, HotGave(j.nodes[m], U, j.fns, old), V)
      BY <2>1 DEF HotStood
    <2>3. LeftBy(j.nodes[m], U, HotGave(j.nodes[m], U, j.fns, old), W)
      BY <2>2, LeftStays
    <2>4. QED
      BY <2>2, <2>3 DEF HotStood
  <1>3. ASSUME node.op = "OHENode" PROVE HotStood(node, j.fns, W)
    <2>1. LeftBy(node, V, ts, W)
      BY LeftNew
    <2>2. PICK old : IsSeq(old) /\ ts = HotGave(node, V, j.fns, old)
      BY <1>3
    <2>3. QED
      BY <2>1, <2>2 DEF HotStood
  <1>4. QED
    BY <1>1, <1>2, <1>3 DEF HotLeft

\* Calls of an OHENode, of however many outputs.
HotCalled(x, N) == AreTables(x.in, N) /\ HotFits(x, x.attrs["categories"], N)

\* The encoders the current slice has been through were called as they have to be.
EncodersFair ==
  \A node \in Ran :
    /\ node.op \in Encoding /\ Len(node.out) = 1 => Encodes(Called(node, vs, job.fns), cut[slice])
    /\ node.op = "OHENode" => HotCalled(Called(node, vs, job.fns), cut[slice])

\* A slice that has been begun has rows.
LEMMA SliceHasRows ==
  ASSUME Laid, slice # 0
  PROVE  cut[slice] \in Nat \ {0}
  <1>1. cut \in Seq(Nat \ {0})
    <2>1. BatchRows(job) \in DOMAIN Cuts
      BY OperatorAssumption DEF Laid
    <2>2. QED
      BY <2>1, OperatorAssumption DEF Laid
  <1>2. slice \in DOMAIN cut
    BY DEF Laid
  <1>3. QED
    BY <1>1, <1>2

\* The other operators leave the buffer and what stands in the store.
LEMMA ExecuteHotKept ==
  ASSUME StandInv, SingleWriter(job), HotInv, NEW names, "OHENode" \notin names, Execute(names)
  PROVE  HotInv'
  <1> DEFINE got == Outcome(Node, vs, job.fns)
  <1>1. /\ slice # 0 /\ pc <= Len(job.nodes) /\ Node.op # "OHENode" /\ Reads(Node, vs)
        /\ job' = job /\ slice' = slice /\ scratch' = scratch
        /\ IF got.ok THEN vs' = Puts(vs, Node, got.out) /\ pc' = pc + 1 ELSE UNCHANGED <<vs, pc>>
    BY DEF Execute, CanRun
  <1>2. IsSeq(scratch) /\ HotLeft(job, pc, vs)
    BY <1>1 DEF HotInv
  <1>3. CASE ~got.ok
    BY <1>1, <1>2, <1>3 DEF HotInv
  <1>4. CASE got.ok
    <2>1. pc \in 1 .. Len(job.nodes) /\ StandsTo(job, pc, vs)
      <3>1. pc \in 1 .. Len(job.nodes) + 1 /\ StandsTo(job, pc, vs)
        BY <1>1 DEF StandInv
      <3>2. Len(job.nodes) \in Nat
        BY DEF SingleWriter
      <3>3. QED
        BY <1>1, <3>1, <3>2
    <2>2. Node = job.nodes[pc] /\ vs' = Puts(vs, Node, got.out)
      BY <1>1, <1>4 DEF Node
    <2> HIDE DEF got
    <2>3. HotLeft(job, pc + 1, vs')
      BY <1>1, <1>2, <2>1, <2>2, HotKept
    <2>4. QED
      BY <1>1, <1>2, <1>4, <2>3 DEF HotInv
  <1>5. QED
    BY <1>3, <1>4

\* The buffer is a sequence again after an OHENode, as its call is one of those that
\* have been made after it.
LEMMA HotHotKept ==
  ASSUME Laid, StandInv, SingleWriter(job), EncodersFair', HotInv, ExecuteHot
  PROVE  HotInv'
  <1> DEFINE cats == Node.attrs["categories"]
             N == cut[slice]
             ts == HotResult(HotCall, cats, scratch').out
             next == Called(Node, vs', job.fns)
  <1>1. /\ slice # 0 /\ pc <= Len(job.nodes) /\ Node.op = "OHENode" /\ Reads(Node, vs)
        /\ job' = job /\ slice' = slice /\ cut' = cut /\ pc' = pc + 1
        /\ scratch' = HotBuffer(HotCall, cats, scratch) /\ vs' = Puts(vs, Node, ts)
    BY DEF ExecuteHot, CanRun
  <1>2. IsSeq(scratch) /\ HotLeft(job, pc, vs)
    BY <1>1 DEF HotInv
  <1>3. pc \in 1 .. Len(job.nodes) /\ StandsTo(job, pc, vs)
    <2>1. pc \in 1 .. Len(job.nodes) + 1 /\ StandsTo(job, pc, vs)
      BY <1>1 DEF StandInv
    <2>2. Len(job.nodes) \in Nat
      BY DEF SingleWriter
    <2>3. QED
      BY <1>1, <2>1, <2>2
  <1>4. Node = job.nodes[pc] /\ N \in Nat \ {0}
    BY <1>1, SliceHasRows DEF Node
  <1>5. ts = HotGave(Node, vs, job.fns, scratch)
    BY <1>1 DEF HotGave, HotCall
  <1> HIDE DEF ts
  <1>6. HotLeft(job, pc + 1, vs')
    BY <1>1, <1>2, <1>3, <1>4, <1>5, HotKept
  <1>7. HotCalled(next, N)
    <2>1. Node \in Ran'
      <3>1. Ran' = {job.nodes[k] : k \in 1 .. (pc + 1) - 1}
        BY <1>1 DEF Ran
      <3>2. pc \in 1 .. (pc + 1) - 1
        BY <1>3
      <3>3. QED
        BY <1>4, <3>1, <3>2
    <2>2. \A node \in Ran' : node.op = "OHENode" => HotCalled(Called(node, vs', job.fns), N)
      BY <1>1 DEF EncodersFair
    <2>3. QED
      BY <1>1, <2>1, <2>2
  <1>8. SameCalls(next, HotCall)
    <2>1. LeftBy(Node, vs, ts, vs')
      BY <1>1, <1>3, <1>4, LeftNew
    <2>2. \A i \in DOMAIN Node.in : vs'[Node.in[i]] = vs[Node.in[i]]
      BY <2>1 DEF LeftBy, Range
    <2>3. [i \in DOMAIN Node.in |-> vs'[Node.in[i]]] = [i \in DOMAIN Node.in |-> vs[Node.in[i]]]
      BY <2>2
    <2>4. QED
      BY <2>3 DEF SameCalls, HotCall, Called
  <1>9. AreTables(HotCall.in, N) /\ HotFits(HotCall, cats, N)
    <2>1. AreTables(next.in, N) /\ HotFits(next, next.attrs["categories"], N)
      BY <1>7 DEF HotCalled
    <2>2. next.attrs = Node.attrs
      BY DEF Called
    <2>3. HotFits(next, cats, N)
      BY <2>1, <2>2
    <2> HIDE DEF next, cats, N
    <2>4. HotCall.in = next.in /\ HotCall.outs = next.outs
      BY <1>8 DEF SameCalls
    <2>5. /\ NFeatures(HotCall) = NFeatures(next) /\ \A f : InputOf(HotCall, f) = InputOf(next, f)
          /\ \A r, f : Num(HotCall, r, f) = Num(next, r, f)
      BY <1>8, SameReads
    <2>6. HotFeatures(HotCall, cats) = HotFeatures(next, cats)
      BY <2>5 DEF HotFeatures
    <2>7. HotFits(HotCall, cats, N)
      BY ONLY <2>3, <2>4, <2>5, <2>6 DEF HotFits
    <2>8. QED
      BY <2>1, <2>4, <2>7
  <1>10. IsSeq(scratch')
    <2> HIDE DEF N, cats, next
    <2> DEFINE w == [f \in 1 .. Len(cats) |-> Len(cats[f])]
    <2>1. IsSeq(cats) /\ \A f \in 1 .. Len(cats) : IsSeq(cats[f])
      BY <1>9 DEF HotFits
    <2>2. Len(cats) \in Nat /\ \A f \in 1 .. Len(cats) : Len(cats[f]) \in Nat
      BY <2>1 DEF IsSeq
    <2>3. IsSeq(w) /\ \A f \in 1 .. Len(w) : w[f] \in Nat
      BY <2>2 DEF IsSeq
    <2>4. PICK off : EndsAt(off, w)
      <3> HIDE DEF w
      <3>1. QED
        BY <2>3, SumsAre
    <2>5. IsSeq(HotBuffer(HotCall, cats, scratch))
      BY <1>2, <1>4, <1>9, <2>4, BufferHolds
    <2>6. QED
      BY <1>1, <2>5
  <1>11. QED
    BY <1>1, <1>6, <1>10 DEF HotInv

\* So it is after every step.
LEMMA NextHotKept ==
  ASSUME Laid, StandInv, SingleWriter(job), EncodersFair', HotInv, [ONext]_ovars
  PROVE  HotInv'
  <1>1. ASSUME NEW i \in todo, BeginSlice(i) PROVE HotInv'
    <2>1. pc' = 1 /\ scratch' = scratch
      BY <1>1 DEF BeginSlice
    <2>2. 1 .. pc' - 1 = {}
      BY <2>1
    <2>3. QED
      BY <2>1, <2>2 DEF HotInv, HotLeft
  <1>2. CASE ExecuteCore
    BY <1>2, ExecuteHotKept DEF ExecuteCore, CoreNames
  <1>3. CASE ExecuteFeature
    BY <1>3, ExecuteHotKept DEF ExecuteFeature, FeatureNames
  <1>4. CASE ExecuteLearned
    BY <1>4, ExecuteHotKept DEF ExecuteLearned, LearnedNames
  <1>5. CASE ExecuteText
    BY <1>5, ExecuteHotKept DEF ExecuteText, TextNames
  <1>6. CASE ExecuteExpression
    BY <1>6, ExecuteHotKept DEF ExecuteExpression, ExpressionNames
  <1>7. CASE ExecuteModel
    BY <1>7, ExecuteHotKept DEF ExecuteModel, NodeNames
  <1>8. CASE ExecuteHot
    BY <1>8, HotHotKept
  <1>9. CASE Fail \/ CollectFails
    BY <1>9 DEF Fail, CollectFails, HotInv
  <1>10. CASE Collect
    BY <1>10 DEF Collect, HotInv
  <1>11. CASE Assemble
    BY <1>11 DEF Assemble, HotInv
  <1>12. CASE AssembleAstray
    BY <1>12 DEF AssembleAstray, HotInv
  <1>13. CASE UNCHANGED ovars
    BY <1>13 DEF ovars, HotInv
  <1>14. QED
    BY <1>1, <1>2, <1>3, <1>4, <1>5, <1>6, <1>7, <1>8, <1>9, <1>10, <1>11, <1>12, <1>13 DEF ONext

\* Of an encoder the slice has been through: its place, and what its call is.
LEMMA RanEncoder ==
  ASSUME Laid, StandInv, SingleWriter(job), EncodersFair,
         NEW node \in Ran, node.op \in Encoding, Len(node.out) = 1,
         NEW x, x = Called(node, vs, job.fns)
  PROVE  /\ StandsTo(job, pc, vs) /\ \E m \in 1 .. pc - 1 : node = job.nodes[m]
         /\ slice # 0 /\ cut[slice] \in Nat \ {0} /\ Encodes(x, cut[slice])
         /\ IsSeq(node.in) /\ node.in # << >>
         /\ IsSeq(node.out) /\ DOMAIN node.out = {1} /\ node.out # << >>
  <1>1. slice # 0 /\ \E m \in 1 .. pc - 1 : node = job.nodes[m]
    BY DEF Ran
  <1>2. PICK m \in 1 .. pc - 1 : node = job.nodes[m]
    BY <1>1
  <1>3. StandsTo(job, pc, vs) /\ m \in 1 .. Len(job.nodes)
    <2>1. pc \in 1 .. Len(job.nodes) + 1 /\ StandsTo(job, pc, vs)
      BY <1>1 DEF StandInv
    <2>2. QED
      BY <2>1 DEF SingleWriter
  <1>4. IsSeq(node.in) /\ IsSeq(node.out) /\ DOMAIN node.out = {1} /\ node.out # << >>
    <2>1. IsSeq(node.in) /\ IsSeq(node.out)
      BY <1>2, <1>3 DEF SingleWriter
    <2>2. DOMAIN node.out = 1 .. Len(node.out)
      BY <2>1 DEF IsSeq
    <2>3. 1 .. 1 = {1}
      OBVIOUS
    <2>4. DOMAIN node.out = {1}
      BY <2>2, <2>3
    <2>5. node.out # << >>
      <3>1. Len(node.out) # Len(<< >>)
        OBVIOUS
      <3>2. QED
        BY ONLY <3>1, Zenon
    <2>6. QED
      BY <2>1, <2>4, <2>5
  <1>5. Encodes(x, cut[slice]) /\ cut[slice] \in Nat \ {0}
    BY <1>1, SliceHasRows DEF EncodersFair
  <1>6. node.in # << >>
    <2>1. x.in = [i \in DOMAIN node.in |-> vs[node.in[i]]] /\ x.in # << >>
      BY <1>5 DEF Encodes, Called
    <2>2. DOMAIN node.in # {}
      BY <2>1
    <2>3. QED
      BY <2>2
  <1>7. QED
    BY <1>1, <1>3, <1>4, <1>5, <1>6

\* What an encoder the slice has been through wrote tells its rows apart.
LEMMA RanTells ==
  ASSUME Laid, StandInv, HotInv, SingleWriter(job), EncodersFair,
         NEW node \in Ran, node.op \in Encoding, Len(node.out) = 1,
         NEW x, x = Called(node, vs, job.fns), NEW f \in 1 .. NFeatures(x), SameKinds(x, f)
  PROVE  TellsApart(x, Out(node), f, cut[slice])
  <1> DEFINE N == cut[slice]
  <1>1. /\ StandsTo(job, pc, vs) /\ \E m \in 1 .. pc - 1 : node = job.nodes[m]
        /\ slice # 0 /\ N \in Nat \ {0} /\ Encodes(x, N)
        /\ IsSeq(node.in) /\ node.in # << >>
        /\ IsSeq(node.out) /\ DOMAIN node.out = {1} /\ node.out # << >>
    BY RanEncoder
  <1>2. PICK m \in 1 .. pc - 1 : node = job.nodes[m]
    BY <1>1
  <1> HIDE DEF N
  <1>3. ASSUME NEW V, NEW ts, LeftBy(node, V, ts, vs), NEW y, y = Called(node, V, job.fns)
        PROVE  SameCalls(x, y) /\ (DOMAIN ts = {1} => Out(node) = ts[1])
    <2>1. \A i \in DOMAIN node.in : V[node.in[i]] = vs[node.in[i]]
      BY <1>3 DEF LeftBy, Range
    <2>2. [i \in DOMAIN node.in |-> V[node.in[i]]] = [i \in DOMAIN node.in |-> vs[node.in[i]]]
      BY <2>1
    <2>3. SameCalls(x, y)
      BY <1>3, <2>2 DEF SameCalls, Called
    <2>4. ASSUME DOMAIN ts = {1} PROVE Out(node) = ts[1]
      <3>1. node.out[1] \in Range(node.out)
        BY <1>1 DEF Range
      <3>2. node.out[1] \in DOMAIN vs
        BY <1>1, <1>3, <2>4 DEF LeftBy
      <3>3. QED
        BY <1>1, <1>3, <2>4, <3>1, <3>2 DEF LeftBy, Out
    <2>5. QED
      BY <2>3, <2>4
  <1>4. ASSUME NEW V, NEW ts, LeftBy(node, V, ts, vs), NEW y, y = Called(node, V, job.fns)
        PROVE  /\ Encodes(y, N) /\ f \in 1 .. NFeatures(y) /\ SameKinds(y, f) /\ y.op = x.op
               /\ DOMAIN ts = {1} /\ TellsApart(y, ts[1], f, N) => TellsApart(x, Out(node), f, N)
    <2>1. SameCalls(x, y) /\ (DOMAIN ts = {1} => Out(node) = ts[1])
      BY <1>3, <1>4
    <2>2. Encodes(y, N) /\ NFeatures(y) = NFeatures(x) /\ SameKinds(y, f) /\ y.op = x.op
      BY <1>1, <2>1, SameFits, SameReads DEF SameCalls
    <2>3. TellsApart(y, ts[1], f, N) => TellsApart(x, ts[1], f, N)
      BY <2>1, SameFits
    <2>4. QED
      BY <2>1, <2>2, <2>3
  <1>5. x.op = node.op
    BY DEF Called
  <1>6. CASE node.op = "OHENode"
    <2>1. HotStood(node, job.fns, vs)
      BY <1>1, <1>2, <1>6 DEF HotInv, HotLeft
    <2>2. PICK V, old : IsSeq(old) /\ LeftBy(node, V, HotGave(node, V, job.fns, old), vs)
      BY <2>1 DEF HotStood
    <2> DEFINE y == Called(node, V, job.fns)
               ts == HotGave(node, V, job.fns, old)
               cats == y.attrs["categories"]
    <2>3. ts = HotResult(y, cats, HotBuffer(y, cats, old)).out
      BY DEF HotGave, Called
    <2>4. LeftBy(node, V, ts, vs)
      BY <2>2
    <2> HIDE DEF y, ts
    <2>5. /\ Encodes(y, N) /\ f \in 1 .. NFeatures(y) /\ SameKinds(y, f) /\ y.op = x.op
          /\ DOMAIN ts = {1} /\ TellsApart(y, ts[1], f, N) => TellsApart(x, Out(node), f, N)
      BY <1>4, <2>4 DEF y
    <2>6. AreTables(y.in, N) /\ y.in # << >> /\ y.outs = 1 /\ HotNodeFits(y, N) /\ y.op = "OHENode"
      BY <1>5, <1>6, <2>5 DEF Encodes
    <2>7. TellsApart(y, ts[1], f, N)
      BY <1>1, <2>2, <2>3, <2>5, <2>6, HotNodeTells
    <2>8. DOMAIN ts = {1}
      BY <2>3, <2>6 DEF HotResult, Spread, Gives
    <2>9. QED
      BY <1>1, <2>5, <2>7, <2>8 DEF N
  <1>7. CASE node.op # "OHENode"
    <2>1. Stands(node, job.fns, vs)
      BY <1>2, <1>1, <1>7 DEF StandsTo
    <2>2. PICK V : StandsFrom(node, job.fns, V, vs)
      BY <2>1 DEF Stands
    <2> DEFINE y == Called(node, V, job.fns)
               ts == Outcome(node, V, job.fns).out
    <2>3. ts = Answer(y).out
      BY <1>1 DEF Outcome
    <2>4. LeftBy(node, V, ts, vs)
      BY <2>2 DEF StandsFrom, LeftBy
    <2> HIDE DEF y, ts
    <2>5. /\ Encodes(y, N) /\ f \in 1 .. NFeatures(y) /\ SameKinds(y, f) /\ y.op = x.op
          /\ DOMAIN ts = {1} /\ TellsApart(y, ts[1], f, N) => TellsApart(x, Out(node), f, N)
      BY <1>4, <2>4 DEF y
    <2>6. y.op \in Whole \cup {"OneHotEncoder"}
      BY <1>5, <1>7, <2>5 DEF Encoding, Whole
    <2>7. DOMAIN Answer(y).out = {1} /\ TellsApart(y, Answer(y).out[1], f, N)
      BY <1>1, <2>5, <2>6, EncoderTells
    <2>8. QED
      BY <1>1, <2>3, <2>5, <2>7 DEF N
  <1>8. QED
    BY <1>6, <1>7

\* Where no name is written twice, and as long as the encoders are called with
\* categories they can hold apart, two rows have the same code in a feature exactly
\* when they hold the same declared category or neither holds one, whatever the
\* thread's buffer held before (op_label_encoder, op_ordinal_encoder,
\* op_target_encoder, op_one_hot_encoder, OHENode::forward).
THEOREM EncodersDoTellApart ==
  OSpec /\ [](SingleWriter(job) /\ EncodersFair) => []EncodersTellApart
  <1>1. OInit => Laid /\ HotInv
    <2>1. OInit => Laid
      BY InitFollows DEF FollowInv
    <2>2. OInit => HotInv
      BY DEF OInit, HotInv, IsSeq
    <2>3. QED
      BY <2>1, <2>2
  <1>2. Laid /\ [ONext]_ovars => Laid'
    BY NextLaid
  <1>3. Laid /\ StandInv /\ HotInv /\ SingleWriter(job) /\ EncodersFair /\ EncodersFair' /\ [ONext]_ovars => HotInv'
    BY NextHotKept
  <1>4. ASSUME Laid, StandInv, HotInv, SingleWriter(job), EncodersFair PROVE EncodersTellApart
    <2> SUFFICES ASSUME NEW node \in Ran, node.op \in Encoding, Len(node.out) = 1,
                        NEW f \in 1 .. Features(node), SameKind(node, f),
                        NEW r \in SliceRows, NEW q \in SliceRows
                 PROVE  (Code(node, r, f) = Code(node, q, f))
                          <=> (Cell(node, r, f) = Cell(node, q, f)
                               \/ {Cell(node, r, f), Cell(node, q, f)} \cap DeclaredFor(node, f) = {})
      BY DEF EncodersTellApart
    <2> DEFINE x == Called(node, vs, job.fns)
    <2>1. IsSeq(node.in) /\ node.in # << >>
      BY <1>4, RanEncoder
    <2>2. /\ Features(node) = NFeatures(x)
          /\ \A g \in 1 .. NFeatures(x) :
               /\ SameKind(node, g) <=> SameKinds(x, g)
               /\ DeclaredFor(node, g) = Range(Cats(x, g))
               /\ \A p : Cell(node, p, g) = Text(x, p, g)
               /\ \A p : Code(node, p, g) = CodeIn(x, Out(node).cells[p], g)
      BY <2>1, EncoderRead
    <2>3. f \in 1 .. NFeatures(x) /\ SameKinds(x, f)
      BY <2>2
    <2>4. TellsApart(x, Out(node), f, cut[slice])
      BY <1>4, <2>3, RanTells
    <2>5. r \in 1 .. cut[slice] /\ q \in 1 .. cut[slice]
      BY DEF SliceRows
    <2> HIDE DEF x
    <2>6. QED
      BY <2>2, <2>3, <2>4, <2>5 DEF TellsApart
  <1>5. QED
    BY <1>1, <1>2, <1>3, <1>4, AllStand, PTL DEF OSpec

=============================================================================
