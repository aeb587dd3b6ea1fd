------------------------------- MODULE CoreOps -------------------------------
(***************************************************************************)
(* The operators of omle.core (src/operator_registry.cpp): selecting,      *)
(* reshaping, reducing and voting.  Columns and classes count from 0 in    *)
(* attributes and results, as they do in the code.                         *)
(***************************************************************************)
EXTENDS Tensors

Identity(x) ==
  Gives([i \in 1 .. (IF Len(x.in) < x.outs THEN Len(x.in) ELSE x.outs) |-> x.in[i]])

Concat(x) == Gives(<<Beside(x.in)>>)

\* The columns of t, numbered from 0, at a width.
Picked(t, cols, type) ==
  Stored(type, [r \in 1 .. NRows(t) |-> [j \in 1 .. Len(cols) |-> Get(t, r, cols[j] + 1)]])

GatherColumns(x) ==
  LET cols == Attr(x, "indices", << >>) IN
  Gives(<<IF cols = << >> THEN x.in[1] ELSE Picked(x.in[1], cols, Width(x.in[1]))>>)

TakeSlots(x) ==
  LET cols == Attr(x, "indices", << >>)
      wide == Beside(x.in)
  IN  Gives(<<IF cols = << >> THEN wide ELSE Picked(wide, cols, Width(wide))>>)

\* Mutant of SplitColumns: every section starts at the first column.
SplitUnmoved(x) ==
  LET secs == Attr(x, "sections", << >>) IN
  IF secs = << >> THEN Gives(<<x.in[1]>>)
  ELSE Gives([s \in 1 .. (IF Len(secs) < x.outs THEN Len(secs) ELSE x.outs) |->
                Picked(x.in[1], [c \in 1 .. secs[s] |-> c - 1], Width(x.in[1]))])

SplitColumns(x) ==
  LET secs   == Attr(x, "sections", << >>)
      off(s) == Sum(SubSeq(secs, 1, s - 1))
  IN  IF secs = << >> THEN Gives(<<x.in[1]>>)
      ELSE Gives([s \in 1 .. (IF Len(secs) < x.outs THEN Len(secs) ELSE x.outs) |->
                    Picked(x.in[1], [c \in 1 .. secs[s] |-> off(s) + c - 1], Width(x.in[1]))])

\* Only the grid changes, and a sparse tensor is expanded first.  One number is
\* the columns, two are rows and columns, -1 is what is left.
Reshape(x) ==
  LET flat  == Flat(x.in[1])
      total == Len(flat)
      sh    == Attr(x, "new_shape", << >>)
      rows  == IF Len(sh) < 2 THEN NRows(x.in[1])
               ELSE IF sh[1] = -1 THEN total \div sh[2] ELSE sh[1]
      cols  == IF Len(sh) = 1 THEN IF sh[1] = -1 THEN total \div rows ELSE sh[1]
               ELSE IF sh[2] = -1 THEN total \div rows ELSE sh[2]
  IN  Gives(<<IF sh = << >> THEN x.in[1]
              ELSE [Dense(x.in[1]) EXCEPT !.cells = [r \in 1 .. rows |-> [c \in 1 .. cols |->
                                                       flat[(r - 1) * cols + c]]]]>>)

\* std::clamp, which leaves a NaN alone.
Clamp(v, lo, hi) == IF Less(v, lo) THEN lo ELSE IF Less(hi, v) THEN hi ELSE v

\* Bounds compare at the width of the tensor, which is of floats or doubles: the
\* operator writes in its storage.
Clip(x) ==
  LET t  == x.in[1]
      lo == IF "min" \in DOMAIN x.attrs THEN Hold(Width(t), x.attrs["min"]) ELSE NaN
      hi == IF "max" \in DOMAIN x.attrs THEN Hold(Width(t), x.attrs["max"]) ELSE NaN
  IN  Gives(<<[t EXCEPT !.cells = [r \in DOMAIN @ |-> [c \in DOMAIN @[r] |->
                                     Clamp(@[r][c], lo, hi)]]]>>)

\* Numbers here are whole, so that to an integer type only the width is kept.
Cast(x) ==
  LET type == Attr(x, "output_dtype", "float32") IN
  Gives(<<Converted(x.in[1], CASE type = "float64" -> "f64"
                               [] type \in {"int32", "int64"} -> Width(x.in[1])
                               [] OTHER -> "f32")>>)

SparseToDense(x) == Gives(<<Converted(x.in[1], "f32")>>)
\* to_sparse is for float32 tensors only, which it asserts.
DenseToSparse(x) == Gives(<<Sparsed(x.in[1])>>)

-----------------------------------------------------------------------------
(***************************************************************************)
(* Choosing                                                                *)
(***************************************************************************)

\* Mutant of BestOf: the last of equals.
LastBestOf(row) ==
  LET nums == {c \in DOMAIN row : row[c] # NaN}
      best == {c \in nums : \A d \in nums : row[d] <= row[c]}
  IN  IF best = {} THEN 0 ELSE Max(best) - 1

\* The first of the largest, for a scan that replaces on strict improvement
\* and starts below every number; no number at all is 0.
BestOf(row) ==
  LET nums == {c \in DOMAIN row : row[c] # NaN}
      best == {c \in nums : \A d \in nums : row[d] <= row[c]}
  IN  IF best = {} THEN 0 ELSE Min(best) - 1

RowOf(t, r) == [c \in Cols(t) |-> Get(t, r, c)]
Labels(rows) == Stored("f32", [r \in DOMAIN rows |-> <<rows[r]>>])

ArgMax(x) == Gives(<<Labels([r \in Rows(x) |-> BestOf(RowOf(x.in[1], r))])>>)

\* The scan of op_select_by_primary_secondary_score.
Chosen(p, s) ==
  FoldLeft(LAMBDA b, c : IF \/ Less(p[b], p[c])
                            \/ p[c] # NaN /\ p[c] = p[b] /\ Less(s[b], s[c])
                         THEN c ELSE b,
           1, [c \in 1 .. Len(p) |-> c]) - 1

SelectByPrimarySecondaryScore(x) ==
  IF Len(x.in) < 2 \/ x.outs = 0 \/ NRows(x.in[1]) # NRows(x.in[2]) \/ NCols(x.in[1]) # NCols(x.in[2])
  THEN Refuses
  ELSE Gives(<<Labels([r \in Rows(x) |-> Chosen(RowOf(x.in[1], r), RowOf(x.in[2], r))])>>)

\* in[1] says which of the others to copy, clamped to those there are.
Select(x) ==
  LET cands == Tail(x.in)
      at(r) == LET i == Get(x.in[1], r, 1)
               IN  IF i < 0 THEN 1 ELSE IF i >= Len(cands) THEN Len(cands) ELSE i + 1
  IN  IF Len(x.in) < 2 THEN Nothing
      ELSE Gives(<<Stored(AnyF64(cands),
                          [r \in Rows(x) |-> [c \in Cols(cands[1]) |-> Get(cands[at(r)], r, c)]])>>)

-----------------------------------------------------------------------------
(***************************************************************************)
(* Reductions over inputs of one shape.  The vector at (r, c) is collected *)
(* and reduced as doubles, and rounded once.                               *)
(***************************************************************************)

Vector(x, r, c) == [k \in 1 .. Len(x.in) |-> Get(x.in[k], r, c)]
Reduced(x, reduce(_)) ==
  Gives(<<Stored(AnyF64(x.in), [r \in Rows(x) |-> [c \in Cols(x.in[1]) |->
                                  reduce(Vector(x, r, c))]])>>)

Smallest(v) == FoldLeft(LAMBDA b, e : IF Less(e, b) THEN e ELSE b, v[1], v)
Largest(v)  == FoldLeft(LAMBDA b, e : IF Less(b, e) THEN e ELSE b, v[1], v)
Ascending(v) == SortSeq(v, LAMBDA a, b : a < b)

\* The upper one of two in the middle.
Median(v) == Ascending(v)[Len(v) \div 2 + 1]

SumOp(x)    == Reduced(x, Sum)
Average(x)  == Reduced(x, LAMBDA v : Over(Sum(v), Len(x.in)))
MinOp(x)    == Reduced(x, Smallest)
MaxOp(x)    == Reduced(x, Largest)
MedianOp(x) == Reduced(x, Median)

\* The weights, and 1 for the inputs without one.
Weights(given, n) == given \o [k \in 1 .. (IF Len(given) < n THEN n - Len(given) ELSE 0) |-> 1]
TotalOf(ws) == IF Sum(ws) = 0 THEN 1 ELSE Sum(ws)
Weighed(ws, v) == Sum([k \in 1 .. Len(v) |-> Times(ws[k], v[k])])

\* One input: a weight for each column.
WeightedSum(x) ==
  LET given == IF "weights" \in DOMAIN x.attrs THEN x.attrs["weights"]
               ELSE FlatOr(Resolve(x, Len(x.in) + 1, "weights"), 0, 1)
      t     == x.in[1]
  IN  IF Len(x.in) = 1
      THEN LET ws == Weights(given, NCols(t))
           IN  Gives(<<Stored(Width(t), [r \in Rows(x) |-> [c \in Cols(t) |->
                                           Times(ws[c], Get(t, r, c))]])>>)
      ELSE Reduced(x, LAMBDA v : Weighed(Weights(given, Len(x.in)), v))

WeightedAverage(x) ==
  LET ws == Weights(Attr(x, "weights", << >>), Len(x.in))
  IN  Reduced(x, LAMBDA v : Over(Weighed(ws, v), TotalOf(ws)))

\* The first value, in their order, at which half of the weight is reached.
MedianBy(ws, v) ==
  LET order  == SortSeq([k \in 1 .. Len(v) |-> k],
                        LAMBDA a, b : v[a] < v[b] \/ (v[a] = v[b] /\ a < b))
      cum(j) == Sum([i \in 1 .. j |-> ws[order[i]]])
      half   == {j \in 1 .. Len(v) : 2 * cum(j) >= Sum(ws)}
  IN  v[order[IF half = {} THEN Len(v) ELSE Min(half)]]

WeightedMedian(x) ==
  LET ws == Weights(Attr(x, "weights", << >>), Len(x.in)) IN Reduced(x, LAMBDA v : MedianBy(ws, v))

-----------------------------------------------------------------------------
(***************************************************************************)
(* Votes                                                                   *)
(***************************************************************************)

\* Mutant of Votes: the table is not cleared between rows.
VotesKept(x, ws, r) ==
  LET cast(q) == [k \in 1 .. Len(x.in) |-> Get(x.in[k], q, 1)]
  IN  [l \in Range(cast(r)) |->
         Sum([q \in 1 .. r |->
                Sum([k \in 1 .. Len(x.in) |-> IF cast(q)[k] = l THEN ws[k] ELSE 0])])]

\* The weight each label has in row r.
Votes(x, ws, r) ==
  LET cast == [k \in 1 .. Len(x.in) |-> Get(x.in[k], r, 1)]
  IN  [l \in Range(cast) |-> Sum([k \in 1 .. Len(x.in) |-> IF cast[k] = l THEN ws[k] ELSE 0])]

\* The winner.  The order in which an unordered_map hands out its keys decides
\* between equals: x.order is the one this build's hash gives.
Winner(votes, order) ==
  LET most == {l \in DOMAIN votes : \A m \in DOMAIN votes : votes[m] <= votes[l]}
  IN  order[CHOOSE i \in 1 .. Len(order) : order[i] \in most /\ \A j \in 1 .. i - 1 : order[j] \notin most]

MajorityVote(x) ==
  Gives(<<Labels([r \in Rows(x) |-> Winner(Votes(x, Weights(<< >>, Len(x.in)), r), x.order)])>>)

WeightedMajorityVote(x) ==
  LET ws == Weights(Attr(x, "weights", << >>), Len(x.in))
  IN  Gives(<<Labels([r \in Rows(x) |-> Winner(Votes(x, ws, r), x.order)])>>)

\* One row of SoftVote: several single columns side by side, or the weighted
\* mean; then parts of the row's total, unless it has none.
SoftRow(x, ws, r) ==
  LET stacking == Len(x.in) > 1 /\ NCols(x.in[1]) = 1
      row == IF stacking THEN [k \in 1 .. Len(x.in) |-> Times(ws[k], Get(x.in[k], r, 1))]
             ELSE [c \in Cols(x.in[1]) |-> Weighed(ws, Vector(x, r, c))]
  IN  IF ~Attr(x, "normalize_rows", FALSE) THEN [c \in DOMAIN row |-> Over(row[c], TotalOf(ws))]
      ELSE IF Less(0, Sum(row)) THEN [c \in DOMAIN row |-> ShareOf(row[c], Sum(row))]
      ELSE row

\* One probability is compared with a half, several with each other.
Decided(row) ==
  IF Len(row) = 1 THEN IF row[1] # NaN /\ 2 * row[1] >= One THEN 1 ELSE 0
  ELSE IF row[1] = NaN THEN 0 ELSE BestOf(row)

SoftVote(x) ==
  LET ws   == Weights(Attr(x, "weights", << >>), Len(x.in))
      prob == Stored(AnyF64(x.in), [r \in Rows(x) |-> SoftRow(x, ws, r)])
  IN  Gives(<<prob>> \o IF x.outs > 1
                        THEN <<Labels([r \in Rows(x) |-> Decided(RowOf(prob, r))])>> ELSE << >>)

\* exp, which turns sums into products, is powers of two; parts of the total.
Softmax(row) ==
  LET low   == Min(Range(row))
      e     == [c \in DOMAIN row |-> 2 ^ (row[c] - low)]
  IN  [c \in DOMAIN row |-> ShareOf(e[c], Sum(e))]

\* The decision function, up to a positive factor: an estimator's weight for the
\* class it names, a part of it against each of the others.
Decision(x, ws, K, r) ==
  [c \in 1 .. K |-> Sum([k \in 1 .. Len(x.in) |->
                           IF Get(x.in[k], r, 1) = c - 1 THEN ws[k] * (IF K > 1 THEN K - 1 ELSE 1)
                           ELSE -ws[k]])]

SAMMEVote(x) ==
  LET ws  == Weights(Attr(x, "weights", << >>), Len(x.in))
      dec == [r \in Rows(x) |-> Decision(x, ws, Attr(x, "n_classes", 2), r)]
  IN  Gives(<<Stored("f32", [r \in Rows(x) |-> Softmax(dec[r])])>>
            \o IF x.outs > 1 THEN <<Labels([r \in Rows(x) |-> BestOf(dec[r])])>> ELSE << >>)

=============================================================================
