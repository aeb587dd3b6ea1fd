----------------------------- MODULE ScalingOps -----------------------------
(***************************************************************************)
(* The operators of omle.feature that compute on numbers: scalers,         *)
(* normalizers, transformers, polynomials, buckets and imputers            *)
(* (src/operator_registry.cpp, 1042-1720).  Each widens a value, computes  *)
(* and rounds once on the way out.                                         *)
(***************************************************************************)
EXTENDS Tensors

\* One input as it is, several side by side.
Source(x) == IF Len(x.in) > 1 THEN Beside(x.in) ELSE x.in[1]

\* A parameter, which for these operators only an attribute names.
Param(x, name) == Resolve(x, Len(x.in) + 1, name)

\* A tensor changed cell by cell, at its own width.
Mapped(t, f(_, _)) ==
  Stored(Width(t), [r \in 1 .. NRows(t) |-> [c \in Cols(t) |-> f(Get(t, r, c), c)]])

\* standard_scaler_impl, for one value: a missing mean is 0, a zero scale is none.
Scaled(v, mean, scale) ==
  LET d == Minus(v, mean) IN IF scale = 0 THEN d ELSE Over(d, scale)

StandardScaler(x) ==
  LET t     == Source(x)
      mean  == FlatOr(Resolve64(x, Len(x.in) + 1, "mean"), NCols(t), 0)
      scale == FlatOr(Resolve64(x, Len(x.in) + 1, "scale"), NCols(t), 0)
  IN  Gives(<<Mapped(t, LAMBDA v, c : Scaled(v, mean[c], scale[c]))>>)

RobustScaler(x) ==
  LET t      == Source(x)
      center == FlatOr(Param(x, "center"), NCols(t), 0)
      scale  == FlatOr(Param(x, "scale"), NCols(t), 0)
  IN  Gives(<<Mapped(t, LAMBDA v, c : Scaled(v, center[c], scale[c]))>>)

\* data_max holds the span.
MinMaxScaler(x) ==
  LET t    == Source(x)
      low  == FlatOr(Param(x, "data_min"), NCols(t), 0)
      span == FlatOr(Param(x, "data_max"), NCols(t), 0)
      lo   == Attr(x, "feature_range_min", 0)
      hi   == Attr(x, "feature_range_max", 1)
  IN  Gives(<<Mapped(t, LAMBDA v, c :
                       Plus(Scaled(Times(Minus(v, low[c]), hi - lo), 0, span[c]), lo))>>)

MaxAbsScaler(x) ==
  LET t     == Source(x)
      scale == FlatOr(Param(x, "scale"), NCols(t), 0)
  IN  Gives(<<Mapped(t, LAMBDA v, c : Scaled(v, 0, scale[c]))>>)

\* Mutant of Binarize: the threshold itself counts as above.
BinarizeAtLeast(t, thr) ==
  Mapped(t, LAMBDA v, c : IF Less(v, Hold(Width(t), thr)) THEN 0 ELSE 1)

\* The threshold is compared at the width of the data.
Binarize(t, thr) ==
  Mapped(t, LAMBDA v, c : IF Less(Hold(Width(t), thr), v) THEN 1 ELSE 0)

Binarizer(x) ==
  LET given == FlatOr(Param(x, "thresholds"), 0, 0)
      def   == Attr(x, "threshold", 0)
      nOut  == IF x.outs < Len(x.in) THEN x.outs ELSE Len(x.in)
  IN  IF x.outs > 1 /\ Len(x.in) > 1
      THEN Gives([i \in 1 .. nOut |->
                    Binarize(x.in[i], IF i <= Len(given) THEN given[i] ELSE def)])
      ELSE Gives(<<Binarize(Source(x), IF given # << >> THEN given[1] ELSE def)>>)

\* The root of a square number, from below for the others.
Root(n) ==
  LET from == CHOOSE k \in 0 .. n : (30 * k) ^ 2 <= n /\ n < (30 * (k + 1)) ^ 2
  IN  CHOOSE k \in 30 * from .. 30 * from + 29 : k ^ 2 <= n /\ n < (k + 1) ^ 2

Size(v) == IF v = NaN THEN NaN ELSE Abs(v)

\* A NaN makes l1 and l2 NaN and leaves max as it was.
NormOf(row, norm) ==
  CASE norm = "l1"  -> Sum([f \in DOMAIN row |-> Size(row[f])])
    [] norm = "max" -> Max({0} \cup {Size(row[f]) : f \in {g \in DOMAIN row : row[g] # NaN}})
    [] norm = "l2"  -> LET n == Sum([f \in DOMAIN row |-> Times(row[f], row[f])])
                       IN  IF n = NaN THEN NaN ELSE Root(n)

Normalizer(x) ==
  LET t == Source(x)
      n == [r \in 1 .. NRows(t) |->
              NormOf([c \in Cols(t) |-> Get(t, r, c)], Attr(x, "norm", "l2"))]
  IN  Gives(<<Stored(Width(t), [r \in 1 .. NRows(t) |-> [c \in Cols(t) |->
                IF Less(0, n[r]) THEN ShareOf(Get(t, r, c), n[r]) ELSE Get(t, r, c)]])>>)

-----------------------------------------------------------------------------

\* log, as the exponent of the power of two below.
Log(n) == CHOOSE k \in 0 .. n : 2 ^ k <= n /\ 2 ^ (k + 1) > n

\* power_transformer_impl, for lambdas that are whole; the smallest positive
\* number is 1.
BoxCox(v, lam) ==
  LET w == IF v < 1 THEN 1 ELSE v
  IN  IF lam = 0 THEN Log(w) ELSE (w ^ lam - 1) \div lam
YeoJohnson(v, lam) ==
  IF v >= 0 THEN IF lam = 0 THEN Log(v + 1) ELSE ((v + 1) ^ lam - 1) \div lam
  ELSE IF lam = 2 THEN -Log(1 - v) ELSE -(((1 - v) ^ (2 - lam) - 1) \div (2 - lam))

PowerTransformer(x) ==
  LET t     == Source(x)
      lam   == FlatOr(Param(x, "lambdas"), NCols(t), 0)
      mean  == Param(x, "mean")
      scale == Param(x, "scale")
      after == Attr(x, "standardize", TRUE) /\ NoTensor \notin {mean, scale}
      bent  == Mapped(t, LAMBDA v, c :
                 IF v = NaN THEN NaN
                 ELSE IF Attr(x, "method", "yeo_johnson") = "box_cox" THEN BoxCox(v, lam[c])
                 ELSE YeoJohnson(v, lam[c]))
  IN  Gives(<<IF ~after THEN bent
              ELSE Mapped(bent, LAMBDA v, c : Scaled(v, Flat(mean)[c], Flat(scale)[c]))>>)

\* The level of a value between the references of its feature: the ends are
\* cut off, the search keeps refs[lo] <= v < refs[hi].
Level(v, refs, levels) ==
  LET n  == Len(refs)
      lo == Max({k \in 1 .. n - 1 : refs[k] <= v})
  IN  IF v = NaN THEN NaN
      ELSE IF v <= refs[1] THEN levels[1]
      ELSE IF v >= refs[n] THEN levels[n]
      ELSE levels[lo] + ((v - refs[lo]) * (levels[lo + 1] - levels[lo])) \div (refs[lo + 1] - refs[lo])

\* Levels are shares and stay between none and One; probit, which the normal
\* distribution puts behind them, is left out.  The references are read feature
\* after feature.
QuantileTransformer(x) ==
  LET t      == Source(x)
      levels == Flat(Param(x, "quantiles"))
      refs   == Flat(Param(x, "references"))
      of(c)  == SubSeq(refs, (c - 1) * Len(levels) + 1, c * Len(levels))
  IN  IF NoTensor \in {Param(x, "quantiles"), Param(x, "references")} THEN Gives(<<t>>)
      ELSE Gives(<<Mapped(t, LAMBDA v, c : LET q == Level(v, of(c), levels)
                                           IN  IF Less(q, 0) THEN 0 ELSE IF Less(One, q) THEN One ELSE q)>>)

\* Mutant of Basis0: an interval holds both its ends.
Basis0Closed(t, i, v) == v # NaN /\ t[i] <= v /\ v <= t[i + 1]

\* Degree 0: which interval, open on the right but for the very last.
Basis0(t, i, v) ==
  v # NaN /\ t[i] <= v /\ (v < t[i + 1] \/ (v = t[Len(t)] /\ i = Len(t) - 1))

\* bspline_basis, in parts of One.
Basis(t, degree, v) ==
  LET first == [i \in 1 .. Len(t) - 1 |-> IF Basis0(t, i, v) THEN One ELSE 0]
      part(a, b, d) == IF b > 0 THEN (a * d) \div b ELSE 0
      raise(d, p) ==
        [i \in 1 .. Len(d) - 1 |->
           part(v - t[i], t[i + p] - t[i], d[i])
           + part(t[i + p + 1] - v, t[i + p + 1] - t[i + 1], d[i + 1])]
  IN  IF v = NaN /\ degree > 0 THEN [i \in 1 .. Len(t) - degree - 1 |-> NaN]
      ELSE FoldLeft(raise, first, [p \in 1 .. degree |-> p])

\* The knots of a feature are a column of the parameter.
SplineTransformer(x) ==
  LET t      == Source(x)
      knots  == Param(x, "knots")
      degree == Attr(x, "degree", 3)
      nt     == IF NCols(knots) = NCols(t) THEN NRows(knots) ELSE Len(Flat(knots)) \div NCols(t)
      of(c)  == [k \in 1 .. nt |-> Flat(knots)[(k - 1) * NCols(t) + c]]
      skip   == IF Attr(x, "include_bias", TRUE) THEN 0 ELSE 1
      of1(r, c) == LET b == Basis(of(c), degree, Get(t, r, c)) IN SubSeq(b, skip + 1, Len(b))
  IN  IF knots = NoTensor THEN Gives(<<t>>)
      ELSE Gives(<<Stored(Width(t), [r \in 1 .. NRows(t) |->
                            FlattenSeq([c \in Cols(t) |-> of1(r, c)])])>>)

-----------------------------------------------------------------------------

\* pow, with the power 0 of anything 1.
Power(v, e) == IF e = 0 THEN 1 ELSE IF v = NaN THEN NaN ELSE v ^ e
Product(s) == FoldLeft(Times, 1, s)

\* gen: the exponents of n features of total degree from low to high, in order.
Exponents(n, low, high, once) ==
  SetToSortSeq({e \in [1 .. n -> 0 .. (IF once THEN 1 ELSE high)] :
                  LET d == Sum([f \in 1 .. n |-> e[f]]) IN low <= d /\ d <= high},
               LAMBDA a, b : \E f \in 1 .. n : a[f] < b[f] /\ \A g \in 1 .. f - 1 : a[g] = b[g])

PolynomialFeatures(x) ==
  LET t      == Source(x)
      powers == Param(x, "powers")
      given  == IF powers = NoTensor THEN << >> ELSE powers.cells
      made   == (IF Attr(x, "include_bias", TRUE) THEN <<[f \in Cols(t) |-> 0]>> ELSE << >>)
                \o Exponents(NCols(t), Attr(x, "min_degree", 1), Attr(x, "max_degree", 2),
                             Attr(x, "interaction_only", FALSE))
      es     == IF given # << >> THEN given ELSE made
      row(r) == [c \in 1 .. Len(es) |->
                   Product([f \in Cols(t) |->
                              Power(Get(t, r, f), IF es[c][f] > 0 THEN es[c][f] ELSE 0)])]
  IN  Gives(<<Stored(Width(t), [r \in 1 .. NRows(t) |-> row(r)])>>)

\* Mutant of Bucket: a boundary belongs to the bucket below it.
BucketBelow(v, bs) ==
  LET above == {k \in 1 .. Len(bs) : ~(v # NaN /\ bs[k] < v)}
  IN  IF above = {} THEN Len(bs) ELSE Min(above) - 1

\* The boundaries passed before the first that is not.
Bucket(v, bs) ==
  LET above == {k \in 1 .. Len(bs) : ~(v # NaN /\ bs[k] <= v)}
  IN  IF above = {} THEN Len(bs) ELSE Min(above) - 1

\* The part of a flat table that feature c has, by offsets counted from 0.
Block(flat, offs, c) ==
  IF c + 1 <= Len(offs) THEN SubSeq(flat, offs[c] + 1, offs[c + 1]) ELSE flat

Bucketizer(x) ==
  LET n     == Len(x.in) + 1
      named == Resolve64(x, n, "boundaries")
      bs    == IF named # NoTensor THEN Flat(named) ELSE Attr(x, "boundaries", << >>)
      offs  == FlatOr(Resolve(x, n, "boundary_offsets"), 0, 0)
      col(i) == [r \in Rows(x) |-> <<Bucket(Get(x.in[i], r, 1), Block(bs, offs, i))>>]
      nOut  == IF x.outs < Len(x.in) THEN x.outs ELSE Len(x.in)
  IN  IF named = NoTensor /\ "boundaries" \notin DOMAIN x.attrs THEN Nothing
      ELSE IF Len(x.in) > 1 THEN Gives([i \in 1 .. nOut |-> Stored("f32", col(i))])
      ELSE Gives(<<Stored("f32", [r \in Rows(x) |-> [c \in Cols(x.in[1]) |->
                                    Bucket(Get(x.in[1], r, c), Block(bs, offs, c))]])>>)

-----------------------------------------------------------------------------

\* A wide result as a column for each output, when there are several.
PerOutput(x, t) ==
  IF x.outs = 1 THEN Gives(<<t>>)
  ELSE Gives([i \in 1 .. (IF x.outs < NCols(t) THEN x.outs ELSE NCols(t)) |->
                Stored(Width(t), [r \in 1 .. NRows(t) |-> <<Get(t, r, i)>>])])

\* Mutant of Fill: the first value stands in for all features.
FillFirst(v, fills, c) == IF v = NaN THEN fills[1] ELSE v
Fill(v, fills, c) == IF v = NaN THEN fills[c] ELSE v

SimpleImputer(x) ==
  LET t     == Source(x)
      fills == FlatOr(Param(x, "fill_tensor"), NCols(t), Attr(x, "fill_value", 0))
  IN  PerOutput(x, Mapped(t, LAMBDA v, c : Fill(v, fills, c)))

MissingIndicator(x) ==
  LET t    == Source(x)
      cols == FlatOr(Param(x, "feature_indices"), 0, 0)
      of   == IF cols = << >> THEN [c \in Cols(t) |-> c - 1] ELSE cols
  IN  Gives(<<Stored("f32", [r \in Rows(x) |-> [j \in 1 .. Len(of) |->
                               IF Get(t, r, of[j] + 1) = NaN THEN 1 ELSE 0]])>>)

=============================================================================
