----------------------------- MODULE LearningOps -----------------------------
(***************************************************************************)
(* The operators that carry a fitted model: decompositions, kernels and    *)
(* neighbours (src/operator_registry.cpp, 2555-3225).  exp and log are     *)
(* powers of two and their exponents; distances and weights are counted in *)
(* parts of One.                                                           *)
(***************************************************************************)
EXTENDS ScalingOps

\* linear_project: the row less its mean, by the rows of components.
Projected(t, comp, mean) ==
  Stored(Width(t), [r \in 1 .. NRows(t) |-> [c \in 1 .. NRows(comp) |->
     Sum([f \in Cols(comp) |-> Times(Minus(Get(t, r, f), mean[f]), Get(comp, c, f))])]])

NoMean(t) == [f \in Cols(t) |-> 0]
Param64(x, name) == Resolve64(x, Len(x.in) + 1, name)

\* exp, of a score d below the highest, times One squared.
Decay(d) == IF d > 20 THEN 0 ELSE (One ^ 2) \div 2 ^ d

\* The softmax of a row of scores, which are counted in parts of unit; a missing
\* score leaves nothing of it.
Distribution(row, unit) ==
  LET part == Written([c \in DOMAIN row |-> Decay((Max(Range(row)) - row[c]) \div unit)])
  IN  IF NaN \in Range(row) THEN [c \in DOMAIN row |-> NaN]
      ELSE [c \in DOMAIN row |-> ShareOf(part[c], Sum(part))]

\* TruncatedSVD, NMF and LDA project as they are; NMF cuts off below zero; LDA
\* makes a distribution of each row.
ProjectAndThen(x) ==
  LET t    == Source(x)
      comp == Param64(x, "components")
      p    == Projected(t, comp, NoMean(t))
  IN  IF comp = NoTensor THEN Gives(<<t>>)
      ELSE Gives(<<CASE x.op = "TruncatedSVD" -> p
                     [] x.op = "NMF" -> Mapped(p, LAMBDA v, c : IF Less(0, v) THEN v ELSE 0)
                     [] x.op = "LatentDirichletAllocation" ->
                          Stored(Width(p), [r \in 1 .. NRows(p) |->
                                             Distribution([c \in Cols(p) |-> Get(p, r, c)], 1)])>>)

\* PCA and SparsePCA.
CentredProjection(x) ==
  LET t    == Source(x)
      comp == Param64(x, "components")
  IN  IF comp = NoTensor THEN Gives(<<t>>)
      ELSE Gives(<<Projected(t, comp, FlatOr(Param64(x, "mean"), NCols(t), 0))>>)

\* Mutant of FastICA: the mean is taken off again after whitening.
CentredTwice(x) ==
  LET t     == Source(x)
      comp  == Param64(x, "components")
      white == Param64(x, "whitening")
      mean  == FlatOr(Param64(x, "mean"), NCols(t), 0)
      mid   == IF white = NoTensor THEN t ELSE Projected(t, white, mean)
  IN  IF comp = NoTensor THEN Gives(<<t>>) ELSE Gives(<<Projected(mid, comp, mean)>>)

\* Whitening takes the mean off; without it the projection does.
FastICA(x) ==
  LET t     == Source(x)
      comp  == Param64(x, "components")
      white == Param64(x, "whitening")
      mean  == FlatOr(Param64(x, "mean"), NCols(t), 0)
  IN  IF comp = NoTensor THEN Gives(<<t>>)
      ELSE Gives(<<IF white = NoTensor THEN Projected(t, comp, mean)
                   ELSE LET mid == Projected(t, white, mean) IN Projected(mid, comp, NoMean(mid))>>)

\* The inverse of I + Wpsi W', times its determinant, for one or two factors.
Adjugate(m) ==
  IF Len(m) = 1 THEN <<<<1>>>> ELSE <<<<m[2][2], -m[1][2]>>, <<-m[2][1], m[1][1]>>>>
Determinant(m) == IF Len(m) = 1 THEN m[1][1] ELSE m[1][1] * m[2][2] - m[1][2] * m[2][1]

\* The posterior mean of the factors, (I + Wpsi W')^-1 Wpsi (x - mean) with Wpsi
\* the components over the noise; the plain projection when nothing inverts.
FactorAnalysis(x) ==
  LET t     == Source(x)
      comp  == Param64(x, "components")
      noise == Param64(x, "noise_variance")
      mean  == FlatOr(Param64(x, "mean"), NCols(t), 0)
      k     == NRows(comp)
      wpsi(i, f) == LET nv == Flat(noise)[f] IN IF nv = 0 THEN 0 ELSE Over(Get(comp, i, f), nv)
      m     == [i \in 1 .. k |-> [j \in 1 .. k |->
                  (IF i = j THEN 1 ELSE 0) + Sum([f \in Cols(comp) |-> wpsi(i, f) * Get(comp, j, f)])]]
      b(r, j) == Sum([f \in Cols(t) |-> Times(Minus(Get(t, r, f), mean[f]), wpsi(j, f))])
      z(r, i) == Over(Sum([j \in 1 .. k |-> Times(Adjugate(m)[i][j], b(r, j))]), Determinant(m))
  IN  IF comp = NoTensor THEN Gives(<<t>>)
      ELSE IF noise = NoTensor \/ Determinant(m) = 0 THEN Gives(<<Projected(t, comp, mean)>>)
      ELSE Gives(<<Stored(Width(t), [r \in 1 .. NRows(t) |-> [i \in 1 .. k |-> z(r, i)]])>>)

Dot(p, q) == Sum([f \in DOMAIN p |-> Times(p[f], q[f])])
Gap(p, q) == Sum([f \in DOMAIN p |-> Times(Minus(p[f], q[f]), Minus(p[f], q[f]))])

\* A kernel for whole gamma, in parts of One where it is bounded: exp is a power
\* of two, and tanh cut off at one.
Kernel(x, p, q) ==
  LET gamma == Attr(x, "gamma", 1)
      bent  == Plus(Times(gamma, Dot(p, q)), Attr(x, "coef0", 1))
      kind  == Attr(x, "kernel", "rbf")
  IN  CASE kind = "linear" -> Dot(p, q)
        [] kind = "poly"   -> Power(bent, Attr(x, "degree", 3))
        [] kind = "sigmoid" ->
             IF Less(bent, -1) THEN -One ELSE IF Less(1, bent) THEN One ELSE Times(One, bent)
        [] kind = "rbf"    -> LET e == Times(gamma, Gap(p, q))
                              IN  IF e = NaN THEN NaN ELSE IF e > 20 THEN 0 ELSE One \div 2 ^ e

KernelPCA(x) ==
  LET t     == Source(x)
      train == Param64(x, "fit_samples")
      dual  == Param64(x, "dual_components")
      rmean == Param64(x, "kernel_center_row_mean")
      all   == FlatOr(Param64(x, "kernel_center_all_mean"), 1, 0)[1]
      k(row) == [j \in 1 .. NRows(train) |-> Kernel(x, row, train.cells[j])]
      centred(ks, means, own) == [j \in DOMAIN ks |-> Plus(ks[j], Minus(all, Plus(own, means[j])))]
      used(ks) == IF rmean = NoTensor THEN ks
                  ELSE centred(ks, Flat(rmean), Over(Sum(ks), Len(ks)))
      projected(ks) == [c \in 1 .. NRows(dual) |-> Dot(ks, dual.cells[c])]
  IN  IF NoTensor \in {train, dual} THEN Gives(<<t>>)
      ELSE Gives(<<Stored(Width(t), [r \in 1 .. NRows(t) |->
                     projected(used(k([f \in Cols(t) |-> Get(t, r, f)])))])>>)

-----------------------------------------------------------------------------
(***************************************************************************)
(* Neighbours                                                              *)
(***************************************************************************)

Huge == One ^ 3

\* Distances in parts of One.  The Minkowski metric, whose power is any number, is
\* left out.
DistanceBetween(metric, p, q) ==
  CASE metric = "manhattan" -> Times(One, Sum([f \in DOMAIN p |-> Size(Minus(p[f], q[f]))]))
    [] metric = "cosine" ->
         LET den == Root(Dot(p, p)) * Root(Dot(q, q))
         IN  IF den = 0 THEN One ELSE One - ShareOf(Dot(p, q), den)
    [] metric = "euclidean" -> Root(One * One * Gap(p, q))

\* The training rows by distance.  Equal ones stand in their order here; the sort
\* of the code promises none.
ByDistance(d) ==
  SortSeq([i \in DOMAIN d |-> i], LAMBDA a, b : d[a] < d[b] \/ (d[a] = d[b] /\ a < b))

Nearness(x, d) ==
  IF Attr(x, "weights", "uniform") # "distance" THEN 1
  ELSE IF d > 0 THEN (One * One) \div d ELSE Huge

\* Mutant of Neighbours: one too few.
NeighboursBut(x, d) ==
  LET order == ByDistance(d)
      k == Attr(x, "n_neighbors", 5)
  IN  SubSeq(order, 1, (IF k < Len(d) THEN k ELSE Len(d)) - 1)

\* The k nearest, or all within the radius.
Neighbours(x, d) ==
  LET order == ByDistance(d)
      k == Attr(x, "n_neighbors", 5)
  IN  IF Attr(x, "neighbor_mode", "knn") = "radius"
      THEN SelectSeq(order, LAMBDA i : d[i] <= One * Attr(x, "radius", 1))
      ELSE SubSeq(order, 1, IF k < Len(d) THEN k ELSE Len(d))

\* What near, some training rows, say of a query, each with its weight.
VotesFrom(target, near, w) ==
  [k \in {target[i] : i \in Range(near)} |->
     Sum([j \in DOMAIN near |-> IF target[near[j]] = k THEN w[near[j]] ELSE 0])]
WeighedMean(value, near, w) ==
  Over(Sum([j \in DOMAIN near |-> w[near[j]] * value[near[j]]]),
       Sum([j \in DOMAIN near |-> w[near[j]]]))

\* The lowest of the labels with most votes; every label's part of the votes.
MostVoted(votes) == Min({k \in DOMAIN votes : \A l \in DOMAIN votes : votes[l] <= votes[k]})
VoteShares(votes, total, n) ==
  [c \in 1 .. n |-> IF c - 1 \in DOMAIN votes THEN ShareOf(votes[c - 1], total) ELSE 0]

\* The answer to one query; a query nobody is near to is an outlier.
Answered(x, target, near, w) ==
  LET n   == Attr(x, "n_classes", 2)
      out == IF "outlier_label" \in DOMAIN x.refs THEN Flat(x.refs["outlier_label"])[1] ELSE 0
      votes == VotesFrom(target, near, w)
  IN  IF Attr(x, "task", "classification") = "regression"
      THEN [value |-> IF near = << >> THEN 0 ELSE WeighedMean(target, near, w), probs |-> << >>]
      ELSE IF near = << >>
      THEN [value |-> out, probs |-> [c \in 1 .. n |-> IF c - 1 = out THEN One ELSE 0]]
      ELSE [value |-> MostVoted(votes),
            probs |-> VoteShares(votes, Sum([j \in DOMAIN near |-> w[near[j]]]), n)]

\* KNN: the training rows are the float32 ones the loader stored under the
\* constant's name, widened.
KNN(x) ==
  LET query  == Beside(x.in)
      train  == Stowed(x.refs["train_features"])
      target == Flat(Stowed(x.refs["train_targets"]))
      d(row) == [i \in 1 .. NRows(train) |->
                   DistanceBetween(Attr(x, "metric", "euclidean"), row, train.cells[i])]
      said(dist) == Answered(x, target, Neighbours(x, dist), [i \in DOMAIN dist |-> Nearness(x, dist[i])])
      answers == Written([r \in Rows(x) |-> said(Written(d(query.cells[r])))])
      table(a) ==
        <<Stored(Width(query), [r \in DOMAIN a |-> <<a[r].value>>])>>
        \o IF x.outs > 1 /\ a[1].probs # << >>
           THEN <<Stored(Width(query), [r \in DOMAIN a |-> a[r].probs])>> ELSE << >>
  IN  IF {"train_features", "train_targets"} \subseteq DOMAIN x.refs THEN Gives(table(answers))
      ELSE Refuses

\* The distance over the features neither row misses, scaled up to all of them;
\* beyond everything when there is none.
GappyDistance(p, q) ==
  LET both == {f \in DOMAIN p : NaN \notin {p[f], q[f]}}
      some == SetToSeq(both)
  IN  IF both = {} THEN Huge * Huge
      ELSE Root((One * One * Len(p) * Gap([j \in DOMAIN some |-> p[some[j]]],
                                          [j \in DOMAIN some |-> q[some[j]]])) \div Len(some))

\* KNNImputer: what the nearest rows that have the feature say.
KNNImputer(x) ==
  LET t     == Source(x)
      train == Stowed(x.refs["train_features"])
      d(row) == [i \in 1 .. NRows(train) |-> GappyDistance(row, train.cells[i])]
      value(f) == [i \in 1 .. NRows(train) |-> train.cells[i][f]]
      guess(v, near, w) == IF near = << >> THEN NaN ELSE WeighedMean(v, near, w)
      fill(v, dist) == guess(v, SelectSeq(Written(Neighbours(x, dist)), LAMBDA i : v[i] # NaN),
                             [i \in DOMAIN dist |-> Nearness(x, dist[i])])
  IN  IF "train_features" \notin DOMAIN x.refs THEN Refuses
      ELSE Gives(<<Stored(Width(t), [r \in Rows(x) |-> [f \in Cols(t) |->
             IF Get(t, r, f) = NaN
             THEN fill(value(f), Written(d([g \in Cols(t) |-> Get(t, r, g)]))) ELSE Get(t, r, f)]])>>)

=============================================================================
