----------------------------- MODULE ModelNodes -----------------------------
(***************************************************************************)
(* The nodes that hold a fitted model (src/nodes/linear_node.cpp,          *)
(* svm_node.cpp, naive_bayes_node.cpp, clustering_node.cpp,                *)
(* neural_network_node.cpp, anomaly_detection_node.cpp) and what the       *)
(* loader makes of their parameters (src/graph_loader.cpp, 450-1447).      *)
(*                                                                         *)
(* Each computes at one width: that of its main parameter, or double.      *)
(* Sums are exact here and rounded when a score is stored.  exp and log    *)
(* are powers of two and their exponents; scores that went through one are *)
(* in parts of One, the others in whole numbers: unit says which.          *)
(***************************************************************************)
EXTENDS CoreOps, LearningOps

\* extract_floats, extract_doubles: a parameter as the file declares it, at the
\* width of the node; one that is not given is empty.
Values(x, name, type) ==
  IF name \in DOMAIN x.refs THEN Flat(Converted(x.refs[name], type)) ELSE << >>
Table2(x, name, type) == Converted(x.refs[name], type).cells

\* gather_slots at the width of the node.  A kernel steps over the buffer by its
\* own number of features n, wherever the rows of the inputs end.
Gathered(x, type, n) ==
  LET flat == Flat(Converted(Beside(x.in), type))
  IN  [r \in Rows(x) |-> SubSeq(flat, (r - 1) * n + 1, r * n)]

\* std::max_element: a missing first element stands.
MaxElement(row) == IF row[1] = NaN THEN 0 ELSE BestOf(row)

\* A label for each row.
LabelColumn(type, ls) == [type |-> type, cells |-> [r \in DOMAIN ls |-> <<ls[r]>>]]

\* 1 / (1 + exp(-v)).
Sigmoid(v, unit) ==
  LET n     == Least(Abs(v) \div unit, 20)
      above == (One * 2 ^ n) \div (1 + 2 ^ n)
  IN  IF v = NaN THEN NaN ELSE IF v >= 0 THEN above ELSE One - above

Exp(v) == IF v = NaN THEN NaN ELSE IF v >= 0 THEN One * 2 ^ v ELSE One \div 2 ^ (-v)

\* apply_post_transform of a row.  Probit, CLogLog, Cauchit and LogLog, of which no
\* power of two is a picture, are left out, and the pair a tree ensemble alone
\* has room for.
PostTransform(pt, row, unit) ==
  CASE pt = "identity"             -> row
    [] pt \in {"sigmoid", "logit"} -> [c \in DOMAIN row |-> Sigmoid(row[c], unit)]
    [] pt = "softmax"              -> Distribution(row, unit)
    [] pt = "exp"                  -> [c \in DOMAIN row |-> Exp(Over(row[c], unit))]
PostUnit(pt, unit) == IF pt = "identity" THEN unit ELSE One

\* Mutant of BinaryPair: the classes change places.
PairSwapped(s, unit) == <<s, Minus(unit, s)>>

\* The column for each of two classes, from the score of the second.
BinaryPair(s, unit) == <<Minus(unit, s), s>>

Pairs(scores, unit) ==
  Stored(Width(scores), [r \in 1 .. NRows(scores) |-> BinaryPair(scores.cells[r][1], unit)])

\* The label and the probabilities of a classifier.  One score is compared with a
\* half, and tie is what a half gives.
Judged(scores, unit, tie) ==
  LET rows == 1 .. NRows(scores)
      side(s) == IF Less(unit, Times(2, s)) THEN 1 ELSE IF Times(2, s) = unit THEN tie ELSE 0
  IN  IF NCols(scores) = 1
      THEN Gives(<<LabelColumn("i64", [r \in rows |-> side(scores.cells[r][1])]), Pairs(scores, unit)>>)
      ELSE Gives(<<LabelColumn("i64", [r \in rows |-> MaxElement(scores.cells[r])]), scores>>)

\* What a row scores: a weighted sum for each row of w, and its intercept, counted
\* in unit, if there is one.
Scores(w, b, unit, row) ==
  [j \in DOMAIN w |-> Plus(Dot(w[j], row), IF j <= Len(b) THEN b[j] * unit ELSE 0)]

-----------------------------------------------------------------------------
(***************************************************************************)
(* LinearNode                                                              *)
(***************************************************************************)

\* convert_linear: the coefficients, a row for each score, and their width.
LinearModel(x) ==
  LET type == Width(x.refs["coefficients"])
  IN  [type |-> type, w |-> Table2(x, "coefficients", type), b |-> Values(x, "intercept", type),
       pt |-> Attr(x, "post_transform", "identity")]

\* With one name to write, one probability becomes a pair.
LinearAnswer(x, m) ==
  LET feat   == Gathered(x, m.type, Len(m.w[1]))
      scores == Stored(m.type, [r \in Rows(x) |-> PostTransform(m.pt, Scores(m.w, m.b, 1, feat[r]), 1)])
  IN  IF x.outs = 2 THEN Judged(scores, PostUnit(m.pt, 1), 0)
      ELSE IF x.outs = 1 /\ Len(m.w) = 1 /\ m.pt = "sigmoid" THEN Gives(<<Pairs(scores, One)>>)
      ELSE PerOutput(x, scores)
LinearNode(x) == LinearAnswer(x, LinearModel(x))

-----------------------------------------------------------------------------
(***************************************************************************)
(* SVMNode                                                                 *)
(***************************************************************************)

\* platt_sigmoid: 1 / (1 + exp(A f + B)).
PlattSigmoid(f, a, b, unit) == Sigmoid(Minus(0, Plus(Times(a, f), b * unit)), unit)

\* The pair (i, j) of K classes, in the order pairs are visited.
PairIndex(K, i, j) == (i - 1) * K - (i * (i - 1)) \div 2 + j - i

\* A square table, of what f gives for a row and a column.
Grid(C, f(_, _)) ==
  LET row(i) == Written([j \in C |-> f(i, j)]) IN Written([i \in C |-> row(i)])

\* multiclass_probability, for three classes: the distribution at which its
\* iteration rests.  Q is the matrix of libsvm's second method; Q p is the same
\* for all classes, so that p is the adjugate's row sums.  A missing r never
\* makes max_err exceed eps, and the even distribution it starts from stays.
Coupled(R) ==
  LET C == 1 .. 3
      third(i, j) == 6 - i - j
      diagonal(t) == Sum([k \in C |-> IF k = t THEN 0 ELSE R[k][t] * R[k][t]])
      matrix == Grid(C, LAMBDA t, j : IF t = j THEN diagonal(t) ELSE -(R[j][t] * R[t][j]))
      cofactor(Q, i, j) ==
        LET k == third(i, j)
            m == IF i = 1 THEN 2 ELSE 1
            l == third(i, m)
        IN  IF i = j THEN Q[m][m] * Q[l][l] - Q[m][l] * Q[m][l]
            ELSE Q[i][k] * Q[j][k] - Q[i][j] * Q[k][k]
      weights(Q) ==
        Written([i \in C |-> (cofactor(Q, i, 1) + cofactor(Q, i, 2) + cofactor(Q, i, 3)) \div (One * One)])
      shares(p) == [c \in C |-> ShareOf(p[c], Sum(p))]
  IN  IF \E i, j \in C : R[i][j] = NaN THEN [c \in C |-> One \div 3] ELSE shares(weights(matrix))

\* The kernel's attributes with the converter's defaults for those not given.
WithKernel(x, kernel) == [x EXCEPT !.attrs = @ @@ [kernel |-> kernel, coef0 |-> 0]]
KernelUnit(y) == IF y.attrs["kernel"] \in {"rbf", "sigmoid"} THEN One ELSE 1

\* compute_kernel_row: how near a row is to each support vector.
KernelRow(m, row) == Written([s \in DOMAIN m.sv |-> Kernel(m.kernel, row, m.sv[s])])

\* convert_svm.  Only a model of doubles is told how many support vectors each
\* class has.
SVMModel(x) ==
  LET linear == "coefficients" \in DOMAIN x.refs
      main   == IF linear THEN "coefficients" ELSE "support_vectors"
      type   == Width(x.refs[main])
  IN  [linear |-> linear, type |-> type, kernel |-> WithKernel(x, "linear"),
       sv |-> Table2(x, main, type),
       w |-> Table2(x, IF linear THEN main ELSE "dual_coefficients", type),
       b |-> Values(x, "intercept", type), pt |-> Attr(x, "post_transform", "identity"),
       pa |-> IF linear THEN << >> ELSE Values(x, "prob_a", type), pb |-> Values(x, "prob_b", type),
       n_support |-> IF type = "f64" THEN Attr(x, "n_support", << >>) ELSE << >>]

\* predict_kernel_svm_multiclass, for one row, whose kernels are k: the decision
\* of a pair of classes is made by the support vectors of both.
OneVersusOne(m, k, unit) ==
  LET n == m.n_support
      K == Len(n)
      of(c) == {s \in DOMAIN k : Sum(SubSeq(n, 1, c - 1)) < s /\ s <= Sum(SubSeq(n, 1, c))}
      part(i, j) == [s \in DOMAIN k |-> IF s \in of(i) THEN Times(m.w[j - 1][s], k[s])
                                        ELSE IF s \in of(j) THEN Times(m.w[i][s], k[s]) ELSE 0]
      decision(i, j, pair) ==
        Plus(Sum(part(i, j)), IF pair <= Len(m.b) THEN m.b[pair] * unit ELSE 0)
      chance(d, pair) == IF pair <= Len(m.pa) THEN PlattSigmoid(d, m.pa[pair], m.pb[pair], unit)
                         ELSE IF Less(0, d) THEN One ELSE 0
      r(i, j) == LET pair == PairIndex(K, i, j)
                 IN  Clamp(chance(decision(i, j, pair), pair), 1, One - 1)
  IN  Coupled(Grid(1 .. K, LAMBDA i, j :
                     IF i < j THEN r(i, j) ELSE IF j < i THEN Minus(One, r(j, i)) ELSE 0))

UsesPairs(m) == ~m.linear /\ Len(m.n_support) > 2 /\ m.pa # << >>

\* SVMImplT::compute: the unit of the scores, and their table.
SVMScores(x, m) ==
  LET unit == IF m.linear THEN 1 ELSE KernelUnit(m.kernel)
      feat == Gathered(x, m.type, Len(m.sv[1]))
      seen(r) == IF m.linear THEN feat[r] ELSE KernelRow(m, feat[r])
      row(r) == IF UsesPairs(m) THEN OneVersusOne(m, seen(r), unit)
                ELSE PostTransform(m.pt, Scores(m.w, m.b, unit, seen(r)), unit)
  IN  [unit |-> IF UsesPairs(m) THEN One ELSE PostUnit(m.pt, unit),
       table |-> Stored(m.type, [r \in Rows(x) |-> row(r)])]

\* A binary model decides by the sign of its score; Platt's probabilities only
\* stand beside it.
SVMDecided(x, m, t, unit) ==
  LET p(r) == Minus(One, PlattSigmoid(Minus(0, t.cells[r][1]), m.pa[1], m.pb[1], unit))
      sign == LabelColumn("i64", [r \in Rows(x) |-> IF Less(t.cells[r][1], 0) \/ t.cells[r][1] = NaN
                                                    THEN 0 ELSE 1])
  IN  IF x.outs # 2 THEN PerOutput(x, t)
      ELSE IF NCols(t) > 1 THEN Judged(t, unit, 0)
      ELSE IF m.pa # << >> THEN Gives(<<sign, Stored(t.type, [r \in Rows(x) |-> BinaryPair(p(r), One)])>>)
      ELSE Gives(<<sign, t>>)

SVMNode(x) ==
  LET decided(m, got) == SVMDecided(x, m, got.table, got.unit)
      scored(m) == decided(m, SVMScores(x, m))
  IN  scored(SVMModel(x))

-----------------------------------------------------------------------------
(***************************************************************************)
(* NaiveBayesNode                                                          *)
(***************************************************************************)

\* convert_naive_bayes: what the variant reads, and the number of features.
NaiveBayesModel(x) ==
  LET type  == Width(x.refs["class_log_priors"])
      prior == Values(x, "class_log_priors", type)
      name  == x.attrs["variant"]
      main  == IF name = "gaussian" THEN "means" ELSE "feature_log_prob"
      counts == Attr(x, "category_count", << >>)
      table(n) == IF n \in DOMAIN x.refs THEN Table2(x, n, type) ELSE << >>
      \* the categories' table is kept in float
      cats == Flat(Converted(x.refs["category_log_prob"], "f32"))
  IN  [type |-> type, prior |-> prior, variant |-> name,
       means |-> table("means"), variances |-> table("variances"),
       epsilon |-> Attr(x, "variance_epsilon", 0),
       lp |-> table("feature_log_prob"), threshold |-> Attr(x, "binarize_threshold", 0),
       cats |-> IF name = "categorical" THEN cats ELSE << >>,
       count |-> counts, offset |-> Attr(x, "category_offset", << >>),
       n |-> IF name = "categorical" THEN Len(counts) ELSE Len(Values(x, main, type)) \div Len(prior)]

\* The log likelihood of a row in class c, times two for the Gaussian's halves.
Likelihood(m, row, c) ==
  LET gauss(v, d) == Minus(0, Plus(Over(Times(d, d), v), Log(v)))
      \* log(1 - exp(p) + 1e-9)
      rest(p) == IF p = 0 THEN -30 ELSE IF p = -1 THEN -1 ELSE 0
      bernoulli(f) == IF Less(m.threshold, row[f]) THEN m.lp[c][f] ELSE rest(m.lp[c][f])
      category(f) == IF row[f] \in 0 .. m.count[f] - 1
                     THEN m.cats[(c - 1) * Sum(m.count) + m.offset[f] + row[f] + 1] ELSE 0
  IN  CASE m.variant = "gaussian"    ->
             Sum([f \in DOMAIN row |-> gauss(m.variances[c][f] + m.epsilon, Minus(row[f], m.means[c][f]))])
        [] m.variant = "multinomial" -> Dot(row, m.lp[c])
        [] m.variant = "bernoulli"   -> Sum([f \in DOMAIN row |-> bernoulli(f)])
        [] m.variant = "categorical" -> Sum([f \in DOMAIN row |-> category(f)])

\* The label is the best of the posteriors at the width of the node, and the
\* probabilities are made of the narrowed ones.
NaiveBayesAnswer(x, m) ==
  LET unit  == IF m.variant = "gaussian" THEN 2 ELSE 1
      feat  == Gathered(x, m.type, m.n)
      post  == Stored(m.type, [r \in Rows(x) |-> [c \in DOMAIN m.prior |->
                                 Plus(Likelihood(m, feat[r], c), unit * m.prior[c])]]).cells
      prob(row) == Distribution([c \in DOMAIN row |-> Narrow(row[c])], unit)
      both(rows) == <<LabelColumn("f32", [r \in Rows(x) |-> MaxElement(rows[r])]),
                      Stored("f32", [r \in Rows(x) |-> prob(rows[r])])>>
  IN  Gives(SubSeq(both(post), 1, Least(x.outs, 2)))
NaiveBayesNode(x) == NaiveBayesAnswer(x, NaiveBayesModel(x))

-----------------------------------------------------------------------------
(***************************************************************************)
(* ClusteringNode                                                          *)
(***************************************************************************)

\* compute_distance_t, in parts of One.
ClusterDistance(measure, p, q) ==
  IF NaN \in Range(p) THEN NaN
  ELSE IF measure = "squared_euclidean" THEN One * Gap(p, q) ELSE DistanceBetween(measure, p, q)

\* gmm_log_prob_t twice over, less the constant all components share.  A full
\* covariance is given by the factor of its inverse.
GaussianLog(kind, row, mu, cov) ==
  LET d == [f \in DOMAIN row |-> Minus(row[f], mu[f])]
      y == [i \in DOMAIN row |-> Sum([j \in 1 .. i |-> Times(cov[(j - 1) * Len(row) + i], d[j])])]
      diagonal(f) == cov[(f - 1) * Len(row) + f]
  IN  CASE kind = "spherical" -> Minus(0, Plus(Over(Dot(d, d), cov[1]), Len(row) * Log(cov[1])))
        [] kind = "diagonal"  ->
             Minus(0, Sum([f \in DOMAIN d |-> Plus(Over(Times(d[f], d[f]), cov[f]), Log(cov[f]))]))
        [] kind = "full"      ->
             Minus(2 * Sum([f \in DOMAIN d |-> Log(diagonal(f))]), Dot(y, y))

\* convert_clustering: the prototypes or the components of a mixture, whose
\* weights are in parts of One.
ClusterModel(x) ==
  LET proto == "centers" \in DOMAIN x.refs
      main  == IF proto THEN "centers" ELSE "means"
      type  == Width(x.refs[main])
  IN  [type |-> type, proto |-> proto, mu |-> Table2(x, main, type),
       measure |-> Attr(x, "distance_measure", "euclidean"),
       weights |-> Values(x, "weights", type), kind |-> Attr(x, "covariance_type", "full"),
       cov |-> IF proto THEN << >> ELSE Table2(x, "covariances", type)]

\* The nearest of the prototypes, or the likeliest of the components; the other
\* output has the distances or the posteriors.
ClusterAnswer(x, m) ==
  LET feat == Gathered(x, m.type, Len(m.mu[1]))
      one(row, c) == IF m.proto THEN ClusterDistance(m.measure, row, m.mu[c])
                     ELSE Plus(2 * Log(m.weights[c]), GaussianLog(m.kind, row, m.mu[c], m.cov[c]))
      score == Stored(m.type, [r \in Rows(x) |-> [c \in DOMAIN m.mu |-> one(feat[r], c)]]).cells
      label(row) == BestOf(IF m.proto THEN [c \in DOMAIN row |-> Minus(0, row[c])] ELSE row)
      shown(row) == IF m.proto THEN row ELSE Distribution([c \in DOMAIN row |-> Narrow(row[c])], 2)
      both(rows) == <<LabelColumn("i32", [r \in Rows(x) |-> label(rows[r])]),
                      Stored("f32", [r \in Rows(x) |-> shown(rows[r])])>>
  IN  Gives(SubSeq(both(score), 1, Least(x.outs, 2)))
ClusteringNode(x) == ClusterAnswer(x, ClusterModel(x))

-----------------------------------------------------------------------------
(***************************************************************************)
(* NeuralNetworkNode                                                       *)
(***************************************************************************)

\* apply_activation_t: what a layer passes on, and its unit.  tanh is cut off
\* at one; relu turns a missing value into zero.
Activated(act, v, unit) ==
  CASE act = "identity" -> v
    [] act = "relu"     -> [j \in DOMAIN v |-> IF Less(0, v[j]) THEN v[j] ELSE 0]
    [] act = "logistic" -> [j \in DOMAIN v |-> Sigmoid(v[j], unit)]
    [] act = "tanh"     -> [j \in DOMAIN v |-> Over(Clamp(Times(v[j], One), -One * unit, One * unit), unit)]
    [] act = "softmax"  -> Distribution(v, unit)
ActivatedUnit(act, unit) == IF act \in {"identity", "relu"} THEN unit ELSE One

\* convert_neural_network: all layers at the width of the first.
NetworkModel(x) ==
  LET layers == x.attrs["layers"]
      type   == Width(layers[1].weights)
  IN  [type |-> type, n |-> NCols(layers[1].weights),
       layers |-> [l \in DOMAIN layers |->
                     [w |-> Converted(layers[l].weights, type).cells,
                      b |-> IF layers[l].bias = << >> THEN << >> ELSE Stored(type, <<layers[l].bias>>).cells[1],
                      activation |-> layers[l].activation]]]

\* forward_layer_t over the layers, from the features of a row.
Forward(m, row) ==
  LET kept(l, h, v) ==
        [unit |-> ActivatedUnit(l.activation, h.unit),
         v |-> LET a == Activated(l.activation, v, h.unit) IN Written([j \in DOMAIN v |-> Hold(m.type, a[j])])]
      pass(h, l) == kept(l, h, Written(Scores(l.w, l.b, h.unit, h.v)))
  IN  FoldLeft(pass, [unit |-> 1, v |-> row], m.layers)

NetworkAnswer(x, m) ==
  LET feat   == Gathered(x, m.type, m.n)
      last   == [r \in Rows(x) |-> Forward(m, feat[r])]
      judged(rows) ==
        LET scores == Stored(m.type, [r \in Rows(x) |-> rows[r].v])
        IN  IF x.outs = 2 THEN Judged(scores, rows[1].unit, 1) ELSE PerOutput(x, scores)
  IN  judged(Written(last))
NeuralNetworkNode(x) == NetworkAnswer(x, NetworkModel(x))

-----------------------------------------------------------------------------
(***************************************************************************)
(* AnomalyDetectionNode: doubles throughout.  A score is higher for what   *)
(* is more normal.                                                         *)
(***************************************************************************)

\* average_path_length, in parts of One; Euler's constant is 35 of 60.
AveragePathLength(n) ==
  IF n <= 1 THEN 0 ELSE IF n = 2 THEN One
  ELSE 2 * (One * Log(n - 1) + (35 * One) \div 60) - (2 * One * (n - 1)) \div n

\* Where a walk down a tree ends, nodes counted from 0: at a leaf, at a node
\* without two children, or outside the tree.  A missing value goes right.
Walked(tree, row) ==
  LET step(n, ignored) ==
        IF n + 1 \notin DOMAIN tree THEN n
        ELSE LET node == tree[n + 1]
                 v    == IF node.feature \in 0 .. Len(row) - 1 THEN row[node.feature + 1] ELSE 0
             IN  IF node.leaf \/ Len(node.kids) < 2 THEN n
                 ELSE node.kids[IF v # NaN /\ v <= node.threshold THEN 1 ELSE 2]
  IN  FoldLeft(step, 0, tree)

IsolationScore(m, row) ==
  LET depth(tree, n) == IF n + 1 \in DOMAIN tree THEN tree[n + 1].value ELSE 0
      total == Sum([t \in DOMAIN m.trees |-> depth(m.trees[t], Walked(m.trees[t], row))])
      score(norm) == IF m.trees = << >> \/ norm <= 0 THEN 0
                     ELSE -(One \div 2 ^ ((One * total) \div (Len(m.trees) * norm)))
  IN  score(AveragePathLength(m.max_samples))

\* Less the squared Mahalanobis distance.
EnvelopeScore(m, row) ==
  LET d == [f \in DOMAIN row |-> Minus(row[f], m.location[f])]
      n == Len(row)
      score(gap) ==
        Minus(0, Dot(gap, [i \in DOMAIN row |-> Dot(SubSeq(m.precision, (i - 1) * n + 1, i * n), gap)]))
  IN  score(Written(d))

\* knn among the reference samples, skip excepted: the nearest, and all distances.
\* Equal distances stand in their order, which the sorted pairs promise.
NearSamples(m, row, skip) ==
  LET d == [i \in DOMAIN m.ref |-> DistanceBetween(m.metric, row, m.ref[i])]
      k == Least(m.k, Len(m.ref) - (IF skip > 0 THEN 1 ELSE 0))
      near(dist) ==
        [idx |-> SubSeq(SelectSeq(ByDistance(dist), LAMBDA i : i # skip), 1, k), dist |-> dist]
  IN  near(Written(d))

\* local_reachability_density: one over the mean reach to the neighbours, given
\* the distance from each of these to its own farthest neighbour.
ReachabilityDensity(near, kdist) ==
  LET reach(i) == IF kdist[i] < near.dist[i] THEN near.dist[i] ELSE kdist[i]
      mean == Sum([j \in DOMAIN near.idx |-> reach(near.idx[j])]) \div Len(near.idx)
  IN  IF near.idx = << >> THEN 0 ELSE Huge \div (IF mean < 1 THEN 1 ELSE mean)

\* precompute_lof: how far each sample's neighbours reach, and how dense it is there.
KDistances(own) ==
  Written([i \in DOMAIN own |-> IF own[i].idx = << >> THEN 0 ELSE own[i].dist[Last(own[i].idx)]])
Densities(own, kdist) == Written([i \in DOMAIN own |-> ReachabilityDensity(own[i], kdist)])

\* The mean density of the neighbours over the row's own.
OutlierFactor(near, mine, lrd) ==
  IF near.idx = << >> \/ mine <= 0 THEN 0
  ELSE -((One * (Sum([j \in DOMAIN near.idx |-> lrd[near.idx[j]]]) \div Len(near.idx))) \div mine)

OutlierScore(m, row) ==
  LET near(q, skip) == NearSamples(m, q, skip)
      judged(own, kdist, mine) == OutlierFactor(mine, ReachabilityDensity(mine, kdist), Densities(own, kdist))
      learnt(own, mine) == judged(own, KDistances(own), mine)
  IN  learnt(Written([i \in DOMAIN m.ref |-> near(m.ref[i], i)]), near(row, 0))

\* score_one.
AnomalyScore(m, row) ==
  CASE m.kind = "isolation_forest"     -> IsolationScore(m, row)
    [] m.kind = "elliptic_envelope"    -> EnvelopeScore(m, row)
    [] m.kind = "linear_one_class_svm" -> Scores(<<m.coefficients>>, m.intercept, 1, row)[1]
    [] m.kind = "one_class_svm"        ->
         Scores(<<m.dual>>, m.intercept, KernelUnit(m.kernel), KernelRow(m, row))[1]
    [] m.kind = "local_outlier_factor" -> OutlierScore(m, row)

\* What the factories take for the number of features: a forest knows of those it
\* splits on.
AnomalyFeatures(m) ==
  CASE m.kind = "isolation_forest" ->
         Max({0} \cup {n.feature + 1 : n \in UNION {Range(t) : t \in Range(m.trees)}})
    [] m.kind = "elliptic_envelope"    -> Len(m.location)
    [] m.kind = "linear_one_class_svm" -> Len(m.coefficients)
    [] m.kind = "one_class_svm"        -> Len(m.sv[1])
    [] m.kind = "local_outlier_factor" -> Len(m.ref[1])

\* anomaly_output_roles: what an output is for, by its declared role or its name.
RoleOf(output) ==
  IF output.role = "PREDICTION" \/ output.name = "prediction" THEN "prediction"
  ELSE IF output.name = "decision" THEN "decision_value" ELSE "score"

\* convert_anomaly_detection.  An envelope without a precision has the identity;
\* the offset is the model's own, or the node's threshold, or none.
AnomalyModel(x) ==
  LET value(name) == Values(x, name, "f64")
      table(name) == IF name \in DOMAIN x.refs THEN Table2(x, name, "f64") ELSE << >>
      n           == Len(value("location"))
      identity    == [i \in 1 .. n * n |-> IF (i - 1) % (n + 1) = 0 THEN 1 ELSE 0]
      k           == Attr(x, "n_neighbors", 1)
  IN  [kind |-> x.attrs["kind"], outputs |-> x.attrs["outputs"],
       offset |-> Attr(x, "offset", Attr(x, "threshold", 0)),
       trees |-> Attr(x, "trees", << >>), max_samples |-> Attr(x, "max_samples", 0),
       location |-> value("location"),
       precision |-> IF Len(value("precision")) = n * n THEN value("precision") ELSE identity,
       coefficients |-> value("coefficients"), intercept |-> value("intercept"),
       kernel |-> WithKernel(x, "rbf"), sv |-> table("support_vectors"), dual |-> value("dual_coefficients"),
       ref |-> table("reference_samples"), metric |-> Attr(x, "metric", "euclidean"),
       k |-> IF k < 1 THEN 1 ELSE k]

AnomalyAnswer(x, m) ==
  LET feat == Gathered(x, "f64", AnomalyFeatures(m))
      value(role, s) ==
        CASE role = "score"          -> s
          [] role = "decision_value" -> Minus(s, m.offset)
          [] role = "prediction"     -> IF s = NaN \/ Less(s, m.offset) THEN -1 ELSE 1
      answers(score) ==
        Gives([o \in 1 .. x.outs |->
          Stored("f64", [r \in Rows(x) |-> <<value(RoleOf(m.outputs[o]), score[r])>>])])
  IN  IF NCols(Beside(x.in)) # AnomalyFeatures(m) THEN Refuses
      ELSE answers(Written([r \in Rows(x) |-> AnomalyScore(m, feat[r])]))
AnomalyDetectionNode(x) == AnomalyAnswer(x, AnomalyModel(x))

=============================================================================
