------------------------------- MODULE Scoring -------------------------------
(***************************************************************************)
(* A model that screens its inputs with a schema and scores them with a    *)
(* tree ensemble: the schema node's execute, the gathering of its features *)
(* by the ensemble node (src/src/runtime_tensor.h) and predict_impl, next  *)
(* to what the model declares.                                             *)
(***************************************************************************)
EXTENDS TreeEnsemble

CONSTANTS
  Infinity,
  Models,   \* models as declared: [features, trees, wide], wide for float64 thresholds
  Sources   \* calls: [f64, rows]

VARIABLES
  declared,  \* the model in the file
  source,    \* the rows of the call, as the caller gave them
  screened,  \* what the schema node put into the store
  phase      \* "file", "rejected", "ready", "called", "screened", "gathered", "scored"

svars == <<tvars, declared, source, screened, phase>>

Schema == INSTANCE ModelSchema

\* Numbers are between the infinities, and the bounds of intervals and the
\* replacements are floats.
Numbers   == (-Infinity .. Infinity) \cup {NaN}
Floats    == {n \in -Infinity .. Infinity : Schema!Narrow(n) = n}
Intervals == [left : Floats, right : Floats, left_open : BOOLEAN, right_open : BOOLEAN]

FeatureOK(f) ==
  /\ f.missing \in {"propagate", "as_value", "as_invalid"}
  /\ f.invalid \in {"return", "as_is", "as_missing", "as_value"}
  /\ f.outlier \in {"as_is", "as_missing", "as_extreme"}
  /\ f.missing_replacement \in Floats \cup {NaN}
  /\ f.invalid_replacement \in Floats \cup {NaN}
  /\ f.domain.kind \in {"none", "continuous", "discrete"}
  /\ f.domain.kind = "continuous" => f.domain.intervals \in Seq(Intervals)

ASSUME ScoringAssumption ==
  /\ Infinity \in Nat \ {0} /\ Schema!Narrow(Infinity) = Infinity
  /\ NaN \notin Int
  /\ \A m \in Models :
       /\ DOMAIN m.features = 1 .. Len(m.features)
       /\ \A k \in DOMAIN m.features : FeatureOK(m.features[k])
  /\ \A s \in Sources :
       /\ DOMAIN s.rows = 1 .. Len(s.rows) /\ Len(s.rows) \in Nat
       /\ s = [f64 |-> s.f64, rows |-> s.rows] /\ s.f64 \in BOOLEAN
       /\ \A r \in DOMAIN s.rows : \A i \in DOMAIN s.rows[r] :
            s.rows[r][i] \in IF s.f64 THEN Numbers ELSE Floats \cup {NaN}
       /\ \A r \in DOMAIN s.rows, m \in Models : \A k \in DOMAIN m.features :
            m.features[k].col \in DOMAIN s.rows[r]

\* What a tree is: the nodes behind a split are nodes of the tree, no way leads
\* back, and a leaf has a value for every column of its tree.
Nodes == [feature : Nat, threshold : Int, op : STRING, set : SUBSET Int,
          left : Nat, right : Nat, default : Nat, leaf : Seq(Int)]
Behind(node) == {node.left, node.right, node.default} \ {0}
TreeOK(tree, n_features) ==
  /\ tree = [nodes |-> tree.nodes, width |-> tree.width, complex |-> tree.complex]
  /\ tree.nodes \in Seq(Nodes) /\ tree.nodes # << >> /\ tree.width \in Nat \ {0}
  /\ \A i \in DOMAIN tree.nodes \ Internal(tree) : Len(tree.nodes[i].leaf) = tree.width
  /\ \A i \in Internal(tree) :
       LET node == tree.nodes[i]
       IN  /\ node.feature \in 1 .. n_features
           /\ Behind(node) \subseteq DOMAIN tree.nodes /\ node.left # 0 /\ node.right # 0
  /\ \A S \in SUBSET Internal(tree) :
       S # {} => \E i \in S : Behind(tree.nodes[i]) \cap S = {}

\* What an ensemble is: a tree's leaves have one value or one per output, and
\* Extreme is beyond the values of the trees.
EnsembleOK(m, n_features) ==
  /\ m = [trees |-> m.trees, aggregation |-> m.aggregation, weights |-> m.weights,
          group |-> m.group, base |-> m.base, transform |-> m.transform]
  /\ m.trees \in Seq(Range(m.trees))
  /\ \A t \in DOMAIN m.trees :
       /\ TreeOK(m.trees[t], n_features)
       /\ m.trees[t].width \in {1, NOutputs(m)}
       /\ Weight(m, t) \in Int
       /\ \A node \in Range(m.trees[t].nodes) : \A v \in Range(node.leaf) :
            Weight(m, t) * v \in -Extreme .. Extreme

ASSUME EnsembleAssumption ==
  \A m \in Models : EnsembleOK(m.trees, Len(m.features))

NoRows == [f64 |-> FALSE, rows |-> << >>]

ScoreInit ==
  /\ declared \in Models
  /\ ensemble = << >> /\ forest = << >>
  /\ batch = << >> /\ output = NotYet
  /\ source = NoRows /\ screened = NoRows
  /\ phase = "file"

Make ==
  /\ phase = "file"
  /\ MakeNode(declared.trees)
  /\ phase' = "ready"
  /\ UNCHANGED <<batch, output, declared, source, screened>>

\* convert_tree_ensemble throws: base scores of another number than one or one
\* per output.
Reject ==
  /\ phase = "file"
  /\ ~BaseFits(declared.trees)
  /\ phase' = "rejected"
  /\ UNCHANGED <<tvars, declared, source, screened>>

Call(s) ==
  /\ phase \in {"ready", "scored"}
  /\ source' = s
  /\ phase' = "called"
  /\ output' = NotYet
  /\ UNCHANGED <<ensemble, forest, batch, declared, screened>>

\* ModelSchemaNode::execute: a float64 source stays one.
Screen ==
  /\ phase = "called"
  /\ screened' = [source EXCEPT !.rows = Schema!Screened(declared.features, @, source.f64)]
  /\ phase' = "screened"
  /\ UNCHANGED <<tvars, declared, source>>

\* Mutant of Gathered: the features are taken in their own width.
GatheredAsIs == screened.rows

\* gather_slots in the width of the ensemble.
Gathered ==
  [r \in DOMAIN screened.rows |->
     [k \in DOMAIN screened.rows[r] |->
        IF declared.wide THEN screened.rows[r][k] ELSE Schema!Narrow(screened.rows[r][k])]]

Gather ==
  /\ phase = "screened"
  /\ batch' = Gathered
  /\ phase' = "gathered"
  /\ UNCHANGED <<ensemble, forest, output, declared, source, screened>>

Score ==
  /\ phase = "gathered"
  /\ PredictImpl
  /\ phase' = "scored"
  /\ UNCHANGED <<declared, source, screened>>

ScoreNext ==
  \/ Make \/ Reject
  \/ \E s \in Sources : Call(s)
  \/ Screen \/ Gather \/ Score

ScoreSpec == ScoreInit /\ [][ScoreNext]_svars

-----------------------------------------------------------------------------
(***************************************************************************)
(* What the model declares                                                 *)
(***************************************************************************)

\* Whether a row at node i is meant to go to node j: by its value, or by the
\* node's own predicate, and to the default child where the value is missing.
GoesTo(tree, row, i, j) ==
  LET node    == tree.nodes[i]
      v       == row[node.feature]
      special == i \in DOMAIN tree.complex
      missing == ~special /\ v = NaN
      holds   == IF special THEN v \in tree.complex[i] ELSE EvalSplit(node, v)
  IN  \/ missing /\ node.default # 0 /\ j = node.default
      \/ missing /\ node.default = 0 /\ j = node.right
      \/ ~missing /\ holds /\ j = node.left
      \/ ~missing /\ ~holds /\ j = node.right

\* The leaf a row is meant for: the nodes above send it on among themselves or
\* to that leaf.
MeantLeaf(tree, row) ==
  CHOOSE j \in DOMAIN tree.nodes \ Internal(tree) :
    \E S \in SUBSET Internal(tree) :
      /\ 1 \in S \cup {j}
      /\ \A i \in S : \E k \in S \cup {j} : GoesTo(tree, row, i, k)

\* A column of a row by the declared aggregation.
MeantColumn(m, row, c) ==
  LET value == [t \in DOMAIN m.trees |->
                  LET leaf == m.trees[t].nodes[MeantLeaf(m.trees[t], row)].leaf
                  IN  Weight(m, t) * leaf[IF Len(leaf) > 1 THEN c ELSE 1]]
      part  == {t \in DOMAIN m.trees : m.trees[t].width > 1 \/ Group(m, t) = c}
  IN  IF m.aggregation \in {"min", "max"}
      THEN CHOOSE v \in {Seed(m, c)} \cup {value[t] : t \in part} :
             \A t \in part : IF m.aggregation = "min" THEN v <= value[t] ELSE v >= value[t]
      ELSE Seed(m, c) + SumOver(Len(m.trees), part, value)

MeantRow(m, row) ==
  Transform(m, [c \in 1 .. NOutputs(m) |-> Scale(m, MeantColumn(m, row, c))])

-----------------------------------------------------------------------------

AllMeant == [r \in DOMAIN batch |-> MeantRow(declared.trees, batch[r])]

\* A missing value's default child is followed wherever no default child was
\* declared to be the left one, and for single rows of plain sums.
DefaultsSafe ==
  \/ ~HasNaN
  \/ OneRow /\ PlainSum
  \/ \A t \in DOMAIN declared.trees.trees :
       LET tree == declared.trees.trees[t]
       IN  \A i \in Internal(tree) : tree.nodes[i].default \in {0, tree.nodes[i].right}

\* Whatever path predict_impl takes - the pool, the flat forest, blocks, one
\* tree after the other, one row or many - a row's scores are those of the
\* leaves the declared trees mean for it.
ScoresAsDeclared == phase = "scored" /\ DefaultsSafe => output = AllMeant

\* "NaN inputs still need the SoA path, which carries the default-child logic"
\* (tree_ensemble_node.cpp:1354-1355): a missing value takes the default child.
DefaultsFollowed == phase = "scored" => output = AllMeant

\* A value within its feature's declared domain reaches the trees as it came,
\* in the full width if they have it.
InDomain(f, v) ==
  LET dom == f.domain
  IN  CASE dom.kind = "none" -> TRUE
        [] dom.kind = "continuous" ->
             dom.intervals = << >> \/ \E k \in DOMAIN dom.intervals : Schema!Contains(dom.intervals[k], v)
        [] dom.kind = "discrete" ->
             v \notin dom.invalid \cup dom.missing /\ (dom.valid = {} \/ v \in dom.valid)

Cells == {<<r, k>> : r \in DOMAIN source.rows, k \in DOMAIN declared.features}
Given(x) == source.rows[x[1]][declared.features[x[2]].col]

ValuesArriveWhole ==
  phase = "gathered" =>
    \A x \in Cells :
      Given(x) # NaN /\ InDomain(declared.features[x[2]], Schema!Narrow(Given(x))) =>
        batch[x[1]][x[2]] = IF declared.wide THEN Given(x) ELSE Schema!Narrow(Given(x))

\* A number outside its feature's domain reaches the trees only as a
\* replacement, or because a policy says to keep it.
NothingUndeclared ==
  phase = "gathered" =>
    \A x \in Cells :
      LET f == declared.features[x[2]]
          v == Schema!Narrow(batch[x[1]][x[2]])
      IN  \/ v = NaN \/ InDomain(f, v)
          \/ v = f.missing_replacement /\ f.missing = "as_value"
          \/ v = f.invalid_replacement /\ f.invalid = "as_value"
          \/ v = Schema!Narrow(Given(x))
             /\ "as_is" = IF f.domain.kind = "discrete" THEN f.invalid ELSE f.outlier

\* Policies that put a number in the place of everything they turn down leave
\* the trees no missing value, of inputs that are finite.
Replaces(f) ==
  /\ f.missing = "as_value" \/ (f.missing = "as_invalid" /\ f.invalid = "as_value")
  /\ f.invalid \in {"as_value", "as_is"}
  /\ f.outlier # "as_missing"

NoGapsLeft ==
  phase = "gathered" =>
    \A x \in Cells :
      Replaces(declared.features[x[2]]) /\ Given(x) \notin {Infinity, -Infinity} =>
        batch[x[1]][x[2]] # NaN

=============================================================================
