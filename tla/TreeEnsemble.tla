----------------------------- MODULE TreeEnsemble -----------------------------
(***************************************************************************)
(* Tree ensembles (src/nodes/tree_ensemble_node.cpp): what the node        *)
(* prepares when it is made, and the paths predict_impl takes for one row  *)
(* or many, with or without missing values, for trees of one comparison or *)
(* of several, each of them another way to walk the same trees.            *)
(*                                                                         *)
(* A tree is [nodes, width, complex].  Nodes are numbered from 1, the      *)
(* root; a node is [feature, threshold, op, set, left, right, default,     *)
(* leaf], a leaf's feature is 0, and leaf is the sequence of its width     *)
(* values.  complex maps the nodes with a predicate of their own to the    *)
(* feature values for which it holds.  An ensemble is [trees, aggregation, *)
(* weights, group, base, transform].  Sums are taken of integers: that     *)
(* float addition depends on the order of the trees is left out.           *)
(***************************************************************************)
EXTENDS Integers, Sequences, FiniteSetsExt, Functions

CONSTANTS
  NaN,
  Grain,              \* how far apart integral values are
  PoolSize,           \* threads of the pool, 1 without one
  ParallelThreshold,  \* kTreeParallelThreshold
  Block               \* compute_block_size

ASSUME TreeAssumption ==
  /\ PoolSize \in Nat \ {0} /\ ParallelThreshold \in Nat \ {0}
  /\ Block \in Nat \ {0} /\ Grain \in Nat \ {0}

VARIABLES
  ensemble,  \* the model of the node
  batch,     \* the rows of the call, gathered
  forest,    \* its flat_forest
  output     \* what predict_impl wrote: a row of scores per row, or NotYet

tvars == <<ensemble, forest, batch, output>>

NotYet == << >>

\* Beyond every score, where Min and Max start.
Extreme == 100000

\* Where a walk of n steps from root ends.
Path(root, step, n) ==
  LET at[d \in 0 .. n] == IF d = 0 THEN root ELSE step[at[d - 1]]
  IN  at[n]

\* The sum of f over the numbers of S up to n.
SumOver(n, S, f) ==
  LET total[k \in 0 .. n] == IF k = 0 THEN 0 ELSE total[k - 1] + (IF k \in S THEN f[k] ELSE 0)
  IN  total[n]

-----------------------------------------------------------------------------
(***************************************************************************)
(* Trees as the loader makes them                                          *)
(***************************************************************************)

IsLeaf(node)     == node.feature = 0
Internal(tree)   == {i \in DOMAIN tree.nodes : ~IsLeaf(tree.nodes[i])}
HasComplex(tree) == DOMAIN tree.complex # {}

AllAre(tree, op) ==
  \A i \in Internal(tree) : i \notin DOMAIN tree.complex /\ tree.nodes[i].op = op
AllLess(tree)      == AllAre(tree, "lt")
AllLessEqual(tree) == AllAre(tree, "le")

\* A comparison with NaN is false, but for "ne".
Compares(v, op, t) ==
  CASE op = "lt" -> v # NaN /\ v < t
    [] op = "le" -> v # NaN /\ v <= t
    [] op = "gt" -> v # NaN /\ v > t
    [] op = "ge" -> v # NaN /\ v >= t
    [] op = "eq" -> v = t
    [] op = "ne" -> v # t

\* eval_split: a category is the value cut to an integer.
EvalSplit(node, v) ==
  CASE node.op = "in"      -> v \div Grain \in node.set
    [] node.op = "not_in"  -> v \div Grain \notin node.set
    [] node.op = "missing" -> v = NaN
    [] OTHER               -> Compares(v, node.op, node.threshold)

Child(node, goes_left) == IF goes_left THEN node.left ELSE node.right

\* The leaf a walk comes to: a tree has more nodes than a walk has steps.
Walk(tree, step) ==
  Path(1, [i \in DOMAIN tree.nodes |-> IF i \in Internal(tree) THEN step[i] ELSE i],
       Len(tree.nodes))

\* What is read at node i for a leaf: its values, one or one per column.
Wild == [c \in Nat \ {0} |-> 77777]
LeafAt(nodes, i) == IF i # 0 /\ IsLeaf(nodes[i]) THEN nodes[i].leaf ELSE Wild

-----------------------------------------------------------------------------
(***************************************************************************)
(* The walks                                                               *)
(***************************************************************************)

\* Mutant of DefaultStep: a missing value goes right.
RightStep(tree, row, i) ==
  LET node == tree.nodes[i]
      v    == row[node.feature]
  IN  Child(node, v # NaN /\ EvalSplit(node, v))

\* traverse_one_lt, traverse_one_generic and the level-by-level loop of
\* traverse_batch_accum: a missing value takes the default child.
DefaultStep(tree, row, i) ==
  LET node == tree.nodes[i]
      v    == row[node.feature]
  IN  IF v = NaN THEN node.default ELSE Child(node, EvalSplit(node, v))

\* traverse_one_complex, traverse_complex_batch
ComplexStep(tree, row, i) ==
  IF i \in DOMAIN tree.complex
  THEN Child(tree.nodes[i], row[tree.nodes[i].feature] \in tree.complex[i])
  ELSE DefaultStep(tree, row, i)

\* The walks that look for no missing value, with the comparison their caller
\* chose for the whole tree, or the node's own.
PlainStep(tree, row, op, i) ==
  LET node == tree.nodes[i]
      v    == row[node.feature]
  IN  Child(node, IF op = "own" THEN EvalSplit(node, v) ELSE Compares(v, op, node.threshold))

DefaultLeaf(tree, row)   == Walk(tree, [i \in Internal(tree) |-> DefaultStep(tree, row, i)])
ComplexLeaf(tree, row)   == Walk(tree, [i \in Internal(tree) |-> ComplexStep(tree, row, i)])
PlainLeaf(tree, row, op) == Walk(tree, [i \in Internal(tree) |-> PlainStep(tree, row, op, i)])

\* The nodes d steps below the root.
Level(tree, d) ==
  Path({1}, [S \in SUBSET DOMAIN tree.nodes |->
               UNION {{tree.nodes[i].left, tree.nodes[i].right} : i \in S \cap Internal(tree)}], d)

\* The depths of a tree's leaves; detect_uniform_depth and detect_max_depth.
LeafDepths(tree)   == {d \in 0 .. Len(tree.nodes) : ~(Level(tree, d) \subseteq Internal(tree))}
MaxDepth(tree)     == Max(LeafDepths(tree))
UniformDepth(tree) == IF LeafDepths(tree) = {MaxDepth(tree)} THEN MaxDepth(tree) ELSE 0

\* DepthTraverser: as many steps as the tree is deep, whatever node that leads
\* to; a step from a leaf reads outside the row.
FixedLeaf(tree, row, op, depth) ==
  Path(1, [i \in 0 .. Len(tree.nodes) |->
             IF i \in Internal(tree) THEN PlainStep(tree, row, op, i) ELSE 0], depth)

-----------------------------------------------------------------------------
(***************************************************************************)
(* The flat forest                                                         *)
(***************************************************************************)

\* A tree without splits fits either comparison.
NoConstraint(tree) == AllLess(tree) /\ AllLessEqual(tree)

\* The comparison of the first tree that has one.
ForestOp(m) ==
  LET bound == {t \in DOMAIN m.trees : ~NoConstraint(m.trees[t])}
  IN  IF bound # {} /\ AllLessEqual(m.trees[Min(bound)]) THEN "le" ELSE "lt"

\* Mutant of ForestDepth: the first tree's depth.
FirstDepth(m) == IF m.trees = << >> THEN 0 ELSE MaxDepth(m.trees[1])

ForestDepth(m) == Max({0} \cup {MaxDepth(m.trees[t]) : t \in DOMAIN m.trees})

ForestValid(m) ==
  /\ \A t \in DOMAIN m.trees :
       LET tree == m.trees[t]
       IN  /\ ~HasComplex(tree) /\ tree.width = 1
           /\ NoConstraint(tree) \/ AllAre(tree, ForestOp(m))
  /\ ForestDepth(m) > 0

\* All trees' nodes in one sequence, tree after tree; a leaf leads to itself.
Root(m, t) ==
  1 + SumOver(t - 1, DOMAIN m.trees, [s \in DOMAIN m.trees |-> Len(m.trees[s].nodes)])
ForestNodes(m) ==
  [k \in 1 .. Root(m, Len(m.trees) + 1) - 1 |->
     LET t    == CHOOSE t \in DOMAIN m.trees : Root(m, t) <= k /\ k < Root(m, t + 1)
         off  == Root(m, t) - 1
         node == m.trees[t].nodes[k - off]
     IN  [node EXCEPT !.left  = IF IsLeaf(node) THEN k ELSE off + @,
                      !.right = IF IsLeaf(node) THEN k ELSE off + @]]

\* build_flat_forest
BuildForest(m) ==
  IF ForestValid(m)
  THEN [valid |-> TRUE, nodes |-> ForestNodes(m), op |-> ForestOp(m), depth |-> ForestDepth(m)]
  ELSE [valid |-> FALSE]

-----------------------------------------------------------------------------
(***************************************************************************)
(* Making the node                                                         *)
(***************************************************************************)

\* Mutant of ConvertTree: a default child that is not given is the left one.
DefaultsLeft(tree) ==
  [tree EXCEPT !.nodes = [i \in DOMAIN tree.nodes |->
     LET node == tree.nodes[i]
     IN  [node EXCEPT !.default = IF node.default = 0 THEN node.left ELSE node.default]]]

\* convert_flat_tree_input: a default child that is not given is the right one.
ConvertTree(tree) ==
  [tree EXCEPT !.nodes = [i \in DOMAIN tree.nodes |->
     LET node == tree.nodes[i]
     IN  [node EXCEPT !.default = IF node.default = 0 THEN node.right ELSE node.default]]]

NOutputs(m) ==
  CASE m.transform = "sigmoid_binary"                    -> 2
    [] m.transform # "sigmoid_binary" /\ m.group # << >> -> Max(Range(m.group))
    [] OTHER -> IF m.trees = << >> THEN 1 ELSE m.trees[1].width

BaseFits(m) == Len(m.base) \in {0, 1, NOutputs(m)}

Converted(m) == [m EXCEPT !.trees = [t \in DOMAIN m.trees |-> ConvertTree(m.trees[t])]]

\* make_tree_ensemble_impl on what the loader read.
MakeNode(m) ==
  /\ BaseFits(m)
  /\ ensemble' = Converted(m)
  /\ forest' = BuildForest(Converted(m))

-----------------------------------------------------------------------------
(***************************************************************************)
(* Scores                                                                  *)
(***************************************************************************)

Group(m, t)  == IF t \in DOMAIN m.group THEN m.group[t] ELSE 1
Weight(m, t) == IF m.weights = << >> THEN 1 ELSE m.weights[t]

\* What a column of the output holds before the first tree.
Seed(m, c) ==
  CASE m.aggregation = "min" -> Extreme
    [] m.aggregation = "max" -> -Extreme
    [] OTHER -> IF m.base = << >> THEN 0
                ELSE IF Len(m.base) = 1 THEN m.base[1] ELSE m.base[c]

\* The trees of a column.  A tree with vector leaves has every one.
TreesOf(m, c) == {t \in DOMAIN m.trees : m.trees[t].width > 1 \/ Group(m, t) = c}

\* value[t] is what tree t has for the column.
Aggregate(m, c, value) ==
  CASE m.aggregation = "min" -> Min({Seed(m, c)} \cup {value[t] : t \in TreesOf(m, c)})
    [] m.aggregation = "max" -> Max({Seed(m, c)} \cup {value[t] : t \in TreesOf(m, c)})
    [] OTHER                 -> Seed(m, c) + SumOver(Len(m.trees), TreesOf(m, c), value)

WeightSum(weights) == FoldFunction(+, 0, weights)

\* apply_aggregation_scale, a score being a fraction.
Scale(m, total) ==
  LET n == Len(m.trees)
      w == WeightSum(m.weights)
  IN  CASE m.aggregation = "average" /\ n > 0      -> <<total, n>>
        [] m.aggregation = "weighted_avg" /\ w > 0 -> <<total, w>>
        [] m.aggregation = "soft_vote" /\ n > 0    -> <<total * NOutputs(m), n>>
        [] OTHER                                   -> <<total, 1>>

\* apply_post_transform, which for sigmoid_binary fills both columns from the
\* first: 1 - p is the logistic function of the negated score.
Transform(m, row) ==
  IF m.transform = "sigmoid_binary"
  THEN <<[logistic |-> <<-row[1][1], row[1][2]>>], [logistic |-> row[1]]>>
  ELSE row

\* The scores of a row, leaf[t] being the values it comes to in tree t.
Scores(m, leaf) ==
  Transform(m, [c \in 1 .. NOutputs(m) |->
    Scale(m, Aggregate(m, c, [t \in DOMAIN m.trees |->
      Weight(m, t) * leaf[t][IF m.trees[t].width > 1 THEN c ELSE 1]]))])

-----------------------------------------------------------------------------
(***************************************************************************)
(* The paths of predict_impl                                               *)
(***************************************************************************)

\* scan_has_nan
HasNaN == \E r \in DOMAIN batch : NaN \in Range(batch[r])

MaxUnrolled == 8

\* traverse_single: the trees' own arrays of nodes exist unless a forest has
\* taken their place.
SingleLeaf(tree, row) ==
  LET op == IF AllLessEqual(tree) THEN "le" ELSE IF AllLess(tree) THEN "lt" ELSE "own"
  IN  CASE HasComplex(tree)             -> ComplexLeaf(tree, row)
        [] ~HasComplex(tree) /\ HasNaN  -> DefaultLeaf(tree, row)
        [] OTHER ->
             IF op # "own" /\ ~forest.valid /\ UniformDepth(tree) \in 1 .. MaxUnrolled
             THEN FixedLeaf(tree, row, op, UniformDepth(tree))
             ELSE PlainLeaf(tree, row, op)

\* dispatch_batch; a tree of one less-than split is scored as a stump.
BatchLeaf(tree, row) ==
  CASE HasComplex(tree) -> ComplexLeaf(tree, row)
    [] ~HasComplex(tree) /\ Len(tree.nodes) = 3 /\ AllLess(tree) /\ tree.width = 1 ->
         PlainLeaf(tree, row, "lt")
    [] OTHER -> DefaultLeaf(tree, row)

\* traverse_forest_n1: as many steps as the deepest tree asks for, those
\* behind a leaf staying on it.
ForestStep(row, i) ==
  LET node == forest.nodes[i]
  IN  IF IsLeaf(node) THEN i ELSE Child(node, Compares(row[node.feature], forest.op, node.threshold))
ForestSteps(row) == [i \in DOMAIN forest.nodes |-> ForestStep(row, i)]
ForestLeaf(t, row) == Path(Root(ensemble, t), ForestSteps(row), forest.depth)

\* traverse_block_flat and traverse_block_flat_grouped: to the leaf.
ForestWalk(t, row) == Path(Root(ensemble, t), ForestSteps(row), Len(forest.nodes))

Finish(rows) == output' = rows /\ UNCHANGED <<ensemble, forest, batch>>

\* Plain sums of unweighted trees have paths of their own.
PlainSum  == ensemble.aggregation = "sum" /\ ensemble.weights = << >>
OneRow    == Len(batch) = 1
InPool    == /\ NOutputs(ensemble) = 1 /\ ensemble.group = << >>
             /\ PoolSize > 1 /\ Len(ensemble.trees) >= ParallelThreshold
Blockable == \E op \in {"lt", "le"} :
               \A t \in DOMAIN ensemble.trees :
                 LET tree == ensemble.trees[t]
                 IN  AllAre(tree, op) /\ tree.width = 1 /\ ~HasComplex(tree)

\* Mutant of Share: the last tree of a share is the first of the next.
ShareOverlaps(id) ==
  LET n == Len(ensemble.trees)
  IN  1 + (n * id) \div PoolSize .. Min({n, 1 + (n * (id + 1)) \div PoolSize})

\* The trees that task id of the pool adds up.
Share(id) ==
  LET n == Len(ensemble.trees)
  IN  1 + (n * id) \div PoolSize .. (n * (id + 1)) \div PoolSize

\* One row, its trees shared out to the pool.
ScoreInPool ==
  /\ PlainSum /\ OneRow /\ InPool
  /\ LET value   == [t \in DOMAIN ensemble.trees |->
                      LET tree == ensemble.trees[t]
                      IN  LeafAt(tree.nodes, SingleLeaf(tree, batch[1]))[1]]
         partial == [id \in 1 .. PoolSize |-> SumOver(Len(ensemble.trees), Share(id - 1), value)]
         total   == Seed(ensemble, 1) + SumOver(PoolSize, 1 .. PoolSize, partial)
     IN  Finish(<<Transform(ensemble, <<<<total, 1>>>>)>>)

\* The scores of a row that comes to node[t] of tree t, or of the forest.
TreeScores(node) ==
  Scores(ensemble, [t \in DOMAIN ensemble.trees |-> LeafAt(ensemble.trees[t].nodes, node[t])])
ForestScores(node) ==
  Scores(ensemble, [t \in DOMAIN ensemble.trees |-> LeafAt(forest.nodes, node[t])])

ScoreForestRow ==
  /\ PlainSum /\ OneRow /\ ~InPool
  /\ ~HasNaN /\ forest.valid
  /\ Finish(<<ForestScores([t \in DOMAIN ensemble.trees |-> ForestLeaf(t, batch[1])])>>)

ScoreTreesRow ==
  /\ PlainSum /\ OneRow /\ ~InPool
  /\ HasNaN \/ ~forest.valid
  /\ Finish(<<TreeScores([t \in DOMAIN ensemble.trees |->
                 SingleLeaf(ensemble.trees[t], batch[1])])>>)

\* Mutant of BlockRows: the rows behind the last full block are left out.
FullBlockRows ==
  UNION {b + 1 .. b + Block : b \in {b \in 0 .. Len(batch) - Block : b % Block = 0}}

\* The rows of the batch, block by block, the last of which may be smaller.
BlockRows ==
  UNION {b + 1 .. Min({b + Block, Len(batch)}) : b \in {b \in 0 .. Len(batch) - 1 : b % Block = 0}}

ScoreForestBlocks ==
  /\ PlainSum /\ ~OneRow /\ Blockable
  /\ ~HasNaN /\ forest.valid
  /\ Finish([r \in BlockRows |->
       ForestScores([t \in DOMAIN ensemble.trees |-> ForestWalk(t, batch[r])])])

\* Without a forest, or with a missing value anywhere in the batch.
ScoreBlocks ==
  /\ PlainSum /\ ~OneRow /\ Blockable
  /\ HasNaN \/ ~forest.valid
  /\ LET op == IF \A t \in DOMAIN ensemble.trees : AllLessEqual(ensemble.trees[t])
               THEN "le" ELSE "lt"
     IN  Finish([r \in BlockRows |-> TreeScores([t \in DOMAIN ensemble.trees |->
                   PlainLeaf(ensemble.trees[t], batch[r], op)])])

\* Tree by tree over the whole batch.
ScoreByTree ==
  /\ ~PlainSum \/ (~OneRow /\ ~Blockable)
  /\ Finish([r \in DOMAIN batch |-> TreeScores([t \in DOMAIN ensemble.trees |->
               BatchLeaf(ensemble.trees[t], batch[r])])])

PredictImpl ==
  \/ ScoreInPool
  \/ ScoreForestRow \/ ScoreTreesRow
  \/ ScoreForestBlocks \/ ScoreBlocks
  \/ ScoreByTree

=============================================================================
