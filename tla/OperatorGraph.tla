---------------------------- MODULE OperatorGraph ----------------------------
(***************************************************************************)
(* A graph of operator nodes run over a batch: the operators by their      *)
(* registered names (src/operator_registry.cpp, 3703-3822), the node that  *)
(* calls them (src/nodes/operator_node.cpp), and run_graph on the slices a *)
(* batch is cut into (src/graph_executor.cpp), one after the other on one  *)
(* thread, which keeps a scratch buffer from slice to slice.               *)
(*                                                                         *)
(* A job is a model and the batch it is given: in, the tensors by name;    *)
(* nodes, each [op, in, out, attrs, refs]; fns, the functions it defines;  *)
(* outs, the names of its outputs; and same, pairs of outputs computed on  *)
(* two routes that are declared to mean the same.                          *)
(***************************************************************************)
EXTENDS FiniteSets, CoreOps, EncodingOps, LearningOps, TextOps, ModelNodes

CONSTANTS
  Jobs,        \* models with their batches
  Cuts,        \* Cuts[n]: how n rows may be cut, sequences of sizes
  HashOrder,   \* the order an unordered_map of labels is walked in
  Word,        \* how many values four bytes have
  Interpret(_) \* what Derive and Compute make of a call (ExpressionGraph)

VARIABLES
  job,      \* the model and its batch
  cut,      \* the sizes of the slices
  todo,     \* slices not yet begun
  slice,    \* the slice being run, 0 for none
  pc,       \* the node to run next
  vs,       \* the slice's ValueStore
  scratch,  \* the thread's one-hot buffer
  parts,    \* outputs of the finished slices
  result,   \* outputs of the whole batch
  phase,    \* "run", "done", "failed" or "undefined": the pieces were copied astray
  whole     \* what the batch gives in one piece on a fresh thread

ovars == <<job, cut, todo, slice, pc, vs, scratch, parts, result, phase, whole>>

-----------------------------------------------------------------------------
(***************************************************************************)
(* register_builtin_operators                                              *)
(***************************************************************************)

CoreNames ==
  {"Identity", "Concat", "Gather", "Clip", "ArgMax", "SelectByPrimarySecondaryScore", "Cast",
   "Reshape", "Split", "TakeSlots", "Select", "SparseToDense", "DenseToSparse", "Sum", "Average",
   "Min", "Max", "Median", "WeightedSum", "WeightedAverage", "WeightedMedian", "MajorityVote",
   "WeightedMajorityVote", "SoftVote", "SAMMEVote"}
CoreKernel(x) ==
  CASE x.op = "Identity"             -> Identity(x)
    [] x.op = "Concat"               -> Concat(x)
    [] x.op = "Gather"               -> GatherColumns(x)
    [] x.op = "Clip"                 -> Clip(x)
    [] x.op = "ArgMax"               -> ArgMax(x)
    [] x.op = "SelectByPrimarySecondaryScore" -> SelectByPrimarySecondaryScore(x)
    [] x.op = "Cast"                 -> Cast(x)
    [] x.op = "Reshape"              -> Reshape(x)
    [] x.op = "Split"                -> SplitColumns(x)
    [] x.op = "TakeSlots"            -> TakeSlots(x)
    [] x.op = "Select"               -> Select(x)
    [] x.op = "SparseToDense"        -> SparseToDense(x)
    [] x.op = "DenseToSparse"        -> DenseToSparse(x)
    [] x.op = "Sum"                  -> SumOp(x)
    [] x.op = "Average"              -> Average(x)
    [] x.op = "Min"                  -> MinOp(x)
    [] x.op = "Max"                  -> MaxOp(x)
    [] x.op = "Median"               -> MedianOp(x)
    [] x.op = "WeightedSum"          -> WeightedSum(x)
    [] x.op = "WeightedAverage"      -> WeightedAverage(x)
    [] x.op = "WeightedMedian"       -> WeightedMedian(x)
    [] x.op = "MajorityVote"         -> MajorityVote(x)
    [] x.op = "WeightedMajorityVote" -> WeightedMajorityVote(x)
    [] x.op = "SoftVote"             -> SoftVote(x)
    [] x.op = "SAMMEVote"            -> SAMMEVote(x)

FeatureNames ==
  {"StandardScaler", "MinMaxScaler", "RobustScaler", "MaxAbsScaler", "Normalizer",
   "PowerTransformer", "QuantileTransformer", "SplineTransformer", "PolynomialFeatures",
   "Binarizer", "Binarize", "Bucketizer", "Discretizer", "Discretize", "Imputer", "Impute",
   "SimpleImputer", "MissingIndicator", "OneHotEncoder", "OneHotEncode", "OrdinalEncoder",
   "LabelEncoder", "LabelEncode", "LabelBinarizer", "MultiLabelBinarizer", "TargetEncoder",
   "NormContinuous", "NormDiscrete", "MapValues"}
FeatureKernel(x) ==
  CASE x.op = "StandardScaler"      -> StandardScaler(x)
    [] x.op = "MinMaxScaler"        -> MinMaxScaler(x)
    [] x.op = "RobustScaler"        -> RobustScaler(x)
    [] x.op = "MaxAbsScaler"        -> MaxAbsScaler(x)
    [] x.op = "Normalizer"          -> Normalizer(x)
    [] x.op = "PowerTransformer"    -> PowerTransformer(x)
    [] x.op = "QuantileTransformer" -> QuantileTransformer(x)
    [] x.op = "SplineTransformer"   -> SplineTransformer(x)
    [] x.op = "PolynomialFeatures"  -> PolynomialFeatures(x)
    [] x.op \in {"Binarizer", "Binarize"}               -> Binarizer(x)
    [] x.op = "Bucketizer"          -> Bucketizer(x)
    [] x.op \in {"Discretizer", "Discretize"}           -> Discretize(x)
    [] x.op \in {"Imputer", "Impute", "SimpleImputer"}  -> SimpleImputer(x)
    [] x.op = "MissingIndicator"    -> MissingIndicator(x)
    [] x.op \in {"OneHotEncoder", "OneHotEncode"}       -> OneHotEncoder(x)
    [] x.op = "OrdinalEncoder"      -> OrdinalEncoder(x)
    [] x.op \in {"LabelEncoder", "LabelEncode"}         -> LabelEncoder(x)
    [] x.op = "LabelBinarizer"      -> LabelBinarizer(x)
    [] x.op = "MultiLabelBinarizer" -> MultiLabelBinarizer(x)
    [] x.op = "TargetEncoder"       -> TargetEncoder(x)
    [] x.op = "NormContinuous"      -> NormContinuous(x)
    [] x.op = "NormDiscrete"        -> NormDiscrete(x)
    [] x.op = "MapValues"           -> MapValues(x)

LearnedNames ==
  {"TruncatedSVD", "NMF", "LatentDirichletAllocation", "PCA", "SparsePCA", "FastICA",
   "FactorAnalysis", "KernelPCA", "KNNImputer", "KNN"}
LearnedKernel(x) ==
  CASE x.op \in {"TruncatedSVD", "NMF", "LatentDirichletAllocation"} -> ProjectAndThen(x)
    [] x.op \in {"PCA", "SparsePCA"} -> CentredProjection(x)
    [] x.op = "FastICA"              -> FastICA(x)
    [] x.op = "FactorAnalysis"       -> FactorAnalysis(x)
    [] x.op = "KernelPCA"            -> KernelPCA(x)
    [] x.op = "KNNImputer"           -> KNNImputer(x)
    [] x.op = "KNN"                  -> KNN(x)

TextNames ==
  {"Lowercase", "Trim", "NormalizeWhitespace", "StringReplace", "RegexReplace", "Tokenizer",
   "RegexTokenizer", "NGram", "StopWordsRemover", "CountVectorizer", "HashingVectorizer",
   "TfIdfTransformer", "Word2Vec"}
TextKernel(x) ==
  CASE x.op = "Lowercase"           -> Lowercase(x)
    [] x.op = "Trim"                -> Trim(x)
    [] x.op = "NormalizeWhitespace" -> NormalizeWhitespace(x)
    [] x.op = "StringReplace"       -> StringReplace(x)
    [] x.op = "RegexReplace"        -> RegexReplace(x)
    [] x.op = "Tokenizer"           -> Tokenizer(x)
    [] x.op = "RegexTokenizer"      -> RegexTokenizer(x)
    [] x.op = "NGram"               -> NGram(x)
    [] x.op = "StopWordsRemover"    -> StopWordsRemover(x)
    [] x.op = "CountVectorizer"     -> CountVectorizer(x)
    [] x.op = "HashingVectorizer"   -> HashingVectorizer(x)
    [] x.op = "TfIdfTransformer"    -> TfIdfTransformer(x)
    [] x.op = "Word2Vec"            -> Word2Vec(x)

ExpressionNames == {"Derive", "Compute"}

Registered == CoreNames \cup FeatureNames \cup LearnedNames \cup TextNames \cup ExpressionNames

\* The nodes convert_node makes of models, which are no operators.
NodeNames ==
  {"LinearNode", "SVMNode", "NaiveBayesNode", "ClusteringNode", "NeuralNetworkNode",
   "AnomalyDetectionNode"}
NodeKernel(x) ==
  CASE x.op = "LinearNode"           -> LinearNode(x)
    [] x.op = "SVMNode"              -> SVMNode(x)
    [] x.op = "NaiveBayesNode"       -> NaiveBayesNode(x)
    [] x.op = "ClusteringNode"       -> ClusteringNode(x)
    [] x.op = "NeuralNetworkNode"    -> NeuralNetworkNode(x)
    [] x.op = "AnomalyDetectionNode" -> AnomalyDetectionNode(x)

Known == Registered \cup NodeNames \cup {"OHENode"}

\* What the operator a call names answers.
Answer(x) ==
  CASE x.op \in CoreNames       -> CoreKernel(x)
    [] x.op \in FeatureNames    -> FeatureKernel(x)
    [] x.op \in LearnedNames    -> LearnedKernel(x)
    [] x.op \in TextNames       -> TextKernel(x)
    [] x.op \in ExpressionNames -> Interpret(x)
    [] x.op \in NodeNames       -> NodeKernel(x)

-----------------------------------------------------------------------------
(***************************************************************************)
(* run_graph                                                               *)
(***************************************************************************)

\* The call a node makes of its operator.
Called(node, values, fns) ==
  [op |-> node.op, in |-> [i \in DOMAIN node.in |-> values[node.in[i]]], names |-> node.in,
   outs |-> Len(node.out), attrs |-> node.attrs, refs |-> node.refs,
   scope |-> values, fns |-> fns, order |-> HashOrder]

\* ValueStore::put for each tensor a kernel gives, under the node's names.
Puts(values, node, tensors) ==
  LET named == DOMAIN tensors \cap DOMAIN node.out
      as(n) == {i \in named : node.out[i] = n}
  IN  [n \in DOMAIN values \cup {node.out[i] : i \in named} |->
         IF as(n) = {} THEN values[n] ELSE tensors[Max(as(n))]]

Reads(node, values) == \A n \in Range(node.in) : n \in DOMAIN values

\* The operators that look at more before they ask what there is to read and write.
Eager == ExpressionNames \cup {"SelectByPrimarySecondaryScore", "RegexReplace"}

\* The others do nothing with nothing to read or nothing to write.  A model's node
\* always has both.
Outcome(node, values, fns) ==
  IF (node.in = << >> \/ node.out = << >>) /\ node.op \notin Eager THEN Nothing
  ELSE Answer(Called(node, values, fns))

\* Mutant of Sliced: slices begin one row late but for the first.
SlicedLate(t, start, n) ==
  [t EXCEPT !.cells = SubSeq(@, IF start > 0 /\ start + n < Len(@) THEN start + 2 ELSE start + 1,
                             IF start > 0 /\ start + n < Len(@) THEN start + n + 1 ELSE start + n)]

\* The rows of an input a slice is given; their width stays.
Sliced(t, start, n) == [t EXCEPT !.cells = SubSeq(@, start + 1, start + n)]

Inputs(j, start, n) == [name \in DOMAIN j.in |-> Sliced(j.in[name], start, n)]
BatchRows(j) == NRows(j.in[CHOOSE name \in DOMAIN j.in : TRUE])
StartOf(i) == Sum(SubSeq(cut, 1, i - 1))

\* The storage that f64_ptr and f32_ptr point to: the doubles, or what is there in
\* four bytes each, the low half of an int64 first.  Strings and sparse tensors
\* have none.
Storage(t) ==
  LET flat == Flat(t)
      halves(v) == <<v % Word, (v \div Word) % Word>>
  IN  CASE t.type \in {"str", "csr"} -> << >>
        [] t.type = "i64" -> FlattenSeq([i \in DOMAIN flat |-> halves(flat[i])])
        [] OTHER -> flat

\* The n elements of a storage that starts with s and is zero behind it.
Signed(w) == IF 2 * w < Word THEN w ELSE w - Word
Elements(type, s, n) ==
  LET word(i) == IF i <= Len(s) THEN s[i] ELSE 0
  IN  IF type # "i64" THEN s
      ELSE [i \in 1 .. n |-> word(2 * i - 1) + Word * Signed(word(2 * i))]

\* Mutant of Copied: the tensors are joined in another order than the rows have.
CopiedBackwards(ps, width) ==
  FlattenSeq([i \in DOMAIN ps |->
    LET p == ps[Len(ps) + 1 - i] IN SubSeq(Storage(p), 1, NRows(p) * width)])

\* memcpy of n elements of each tensor behind those of the ones before.
Copied(ps, width) ==
  FlattenSeq([i \in DOMAIN ps |-> SubSeq(Storage(ps[i]), 1, NRows(ps[i]) * width)])

\* vcat_tensors: as many rows as all have together, of the width and the type of
\* the first.
Vcat(ps) ==
  LET width == NCols(ps[1])
      count == Sum([i \in DOMAIN ps |-> NRows(ps[i])])
      cells == Elements(ps[1].type, Copied(ps, width), count * width)
  IN  [type  |-> Dense(ps[1]).type,
       cells |-> [r \in 1 .. count |-> SubSeq(cells, (r - 1) * width + 1, r * width)]]

\* Whether there is in each what the copy reads of it, as what it is.
Readable(ps) ==
  \A i \in DOMAIN ps :
    ps[i].type = ps[1].type /\ NRows(ps[i]) * NCols(ps[1]) <= Len(Storage(ps[i]))

Pieces(name) == [i \in DOMAIN cut |-> parts[i][name]]

\* The reference: one node after the other on the whole batch, with an empty buffer.
Stopped(s) == [ok |-> FALSE, values |-> s.values]
Given(s, node, got) ==
  IF got.ok THEN [ok |-> TRUE, values |-> Puts(s.values, node, got.out)] ELSE Stopped(s)
HotAlone(call, cats) == HotResult(call, cats, HotBuffer(call, cats, << >>))
Step(j, s, node) ==
  IF ~s.ok \/ node.op \notin Known \/ ~Reads(node, s.values) THEN Stopped(s)
  ELSE Given(s, node,
             IF node.op = "OHENode"
             THEN HotAlone(Called(node, s.values, j.fns), node.attrs["categories"])
             ELSE Outcome(node, s.values, j.fns))

\* What the reference holds after its first k nodes.
AloneAfter(j) ==
  LET after[k \in 0 .. Len(j.nodes)] ==
        IF k = 0 THEN [ok |-> TRUE, values |-> Inputs(j, 0, BatchRows(j))]
        ELSE Step(j, after[k - 1], j.nodes[k])
  IN  after
Alone(j) == AloneAfter(j)[Len(j.nodes)]

\* A batch is cut into slices that have rows, and all its rows are in one.
ASSUME OperatorAssumption ==
  /\ NaN \notin Int
  /\ \A j \in Jobs : BatchRows(j) \in DOMAIN Cuts
  /\ \A n \in DOMAIN Cuts : \A c \in Cuts[n] :
       c \in Seq(Nat \ {0}) /\ c # << >> /\ Sum(c) = n

OInit ==
  /\ job \in Jobs
  /\ cut \in Cuts[BatchRows(job)]
  /\ todo = DOMAIN cut
  /\ slice = 0
  /\ pc = 0
  /\ vs = << >>
  /\ scratch = << >>
  /\ parts = [i \in DOMAIN cut |-> << >>]
  /\ result = << >>
  /\ phase = "run"
  /\ whole = Alone(job)

\* A slice is begun: its inputs are put into a fresh store.
BeginSlice(i) ==
  /\ phase = "run" /\ slice = 0 /\ i \in todo
  /\ slice' = i
  /\ todo' = todo \ {i}
  /\ pc' = 1
  /\ vs' = Inputs(job, StartOf(i), cut[i])
  /\ UNCHANGED <<job, cut, scratch, parts, result, phase, whole>>

Node == job.nodes[pc]
CanRun == phase = "run" /\ slice # 0 /\ pc <= Len(job.nodes)

\* A node of one family of operators is executed; a kernel that refuses ends the
\* call with an error.
Execute(names) ==
  /\ CanRun
  /\ Node.op \in names /\ Reads(Node, vs)
  /\ LET got == Outcome(Node, vs, job.fns)
     IN  IF got.ok THEN vs' = Puts(vs, Node, got.out) /\ pc' = pc + 1 /\ UNCHANGED phase
                   ELSE phase' = "failed" /\ UNCHANGED <<vs, pc>>
  /\ UNCHANGED <<job, cut, todo, slice, scratch, parts, result, whole>>

ExecuteCore       == Execute(CoreNames)
ExecuteFeature    == Execute(FeatureNames)
ExecuteLearned    == Execute(LearnedNames)
ExecuteText       == Execute(TextNames)
ExecuteExpression == Execute(ExpressionNames)
ExecuteModel      == Execute(NodeNames)

\* OHENode, which the loader makes of a one-hot encoder over strings: its
\* buffer belongs to the thread.
HotCall == Called(Node, vs, job.fns)
ExecuteHot ==
  /\ CanRun
  /\ Node.op = "OHENode" /\ Reads(Node, vs)
  /\ scratch' = HotBuffer(HotCall, Node.attrs["categories"], scratch)
  /\ vs' = Puts(vs, Node, HotResult(HotCall, Node.attrs["categories"], scratch').out)
  /\ pc' = pc + 1
  /\ UNCHANGED <<job, cut, todo, slice, parts, result, phase, whole>>

\* An operator nobody registered, or a value nobody put: the call ends with an
\* error.
Fail ==
  /\ CanRun
  /\ Node.op \notin Known \/ ~Reads(Node, vs)
  /\ phase' = "failed"
  /\ UNCHANGED <<job, cut, todo, slice, pc, vs, scratch, parts, result, whole>>

\* The outputs of a slice are copied out, and its store is gone.
Collect ==
  /\ phase = "run" /\ slice # 0 /\ pc > Len(job.nodes)
  /\ job.outs \subseteq DOMAIN vs
  /\ parts' = [parts EXCEPT ![slice] = [n \in job.outs |-> vs[n]]]
  /\ vs' = << >>
  /\ slice' = 0
  /\ UNCHANGED <<job, cut, todo, pc, scratch, result, phase, whole>>

\* An output no node produced.
CollectFails ==
  /\ phase = "run" /\ slice # 0 /\ pc > Len(job.nodes)
  /\ ~(job.outs \subseteq DOMAIN vs)
  /\ phase' = "failed"
  /\ UNCHANGED <<job, cut, todo, slice, pc, vs, scratch, parts, result, whole>>

\* The outputs of one slice are handed on, those of several joined.
CanJoin == Len(cut) > 1 => \A n \in job.outs : Readable(Pieces(n))
Assemble ==
  /\ phase = "run" /\ slice = 0 /\ todo = {}
  /\ CanJoin
  /\ result' = [n \in job.outs |-> IF Len(cut) = 1 THEN parts[1][n] ELSE Vcat(Pieces(n))]
  /\ phase' = "done"
  /\ UNCHANGED <<job, cut, todo, slice, pc, vs, scratch, parts, whole>>

\* A copy from where nothing is: what follows is undefined.
AssembleAstray ==
  /\ phase = "run" /\ slice = 0 /\ todo = {}
  /\ ~CanJoin
  /\ phase' = "undefined"
  /\ UNCHANGED <<job, cut, todo, slice, pc, vs, scratch, parts, result, whole>>

ONext ==
  \/ \E i \in todo : BeginSlice(i)
  \/ ExecuteCore \/ ExecuteFeature \/ ExecuteLearned \/ ExecuteText \/ ExecuteExpression
  \/ ExecuteModel \/ ExecuteHot
  \/ Fail
  \/ Collect
  \/ CollectFails
  \/ Assemble
  \/ AssembleAstray

OSpec == OInit /\ [][ONext]_ovars

\* The nodes the current slice has been through, and what they read and wrote.
Ran == IF slice = 0 THEN {} ELSE {job.nodes[k] : k \in 1 .. pc - 1}
In(node, i) == vs[node.in[i]]
Out(node)   == vs[node.out[1]]
SliceRows   == 1 .. cut[slice]

-----------------------------------------------------------------------------
(***************************************************************************)
(* Properties                                                              *)
(***************************************************************************)

\* Every tensor is a table with a row for each row of the slice, and its cells
\* are numbers of its width: nothing is kept in a float that a float cannot hold.
OTypeOK ==
  slice # 0 =>
    \A n \in DOMAIN vs :
      /\ vs[n].type \in {"f32", "f64", "str", "i32", "i64", "csr"}
      /\ NRows(vs[n]) = cut[slice]
      /\ \A r \in SliceRows :
           /\ Len(vs[n].cells[r]) = NCols(vs[n])
           /\ vs[n].type \in {"f32", "csr"} =>
                \A c \in Cols(vs[n]) : Narrow(vs[n].cells[r][c]) = vs[n].cells[r][c]

\* What an operator says of a row does not depend on the rows beside it: however a
\* batch is cut and in whatever order a thread runs the pieces, with the buffer
\* it keeps between them, every output of the types vcat_tensors copies whole is
\* that of the batch run whole, a batch fails cut exactly when it fails whole,
\* and only an output of another type - a string, an int64, a sparse tensor - can
\* lead the copy astray.  Of those types the answer of an uncut batch is right.
Joinable == {"f32", "f64", "i32"}
SplitInvisible ==
  /\ phase = "done" =>
       /\ whole.ok
       /\ \A n \in job.outs :
            Len(cut) = 1 \/ whole.values[n].type \in Joinable => result[n] = whole.values[n]
  /\ phase = "failed" => ~whole.ok \/ ~(job.outs \subseteq DOMAIN whole.values)
  /\ phase = "undefined" =>
       whole.ok /\ \E n \in job.outs : whole.values[n].type \notin Joinable

\* Operators that compute the same thing by different code give the same values:
\* a scaler and the expression for it, an encoder and another over the same
\* categories, a reduction and the weighted one with equal weights.
RoutesAgree ==
  phase = "done" => \A p \in job.same : result[p[1]].cells = result[p[2]].cells

Copying == {"Identity", "Concat", "Gather", "TakeSlots", "Split", "Select", "Reshape"}

\* An operator that only moves values does not change one: every value of its
\* outputs stands, at full width, in the same row of its inputs.
CopiesExact ==
  \A node \in {m \in Ran : m.op \in Copying} :
    \A o \in Range(node.out) \cap DOMAIN vs : \A r \in SliceRows :
      Range(vs[o].cells[r]) \subseteq UNION {Range(In(node, i).cells[r]) : i \in DOMAIN node.in}

\* The cell of feature f in row r, and the categories the model declares for it.
Cell(node, r, f) == IF Len(node.in) > 1 THEN In(node, f).cells[r][1] ELSE In(node, 1).cells[r][f]
Encoding == {"LabelEncoder", "OrdinalEncoder", "TargetEncoder", "OneHotEncoder", "OHENode"}
Features(node) == IF Len(node.in) > 1 THEN Len(node.in) ELSE NCols(In(node, 1))
Table(node) == Flat(node.refs[IF node.op = "LabelEncoder" THEN "labels" ELSE "categories"])
Offsets(node) ==
  LET name == IF node.op = "LabelEncoder" THEN "label_offsets" ELSE "category_offsets"
  IN  IF name \in DOMAIN node.refs THEN Flat(node.refs[name]) ELSE <<0, Len(Table(node))>>
DeclaredFor(node, f) ==
  IF node.op = "OHENode" THEN Range(node.attrs["categories"][f])
  ELSE Range(SubSeq(Table(node), Offsets(node)[f] + 1, Offsets(node)[f + 1]))

\* What an encoder made of feature f in row r: a code, or a block of them.
Code(node, r, f) ==
  IF node.op \notin {"OneHotEncoder", "OHENode"} THEN <<Out(node).cells[r][f]>>
  ELSE LET width(g) == IF node.op = "OHENode" THEN Len(node.attrs["categories"][g])
                       ELSE Offsets(node)[g + 1] - Offsets(node)[g]
           off == Sum([g \in 1 .. f - 1 |-> width(g)])
       IN  SubSeq(Out(node).cells[r], off + 1, off + width(f))

\* Whether the cells of a feature are of the kind its categories are: a number is
\* taken for the position of a category that is none.
SameKind(node, f) ==
  LET cells == IF Len(node.in) > 1 THEN In(node, f) ELSE In(node, 1)
      strings == node.op = "OHENode"
                 \/ node.refs[IF node.op = "LabelEncoder" THEN "labels" ELSE "categories"].type = "str"
  IN  IsString(cells) = strings

\* An encoder tells apart what the model file does, at the width it declares it
\* in: two rows have the same code in a feature exactly when they hold the same
\* declared category or neither holds one.
EncodersTellApart ==
  \A node \in {m \in Ran : m.op \in Encoding /\ Len(m.out) = 1} :
    \A f \in {g \in 1 .. Features(node) : SameKind(node, g)} : \A r, q \in SliceRows :
      LET known == DeclaredFor(node, f)
          a == Cell(node, r, f)
          b == Cell(node, q, f)
      IN  (Code(node, r, f) = Code(node, q, f)) <=> (a = b \/ {a, b} \cap known = {})

\* The votes for a label in row r.
VotesFor(node, r, l) ==
  Cardinality({i \in DOMAIN node.in : In(node, i).cells[r][1] = l})

\* The label of a row is the one that won: the first of the highest scores, or
\* with one vote an input a label no other has more votes than.
WinnersWin ==
  \A node \in Ran : \A r \in SliceRows :
    /\ node.op = "ArgMax" =>
         LET row == In(node, 1).cells[r]
             l   == Out(node).cells[r][1] + 1
         IN  NaN \notin Range(row) => \A c \in DOMAIN row :
                                       row[c] <= row[l] /\ (c < l => row[c] < row[l])
    /\ node.op = "MajorityVote" =>
         \A i \in DOMAIN node.in :
           VotesFor(node, r, In(node, i).cells[r][1]) <= VotesFor(node, r, Out(node).cells[r][1])

\* Between the first and the last base interval the splines of a feature add up
\* to one, on a knot as between two.
SplinesSumToOne ==
  \A node \in {m \in Ran : m.op = "SplineTransformer"} :
    LET knots  == node.refs["knots"]
        degree == node.attrs["degree"]
        n      == NRows(knots) - degree - 1
    IN  \A r \in SliceRows : \A f \in Cols(In(node, 1)) :
          LET v == In(node, 1).cells[r][f]
          IN  knots.cells[degree + 1][f] <= v /\ v <= knots.cells[n + 1][f] =>
                Sum(SubSeq(Out(node).cells[r], (f - 1) * n + 1, f * n)) = One

\* No word is lost between a text and its counts: the words of a row, spelled
\* out, are its letters, and each is counted once in a hashed row, and once in
\* a row of counts if the vocabulary has it.
WordsCounted ==
  \A node \in Ran : \A r \in SliceRows :
    /\ node.op = "Tokenizer" =>
         FlattenSeq(RowTokens(Out(node), r))
           = SelectSeq(StrLowercase(In(node, 1).cells[r][1]), LAMBDA l : l \notin Spaces)
    /\ node.op = "HashingVectorizer" /\ {"binary", "alternate_sign"} \cap DOMAIN node.attrs = {} =>
         Sum(Out(node).cells[r]) = Len(RowTokens(In(node, 1), r))
    /\ node.op = "CountVectorizer" /\ "binary" \notin DOMAIN node.attrs =>
         Sum(Out(node).cells[r])
           = Len(SelectSeq(RowTokens(In(node, 1), r),
                           LAMBDA w : w \in Range(Flat(node.refs["vocabulary"]))))

\* Whether label l is the one the scores s of a row call for: one score by its
\* sign, distances by the least, probabilities by the highest.
CalledFor(node, l, s) ==
  IF Len(s) = 1 THEN (l = 1) <=> (s[1] >= 0)
  ELSE IF node.op = "ClusteringNode" /\ "centers" \in DOMAIN node.refs
       THEN \A c \in DOMAIN s : s[l + 1] <= s[c]
  ELSE \A c \in DOMAIN s : s[c] <= s[l + 1]

\* What the training rows nearest to a query say most often: fewer than n_neighbors
\* are nearer than any of them.
NeighboursSay(node, q, l) ==
  LET train == node.refs["train_features"].cells
      near  == {i \in DOMAIN train :
                  Cardinality({j \in DOMAIN train : Gap(q, train[j]) < Gap(q, train[i])})
                    < node.attrs["n_neighbors"]}
      of(m) == Cardinality({i \in near : Flat(node.refs["train_targets"])[i] = m})
  IN  \A i \in near : of(Flat(node.refs["train_targets"])[i]) <= of(l)

\* The label a model gives a row and the scores it gives beside it say the same,
\* though one is chosen among doubles and the other rounded to floats, or
\* the sides of a pair are filled in by hand; the label of a query is what its
\* neighbours say.  Platt's probabilities are set against a label of the raw decision,
\* and may differ.
PredictionsFollowScores ==
  /\ \A node \in {m \in Ran : m.op \in NodeNames /\ Len(m.out) = 2 /\ "prob_a" \notin DOMAIN m.refs} :
       \A r \in SliceRows :
         LET s == vs[node.out[2]].cells[r]
         IN  NaN \notin Range(s) => CalledFor(node, vs[node.out[1]].cells[r][1], s)
  /\ \A node \in {m \in Ran : m.op = "KNN" /\ Len(m.in) = 1 /\ DOMAIN m.attrs = {"n_neighbors"}} :
       \A r \in SliceRows : NeighboursSay(node, In(node, 1).cells[r], Out(node).cells[r][1])

=============================================================================
