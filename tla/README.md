# OMLE runtime verification

TLA+ models of the OMLE runtime (a C++ engine that loads `.omle` models and
scores data with them, with a C API and Python and Java bindings), the TLC runs
that check them on small instances, and TLAPS proofs about them. Paths are
relative to the repository's root, which is `src/` in `PROJECT.json`.

* [Inventory](#inventory): the system's parts, their state, how they interact
* [Modules](#modules): which module models what, and how
* [Runs](#runs): what is checked, with which bounds, and what that shows
* [Disagreements](#disagreements): where the code and its documentation part
* [Proofs](#proofs): what holds for every value of the constants
* [Not modelled](#not-modelled) and [Plan](#plan)

## Inventory

| Component | Code | State it keeps | Operations | Hard behaviour |
|---|---|---|---|---|
| Thread pool | `src/thread_pool.{h,cpp}` | `fn_`, `n_tasks_`, `next_task_`, `active_`, `generation_`, `stop_` under one mutex, two condition variables; a local generation per worker | constructor (starts workers), `parallel_for`, destructor | workers, callers and destructor interleave; wake-ups may be lost or spurious; the generation counter wraps; one call's fields serve all callers |
| Graph executor | `src/graph_executor.{h,cpp}` | nodes, output specs, pool, `min_parallel_rows`; nothing changes after load | `predict_named`, `predict_named_serial`, `predict`, `predict_serial`, `run_graph` | splitting rows over the pool, chunks that end in any order, empty chunks, exceptions in workers, putting parts together |
| C++ `Model`, `Session` | `src/runtime.cpp`, `include/omle/runtime.h` | session: bound inputs, bound outputs, results | `load`, `predict`, bind / clear / run / result | status codes made from whatever is thrown |
| C API session | `src/c_api.cpp` | a C++ session, `owned_outputs` whose element addresses are the caller's handles, the registered schema with its reusable tensors | create, bind, run, get_output, predict_f32, bind_columns, predict_columns, register_columns, predict_registered | state of one call seen by the next: stale outputs, handles that move, tensors filled in place |
| Model loader | `src/model_loader.cpp`, end of `src/graph_loader.cpp` | none but the result | read, parse, build, judge the version, verify, warm up | warnings and errors depend on version, evidence and options together |
| Graph compilation | `build_from_proto` and `build_schema_node` in `src/graph_loader.cpp`; `src/nodes/composite_node.cpp`; `src/runtime_tensor.h` | the node list being built | batch-mode rewiring of schema features, inlining of composites | names of nested scopes moved into one flat store |
| Schema preprocessing | `src/model_schema.{h,cpp}` | policies per feature | `execute` | order of missing / invalid / outlier policies; per-feature and batch mode |
| Tree ensemble node | `src/nodes/tree_ensemble_node.{h,cpp}` | trees, and a flat forest made of them | `execute` | eight ways to walk a tree, chosen by rows, missing values, weights, comparisons, depth and pool |
| Operators | `src/operator_registry.cpp`, `src/width_dispatch.h`, `src/nodes/operator_node.cpp` | none: pure functions on tensors, found by registered name | some 80 names of three domains | a constant exists twice, narrowed to float and whole; missing values, ties, values on a boundary; what a slice of a batch sees |
| Expressions | `src/expression_eval.cpp` | none | `eval_expr`, `eval_pred` | scopes of model functions, missing values, errors in the middle of a tree |
| One-hot node | `src/nodes/ohe_node.cpp` | a scratch buffer per thread that outlives the call | `execute` | what one call leaves for the next |
| Model nodes | `src/nodes/{linear,svm,naive_bayes,clustering,neural_network,anomaly_detection}_node.cpp`, `convert_*` in `src/graph_loader.cpp` | parameters, each extracted at the width of the node's main one | `execute` | which width decides, ties, rows with gaps, labels and scores made on two ways |
| Tensor | `include/omle/tensor.h` | a buffer, owned or lent | constructors, accessors | lifetimes of lent buffers; a tensor of one element answers for every index |
| Python binding | `python/omle_runtime/__init__.py`, `python/omle_ext.cpp` | session: registered schema, cached block positions, output buffer | `predict`, `predict_proba` on frames and arrays | positions cached for one frame and used on another |
| Java binding | `java/` | native handles | forwards to the C API | none of its own |

How they interact. `Model::load` has the loader read and parse the file, the
graph compilation turn it into a `GraphExecutor`, and then runs the model's own
verification cases through `predict_named_serial`. `Model::predict` and
`Session::run` end in `GraphExecutor::predict_named`, which either calls
`run_graph` on the calling thread or hands row chunks to
`ThreadPool::parallel_for`, whose workers call `run_graph` each on its chunk.
`run_graph` fills a `ValueStore` with the inputs and lets the nodes, the schema
node first, read and write it by name; an operator node looks its kernel up in
the registry and hands it the tensors, the node's attributes and the constants
they name. The C session wraps a C++ session and
moves its results out after every run; the Python session wraps a C session. One
model, and so one pool, is shared by all its sessions and all threads that call
`predict`.

What makes each part correct: a call of the pool executes each task exactly once
before it returns and nobody uses its function afterwards; a split batch gives
what an unsplit one gives; a session answers with its last run and nothing
else; load accepts a model exactly when its recorded results come out; a
compiled graph computes what the declared one does; a frame is scored by its
own columns; an operator treats a row the same in whatever slice it comes,
tells apart what the model file does, and hands over whole what it only moves.

## Modules

| Module | Models | Proved / checked |
|---|---|---|
| `ParallelFor` | what `parallel_for` promises its caller (thread_pool.h:24-26): one call at a time, each task taken once by some thread, return when none is left or held | abstract specification |
| `ThreadPool` | `ThreadPool`, step by critical section | runs Pool, PoolConcurrent; `ThreadPoolProofs` |
| `GraphExecutor` | `predict_named`, `vcat_tensors` and the split, on top of `ParallelFor` | runs Exec, ExecTerminate, ExecLabels; `GraphExecutorProofs` |
| `Session` | the C session and what it uses of `Session` in runtime.cpp and of `run_graph`'s input handling | through `PySession` |
| `PySession` | the Python session on data frames, on top of `Session`; a behavior is the life of one session, a C client's or Python's | runs Sess, PyMixed; `SessionProofs` |
| `Loader` | `Model::load` with version, verification, warnings, warmup | through `ModelLoad`; `LoaderProofs` |
| `GraphLoader` | the name handling of graph compilation, and a run of both the declared and the compiled graph | through `ModelLoad`; `LoaderProofs` |
| `ModelLoad` | `Loader` with the compilation inside its build step, and a run of the compiled graph by a caller who got the model | runs Load, LoadScopes; `LoaderProofs` |
| `ModelSchema` | the policies of the schema node, as operators | through `Scoring` |
| `TreeEnsemble` | the tree ensemble node: what it prepares, and every path of `predict_impl` | through `Scoring` |
| `Scoring` | schema node, gathering and tree ensemble in a row, next to what the model declares | runs Score, ScoreMissing; `ScoringProofs` |
| `Tensors` | tensors as kernels see them: widths, missing values, element access, constants | through `OperatorGraph` |
| `CoreOps`, `ScalingOps`, `EncodingOps`, `LearningOps`, `TextOps` | the registered operators, one definition each | through `OperatorGraph` |
| `Expressions` | `eval_expr`, `Derive` and `Compute` | through `OperatorGraph` |
| `ModelNodes` | the linear, SVM, naive Bayes, clustering, neural network and anomaly nodes, as the loader makes them and as they answer | through `OperatorGraph` |
| `OperatorGraph` | the registry, `run_graph` over nodes, and a batch cut into slices; what `Derive` and `Compute` answer is a constant | `OperatorGraphProofs`, `OperatorAnswerProofs` |
| `ExpressionGraph` | `OperatorGraph` with `Expressions` for that constant | run Ops |
| `Loops` | nothing of the code: facts about recursive functions that stand for loops, and about sequences laid end to end | lemmas for the proofs |
| `MC...` | values for the constants | |

**ThreadPool.** One variable per field of the class (`fn`, `n_tasks`,
`next_task`, `active`, `generation`, `stop`), the condition variable
`done_cv_`'s waiters, and a program counter per worker, per caller and for the
destructor. One action per critical section, since the mutex makes it atomic, and
one for every step outside it: `WorkerStart` (the unlocked read of
`generation_`), `WorkerSleep`, `WorkerWake`, `SpuriousWake`, `WorkerExit`,
`ClaimOrWait`, `WorkerRun` (the unlocked read of `fn_`), `WorkerFinish`; `Begin`,
`CallEmpty`, `Publish`, `NotifyAll`, `AwaitSleep`, `AwaitReturn`; `DtorStop`,
`DtorNotify`, `DtorJoin`. A worker's decrement of `active_`, the notification of
the caller and the claim of the next task happen under one hold of the mutex and
are one action. A function is the thread whose stack it lives on, and
`ran[t][k]` counts how often task `k` of `t`'s latest call was completed.
`Next` lets one call run at a time, which is what the shared fields need;
`ConcurrentNext` lets any client publish at any time, which is what the API
allows.

**GraphExecutor** EXTENDS `ParallelFor`: its tasks are the chunks of rows, so that
the composition with the pool is by refinement (`ThreadPool` implements
`ParallelFor`) and not by repeating the pool's interleavings. A batch's rows are
the numbers 0 .. n-1, and an output's part is the sequence of the rows in it, each
row as many words as its element type has; a result is right if it is what
`RunGraph` gives for all rows. `parts` is the vector of that name in the code, written
by the chunk's worker.

**Session.** `bound_inputs`, `bound_outputs`, `owned_outputs`, the vector's
capacity and moves (`buffer`), the registered schema with its tensors
(`reg_cols`), and two history variables: `last`, the results of the last
successful run, and `reply`, what the latest call wrote and should have written.
A tensor is the pair of the output's name and the inputs the graph was fed, so
two tensors are equal exactly when they come from equal inputs.

**PySession** EXTENDS `Session` and adds the cache of block positions. pandas is
external: a frame's columns of one dtype are one block, blocks in dtype order. A
session belongs to one client of `Clients` for life; a C client calls in any
order, Python as its binding does, and the properties of `Session` are checked of
both.

**Loader.** One action per stage: `ReadFails`, `ReadFile`, `BuildFails`, `Build`,
`VerifyCase`, `VerifyFails`, `Verified`, `Decide`, `WarmCase`, `WarmFails`,
`Warmed`. The version is a sequence of characters, because the scanner is part of
what is checked, and it is scanned into ints that wrap around after `IntMax`; a
case is the set of outcomes its outputs have. `passes` counts the calls of warmup case
by case.

**GraphLoader.** `BatchMode`, `Rewired`, `Outer` and `Inlined` are translated from
`build_schema_node` and `build_from_proto`; `RunSchema`, `RunOperator` and
`RunComposite` from the nodes. The model's outputs are computed twice, from the
declared graph and from the compiled one, on symbolic values (the term an operator
applied to its arguments is), and compared. An operator either gathers its inputs
into one tensor or takes them one by one (`gathers`): to the first it makes no
difference whether the features of a batch arrive as one tensor or as many. What a
loop over nodes does is a recursive function of the node's place, so that it can be
proved about. Composites within composites are left out.

The hypotheses of `AsDeclaredIfHygienic` say what the code relies on and does not
look at. `Hygienic`: nothing else has a constant's name, and every composite is
`Inlinable`: its aliases belong to its inputs and outputs, one each, its outputs and
not its inputs are written inside, and no other name inside is one of the parent's.
`WholeBatch`: features have different names and do not read each other; where they
are a batch, nothing writes over them, no output is one, and a node that reads one is
an operator that gathers all of them in order. Without the first LoadScopes is
violated; what goes wrong without the second is under Disagreements. Of the graphs of
run Load 704 of 13 707 meet both and can be run.

**ModelLoad** puts the two together: `BuildGraph` compiles when `Loader` is about
to build, and `Predict` runs the compiled graph when it has loaded. A model that is
refused is never run, and nothing is compiled of a file that cannot be read.

**ModelSchema, TreeEnsemble, Scoring.** Numbers are integers: every integer is a
double, the multiples of `Grain` are floats, so narrowing rounds, `nextafter` is a
step of `Grain`, and NaN and infinity are values of their own. `ModelSchema` has
one operator per policy. `TreeEnsemble` prepares the node once (`MakeNode`: the
default children the file leaves out, the flat forest with its consensus on one
comparison) and has one action per path of `predict_impl`: `ScoreInPool` (one row,
its trees shared out), `ScoreForestRow`, `ScoreTreesRow`, `ScoreForestBlocks`,
`ScoreBlocks`, `ScoreByTree`, each with the guard under which the code takes it.
Within a path a tree is walked as its helper does: to the leaf, a fixed number
of steps, with or without a look at default children. The vector kernels are
their scalar loops. `Scoring` puts the schema node and `gather_slots` in front and
states the meaning of a model without any walk: the leaf that every node above it
sends the row towards, the column's sum, extreme or average. Predicates of
several fields read the store; they are taken as a set of values of one feature.

**Tensors and the operator modules.** Numbers are integers. All of them are
doubles; floats are those up to `Exact` and, beyond, the multiples of `Grain`, as
the integers up to 2^24 and then the even ones are, so `Narrow` rounds. A share of
a whole (a probability, a ratio, a TF-IDF weight) is counted in parts of `One`,
and `exp` and `log` are powers of two and their exponents. NaN is a model value,
and arithmetic and comparison with it go as in IEEE 754. A tensor is
`[type, cells]`; every kernel's result passes through `Hold`, which rounds to the
width the code gives the result (`Width`, `AnyF64`). A call is a record: the input
tensors, the number of outputs, the attributes, and `refs`, the constants as the
model file declares them. From these `Resolve` takes the copy stored under the
constant's own name, which is narrowed, and `Resolve64` the whole twin, as each
kernel does in the code. What a kernel gives is `Gives(tensors)` or, where it
throws, `Refuses`.

**ModelNodes** has one definition for each `convert_*` of the loader
(`LinearModel`, `SVMModel`, `NaiveBayesModel`, `ClusterModel`, `NetworkModel`,
`AnomalyModel`), which takes the parameters out of `refs` at the node's width, and
one or two for each `compute` (`LinearAnswer`, `SVMScores` and `SVMDecided`,
`NaiveBayesAnswer`, `ClusterAnswer`, `NetworkAnswer`, `AnomalyAnswer`). A multiclass
SVM with Platt scaling is taken to declare as many rows of dual coefficients as it
has classes: the code allots its output by the rows (svm_node.cpp:419-421) and fills
it by the classes (240).

**OperatorGraph.** A *job* is a model and its batch: the inputs, a list of nodes
`[op, in, out, attrs, refs]`, the functions the model defines, its outputs, and the
pairs of outputs that are computed by different code and declared to mean the
same. A behavior cuts the batch into slices, runs them in any order on one thread,
and puts the parts together: `BeginSlice`, one `Execute` action per family of
operators, `ExecuteHot` for the node that keeps `scratch` from call to call, `Fail`
and `CollectFails` for the two ways `run_graph` throws, `Collect`, `Assemble`.
`Assemble` joins the parts as `vcat_tensors` does (`Vcat`): as many rows as all have
together, of the first one's type, with `Copied` in their storage, which is a double
of each element of a Float64 tensor and four bytes of each element of any other. For
an int64 these are the first half of the chunk's halves (`Storage`; an int64 has two,
of `Word` values each), and behind the copies the result is zero. Where a part has no
storage to read, as a tensor of strings or a sparse one has none, or parts differ in
type, the copy is undefined and the behavior ends in the phase `"undefined"`
(`AssembleAstray`). The accessors assert their type, so this is the build of
`CMakeLists.txt`:21, with `NDEBUG`; one without ends there. A model's node has inputs
and outputs; of an operator without, `Outcome` says what the code does. `whole`
is a history variable: what the same batch gives in one piece on a thread with an
empty buffer. The pool's interleavings are not repeated here; that several threads
do not disturb each other is `GraphExecutor`'s and `ThreadPool`'s business, and the
only state a kernel shares between calls is the thread's own.

## Runs

| Run | Question | Bounds | Distinct states |
|---|---|---|---|
| Pool | safety, liveness and refinement of the pool under serial calls | 3 workers, 2 clients, calls of 0, 1 or 3 tasks, one call each, generation modulo 3 | 196 000 |
| PoolConcurrent | two threads in `parallel_for` (violated) | 2 workers, 2 clients, 2 tasks | |
| Exec | splitting gives the serial result, a finished chunk's part has its rows and no other part has them, failing calls give none, calls end | 4 chunks, threshold 4 rows, batches of 0, 1, 3, 4, 5, 7, 9, 10, 13 rows; float32, float64 and int32 outputs; four filters | 2 865 |
| ExecTerminate | an exception in a chunk is reported (violated) | 2 chunks, 2 rows | |
| ExecLabels | the same with an int64 label (violated) | 2 chunks, 4 rows | |
| Sess | the session in every order of a C client's calls, and under Python's on frames of one dtype in any column order | 2 inputs, 2 outputs, 2 data values, 1 row for C and 1 to 3 for Python | 534 674 |
| PyMixed | frames of mixed dtypes (violated) | 2 columns | |
| Load | what load accepts, refuses, warns of; the compiled graph computes what is declared, if names are hygienic | versions up to 5 characters, up to 2 verification cases, warmup repeats up to 2, all options; composites of one or two operators over five names, two composites in a row, schemas of one or two features | 249 722 |
| LoadScopes | a composite's names are its own (violated) | a composite of one or two operators and a reader | |
| Score | scores are those the model declares, on every path; values reach the trees as the schema says | pairs (and some quadruples) of eleven trees of up to seven nodes, eight aggregations, one and two outputs; five domains with 27 policy choices; 19 calls of one to three rows; blocks of two rows, a pool of three for three trees and more | 539 600 |
| ScoreMissing | a missing value follows default children everywhere (violated) | the same | |
| Ops | operators, expressions and model nodes: outputs of floats, doubles and int32s do not depend on the cut, equal meanings give equal answers, and what is moved, encoded, voted, counted and labelled is what the model declares | jobs of every family on 1 to 3 rows, every cut and order of slices; calls of model functions up to 4 deep; halves of an int64 of 256 values | 8 282 |

Why the bounds are enough. *Pool*: three tasks on three workers give a worker that
takes two, one that takes none and one that sleeps through a call; two clients
give a second call that meets leftovers of the first, and a counter modulo 3 is
reached by two calls and the initial value, while a wrap-around within one
worker's sleep needs as many calls as the modulus, which is why `MaxCalls` keeps
calls below it: on the real counter that takes 2^32 calls during one
descheduling, and the README states it as an assumption. *Exec*: 5 and 9 rows in
four chunks leave the last chunk empty, 13 cuts it, 3 is below the threshold.
*Sess*: two inputs separate "the first is bound" from "another is bound"; two
data values separate old from new; one row suffices as rows only matter for the
registered tensors, which Python's sessions drive with one to three rows. *Load*: five
characters reach `1.2.3` and every malformed prefix, and with ints up to 49 the
first number that wraps around to 0, which is 100; five names suffice
for one clash of each kind (inner-inner, inner-outer, alias-outer); the files are the
union of those that try the loader with one graph and those that try every graph
with one set of options, since compilation does not look at versions and cases. *Score*: two trees are
what it takes to disagree on comparison, depth or number of leaves, and four go to
the pool of three unevenly; three rows in blocks of two leave a remainder; trees of
depths 0, 1 and 2, even and lopsided, separate fixed from ragged walks; the rows
hold values on, below and above every threshold and bound. *Ops*: three rows are
cut in four ways, of which <<1, 2>> run backwards lets a one-hot buffer be met by
more and by fewer rows than it was made for; each job holds values on a boundary
(a bin's edge, a knot, a threshold, a tie of scores or votes), doubles no float
holds, a gap, and features with tables of unequal length. Operators are functions,
so their state space is the cuts and orders; what makes the run dense is the jobs,
which `MCOperators` writes out by family.

What Ops says of a cut batch (`SplitInvisible`) are its outputs of the types in
`Joinable`. An int64 label of a linear, SVM or neural network node does not survive a
cut (ExecLabels; the label `l` of the job of pairs is such an output, right in the
uncut batch and half lost in the others), and outputs of texts or sparse tensors lead
the copy astray. The labels that `PredictionsFollowScores` compares with scores are
therefore cast to floats inside the graph (`MCOperators!Label`), before they are an
output; what a caller of a split batch gets of the int64 itself is not covered by that
property.

Deadlock is checked in every run but Load, LoadScopes, Score, ScoreMissing and Ops:
a load ends in a refusal or in a result, and a batch in its scores or in an
error.

Fairness. Weak fairness on each worker's, each caller's and the destructor's
steps (`ThreadPool!Fairness`): the operating system runs every runnable thread,
a task that was started returns, and a thread that waits for the mutex gets it.
Calling and destroying are not fair, nobody must do them, nor is the spurious
wake-up. In `GraphExecutor` the pool's fairness appears as `ParallelFor`'s: a
taken chunk ends and a chunk nobody took is taken. `Loader`'s is that of a
sequential program: it goes on.

## Disagreements

Shown by a run of kind `violation`, with the lines in `PROJECT.json`:

1. **PoolConcurrent**: `Model` is documented as thread-safe, and two threads in
   `predict` on one model with a pool lose tasks (thread_pool.cpp:52).
2. **ExecTerminate**: an exception of `run_graph` in a worker ends the process
   (thread_pool.cpp:39), where `predict` promises a `StatusOr`.
3. **ExecLabels**: `vcat_tensors` copies four bytes of each int64
   (graph_executor.cpp:219).
4. **PyMixed**: block positions are cached by column names alone
   (`__init__.py`:745).
5. **ScoreMissing**: with a NaN anywhere in a batch the blocked paths and the stump
   path of the tree ensemble send missing values right, whatever `default_child`
   says (tree_ensemble_node.cpp:1370), while one row on its own follows it. The
   scores of a row so depend on the rows that are scored with it.
6. **LoadScopes**: README.md:485 speaks of an isolated scope, but a composite's nodes are
   inlined with their aliased names alone changed (graph_loader.cpp:2132). A composite
   that stores an intermediate result under a name of the parent's changes what the
   parent's later nodes read.

Met while modelling, with the model saying what the code does but no run of their
own (the runs above keep away from them, and say so by their constants):

* Where all features are columns of one input, in order, the schema node stores one
  wide tensor and none of the features (model_schema.cpp:135), and only a node that
  reads all of them in order is pointed at it (graph_loader.cpp:2102). A node that
  reads one feature, or all in another order, or from inside a composite, throws
  "graph value not found", though README.md:485 has each node read its declared inputs.
* The node that is pointed at the wide tensor has one input afterwards. For `Sum`, `Max`
  or `Mean` of the features, which `variadic_reduce` (operator_registry.cpp:613) forms
  of element (r, c) of every input, that is another computation: the columns come out
  as they went in. `WholeBatch` leaves both cases out.
* `op_knn` widens the narrowed copy of the training matrix (operator_registry.cpp:3082)
  and never reads the whole one, though the comment above it says distances are taken in
  float64 because two training points can sit a float apart.
* `diff > tol` is false for NaN (graph_loader.cpp:1949): an output that is NaN where
  a number was recorded passes verification, though README.md:493 says the load
  fails when results fall outside the tolerance. `CasePasses` has the outcome
  `"nan"`; run Load leaves it out of its cases.
* The numbers of a version are read into ints without a look at their size
  (graph_loader.cpp:2238): 4294967296.1 is read as 0.1 and loads without the warning
  the comment at graph_loader.cpp:2299 promises a foreign schema. `Scan` says so with
  ints up to `IntMax`, and run Load meets such numbers; `VersionJudged` speaks of
  versions whose numbers are ints.
* An infinite outlier under AsExtreme becomes NaN (model_schema.cpp:29):
  its distance from every bound is infinite. `NoGapsLeft` excludes infinite inputs.
* A split on IS_MISSING is never true, because a missing value takes the default
  child before the split is evaluated (tree_ensemble_node.cpp:367).
* `traverse_single` is `noexcept` and calls a walk that throws
  (tree_ensemble_node.cpp:1207).
* The tree ensemble calls `parallel_for` from a task of the same pool when a chunk
  has one row (`nodes/tree_ensemble_node.cpp`:1303); this is PoolConcurrent's
  overwriting with a worker for the second client.
* `n_threads * min_parallel_rows` is an `int` and wraps (graph_executor.cpp:235);
  `AsInt` models it.
* `predict_named_serial` calls `predict_named` (graph_executor.cpp:280), so
  `Session::run` is not "always serial", as README.md:199 says.
* `owned_outputs` keeps outputs the last run did not produce (c_api.cpp:368), and
  is reserved for a count in which a dynamic width is -1 (c_api.cpp:301,
  runtime.cpp:47), after which it may move.
* A session with one input bound, not the first, is run on that tensor as if it
  were the whole matrix (graph_executor.cpp:103).
* A NULL numeric column of a registered schema keeps the previous call's values
  (c_api.cpp:939).
* Python registers string inputs as `OMLE_COL_FLOAT64` (`__init__.py`:726), and
  hands float64 columns to a session that registered float32 (omle_ext.cpp:84).
* With verification switched off the version warning says the model carries no
  cases when it does (graph_loader.cpp:2329); every exception of load becomes
  `InvalidGraph` (runtime.cpp:66).
* A composite in a composite keeps its aliases through the outer rename
  (graph_loader.cpp:2133).

Of the operators (lines of operator_registry.cpp where no file is named):

* Widths. `KNNImputer`, like KNN, ranks narrowed training rows. `OneHotEncoder` takes
  `categories` narrowed and probes at full width, so a float64 category that is no
  float never matches; `EncodersTellApart` is checked on categories that are.
  `RobustScaler`, `MinMaxScaler`, `MaxAbsScaler` and `NormContinuous` use narrowed
  constants, where the comment near 1042 says parameters arrive as double. Naive
  Bayes predicts from full-width posteriors and gives probabilities from narrowed
  ones (nodes/naive_bayes_node.cpp:205, 213).
* Missing values. `relu`, `sign` and the logical functions swallow them, `clamp` makes
  the lower bound of one, `not_equal` is true of one. The l1 and l2 normalizers
  leave a row with a gap unscaled and `max` ignores the gap. `DenseToSparse` loses NaN.
  `KNNImputer` leaves a gap when the k nearest rows have the same one. The coupling of
  three SVM classes stops at once on a row with a gap and gives the uniform
  distribution.
* Ties. `ArgMax` and `MaxElement` take the first, votes the first in an unordered map's
  order (`HashOrder`), nearest neighbours an unstable sort's (the model takes the
  file's order). A pair of classes is split at `> 0.5` by the linear node
  (linear_node.cpp:333), `>= 0.5` by the neural network (neural_network_node.cpp:235)
  and `>= 0` by the SVM (svm_node.cpp:451).
* Rows that depend on their neighbours. `leaky_relu` with a column for alpha uses the
  first row's (expression_eval.cpp:148); `Reshape` with an explicit number of rows and
  the padding of `Tokenizer` to the longest row depend on the slice; model nodes other
  than the isolation forest do not compare the width they gather with their own and
  misread rows. Run Ops keeps away from these, and `SplitInvisible` is false of them.
* Encoders decide from the first input whether all are strings, do not clamp the
  offsets of label and target tables, and match a numeric table with a NaN by
  position; `MapValues` reads 0 of a string; `Clip` of an integer tensor reinterprets
  its bytes, which the model leaves out.
* `QuantileTransformer`'s comment gives references as `[n_quantile_levels, n_features]`
  (1343) and the code reads them feature by feature (1372). `SoftVote` of single
  columns divides by the sum of weights though its comment says each input becomes
  a column (868). The median of an even count is the upper one.
  `PolynomialFeatures` gives the bias twice with `include_bias` and a minimal degree of
  0. A B-spline at the last of repeated end knots is zero in all bases;
  `SplinesSumToOne` is checked on knots that continue.
* Model functions are scoped dynamically: a body sees its caller's parameters.
  `CallsAreClosed` is checked where bodies use their own, and is false where they do
  not. The depth of their recursion is unbounded, the arity of built-in functions
  unchecked, and `eval_pred`'s Surrogate acts as OR.
* `convert_svm` passes `n_support` on the float64 path only (graph_loader.cpp:1152-1156),
  so a float32 multiclass SVM with Platt scaling never takes the path that
  svm_node.cpp:54-55 describes. An isolation forest takes its number of features from
  the highest feature it splits on (anomaly_detection_node.cpp:318-321) and refuses
  wider inputs. The linear node expands the pair of a binary model for Sigmoid and
  not for Logit.

## Proofs

Each component's theorems are in a module of their own. They hold for every value
of the constants that satisfies the assumption in the component's module
(`PoolAssumption`, `ExecutorAssumption`, `SessionAssumption` and `PyAssumption`,
`LoaderAssumption`, `GraphAssumption`, `FilesAssumption`, `OperatorAssumption`, `TreeAssumption`, `ScoringAssumption`, `EnsembleAssumption`:
types, sets that are finite where the code has finitely many, and what a tree is),
and where a theorem needs more it says so in an ASSUME. Where a run shows that the property fails without such a hypothesis, it is
named below.

### The pool: `ThreadPoolProofs`

For every finite set of workers, every set of clients, every set of task counts and
every width of the generation counter, while calls do not overlap (PoolConcurrent
shows what happens when they do):

* `TypeCorrect`: `Spec => []TypeOK`;
* `Inductive`: `Spec => []IInv`;
* `PoolBlocksUntilDone`, `PoolFnAlive`, `PoolActiveCounts`, `PoolQuietShutdown`:
  the safety properties run Pool checks;
* `PoolImplementsParallelFor`: `Spec` implements `ParallelFor` under the refinement
  mapping at the end of `ThreadPool` (a call in flight, the tasks nobody claimed,
  the tasks some worker holds).

None of the four properties is inductive. `BlocksUntilDone` speaks of calls that
have returned; that the last decrement of `active_` can be trusted needs `active_`
to count the holders (`ActiveCounts`), the holders to hold distinct tasks below
`next_task_` (`HeldOnce`, `ClaimsBehindCursor`), the completed tasks to be exactly
those claimed and not held (`RanOnce`), no holder and no unclaimed task to be
left between calls (`IdleIsDrained`), and every running worker to run the current
function (`RunsCurrentFn`). `IInv` is the conjunction; run Pool checks it. The proof
has one lemma per action, and cardinality facts about the set of busy workers come
from FiniteSetTheorems.

### The executor: `GraphExecutorProofs`

For any number of threads, threshold, int width, row counts, outputs and filters:

* `ExecutorInvariant`: `GSpec => []GInv`, which run Exec checks. `GInv` says of each
  phase which chunks are waiting or running, that a chunk that is neither has its
  part (`PartsComplete`), and that faulty calls have no parts;
* `RowsArePartitioned` (`ChunksPartition`): the chunks of a split batch cover its rows
  without overlap, with any remainder and with more threads than rows, and a row's
  words are in the part of its chunk exactly from when that chunk is finished, and in
  no other part (`PartHoldsRow`);
* `FaultsAreKept` (`NoResultOfFault`);
* `SplittingIsInvisible` (`ResultIsSerial`): what the caller of a split batch gets is
  what an unsplit one gives, in whatever order the chunks ran, if every output has a
  type `vcat_tensors` copies whole (`CopiedWhole`). ExecLabels shows an Int64 output
  without it;
* `ExecutorUsesThePool`: `GSpec` implements `ParallelFor`. With
  `PoolImplementsParallelFor` this joins the two halves: the pool keeps what
  `ParallelFor` promises, and the executor asks of it no more than that.

`ResultIsSerial` is not inductive: gathering needs every part to be that of its own
chunk, and that empty chunks lie behind all others, so that the non-empty ones are
a prefix (`ValidIsPrefix`); the words of adjacent chunks join (`WordsJoin`), and so
does what `Vcat` makes of them (`VcatJoins`).

### The sessions: `SessionProofs`

Of `ClientSpec`, a C client in any order of calls or Python's binding, for any finite
sets of inputs and outputs, any frames and row counts. The inductive invariant is
`SInv /\ PyInv` (`SessionInvariant`): types, `owned_outputs` holds each name once and
the last run's results under theirs, and in Python's hands a session filters no
outputs, is registered with the frame's types, and caches positions that are those
of some frame of the cached columns. That a cached position is right for *this*
frame is what `SameLayouts` adds.

* `SessionTypes` (`STypeOK`), `LastRunIsAnswered` (`LastRunAnswered`): no hypothesis;
* `HandlesAreStable` (`HandleStable`), if there are no more outputs than the room
  reserved for them (`RoomForAll`); `HandlesOfColumnsAreStable` says that this is so
  when every output is at least one column wide. An output of dynamic width counts
  -1 (runtime.cpp:47), which is what the hypothesis excludes;
* `CallsWriteTheirOwn` (`WritesThisCall`), if no column is lent as NULL (such a column
  keeps the values of an earlier call, c_api.cpp:939) and frames of the same
  columns have the same layout and the types they were registered with
  (`SameLayouts`, `RightTypes`);
* `ProbaIsOfThisFrame` (`ProbaOfThisFrame`), under the last two. PyMixed shows it
  violated without `SameLayouts`.

### The loader: `LoaderProofs`

Of `LSpec`, for any files, models, options and int width. `ModelLoad` implements it
(`ModelLoadIsALoad`), so that all of this holds of a load with its graph too.

* `LoadInvariant` (`LInv`): what a load has established when it comes to each step;
* `SilentLoadsAreVerified` (`SilenceIsEarned`), `BlameIsAlwaysRight` (`BlameIsRight`),
  `WarmupFollowsEvidence` (`WarmupAfterEvidence`: nothing is warmed up that
  verification did not let pass, and each case runs at least once, also with a
  `repeat` of 0 or less): no hypothesis;
* `LoadedModelsMatched` (`LoadedMeansMatched`), if no result of a case is NaN: a NaN
  passes verification (graph_loader.cpp:1949);
* `VersionsAreJudged` (`VersionJudged`): a version of any length and any characters is
  absent, malformed, supported or unsupported by what it says, if its first two
  numbers are ints: one that is not may wrap around to the version of this code.

The first four follow from `LInv` at once; none is inductive, since whether a load
may be silent is decided after the cases have run and depends on how the loop over
them ended. `VersionsAreJudged` is the correctness of a scanner: `ScanIs` relates the
scanner's state after k characters to the k characters (`ScanStep`), and
`WellFormed`, `Major` and `Minor`, which speak of the whole version, are then read off
the last state.

### Graph compilation: the second half of `LoaderProofs`

Of `MSpec`, for any files, and models of any inputs, features, operators and
composites, under `GraphAssumption` (what a model is) and `FilesAssumption`:

* `CompiledComputesDeclared` (`AsDeclaredIfHygienic`): what the compiled graph gives is
  what the declared one does. The hypotheses on names are part of the property;
* `ModelLoadIsALoad`: `MSpec` implements `LSpec`; `RunModelsAreVerified` draws
  `SilenceIsEarned` from it, the other theorems of a load follow alike.

`GInv` says where in the run of the compiled graph an execution is (`RunsCompiled`);
that this run ends with the declared outputs is a fact about two functions, the
stores after each node of the one graph and of the other. `CompiledIs` finds, by an
induction over the concatenation (`FlattenPlaces`), which nodes of the compiled graph
stand for a declared one, and `CompiledRuns` shows by another that the two stores are
`Related` after each of these groups: the compiled store has what the declared one has
under every name the nodes exchange (`Agree`), except that a batch lies in one tensor
(`Batched`). It starts so (`BegunRelated`: the schema leaves what the declared graph
starts from, feature by feature or as a batch), an operator keeps it, because it gets
the same arguments (`OperatorKeepsRelated`; the wide tensor is what gathering the
features makes, `FlattenSingles`), and a composite does (`CompositeKeepsRelated`).

A composite takes an induction of its own over the nodes inside, of two stores that
look different: the declared graph's fresh scope, and the parent's, in which the
nodes run under other names. `AgreeInside` says that the parent holds what the scope
holds, each name as `Outer` gives it, and what the parent had under names no node
inside writes. It is inductive because of what inlining does to names (`Separated`):
two of them that something is stored under never become one. That it does this, `InlinedNames`
proves from `Inlinable`, which knows aliases only; LoadScopes is what is left without.

### Schema and scoring: `ScoringProofs`

Of `ScoreSpec`, for any schema, batch and grain of floats. `ScoreInv` says that the node
is what the loader makes of the declared trees, and that what is
screened and gathered is the schema applied cell by cell (`RowsAreScreened`); the
rest are lemmas. For the schema they are on the policies of `ModelSchema`: what narrowing does (`Nearest`,
`Rounding`), where a clamped value lies (`ClampedInside`), what is left alone
(`LeftAlone`), what is accounted for (`AccountedFor`), what is always replaced
(`AlwaysReplaced`).

* `ValuesStayWhole` (`ValuesArriveWhole`): no hypothesis;
* `NothingUndeclaredArrives` (`NothingUndeclared`), if every interval has a float in
  it: an empty open interval is clamped to its middle, which lies outside
  (model_schema.h:51-64);
* `NoGapsAreLeft` (`NoGapsLeft`), if in addition intervals have finite floats in them,
  replacements are numbers, and no finite input becomes infinite as a float;
* `ScoresAreDeclared` (`ScoresAsDeclared`), for any trees, aggregation, rows, and sizes of
  pool, threshold and block: no hypothesis.

`ScoresAsDeclared` compares what the code computes with a meaning that knows no
walk, so each path of `predict_impl` has to be led back to it. The first half of the
module does this in four parts.

*Walks.* `EnsembleAssumption` says what a tree is (`TreeOK`): the nodes behind a split
are nodes of the tree, no set of splits leads only into itself, and a leaf has a
value for every column of its tree. The loader takes this of the file; without it
the walks of the code do not end or read beyond their arrays. A walk then visits no
node twice, and as a tree has more nodes than a walk steps it ends at a leaf
(`WalkEnds`, by the cardinality of the set of visited nodes). If every step follows
the declared direction, that leaf is the declared meaning's (`EndIsMeant`, `WalkIsMeant`):
the splits it passed send the row towards it, and it is the only such leaf, because
the walk never leaves the splits that lead to another one and would have ended there.

*Other ways to walk.* A fixed number of steps is enough where all leaves are that
deep (`FixedIsPlain`); in the flat forest a step from a leaf stays there, a tree's
nodes lie between its root and the next one's, and so a walk from a root is the walk
in its tree, moved (`Roots`, `ForestNodeIs`, `ForestPath`); the depth of the forest
suffices for each of its trees (`DepthOfForest`). The walks that do not look for
missing values are used where there is none, or where each would go right anyway,
which is what `DefaultsSafe` says and ScoreMissing shows to be needed (`SingleIsMeant`,
`BatchIsMeant`). Filling in default children changes none of this (`ConvertedTree`,
`ConvertedWalk`).

*Sums.* The loop over a column's trees gives the declared sum, least or greatest value
(`ColumnIsMeant`). `Extreme` starts the last two, so it has to lie beyond the trees'
values: the code starts from the ends of the float type. The shares of the pool's
tasks are the trees cut at n * id / PoolSize, so that their sums add up to the
whole (`CutPoints`, `SharedOut`), and the rows of the blocks are the rows of the batch
(`BlocksAreRows`).

*Paths.* `PredictsAsMeant` goes through the six actions of `PredictImpl` with these.

### Operators: `OperatorGraphProofs` and `OperatorAnswerProofs`

Of `OSpec`, for any jobs, cuts, widths of floats and whatever `Derive` and `Compute`
answer, under `OperatorAssumption` (the slices of a cut have rows and add up to the
batch, NaN is no number):

* `SplitNeverShows` (`SplitInvisible`), for a job that is `Orderly`: its inputs are
  tables of as many rows as the batch has, and each call the reference makes of an
  operator reads row by row (`Fits`). It is a statement about every output
  `vcat_tensors` copies whole (`Joinable`), and about failing; of an int64, a string or
  a sparse output it says what an uncut batch gives, and that nothing else leads the
  copy astray. A job whose kernel pads rows to the longest, or
  reshapes them into others, is not, and of those the property is false;
* `RowGraphsNeverShow`, for a job all of whose nodes are of the operators listed in
  `ReadsRows`, so that nothing is asked of what they answer. A linear node's scores are
  such outputs; its int64 label is one only after a cast.

`FollowInv` says that the store of the slice being run is, name by name, the slice's
rows of the reference's store before the same node (`Follows`), that every finished
slice has handed in its rows of the outputs, and that the scratch buffer is a
sequence, of whatever an earlier slice left in it. An operator keeps this because
the call it is given on the slice is a `Part` of the call on the batch
(`CalledSlice`, `OutcomeSplits`) and what is stored afterwards is a part of what is
stored there (`PutsSlice`). A one-hot node keeps it whatever the buffer holds
(`HotSplits`): the part of the buffer this call needs is zeroed before cells are set
in it, larger or smaller as an earlier slice may have been. In the end the parts laid
end to end are the whole, where `vcat_tensors` copies them whole (`JoinedIs`), and only where it
does not does a copy go astray (`AstrayFollows`).

That an operator's answer on rows a + 1 to a + n is rows a + 1 to a + n of its answer
is proved of each kernel in `ReadsRows`: the lemmas `...Splits`. Some need what the
code does not look at: a reduction that its inputs have as many columns as the first
(`Even`), `Gather` of a single column that it asks for the first (`Picks`), a one-hot
encoder that its offsets lie within its table (`Parted`), the linear node that its
coefficients are as wide as its inputs are together (`AsWide`; it steps through one
buffer by its own width). A tensor of one element answers for every index, and a
slice of one row of a single column is such a tensor: `CellsAlike` and `ReadAlike` say
that this reads the same cell. Of an operator that is not listed, `Orderly` asks
that the calls of this job read row by row (`RowLocal`). Of the 73 jobs of run Ops 70
are orderly; the other three have texts with rows of unequal numbers of words. 11 consist
of listed operators alone, and a third of all nodes are of these.

*What nodes leave behind* (`OperatorAnswerProofs`). Three more properties speak of the store after the node, which
later nodes write to as well. `StandInv` says of a job that writes no name twice
(`SingleWriter`; the loader does not check it) that what every node before the
current one read is still there, and that what it gave stands under its names
(`Stands`, proved of all slices in `AllStand`). What is true of an answer then stays
true of the store:

* `CopiesAreExact` (`CopiesExact`): the answers of the seven operators that only move
  values hold, row by row, only values of their inputs (`MovesCarry`), if no column
  index leads out of its table, sections are no wider than it, candidates are as
  wide as each other and a reshape keeps the grid (`WithinReach`). Storing does not round
  them, because a result is only a float32 tensor when the input it came from is
  (`ReadKept`); that floats are in float32 tensors is part of `WithinReach`;
* `WinnersDoWin` (`WinnersWin`): `ArgMax` says the first of the highest (`BestIs`) and
  `MajorityVote` a label no other has more votes than (`WinnerIs`, the sum of ones being a
  cardinality by `OnesCount`), if places and labels are exact as floats, and
  `HashOrder` has a place for each label (`Contest`).

* `EncodersDoTellApart` (`EncodersTellApart`): of the five encoders, two rows have the same
  code in a feature exactly when they hold the same declared category or neither holds one.
  A search finds each category at its own position and no other value at any
  (`FindTells`); different positions are stored as different codes (`CodedTells`) or as
  blocks with their one in different places (`BlockTells`, with `BlocksApart`: the blocks
  of two features never meet). What a call has to be for that is `Encodes`: offsets that
  lie within the table and no category NaN; of label, ordinal and target encoders features
  that are all strings or all numbers, because the first input decides for all, and codes
  that are still different as they are stored (a label's position exact as a float);
  of `OneHotEncoder` categories that are not doubles, because it reads them narrowed
  and compares with wide cells; of `OHENode` a list of categories for each feature.
  What an `OHENode` left depends on the thread's buffer, which is a sequence as long as
  the calls are such: so the theorem assumes `EncodersFair` of every state up to the one
  it speaks of, `[](SingleWriter(job) /\ EncodersFair) => []EncodersTellApart`, and its
  invariant `HotInv` holds of each `OHENode` before the current one that there was a
  store and some sequence in the buffer from which what stands in the store is its answer;
  `HotNodeTells` shows that any such sequence will do.

That a job writes no name twice and the calls are within these bounds (`SingleWriter`,
`CopiesWithin`, `ContestsFair`, `EncodersFair`) is so in all 8 282 states of run Ops, with
all seven copying operators, both choosing ones and all five encoders among them.

### Loops

Folds of the community modules take operators, and the library's induction theorems
too, which the provers cannot instantiate. What the code does in a loop is
therefore written, in the modules with theorems, as a recursive function over the
steps of the loop (`TreeEnsemble!Path` for walks, `TreeEnsemble!SumOver` for sums), and
`Loops` proves what is needed of such functions for sets: a
loop that stays in a set has a run (`LoopRuns`), and what its start has and each
step keeps holds throughout (`LoopInvariant`).

### Only model-checked

* Liveness (`CallReturns`, `DtorTerminates`, `CallEnds`, `LoadEnds`): fairness and
  ENABLED are out of the prover's reach.
* `Expressions` and with it `CallsAreClosed`: recursive over expression trees.
* Of `OperatorGraph`, what single operators answer (`RoutesAgree`, `SplinesSumToOne`,
  `WordsCounted`, `PredictionsFollowScores`, which says of a KNN node as well that its
  label is one its nearest rows say most often), its types (`OTypeOK`, which depends on
  every kernel), and that the operators not listed in `ReadsRows` read row by row.

## Not modelled

* Of the operators and model nodes: the probit, cloglog, cauchit and loglog
  transforms, Minkowski orders other than 1 and 2, angles, the coupling of more than
  three SVM classes, the stand-alone linear executor; the vector variants of the
  kernels stand for the same sums. `eval_pred`, which filters and complex splits
  evaluate.
* The error of floating-point arithmetic other than the conversion of a double to
  float, and the order of additions in sums (floats do not associate).
* Of the tree ensemble: class labels, the post transforms other than
  `sigmoid_binary`, and the ensemble used without a graph.
* Composites within composites, whose aliases the outer rename misses, and string
  features, which leave batch mode for a call.
* The feature names of `TakeSlots`, which are looked up after inlining and replaced by
  column numbers (graph_loader.cpp:2143-2170): the operator is modelled with its
  numbers.
* Of `vcat_tensors`, parts of one output that differ in type: the model counts the copy
  as undefined, whatever the types.
* Protobuf parsing and the reading of attributes and tensor entries: generated code
  and copying.
* Murmur3, `std::stod` and `std::tolower` are given as tables; a regular expression is
  a class of letters.
* The Java binding: forwards calls. Examples and benchmarks: programs that use the
  library.
* Allocation failure, and lifetimes of buffers the caller lends (a lent buffer is
  taken to live while it is bound), which `PROJECT.json` lists as a hazard. A session
  whose tensors could not be rebuilt keeps those of the previous number of rows
  (c_api.cpp:955).
* `predict` and `predict_serial`, the dense float32 entries of the executor, split
  as `predict_named` does and write to disjoint rows of one buffer.

## Plan

Done in this order, because the pool is under everything and the session over it:
pool, abstract `ParallelFor`, executor, C session, Python session, loader,
compilation; then the pool's proofs; the schema's policies and the tree ensemble;
then the operators, expressions and model nodes, and the composition of loader and
compilation.

Next:

1. The C++ `Session` on its own, `predict` / `predict_serial`, `Tensor` ownership and
   the lifetimes of lent buffers.
2. `eval_pred` in filters and complex splits; class labels and post transforms of the
   tree ensemble.
3. Theorems: the rest of what single operators return (equal routes, splines, words, the
   scores of model nodes), and `OTypeOK`, which needs of every kernel that it answers with
   numbers.
