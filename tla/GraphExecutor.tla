--------------------------- MODULE GraphExecutor ---------------------------
(***************************************************************************)
(* GraphExecutor::predict_named (src/graph_executor.cpp): how a batch of   *)
(* rows is run through the graph, on the calling thread or in chunks on    *)
(* the pool, and how the chunks' outputs become the caller's result.       *)
(*                                                                         *)
(* The graph itself is abstracted to the rows it was run on: the tensor an *)
(* output name gets from rows s .. e-1 is the sequence of machine words    *)
(* that hold those rows' values, each word named by its row and its place  *)
(* in the value.  An output of type Float64 or Int64 has two words to a    *)
(* value, Float32 and Int32 one.  A call is faulty when the graph cannot   *)
(* run it - a missing input, a node that returns an error, an output that  *)
(* is not produced: the faults are those of the names and shapes, so that  *)
(* every chunk of a faulty call throws.                                    *)
(*                                                                         *)
(* The pool is ParallelFor, which ThreadPool implements while calls do not *)
(* overlap.                                                                *)
(***************************************************************************)
EXTENDS ParallelFor, FiniteSets, Sequences

CONSTANTS
  NThreads,   \* thread_pool->size(), or 1 without a pool
  MinRows,    \* min_parallel_rows
  RowCounts,  \* values of n_rows
  Outputs,    \* the names in output_specs
  OutType,    \* the type of each output: "f32", "f64", "i32" or "i64"
  Filters,    \* the output_filter values callers pass; {} asks for everything
  IntMax      \* the largest int

ASSUME ExecutorAssumption ==
  /\ NThreads \in Nat \ {0}
  /\ MinRows \in Nat \ {0}
  /\ RowCounts \subseteq Nat
  /\ OutType \in [Outputs -> {"f32", "f64", "i32", "i64"}]
  /\ IntMax \in Nat

VARIABLES
  phase,   \* where the call is
  n_rows,  \* rows of the call's inputs
  filter,  \* its output_filter
  faulty,  \* whether the graph fails on its inputs
  parts,   \* parts[t]: the results of each chunk
  result   \* what the call returned

evars == <<phase, n_rows, filter, faulty, parts, result>>
gvars == <<evars, pfvars>>

Chunks == 0 .. (NThreads - 1)

\* The value of a signed int computation, which wraps around.
AsInt(x) ==
  LET m == 2 * (IntMax + 1)
      r == x % m
  IN  IF r > IntMax THEN r - m ELSE r

-----------------------------------------------------------------------------
(***************************************************************************)
(* Tensors                                                                 *)
(***************************************************************************)

\* Words to a value.
Width(o) == IF OutType[o] \in {"f64", "i64"} THEN 2 ELSE 1

\* Storage zeroed by Tensor::dense.
Zero == <<-1, 0>>

\* The words of output o for rows s .. e - 1.
Words(o, s, e) ==
  [i \in 1 .. ((e - s) * Width(o)) |->
     <<s + ((i - 1) \div Width(o)), (i - 1) % Width(o)>>]

\* run_graph on rows s .. e - 1: one tensor for each output the filter lets
\* through.  A name in the filter that is no output is skipped.
Selected(f) == IF f = {} THEN Outputs ELSE Outputs \cap f
RunGraph(s, e, f) ==
  [o \in Selected(f) |-> [rows |-> e - s, words |-> Words(o, s, e)]]

\* vcat_tensors: each part's first rows * cw words are copied behind those of
\* the parts before it, where cw is two for Float64 and one for the rest.
CopyWidth(o) == IF OutType[o] = "f64" THEN 2 ELSE 1
Vcat(o, ps) ==
  LET off[k \in 0 .. Len(ps)] ==
        IF k = 0 THEN 0 ELSE off[k - 1] + ps[k].rows
      copied[k \in 0 .. Len(ps)] ==
        IF k = 0 THEN << >>
        ELSE copied[k - 1] \o SubSeq(ps[k].words, 1, ps[k].rows * CopyWidth(o))
      total == off[Len(ps)]
      out   == copied[Len(ps)]
  IN  [rows  |-> total,
       words |-> [i \in 1 .. (total * Width(o)) |->
                    IF i <= Len(out) THEN out[i] ELSE Zero]]

Nothing == [o \in {} |-> << >>]

-----------------------------------------------------------------------------
(***************************************************************************)
(* predict_named                                                           *)
(***************************************************************************)

\* The number of rows at which a batch is split, an int product.
Threshold == AsInt(NThreads * MinRows)

\* Mutant of ChunkRows: rounded down.
ChunkRowsFloor == n_rows \div NThreads

ChunkRows == (n_rows + NThreads - 1) \div NThreads
Start(t)  == t * ChunkRows

\* Mutant of End: the last chunk is not cut off.
EndUncut(t) == Start(t) + ChunkRows

End(t)    == IF Start(t) + ChunkRows < n_rows THEN Start(t) + ChunkRows ELSE n_rows

GInit ==
  /\ PFInit
  /\ phase = "idle"
  /\ n_rows = 0
  /\ filter = {}
  /\ faulty = FALSE
  /\ parts = [t \in Chunks |-> Nothing]
  /\ result = Nothing

Idle == phase \in {"idle", "returned", "failed"}

\* A call arrives, by Model::predict or by Session::run, which goes through
\* predict_named_serial to the same function.
Arrive(n, f, b) ==
  /\ Idle
  /\ n_rows' = n
  /\ filter' = f
  /\ faulty' = b
  /\ result' = Nothing
  /\ parts' = [t \in Chunks |-> Nothing]

\* inputs.empty() or no rows: an empty map, before the graph is looked at.
PredictNothing(n, f, b) ==
  /\ n = 0
  /\ Arrive(n, f, b)
  /\ phase' = "returned"
  /\ UNCHANGED pfvars

PredictSerial(n, f, b) ==
  /\ n > 0 /\ (NThreads <= 1 \/ n < Threshold)
  /\ Arrive(n, f, b)
  /\ phase' = "serial"
  /\ UNCHANGED pfvars

\* Mutant of PredictParallel: one task more than there are chunks.
PredictOneMore(c, n, f, b) ==
  /\ n > 0 /\ NThreads > 1 /\ n >= Threshold
  /\ Arrive(n, f, b)
  /\ phase' = "parallel"
  /\ Call(c, NThreads + 1)

PredictParallel(c, n, f, b) ==
  /\ n > 0 /\ NThreads > 1 /\ n >= Threshold
  /\ Arrive(n, f, b)
  /\ phase' = "parallel"
  /\ Call(c, NThreads)

\* Mutant of RunSerial: the nodes' Status is not looked at.
RunUnchecked ==
  /\ phase = "serial"
  /\ phase' = "returned"
  /\ result' = RunGraph(0, n_rows, filter)
  /\ UNCHANGED <<n_rows, filter, faulty, parts, pfvars>>

\* run_graph over all rows on the calling thread.
RunSerial ==
  /\ phase = "serial" /\ ~faulty
  /\ phase' = "returned"
  /\ result' = RunGraph(0, n_rows, filter)
  /\ UNCHANGED <<n_rows, filter, faulty, parts, pfvars>>

\* What run_graph throws on the calling thread becomes the caller's Status.
SerialThrows ==
  /\ phase = "serial" /\ faulty
  /\ phase' = "failed"
  /\ UNCHANGED <<n_rows, filter, faulty, parts, result, pfvars>>

\* A worker takes a chunk.
TakeChunk(t) ==
  /\ phase = "parallel"
  /\ Take(t)
  /\ UNCHANGED evars

\* Mutant of ChunkDone: the chunk that ends with the batch leaves out its last row.
ChunkCutShort(t) ==
  /\ phase = "parallel" /\ t \in doing
  /\ Start(t) >= n_rows \/ ~faulty
  /\ parts' = IF Start(t) >= n_rows THEN parts
              ELSE [parts EXCEPT ![t] =
                      RunGraph(Start(t), IF End(t) = n_rows THEN n_rows - 1 ELSE End(t), filter)]
  /\ UNCHANGED <<phase, n_rows, filter, faulty, result>>

\* The worker's part of the lambda: a chunk that starts behind the last row
\* does nothing.
ChunkDone(t) ==
  /\ phase = "parallel" /\ t \in doing
  /\ Start(t) >= n_rows \/ ~faulty
  /\ parts' = IF Start(t) >= n_rows THEN parts
              ELSE [parts EXCEPT ![t] = RunGraph(Start(t), End(t), filter)]
  /\ UNCHANGED <<phase, n_rows, filter, faulty, result>>

\* Mutant of RunChunk: the worker does not give the task back.
RunAndKeep(t) == ChunkDone(t) /\ UNCHANGED pfvars

RunChunk(t) == ChunkDone(t) /\ Done(t)

RunChunkAndTake(t, u) == ChunkDone(t) /\ DoneAndTake(t, u)

\* run_graph throws on a worker thread, whose loop catches nothing:
\* std::terminate.
ChunkThrows(t) ==
  /\ phase = "parallel" /\ t \in doing
  /\ Start(t) < n_rows /\ faulty
  /\ phase' = "terminated"
  /\ UNCHANGED <<n_rows, filter, faulty, parts, result, pfvars>>

\* parallel_for has returned: drop the empty parts, and concatenate the rest
\* name by name when there is more than one.
Valid ==
  LET valid[t \in 0 .. NThreads] ==
        IF t = 0 THEN << >>
        ELSE IF DOMAIN parts[t - 1] # {} THEN Append(valid[t - 1], t - 1)
        ELSE valid[t - 1]
  IN  valid[NThreads]

Gather ==
  /\ phase = "parallel"
  /\ Return
  /\ phase' = "returned"
  /\ result' =
       LET valid == Valid
       IN  IF Len(valid) = 0 THEN Nothing
           ELSE IF Len(valid) = 1 THEN parts[valid[1]]
           ELSE [o \in DOMAIN parts[valid[1]] |->
                   Vcat(o, [i \in 1 .. Len(valid) |-> parts[valid[i]][o]])]
  /\ UNCHANGED <<n_rows, filter, faulty, parts>>

Terminated == phase = "terminated" /\ UNCHANGED gvars

CallStep ==
  \/ RunSerial
  \/ SerialThrows
  \/ \E t \in todo : TakeChunk(t)
  \/ \E t \in doing : RunChunk(t)
  \/ \E t \in doing, u \in todo : RunChunkAndTake(t, u)
  \/ \E t \in doing : ChunkThrows(t)
  \/ Gather

\* The calls an application makes; b says whether the graph can run them.
Predicts ==
  \E n \in RowCounts, f \in Filters, b \in BOOLEAN :
    \/ PredictNothing(n, f, b)
    \/ PredictSerial(n, f, b)
    \/ \E c \in Clients : PredictParallel(c, n, f, b)

GNext == Predicts \/ CallStep \/ Terminated

\* The thread that runs the call, and the pool's workers, keep running.
GSpec == GInit /\ [][GNext]_gvars /\ WF_gvars(CallStep)

-----------------------------------------------------------------------------

GTypeOK ==
  /\ phase \in {"idle", "serial", "parallel", "returned", "failed", "terminated"}
  /\ n_rows \in Nat
  /\ filter \in Filters \cup {{}}
  /\ faulty \in BOOLEAN
  /\ todo \subseteq Chunks /\ doing \subseteq Chunks

\* Splitting a batch is invisible: whatever the number of threads, the order the
\* chunks ran in and the rows left over for the last ones, the caller gets the
\* tensors one run over all rows would give - every row once, in order, under
\* the names the filter selects.
ResultIsSerial ==
  phase = "returned" =>
    result = IF n_rows = 0 THEN Nothing ELSE RunGraph(0, n_rows, filter)

\* While the chunks run, every row is in the bounds of one of them.  Once nobody
\* holds that chunk, its part has every word of the row in every output, before
\* that no part has one, and another chunk's part never does: between TakeChunk and
\* Gather no row is lost, run twice or put down in another's part.
Holds(t, o, word) ==
  o \in DOMAIN parts[t] /\ \E i \in DOMAIN parts[t][o].words : parts[t][o].words[i] = word
InBounds(t, r) == Start(t) <= r /\ r < End(t)
ChunksPartition ==
  phase = "parallel" =>
    \A r \in 0 .. (n_rows - 1) :
      /\ Cardinality({t \in Chunks : InBounds(t, r)}) = 1
      /\ \A t \in Chunks, o \in Selected(filter) : \A w \in 0 .. (Width(o) - 1) :
           Holds(t, o, <<r, w>>) <=> InBounds(t, r) /\ t \notin todo \cup doing

\* A call that cannot be executed comes back as an error, not as a result and
\* not as the end of the process.
FaultIsReported == faulty => phase \notin {"terminated"}

\* A faulty call never looks like a success: no result of it is handed out.
NoResultOfFault == faulty /\ n_rows > 0 => phase # "returned"

\* What holds between the steps of a call: the chunks nobody has taken or is
\* running have no part yet, and those that are finished have theirs.
PartsComplete ==
  /\ todo \cap doing = {}
  /\ parts = [t \in Chunks |-> parts[t]]
  /\ \A t \in Chunks :
       IF t \in todo \cup doing \/ Start(t) >= n_rows
       THEN parts[t] = Nothing
       ELSE ~faulty /\ parts[t] = RunGraph(Start(t), End(t), filter)

\* The inductive invariant: the type invariant, no fault behind a result, rows to
\* work on in every call that works, and PartsComplete while chunks run.
GInv ==
  /\ GTypeOK
  /\ NoResultOfFault
  /\ phase \in {"serial", "parallel"} => n_rows > 0
  /\ phase = "parallel" => PartsComplete

\* Every call ends.
CallEnds == phase \in {"serial", "parallel"} ~> phase \in {"returned", "failed", "terminated"}

=============================================================================
