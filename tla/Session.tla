------------------------------- MODULE Session -------------------------------
(***************************************************************************)
(* A C API session (src/c_api.cpp) over Session (src/runtime.cpp): inputs  *)
(* and outputs bound by name, runs, the output handles the session owns,   *)
(* and the column calls with and without a registered schema.              *)
(*                                                                         *)
(* A column or input tensor is [rows, val]: how many rows it has and which *)
(* data they hold.  The tensor an output gets from a run is the pair of    *)
(* its name and the inputs the graph was fed, so that two runs give an     *)
(* output the same tensor exactly when they fed the graph the same inputs. *)
(* A buffer the caller lends (from_buffer) is taken to live as long as it  *)
(* is bound.  Names the model does not have are Flat, for inputs, and      *)
(* Other, for outputs.                                                     *)
(***************************************************************************)
EXTENDS Integers, FiniteSets, Sequences, SequencesExt

CONSTANTS
  Inputs,     \* input_names, one column each
  First,      \* input_names[0]
  Outputs,    \* the names in output_specs
  Slots,      \* Slots[o]: product of the dimensions of o's shape behind the first
  Vals,       \* the data callers pass
  RowCounts,  \* values of n_rows in the column calls
  Lent,       \* data of a column: subset of Vals, or NULL as well
  Types,      \* the column types callers register
  Asked,      \* the outputs predict calls name
  Flat, Other, Null, None

ASSUME SessionAssumption ==
  /\ IsFiniteSet(Inputs) /\ IsFiniteSet(Outputs)
  /\ First \in Inputs
  /\ Flat \notin Inputs /\ Other \notin Outputs
  /\ Slots \in [Outputs -> Int]
  /\ RowCounts \subseteq Nat \ {0}
  /\ Lent \subseteq Vals \cup {Null}
  /\ Null \notin Vals
  /\ Types \subseteq {"f32", "f64", "str"}
  /\ Asked \subseteq Outputs

VARIABLES
  bound_inputs,   \* what is bound, by name
  bound_outputs,  \* the names bound as outputs
  owned_outputs,  \* sequence of [name, tensor]
  buffer,         \* owned_outputs' storage: [capacity, moves]
  reg_cols,       \* None, or [types, cells, rows, out]
  last,           \* the results of the last run that succeeded
  reply           \* what the latest call did: [status, want, got]

svars == <<bound_inputs, bound_outputs, owned_outputs, buffer, reg_cols, last, reply>>

Empty == [x \in {} |-> None]

\* Cells that were zeroed or are empty strings, and cells whose bytes were read
\* as another type or that lie behind the row they were read from.
Zeros   == "zeros"
Garbage == "garbage"

Cell(n, v) == [rows |-> n, val |-> v]

-----------------------------------------------------------------------------
(***************************************************************************)
(* Session::run                                                            *)
(***************************************************************************)

\* compute_num_outputs: the declared column count, or the executor's, which
\* counts a zero product as one.
Total(f) ==
  LET names == SetToSeq(DOMAIN f)
      sum[k \in 0 .. Len(names)] ==
        IF k = 0 THEN 0 ELSE sum[k - 1] + f[names[k]]
  IN  sum[Len(names)]
ExecutorCols ==
  LET cols == Total([o \in Outputs |-> IF Slots[o] = 0 THEN 1 ELSE Slots[o]])
  IN  IF cols = 0 THEN 1 ELSE cols
\* Mutant of NumOutputs: room for a single output.
OneOutput == 1

NumOutputs == IF Total(Slots) > 0 THEN Total(Slots) ELSE ExecutorCols

\* run_graph looks for the first input's name only: without it, a lone tensor
\* is one flat matrix that holds the inputs as its columns.
SlotsPresent(ins) == First \in DOMAIN ins
Splits(ins) == ~SlotsPresent(ins) /\ Cardinality(DOMAIN ins) = 1

\* No inputs at all: an empty result, before anything is looked at.
Runs(ins) == ins = Empty \/ Splits(ins) \/ Inputs \subseteq DOMAIN ins

\* What the graph gets.  A tensor bound to an input's name is one column wide.
Fed(ins) ==
  IF Splits(ins)
  THEN LET n == CHOOSE x \in DOMAIN ins : TRUE
       IN  [i \in Inputs |-> IF n = Flat \/ i = First THEN ins[n]
                             ELSE Cell(ins[n].rows, Garbage)]
  ELSE [i \in Inputs |-> ins[i]]

\* Mutant of Selected: the filter's names are taken as they are.
Unfiltered == IF bound_outputs = {} THEN Outputs ELSE bound_outputs

Selected == IF bound_outputs = {} THEN Outputs ELSE Outputs \cap bound_outputs
Results(ins) == IF ins = Empty THEN Empty
                ELSE [o \in Selected |-> <<o, Fed(ins)>>]

\* Mutants of Push: results pile up behind the old ones; old ones stay.
AlwaysAppend(own, o, t) == Append(own, [name |-> o, tensor |-> t])
KeepFirst(own, o, t) ==
  IF \E i \in 1 .. Len(own) : own[i].name = o THEN own
  ELSE Append(own, [name |-> o, tensor |-> t])

\* Results moved into owned_outputs: in place where the name is known, behind
\* the others where it is not.  A vector at its capacity moves to storage twice
\* as large, and every handle into the old one dangles.
IndexOf(own, o) == {i \in 1 .. Len(own) : own[i].name = o}
Push(own, o, t) ==
  IF IndexOf(own, o) # {}
  THEN LET i == CHOOSE j \in IndexOf(own, o) : \A k \in IndexOf(own, o) : j <= k
       IN  [own EXCEPT ![i].tensor = t]
  ELSE Append(own, [name |-> o, tensor |-> t])
Grown(buf, n) ==
  IF n <= buf.capacity THEN buf
  ELSE [capacity |-> IF buf.capacity = 0 THEN 1 ELSE 2 * buf.capacity,
        moves    |-> buf.moves + 1]
Moved(own, buf, res) ==
  LET names == SetToSeq(DOMAIN res)
      after[k \in 0 .. Len(names)] ==
        IF k = 0 THEN [own |-> own, buf |-> buf]
        ELSE LET own1 == Push(after[k - 1].own, names[k], res[names[k]])
             IN  [own |-> own1, buf |-> Grown(after[k - 1].buf, Len(own1))]
  IN  after[Len(names)]

Done(status) == reply' = [status |-> status, want |-> None, got |-> None]

\* run() on ins and take_results().  A failed run changes nothing the caller
\* can read.
Execute(ins) ==
  IF Runs(ins)
  THEN LET m == Moved(owned_outputs, buffer, Results(ins))
       IN  /\ owned_outputs' = m.own
           /\ buffer' = m.buf
           /\ last' = Results(ins)
  ELSE UNCHANGED <<owned_outputs, buffer, last>>

\* The write to the caller's buffer: the first owned output of that name,
\* whichever run produced it.  want is what the call's own data would give.
Write(ins, o, data) ==
  LET found == IndexOf(owned_outputs', o)
  IN  IF ~Runs(ins) THEN Done("error")
      ELSE IF found = {} THEN Done("not_found")
      ELSE reply' = [status |-> "ok",
                     want   |-> <<o, data>>,
                     got    |-> owned_outputs'[CHOOSE i \in found : \A j \in found : i <= j].tensor]

-----------------------------------------------------------------------------
(***************************************************************************)
(* The calls                                                               *)
(***************************************************************************)

\* The reusable tensors of a registered schema are made for one row.
Schema(types, o) == [types |-> types, rows |-> 1, out |-> o,
                     cells |-> [i \in Inputs |-> Cell(1, Zeros)]]

\* A session whose owner has registered reg, if anything.
Created(reg) ==
  /\ bound_inputs = Empty
  /\ bound_outputs = {}
  /\ owned_outputs = << >>
  /\ buffer = [capacity |-> NumOutputs, moves |-> 0]
  /\ reg_cols = reg
  /\ last = Empty
  /\ reply = [status |-> "ok", want |-> None, got |-> None]

SInit == Created(None)

BindInput(n, v) ==
  /\ bound_inputs' = [m \in DOMAIN bound_inputs \cup {n} |->
                        IF m = n THEN Cell(1, v) ELSE bound_inputs[m]]
  /\ Done("ok")
  /\ UNCHANGED <<bound_outputs, owned_outputs, buffer, reg_cols, last>>

BindOutput(o) ==
  /\ bound_outputs' = bound_outputs \cup {o}
  /\ Done("ok")
  /\ UNCHANGED <<bound_inputs, owned_outputs, buffer, reg_cols, last>>

ClearInputs ==
  /\ bound_inputs' = Empty
  /\ Done("ok")
  /\ UNCHANGED <<bound_outputs, owned_outputs, buffer, reg_cols, last>>

ClearOutputs ==
  /\ bound_outputs' = {}
  /\ Done("ok")
  /\ UNCHANGED <<bound_inputs, owned_outputs, buffer, reg_cols, last>>

Run ==
  /\ Execute(bound_inputs)
  /\ Done(IF Runs(bound_inputs) THEN "ok" ELSE "error")
  /\ UNCHANGED <<bound_inputs, bound_outputs, reg_cols>>

\* The tensor get_output(o) answers with, or None.
Answer(o) ==
  LET found == IndexOf(owned_outputs, o)
  IN  IF found = {} THEN None
      ELSE owned_outputs[CHOOSE i \in found : \A j \in found : i <= j].tensor

GetOutput(o) ==
  /\ IndexOf(owned_outputs, o) # {}
  /\ Done("ok")
  /\ UNCHANGED <<bound_inputs, bound_outputs, owned_outputs, buffer, reg_cols, last>>

GetOutputFails(o) ==
  /\ IndexOf(owned_outputs, o) = {}
  /\ Done("not_found")
  /\ UNCHANGED <<bound_inputs, bound_outputs, owned_outputs, buffer, reg_cols, last>>

\* The whole matrix as one tensor; it stays bound behind the call.
PredictF32(n, v, o) ==
  LET ins == [m \in {n} |-> Cell(1, v)]
  IN  /\ bound_inputs' = ins
      /\ Execute(ins)
      /\ Write(ins, o, [i \in Inputs |-> Cell(1, v)])
      /\ UNCHANGED <<bound_outputs, reg_cols>>

\* A column built for the call: zeros, or empty strings, where data is NULL.
Fresh(n, v) == Cell(n, IF v = Null THEN Zeros ELSE v)

BindColumns(n, data) ==
  /\ bound_inputs' = [i \in Inputs |-> Fresh(n, data[i])]
  /\ Done("ok")
  /\ UNCHANGED <<bound_outputs, owned_outputs, buffer, reg_cols, last>>

PredictColumns(n, data, o) ==
  LET ins == [i \in Inputs |-> Fresh(n, data[i])]
  IN  /\ bound_inputs' = ins
      /\ Execute(ins)
      /\ Write(ins, o, ins)
      /\ UNCHANGED <<bound_outputs, reg_cols>>

RegisterColumns(types, o) ==
  /\ reg_cols' = Schema(types, o)
  /\ Done("ok")
  /\ UNCHANGED <<bound_inputs, bound_outputs, owned_outputs, buffer, last>>

\* How a column of type t reads data that was lent as type s.
ReadAs(t, s, v) == IF t = s THEN v ELSE Garbage

\* Mutant of Filled: tensors of the right size are not filled again.
FilledOnce(n, types, data) ==
  [i \in Inputs |->
     IF n = reg_cols.rows THEN reg_cols.cells[i]
     ELSE Cell(n, IF data[i] = Null THEN Zeros
                  ELSE ReadAs(reg_cols.types[i], types[i], data[i]))]

\* The tensors predict_registered fills: in place when the number of rows is
\* the one they have, where a NULL numeric column keeps what it held; anew when
\* it is not.
Filled(n, types, data) ==
  [i \in Inputs |->
     LET t == reg_cols.types[i]
     IN  IF data[i] # Null THEN Cell(n, ReadAs(t, types[i], data[i]))
         ELSE IF n = reg_cols.rows /\ t # "str" THEN reg_cols.cells[i]
         ELSE Cell(n, Zeros)]

PredictRegistered(n, types, data) ==
  /\ reg_cols # None
  /\ LET ins == Filled(n, types, data)
     IN  /\ reg_cols' = [reg_cols EXCEPT !.cells = ins, !.rows = n]
         /\ Execute(ins)
         /\ Write(ins, reg_cols.out, [i \in Inputs |-> Fresh(n, data[i])])
         /\ UNCHANGED <<bound_inputs, bound_outputs>>

PredictUnregistered ==
  /\ reg_cols = None
  /\ Done("error")
  /\ UNCHANGED <<bound_inputs, bound_outputs, owned_outputs, buffer, reg_cols, last>>

-----------------------------------------------------------------------------
(***************************************************************************)
(* What an application calls                                               *)
(***************************************************************************)

Bind ==
  \/ \E n \in Inputs \cup {Flat}, v \in Vals : BindInput(n, v)
  \/ ClearInputs

Ask == \E o \in Outputs : GetOutput(o) \/ GetOutputFails(o)

Choose ==
  \/ \E o \in Outputs \cup {Other} : BindOutput(o)
  \/ ClearOutputs

Predict ==
  \/ \E v \in Vals, o \in Asked : PredictF32(Flat, v, o)
  \/ \E n \in RowCounts, data \in [Inputs -> Lent], o \in Asked :
       BindColumns(n, data) \/ PredictColumns(n, data, o)

\* The types of the data match the registered ones, as c_api.h asks.
Registered ==
  \/ \E types \in [Inputs -> Types], o \in Asked : RegisterColumns(types, o)
  \/ \E n \in RowCounts, data \in [Inputs -> Lent] :
       reg_cols # None /\ PredictRegistered(n, reg_cols.types, data)
  \/ PredictUnregistered

SNext == Bind \/ Run \/ Ask \/ Choose \/ Predict \/ Registered

-----------------------------------------------------------------------------

Cells   == [rows : Nat, val : Vals \cup {Zeros, Garbage}]
Tensors == Outputs \X [Inputs -> Cells]

STypeOK ==
  /\ DOMAIN bound_inputs \subseteq Inputs \cup {Flat}
  /\ bound_inputs \in [DOMAIN bound_inputs -> Cells]
  /\ bound_outputs \subseteq Outputs \cup {Other}
  /\ owned_outputs \in Seq([name : Outputs, tensor : Tensors])
  /\ buffer \in [capacity : Int, moves : Nat]
  /\ \/ reg_cols = None
     \/ reg_cols \in [types : [Inputs -> {"f32", "f64", "str"}], rows : Nat,
                      cells : [Inputs -> Cells], out : Outputs]
  /\ DOMAIN last \subseteq Outputs /\ last \in [DOMAIN last -> Tensors]
  /\ reply.status \in {"ok", "error", "not_found"}

\* The results of the last run are all there: get_output answers with them,
\* under each name once, whatever runs and failures came before
\* (c_api.cpp:363-380).
LastRunAnswered ==
  /\ \A o \in DOMAIN last : Answer(o) = last[o]
  /\ \A i, j \in 1 .. Len(owned_outputs) :
       owned_outputs[i].name = owned_outputs[j].name => i = j

\* A handle get_output returned points at its output for as long as the session
\* lives (c_api.cpp:99-101, 363-364): owned_outputs, whose elements the handles
\* are the addresses of, never moves.
HandleStable == buffer.moves = 0

\* What a predict call writes is the output it was asked for, of the data it
\* was given: nothing of an earlier call shows through, unless the session's
\* bound outputs keep the run from making that output.
WritesThisCall ==
  reply.want # None /\ reply.want[1] \in DOMAIN last => reply.got = reply.want

=============================================================================
