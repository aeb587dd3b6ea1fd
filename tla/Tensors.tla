------------------------------- MODULE Tensors -------------------------------
(***************************************************************************)
(* Tensors as the graph's kernels see them: a table of cells and the width *)
(* they are stored in (include/omle/tensor.h, src/width_dispatch.h, the    *)
(* helpers at the top of src/operator_registry.cpp).                       *)
(*                                                                         *)
(* Numbers are integers.  All of them are doubles; those up to Exact and,  *)
(* beyond, the multiples of Grain are floats, as the integers up to 2^24   *)
(* and the even ones are.  A share of a whole, a probability or a ratio,   *)
(* is counted in parts of One.  NaN is a model value.  A tensor is         *)
(* [type, cells].  A model's inputs are of type "f32", "f64" or "str", run *)
(* as the floats an integer or sparse one is turned into; labels are "i64" *)
(* and "i32", and "csr" is a sparse tensor of floats, whose cells are      *)
(* those it expands to.  A string cell is a string.                        *)
(***************************************************************************)
EXTENDS Integers, Sequences, SequencesExt, FiniteSetsExt, Functions, TLC

CONSTANTS
  NaN,
  Exact,   \* floats are exact up to here
  Grain,   \* and that far apart beyond
  One      \* the parts of a whole

Abs(v) == IF v < 0 THEN -v ELSE v
Least(a, b) == IF a < b THEN a ELSE b

\* The conversion of a double to float.
Narrow(v) ==
  IF v = NaN THEN NaN
  ELSE IF Abs(v) <= Exact THEN v
  ELSE ((v + Grain \div 2) \div Grain) * Grain

\* Arithmetic and comparison with NaN.
Plus(a, b)  == IF NaN \in {a, b} THEN NaN ELSE a + b
Minus(a, b) == IF NaN \in {a, b} THEN NaN ELSE a - b
Times(a, b) == IF NaN \in {a, b} THEN NaN ELSE a * b
Over(a, b)  == IF NaN \in {a, b} THEN NaN
               ELSE IF b < 0 THEN (-a) \div (-b) ELSE a \div b
Less(a, b)  == NaN \notin {a, b} /\ a < b
Sum(s)      == LET to[i \in 0 .. Len(s)] == IF i = 0 THEN 0 ELSE Plus(to[i - 1], s[i]) IN to[Len(s)]

\* The part of the whole w that a is.
ShareOf(a, w) == Over(Times(One, a), w)

-----------------------------------------------------------------------------

\* Mutant of Hold: a float buffer keeps what it is given.
HoldWhole(type, v) == v

\* One element stored at a width: OutBuf::set, set_at.
Hold(type, v) == IF type = "f32" THEN Narrow(v) ELSE v

\* A sequence, each element of it computed once.
Written(s) == SubSeq(s, 1, Len(s))

\* A result buffer filled from a table of values.
Stored(type, table) ==
  LET cell(row) == Written([c \in DOMAIN row |-> Hold(type, row[c])])
  IN  [type |-> type, cells |-> Written([r \in DOMAIN table |-> cell(table[r])])]

NRows(t) == Len(t.cells)
NCols(t) == Len(t.cells[1])

\* Tensor::get: a tensor of one element is a scalar and answers for every index,
\* and a string reads 0.
Get(t, r, c) ==
  IF t.type = "str" THEN 0
  ELSE IF NRows(t) = 1 /\ NCols(t) = 1 THEN t.cells[1][1] ELSE t.cells[r][c]

\* to_float32, to_float64.
Converted(t, type) ==
  Stored(type, [r \in 1 .. NRows(t) |-> [c \in 1 .. NCols(t) |-> Get(t, r, c)]])

\* Mutant of Width: every result is a float32.
WidthFloat(t) == "f32"

\* wants_f64: double in, double out.
Width(t) == IF t.type = "f64" THEN "f64" ELSE "f32"

\* Mutant of AnyF64: the first input decides.
FirstF64(ts) == IF ts # << >> /\ ts[1].type = "f64" THEN "f64" ELSE "f32"

\* any_f64: the result is as wide as the widest input.
AnyF64(ts) == IF \E i \in 1 .. Len(ts) : ts[i].type = "f64" THEN "f64" ELSE "f32"

\* concat_inputs: the inputs side by side.
Beside(ts) ==
  Stored(AnyF64(ts),
         [r \in 1 .. NRows(ts[1]) |->
            FlattenSeq([i \in 1 .. Len(ts) |-> [c \in 1 .. NCols(ts[i]) |-> Get(ts[i], r, c)]])])

\* Tensor::to_sparse: the elements greater in size than zero are kept, which a
\* NaN is not.
Sparsed(t) ==
  [type  |-> "csr",
   cells |-> [r \in DOMAIN t.cells |-> [c \in DOMAIN t.cells[r] |->
                IF t.cells[r][c] = NaN THEN 0 ELSE t.cells[r][c]]]]

\* What a sparse tensor is expanded to.
Dense(t) == IF t.type = "csr" THEN [t EXCEPT !.type = "f32"] ELSE t

\* The elements in storage order: flat_get.
Flat(t) == FlattenSeq(t.cells)

-----------------------------------------------------------------------------
(***************************************************************************)
(* What a kernel is called with: x has the tensors it reads, in; how many  *)
(* names it writes, outs; its attributes, attrs; and the constants its     *)
(* attributes name, refs, as the model file declares them.                 *)
(***************************************************************************)

NoTensor == [type |-> "none", cells |-> << >>]

Attr(x, name, def) == IF name \in DOMAIN x.attrs THEN x.attrs[name] ELSE def
Rows(x) == 1 .. NRows(x.in[1])
Cols(t) == 1 .. NCols(t)

\* The constant as the loader stores it under its own name: a double narrowed.
Stowed(t) == IF t.type = "f64" THEN Converted(t, "f32") ELSE t

\* resolve_t: the input at the slot, else the constant the attribute names.
Resolve(x, slot, name) ==
  IF slot <= Len(x.in) THEN x.in[slot]
  ELSE IF name \in DOMAIN x.refs THEN Stowed(x.refs[name]) ELSE NoTensor

\* Mutant of Resolve64: the constant under its own name.
ResolveNarrowed(x, slot, name) == Resolve(x, slot, name)

\* resolve_t64: the undegraded twin of a double constant before everything else.
Resolve64(x, slot, name) ==
  IF name \in DOMAIN x.refs /\ x.refs[name].type = "f64" THEN x.refs[name]
  ELSE Resolve(x, slot, name)

\* A parameter's elements, or a default for each.
FlatOr(t, n, def) == IF t = NoTensor THEN [i \in 1 .. n |-> def] ELSE Flat(t)

Nothing == [ok |-> TRUE, out |-> << >>]
Gives(ts) == [ok |-> TRUE, out |-> ts]
Refuses == [ok |-> FALSE, out |-> << >>]

=============================================================================
