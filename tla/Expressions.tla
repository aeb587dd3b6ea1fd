----------------------------- MODULE Expressions -----------------------------
(***************************************************************************)
(* The interpreter of expressions (src/expression_eval.cpp) and the two    *)
(* operators that call it, Derive and Compute.                             *)
(*                                                                         *)
(* An expression is [kind |-> "lit", value], [kind |-> "col", name] or     *)
(* [kind |-> "call", fn, args].  A scope is a function from names to       *)
(* tensors.  The functions a model defines are [name -> [params, body]].   *)
(* Functions whose values are not whole numbers, the logarithms, powers of *)
(* e and angles, are left out; rounding is the identity and is left out.   *)
(***************************************************************************)
EXTENDS Tensors

CONSTANTS
  Depth   \* how deep calls of model functions nest

Column(vals) == [ok |-> TRUE, col |-> vals]
NoColumn == [ok |-> FALSE, col |-> << >>]

Truth(b) == IF b THEN 1 ELSE 0

\* ScalarVal::as_double.
AsDouble(v) ==
  CASE v.kind = "bool"   -> Truth(v.value)
    [] v.kind = "number" -> v.value
    [] OTHER             -> NaN

\* fmod, which has the sign of the dividend.
Mod(a, b) ==
  IF NaN \in {a, b} \/ b = 0 THEN NaN
  ELSE IF a < 0 THEN -((-a) % Abs(b)) ELSE a % Abs(b)

\* fn_table, functions of one argument.  A comparison with NaN is false.
Unary ==
  [negate |-> 1, neg |-> 1, abs |-> 1, square |-> 1, sign |-> 1, relu |-> 1,
   logical_not |-> 1, not |-> 1, is_missing |-> 1, is_not_missing |-> 1]
Apply1(fn, v) ==
  CASE fn \in {"negate", "neg"}      -> Minus(0, v)
    [] fn = "abs"                    -> IF v = NaN THEN NaN ELSE Abs(v)
    [] fn = "square"                 -> Times(v, v)
    [] fn = "sign"                   -> IF Less(0, v) THEN 1 ELSE IF Less(v, 0) THEN -1 ELSE 0
    [] fn = "relu"                   -> IF Less(0, v) THEN v ELSE 0
    [] fn \in {"logical_not", "not"} -> Truth(v = 0)
    [] fn = "is_missing"             -> Truth(v = NaN)
    [] fn = "is_not_missing"         -> Truth(v # NaN)

\* Functions of two.  NaN differs from everything and is not zero.
Binary ==
  [add |-> 2, subtract |-> 2, sub |-> 2, multiply |-> 2, mul |-> 2, divide |-> 2, div |-> 2,
   mod |-> 2, min |-> 2, max |-> 2, equal |-> 2, not_equal |-> 2,
   less |-> 2, less_than |-> 2, less_or_equal |-> 2,
   greater |-> 2, greater_than |-> 2, greater_or_equal |-> 2,
   logical_and |-> 2, and |-> 2, logical_or |-> 2, or |-> 2]
Same(a, b) == NaN \notin {a, b} /\ a = b
Apply2(fn, a, b) ==
  CASE fn = "add"                         -> Plus(a, b)
    [] fn \in {"subtract", "sub"}         -> Minus(a, b)
    [] fn \in {"multiply", "mul"}         -> Times(a, b)
    [] fn \in {"divide", "div"}           -> IF b = 0 THEN NaN ELSE Over(a, b)
    [] fn = "mod"                         -> Mod(a, b)
    [] fn = "min"                         -> IF Less(b, a) THEN b ELSE a
    [] fn = "max"                         -> IF Less(a, b) THEN b ELSE a
    [] fn = "equal"                       -> Truth(Same(a, b))
    [] fn = "not_equal"                   -> Truth(~Same(a, b))
    [] fn \in {"less", "less_than"}       -> Truth(Less(a, b))
    [] fn = "less_or_equal"               -> Truth(Less(a, b) \/ Same(a, b))
    [] fn \in {"greater", "greater_than"} -> Truth(Less(b, a))
    [] fn = "greater_or_equal"            -> Truth(Less(b, a) \/ Same(a, b))
    [] fn \in {"logical_and", "and"}      -> Truth(a # 0 /\ b # 0)
    [] fn \in {"logical_or", "or"}        -> Truth(a # 0 \/ b # 0)

\* What eval_apply computes itself, row by row; args[k][i] is argument k in row i.
\* clamp has std::min inside std::max, each of which keeps its first argument when
\* a comparison with NaN is false; the slope of leaky_relu is that of the first
\* row, a hundredth if it has none.
Special(fn, args, n) ==
  CASE fn = "if" /\ Len(args) = 3 ->
         [i \in 1 .. n |-> IF args[1][i] # 0 THEN args[2][i] ELSE args[3][i]]
    [] fn = "clamp" /\ Len(args) = 3 ->
         [i \in 1 .. n |-> Apply2("max", args[2][i], Apply2("min", args[1][i], args[3][i]))]
    [] fn = "coalesce" ->
         [i \in 1 .. n |-> FoldLeft(LAMBDA a, col : IF a = NaN THEN col[i] ELSE a, NaN, args)]
    [] fn \in {"fill_missing", "replace_missing"} /\ Len(args) = 2 ->
         [i \in 1 .. n |-> IF args[1][i] = NaN THEN args[2][i] ELSE args[1][i]]
    [] fn = "leaky_relu" /\ Len(args) >= 1 ->
         LET below(v) == IF Len(args) >= 2 THEN Times(args[2][1], v) ELSE Over(v, 100)
         IN  [i \in 1 .. n |-> IF Less(0, args[1][i]) THEN args[1][i] ELSE below(args[1][i])]
    [] OTHER -> << >>

\* String functions, which give NaN for every row.
StringFns ==
  {"concat", "lower", "upper", "trim", "ltrim", "rtrim", "substring", "substr", "left", "right",
   "length", "char_length", "regexp_replace", "replace", "split", "lpad", "rpad", "repeat",
   "reverse", "initcap", "translate", "ascii", "base64", "unbase64", "decode", "encode",
   "format_string", "printf", "nvl", "nvl2"}

\* fn_base: a built-in function goes by its bare name or with its namespace.
Namespace == "omle.functions."
FnBase(fn) ==
  IF Len(fn) > Len(Namespace) /\ SubSeq(fn, 1, Len(Namespace)) = Namespace
  THEN SubSeq(fn, Len(Namespace) + 1, Len(fn)) ELSE fn

\* Mutant of FnScope: what the caller can see comes first.
FnScopeBelow(scope, params, args) ==
  scope @@ [p \in Range(params) |->
              LET k == Max({j \in DOMAIN params : params[j] = p})
              IN  [type |-> "f64", cells |-> [i \in DOMAIN args[k] |-> <<args[k][i]>>]]]

\* fn_vs: the parameters as columns of doubles, over what the caller can see.
FnScope(scope, params, args) ==
  [p \in Range(params) |->
     LET k == Max({j \in DOMAIN params : params[j] = p})
     IN  [type |-> "f64", cells |-> [i \in DOMAIN args[k] |-> <<args[k][i]>>]]] @@ scope

\* eval_expr and eval_apply: the arguments first, then built-in functions before
\* the model's, which go by their whole name.  A name nothing has is an exception,
\* an unknown function or a wrong number of arguments an error; both end the call.
RECURSIVE EvalExpr(_, _, _, _, _)
EvalApply(e, scope, fns, n, depth) ==
  LET evaluated == [k \in DOMAIN e.args |-> EvalExpr(e.args[k], scope, fns, n, depth)]
      args      == [k \in DOMAIN e.args |-> evaluated[k].col]
      base      == FnBase(e.fn)
  IN  IF \E k \in DOMAIN e.args : ~evaluated[k].ok THEN NoColumn
      ELSE IF Special(base, args, n) # << >> THEN Column(Special(base, args, n))
      ELSE IF base \in StringFns THEN Column([i \in 1 .. n |-> NaN])
      ELSE IF base \in DOMAIN Unary THEN Column([i \in 1 .. n |-> Apply1(base, args[1][i])])
      ELSE IF base \in DOMAIN Binary
           THEN Column([i \in 1 .. n |-> Apply2(base, args[1][i], args[2][i])])
      ELSE IF e.fn \notin DOMAIN fns \/ depth = 0 THEN NoColumn
      ELSE IF Len(fns[e.fn].params) # Len(args) THEN NoColumn
      ELSE EvalExpr(fns[e.fn].body, FnScope(scope, fns[e.fn].params, args), fns, n, depth - 1)

\* A column that holds strings is missing in every row.
EvalExpr(e, scope, fns, n, depth) ==
  CASE e.kind = "lit"  -> Column([i \in 1 .. n |-> AsDouble(e.value)])
    [] e.kind = "col"  ->
         IF e.name \notin DOMAIN scope THEN NoColumn
         ELSE IF scope[e.name].type = "str" THEN Column([i \in 1 .. n |-> NaN])
         ELSE Column([i \in 1 .. n |-> Get(scope[e.name], i, 1)])
    [] e.kind = "call" -> EvalApply(e, scope, fns, n, depth)

-----------------------------------------------------------------------------

\* The rows of the batch, also of a call that names no input.
BatchOf(x) ==
  NRows(IF x.in # << >> THEN x.in[1] ELSE x.scope[CHOOSE name \in DOMAIN x.scope : TRUE])

\* Compute: one column from the whole scope.
Compute(x) ==
  IF "expr" \notin DOMAIN x.attrs THEN Refuses
  ELSE LET got == EvalExpr(x.attrs["expr"], x.scope, x.fns, BatchOf(x), Depth)
       IN  IF ~got.ok THEN Refuses
           ELSE Gives(<<Stored(AnyF64(x.in), [r \in 1 .. BatchOf(x) |-> <<got.col[r]>>])>>)

\* Derive: a wide first input is derived column by column, each under the input's
\* name in a scope of its own.
Derive(x) ==
  LET t == x.in[1]
      column(c) == [type |-> "f64", cells |-> [r \in Rows(x) |-> <<Get(t, r, c)>>]]
      got == [c \in Cols(t) |->
                EvalExpr(x.attrs["expr"], (x.names[1] :> column(c)) @@ x.scope, x.fns, NRows(t), Depth)]
  IN  IF "expr" \notin DOMAIN x.attrs THEN Refuses
      ELSE IF x.in = << >> \/ NCols(t) <= 1 THEN Compute(x)
      ELSE IF \E c \in Cols(t) : ~got[c].ok THEN Refuses
      ELSE Gives(<<Stored(AnyF64(x.in), [r \in Rows(x) |-> [c \in Cols(t) |-> got[c].col[r]]])>>)

=============================================================================
