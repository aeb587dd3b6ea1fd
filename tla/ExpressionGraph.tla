--------------------------- MODULE ExpressionGraph ---------------------------
(***************************************************************************)
(* A graph with the interpreter of expressions behind Derive and Compute.  *)
(***************************************************************************)
EXTENDS OperatorGraph, Expressions

ExpressionKernel(x) == CASE x.op = "Derive" -> Derive(x) [] x.op = "Compute" -> Compute(x)

-----------------------------------------------------------------------------

\* An expression with the model's functions written out: each call is the body
\* with the arguments in place of the parameters.
RECURSIVE Substituted(_, _)
Substituted(e, binding) ==
  CASE e.kind = "lit"  -> e
    [] e.kind = "col"  -> IF e.name \in DOMAIN binding THEN binding[e.name] ELSE e
    [] e.kind = "call" -> [e EXCEPT !.args = [k \in DOMAIN @ |-> Substituted(@[k], binding)]]
RECURSIVE Unfolded(_, _, _)
Unfolded(e, fns, depth) ==
  IF e.kind # "call" \/ depth = 0 THEN e
  ELSE IF e.fn \notin DOMAIN fns
       THEN [e EXCEPT !.args = [k \in DOMAIN @ |-> Unfolded(@[k], fns, depth)]]
  ELSE LET params  == fns[e.fn].params
           binding == [p \in Range(params) |-> e.args[CHOOSE k \in DOMAIN params : params[k] = p]]
       IN  Unfolded(Substituted(fns[e.fn].body, binding), fns, depth - 1)

\* A call of a function the model defines means its definition, whatever the
\* columns around it and the functions it is called from are named.
CallsAreClosed ==
  \A node \in {m \in Ran : m.op = "Compute"} :
    LET e == Unfolded(node.attrs["expr"], job.fns, Depth)
        v == EvalExpr(e, vs, << >>, cut[slice], 0)
    IN  v.ok /\ \A r \in SliceRows : Out(node).cells[r][1] = Hold(Out(node).type, v.col[r])

=============================================================================
