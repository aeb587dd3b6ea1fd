----------------------------- MODULE GraphLoader -----------------------------
(***************************************************************************)
(* What build_from_proto (src/graph_loader.cpp) makes of a model's graph,  *)
(* and what running it gives: the preprocessing node in batch mode, whose  *)
(* readers are pointed at one wide tensor, and composite nodes, which are  *)
(* inlined into the parent graph under renamed values.  The reference is   *)
(* the graph as the model file declares it, with every feature under its   *)
(* own name and every composite run by CompositeNode::execute.             *)
(*                                                                         *)
(* A tensor is the sequence of its columns.  A column is a term: a raw     *)
(* input column, a column the schema has screened, a constant, or an       *)
(* output of an operator applied to the tensors it was given.  An operator *)
(* node is [kind, id, gathers, in, out]: a kernel that gathers puts its    *)
(* inputs side by side into one tensor, another reads them one by one.  A  *)
(* composite has in_aliases and out_aliases, sequences of <<from, to>>,    *)
(* and its nodes besides, which are operators: composites in composites    *)
(* are left out.                                                           *)
(***************************************************************************)
EXTENDS Integers, FiniteSets, Sequences, SequencesExt, Functions

CONSTANTS
  Graphs,     \* models: [inputs, features, nodes, outputs]
  Constants,  \* names of the tensor entries
  BatchKey    \* batch_key

IsList(x) == x \in Seq(Range(x))

IsOperator(n) ==
  /\ n.kind = "operator"
  /\ n = [kind |-> n.kind, id |-> n.id, gathers |-> n.gathers, in |-> n.in, out |-> n.out]
  /\ n.gathers \in BOOLEAN
  /\ IsList(n.in) /\ IsList(n.out)

IsComposite(n) ==
  /\ n.kind = "composite"
  /\ n = [kind |-> n.kind, in |-> n.in, out |-> n.out, in_aliases |-> n.in_aliases,
          out_aliases |-> n.out_aliases, nodes |-> n.nodes]
  /\ IsList(n.in) /\ IsList(n.out)
  /\ IsList(n.in_aliases) /\ IsList(n.out_aliases)
  /\ \A a \in Range(n.in_aliases) \cup Range(n.out_aliases) : a = <<a[1], a[2]>>
  /\ IsList(n.nodes) /\ \A i \in 1 .. Len(n.nodes) : IsOperator(n.nodes[i])

ASSUME GraphAssumption ==
  \A g \in Graphs :
    \* inputs[n]: how many columns input n has; a feature reads a column of one
    /\ \A n \in DOMAIN g.inputs : g.inputs[n] \in Nat \ {0}
    /\ IsList(g.features)
    /\ \A i \in 1 .. Len(g.features) :
         /\ g.features[i].source \in DOMAIN g.inputs
         /\ g.features[i].col \in 1 .. g.inputs[g.features[i].source]
    /\ BatchKey \notin DOMAIN g.inputs \cup Constants
    /\ IsList(g.nodes)
    /\ \A i \in 1 .. Len(g.nodes) : IsOperator(g.nodes[i]) \/ IsComposite(g.nodes[i])

VARIABLES
  graph,  \* the model
  stage,  \* what the loader or the executor is at
  nodes,  \* exec->nodes
  vs,     \* the call's ValueStore: [ok, values]
  pc      \* the node to run next

glvars == <<graph, stage, nodes, vs, pc>>

-----------------------------------------------------------------------------
(***************************************************************************)
(* ValueStore and the nodes                                                *)
(***************************************************************************)

Scope(values) == [ok |-> TRUE, values |-> values]
Broken == [ok |-> FALSE, values |-> << >>]

Has(s, n) == n \in DOMAIN s.values \cup Constants
Get(s, n) == IF n \in DOMAIN s.values THEN s.values[n] ELSE <<<<"constant", n>>>>
\* Tensors put into a store replace those of their names.
Stored(new, values) ==
  [n \in DOMAIN new \cup DOMAIN values |-> IF n \in DOMAIN new THEN new[n] ELSE values[n]]
Put(s, n, t) == Scope(Stored([x \in {n} |-> t], s.values))

\* What a kernel works on: gather_slots puts the inputs side by side.
Args(s, node) ==
  LET tensors == [i \in 1 .. Len(node.in) |-> Get(s, node.in[i])]
  IN  IF node.gathers THEN <<FlattenSeq(tensors)>> ELSE tensors

\* Of several outputs of one name the last stays.
RunOperator(s, node) ==
  IF s.ok /\ \A n \in Range(node.in) : Has(s, n)
  THEN Scope(Stored([n \in Range(node.out) |->
                       <<<<node.id, Max({j \in 1 .. Len(node.out) : node.out[j] = n}),
                           Args(s, node)>>>>],
                    s.values))
  ELSE Broken

\* What an alias list makes of a name: the last entry for it, or the name.
Aliased(aliases, n, from, to) ==
  LET is == {i \in 1 .. Len(aliases) : aliases[i][from] = n}
  IN  IF is = {} THEN n ELSE aliases[Max(is)][to]
Inward(node, n)  == Aliased(node.in_aliases, n, 1, 2)
Outward(node, n) == Aliased(node.out_aliases, n, 2, 1)

\* The scope a composite's nodes start from: the inputs, under their aliases.
Entered(s, node) ==
  Scope([r \in {Inward(node, n) : n \in Range(node.in)} |->
           Get(s, node.in[Max({i \in 1 .. Len(node.in) : Inward(node, node.in[i]) = r})])])
Inside(s, node) ==
  LET after[i \in 0 .. Len(node.nodes)] ==
        IF i = 0 THEN Entered(s, node) ELSE RunOperator(after[i - 1], node.nodes[i])
  IN  after

\* CompositeNode::execute: a scope of its own, which sees the inputs and the
\* constants; the outputs are copied out.
RunComposite(s, node) ==
  LET inner == Inside(s, node)[Len(node.nodes)]
  IN  IF /\ s.ok /\ \A n \in Range(node.in) : Has(s, n)
         /\ inner.ok /\ \A n \in Range(node.out) : Has(inner, Outward(node, n))
      THEN Scope(Stored([n \in Range(node.out) |-> Get(inner, Outward(node, n))], s.values))
      ELSE Broken

\* ModelSchemaNode::execute: one wide tensor, or a tensor for each feature.
Column(s, f) ==
  LET t == Get(s, f.source) IN IF f.col <= Len(t) THEN t[f.col] ELSE <<"outside", f.source>>
Screened(s, node) ==
  LET after[i \in 0 .. Len(node.features)] ==
        IF i = 0 THEN s
        ELSE LET f == node.features[i]
             IN  Put(after[i - 1], f.name, <<<<"screened", Column(after[i - 1], f)>>>>)
  IN  after
RunSchema(s, node) ==
  IF node.batch
  THEN Put(s, BatchKey, [i \in 1 .. Len(node.features) |->
                           <<"screened", Column(s, node.features[i])>>])
  ELSE Screened(s, node)[Len(node.features)]

RunNode(s, node) ==
  CASE node.kind = "operator"  -> RunOperator(s, node)
    [] node.kind = "composite" -> RunComposite(s, node)
    [] node.kind = "schema"    -> RunSchema(s, node)

\* The store before the first of some nodes and after each.
Runs(s, ns) ==
  LET after[i \in 0 .. Len(ns)] == IF i = 0 THEN s ELSE RunNode(after[i - 1], ns[i])
  IN  after

-----------------------------------------------------------------------------
(***************************************************************************)
(* build_from_proto                                                        *)
(***************************************************************************)

\* build_schema_node: all features from one source, in the order of its
\* columns.
BatchMode(fs) ==
  /\ fs # << >>
  /\ \A i \in 1 .. Len(fs) : fs[i].source = fs[1].source /\ fs[i].col = i

SchemaNode(fs) == [kind |-> "schema", features |-> fs, batch |-> BatchMode(fs)]
FeatureNames(fs) == [i \in 1 .. Len(fs) |-> fs[i].name]

\* A node that reads the features, all of them in order, reads the wide tensor;
\* the place of a name two features have is that of the second.
Rewired(fs, node) ==
  IF BatchMode(fs) /\ node.in = FeatureNames(fs) /\ IsInjective(FeatureNames(fs))
  THEN [node EXCEPT !.in = <<BatchKey>>] ELSE node

\* Mutant of Outer: output aliases are forgotten.
OuterOfInputs(node, n) ==
  LET ins == {i \in 1 .. Len(node.in_aliases) :
                node.in_aliases[i][2] = n /\ node.in_aliases[i][1] # n}
  IN  IF ins # {} THEN node.in_aliases[Max(ins)][1] ELSE n

\* The rename map, internal names to those of the parent: output aliases go
\* before input aliases and later entries before earlier ones.
Outer(node, n) ==
  LET ins  == {i \in 1 .. Len(node.in_aliases) :
                 node.in_aliases[i][2] = n /\ node.in_aliases[i][1] # n}
      outs == {i \in 1 .. Len(node.out_aliases) :
                 node.out_aliases[i][1] = n /\ node.out_aliases[i][2] # n}
  IN  IF outs # {} THEN node.out_aliases[Max(outs)][2]
      ELSE IF ins # {} THEN node.in_aliases[Max(ins)][1] ELSE n
Renamed(node, ns) == [i \in 1 .. Len(ns) |-> Outer(node, ns[i])]

\* A composite's nodes, in its place.
Inlined(node) ==
  IF node.kind # "composite" THEN <<node>>
  ELSE [i \in 1 .. Len(node.nodes) |->
          [node.nodes[i] EXCEPT !.in = Renamed(node, @), !.out = Renamed(node, @)]]

Converted(g) == [i \in 1 .. Len(g.nodes) |-> Rewired(g.features, g.nodes[i])]
Flattened(fs, ns) ==
  (IF fs = << >> THEN << >> ELSE <<SchemaNode(fs)>>)
  \o FlattenSeq([i \in 1 .. Len(ns) |-> Inlined(ns[i])])

Raw(g) == [n \in DOMAIN g.inputs |-> [i \in 1 .. g.inputs[n] |-> <<"raw", n, i>>]]

\* The executor of model g, before its nodes are looked at.
Compiling(g) ==
  /\ graph = g
  /\ stage = "convert"
  /\ nodes = << >>
  /\ vs = Scope(<< >>)
  /\ pc = 0

Convert ==
  /\ stage = "convert"
  /\ stage' = "flatten"
  /\ nodes' = Converted(graph)
  /\ UNCHANGED <<graph, vs, pc>>

FlattenComposites ==
  /\ stage = "flatten"
  /\ stage' = "run"
  /\ nodes' = Flattened(graph.features, nodes)
  /\ vs' = Scope(Raw(graph))
  /\ pc' = 1
  /\ UNCHANGED graph

\* run_graph's loop over the nodes; what one throws ends the call.
ExecuteNode ==
  /\ stage = "run" /\ pc <= Len(nodes)
  /\ vs' = RunNode(vs, nodes[pc])
  /\ pc' = pc + 1
  /\ stage' = IF vs'.ok THEN "run" ELSE "failed"
  /\ UNCHANGED <<graph, nodes>>

Collect ==
  /\ stage = "run" /\ pc > Len(nodes)
  /\ stage' = IF \A o \in graph.outputs : Has(vs, o) THEN "done" ELSE "failed"
  /\ UNCHANGED <<graph, nodes, vs, pc>>

Compile == Convert \/ FlattenComposites
RunGraph == ExecuteNode \/ Collect

-----------------------------------------------------------------------------
(***************************************************************************)
(* The reference                                                           *)
(***************************************************************************)

\* Every feature under its own name, read from the input it was declared on.
Presented(g) ==
  LET fs == g.features
  IN  Stored([n \in Range(FeatureNames(fs)) |->
                LET i == Max({j \in 1 .. Len(fs) : fs[j].name = n})
                IN  <<<<"screened", Raw(g)[fs[i].source][fs[i].col]>>>>],
             Raw(g))
Declared(g) == Runs(Scope(Presented(g)), g.nodes)[Len(g.nodes)]

\* The model declares a graph that can be run.
Runnable(g) == Declared(g).ok /\ \A o \in g.outputs : Has(Declared(g), o)

\* What compiling a model must not change.
AsDeclared(g) ==
  stage = "done" /\ \A o \in g.outputs : Get(vs, o) = Get(Declared(g), o)

\* The names of a composite's inputs and outputs, each with its name inside.
Bound(node) ==
  {<<n, Inward(node, n)>> : n \in Range(node.in)}
  \cup {<<n, Outward(node, n)>> : n \in Range(node.out)}
Written(node) == UNION {Range(node.nodes[i].out) : i \in 1 .. Len(node.nodes)}
Used(node) == Written(node) \cup UNION {Range(node.nodes[i].in) : i \in 1 .. Len(node.nodes)}

\* The names the nodes of a model exchange, seen from outside of composites.
Visible(g) ==
  g.outputs \cup UNION {Range(g.nodes[i].in) \cup Range(g.nodes[i].out) : i \in 1 .. Len(g.nodes)}

\* A composite that can be inlined: its aliases are those of its inputs and
\* outputs, one for each, no two names share one; its inputs are not written
\* inside and its outputs are; its other names occur in none of the parent's nodes.
Inlinable(node, visible) ==
  LET within == {b[2] : b \in Bound(node)}
  IN  /\ \A a \in Range(node.in_aliases) : a[1] \in Range(node.in) /\ a[2] = Inward(node, a[1])
      /\ \A a \in Range(node.out_aliases) : a[2] \in Range(node.out) /\ a[1] = Outward(node, a[2])
      /\ \A a, b \in Bound(node) : a[1] = b[1] \/ a[2] = b[2] => a = b
      /\ \A n \in Range(node.in) : Inward(node, n) \notin Written(node)
      /\ \A n \in Range(node.out) : Outward(node, n) \in Written(node)
      /\ (Used(node) \ (within \cup Constants)) \cap visible = {}
      /\ Written(node) \cap Constants = {}

\* A constant's name is nothing else's, and every composite can be inlined.
Hygienic(g) ==
  /\ (DOMAIN g.inputs \cup Range(FeatureNames(g.features))) \cap Constants = {}
  /\ \A i \in 1 .. Len(g.nodes) :
       /\ Range(g.nodes[i].out) \cap Constants = {}
       /\ g.nodes[i].kind = "composite" => Inlinable(g.nodes[i], Visible(g))

\* Features have names of their own, none is read by a later feature, and where
\* they are one batch, every reader of one is an operator that gathers all of
\* them, in order (or there is only one), and nothing is written over them.
WholeBatch(g) ==
  LET fs    == g.features
      names == FeatureNames(fs)
  IN  /\ IsInjective(names)
      /\ ~BatchMode(fs) => \A i, j \in 1 .. Len(fs) : i < j => fs[j].source # fs[i].name
      /\ BatchMode(fs) =>
           /\ Range(names) \cap g.outputs = {}
           /\ \A i \in 1 .. Len(g.nodes) :
                LET node == g.nodes[i]
                IN  /\ Range(node.out) \cap ({BatchKey} \cup Range(names)) = {}
                    /\ \/ Range(node.in) \cap Range(names) = {}
                       \/ /\ node.kind = "operator" /\ node.in = names
                          /\ node.gathers \/ Len(fs) = 1
                    /\ node.kind = "composite" => BatchKey \notin Written(node)

-----------------------------------------------------------------------------

\* The compiled graph gives what the model file declares, where its names leave
\* nothing to clash: a composite "runs its sub-DAG in an isolated scope"
\* (README.md:485), and every node that reads a feature reads what the schema
\* made of it (README.md:489).
AsDeclaredIfHygienic ==
  /\ stage \in {"done", "failed"}
  /\ Hygienic(graph) /\ WholeBatch(graph) /\ Runnable(graph)
  => AsDeclared(graph)

\* A composite "runs its sub-DAG in an isolated scope" (README.md:485), whatever
\* the names inside are.
ScopesIsolated ==
  /\ stage \in {"done", "failed"}
  /\ WholeBatch(graph) /\ Runnable(graph)
  => AsDeclared(graph)

=============================================================================
