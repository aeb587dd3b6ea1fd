----------------------------- MODULE MCModelLoad -----------------------------
\* Model files for ModelLoad: what they declare, carry and compute.
EXTENDS ModelLoad

\* Every version of up to five characters over two digits, the dot and one
\* character that does not belong.
AllVersions == UNION {[1 .. n -> {"0", "1", ".", "x"}] : n \in 0 .. 5}

\* One version of each kind.
SomeVersions == {<< >>, <<"0", ".", "1", ".", "0">>, <<"1", ".", "0">>, <<"x">>}

\* Cases that resolve and run, with up to two outputs, and two that do not.
CasesOver(outcomes) ==
  [refs : {TRUE}, runs : {TRUE},
   outputs : {os \in SUBSET outcomes : Cardinality(os) <= 2}]
  \cup {[refs |-> r, runs |-> FALSE, outputs |-> {}] : r \in BOOLEAN}
UpToTwo(S) == UNION {[1 .. n -> S] : n \in 0 .. 2}

CaseLists == {<< >>, <<[refs |-> TRUE, runs |-> TRUE, outputs |-> {"mismatch"}]>>}
NumberCases == UpToTwo(CasesOver(Outcomes \ {"nan"}))

SomeWarmups ==
  {<< >>,
   <<[refs |-> TRUE, runs |-> TRUE, repeat |-> 0], [refs |-> TRUE, runs |-> TRUE, repeat |-> 1]>>,
   <<[refs |-> TRUE, runs |-> TRUE, repeat |-> 2], [refs |-> TRUE, runs |-> FALSE, repeat |-> 1]>>}

\* Every version on a model that carries nothing, and everything a model can
\* carry with one version of each kind.
NumberModels ==
  (AllVersions \X {<< >>} \X {<< >>}) \cup (SomeVersions \X NumberCases \X SomeWarmups)

AllOptions == [run_verification : BOOLEAN, run_warmup : BOOLEAN]

-----------------------------------------------------------------------------
Kernel(id, gathers, in, out) ==
  [kind |-> "operator", id |-> id, gathers |-> gathers, in |-> in, out |-> out]
Op(id, in, out) == Kernel(id, TRUE, in, out)
Composite(in, out, ia, oa, inner) ==
  [kind |-> "composite", in |-> in, out |-> out, in_aliases |-> ia,
   out_aliases |-> oa, nodes |-> inner]
Model(ins, fs, ns, outs) ==
  [inputs |-> ins, features |-> fs, nodes |-> ns, outputs |-> outs]

TwoInputs == ("x" :> 1) @@ ("y" :> 1)

-----------------------------------------------------------------------------
\* A composite of one or two operators between an input and a node that reads
\* what it made, with every choice of inner names and aliases.

Inner(id) == {Op(id, in, <<out>>) : in \in {<<"x">>, <<"p">>, <<"q">>, <<"p", "k">>},
                                    out \in {"x", "y", "p", "q", "z"}}
InnerLists == {<<n>> : n \in Inner("c1")} \cup {<<n, m>> : n \in Inner("c1"), m \in Inner("c2")}
InAliases  == {<< >>, <<<<"x", "p">>>>, <<<<"x", "q">>>>}
OutAliases == {<< >>, <<<<"q", "z">>>>, <<<<"p", "z">>>>}
Readers    == {<<"z">>, <<"z", "y">>, <<"x", "z">>}

Composites ==
  {Model(TwoInputs, << >>,
         <<Composite(<<"x">>, <<"z">>, ia, oa, inner), Op("r", reads, <<"out">>)>>, {"out"}) :
     ia \in InAliases, oa \in OutAliases, inner \in InnerLists, reads \in Readers}

\* Two composites in a row, with the same names inside and out in many ways, and
\* a node that changes what lies between them.
Halves(in, out) ==
  {Composite(<<in>>, <<out>>, ia, oa, <<Op("c", <<i>>, <<"t">>), Kernel("d", FALSE, <<"t", i>>, <<o>>)>>) :
     ia \in {<< >>, <<<<in, "p">>>>}, oa \in {<< >>, <<<<"q", out>>>>, <<<<"p", out>>>>},
     i \in {in, "p"}, o \in {out, "q"}}
Chains ==
  {Model(TwoInputs, << >>, <<one, Op("m", <<"z">>, over), two>>, {"out"}) :
     one \in Halves("x", "z"), two \in Halves("z", "out"), over \in {<<"z">>, <<"t">>, <<"u", "u">>}}

-----------------------------------------------------------------------------
\* Features of one wide input, read by an operator or by a composite.

Feature(n, s, c) == [name |-> n, source |-> s, col |-> c]
InOrder == <<Feature("f", "w", 1), Feature("g", "w", 2)>>
OutOfOrder == <<Feature("f", "w", 2), Feature("g", "w", 1)>>
Apart == <<Feature("f", "w", 1), Feature("g", "v", 1)>>
Wide == ("w" :> 2) @@ ("v" :> 1)

FeatureReads == {<<"f", "g">>, <<"g", "f">>, <<"f">>, <<"g">>, <<"f", "g", "v">>, <<"v">>, <<"w">>}

\* Features named like inputs, and a reader that takes its inputs one by one or
\* is a composite.
Inputs == Feature("w", "w", 1)
Overlaid ==
  {Model(Wide, fs, <<Kernel("a", gathers, FeatureNames(fs), <<"s">>),
                     Composite(<<"s", "v">>, <<"t">>, << >>, << >>, <<Op("c", <<"v", "s">>, <<inner>>),
                                                                    Op("d", <<inner>>, <<"t">>)>>)>>,
         {"s", "t"}) :
     gathers \in BOOLEAN, inner \in {"p", "s", "f", "batch"},
     fs \in {<<Inputs>>, <<Inputs, Feature("g", "w", 2)>>, <<Feature("w", "w", 2)>>,
             <<Feature("v", "v", 1), Feature("w", "w", 2)>>,
             <<Feature("v", "w", 2), Feature("g", "v", 1)>>, InOrder}}

\* Two readers, each of some of the features.
Schemas ==
  {Model(Wide, fs, <<Op("a", one, <<"s">>), Op("b", two, <<"t">>)>>, outs) :
     fs \in {InOrder, OutOfOrder, Apart}, one \in FeatureReads,
     two \in {r \o <<"s">> : r \in FeatureReads} \cup FeatureReads,
     outs \in {{"s", "t"}, {"f", "t"}}}

-----------------------------------------------------------------------------
\* Every load of a model with a small graph, and every graph in a model that
\* loads without a word.

AllSources == {"bad_graph", "no_file", "good"}
Plain == Model(TwoInputs, << >>, <<Op("r", <<"x", "y">>, <<"out">>)>>, {"out"})
Quiet == [run_verification |-> FALSE, run_warmup |-> FALSE]
Eager == [run_verification |-> TRUE, run_warmup |-> TRUE]

AllGraphs == Composites \cup Chains \cup Schemas \cup Overlaid \cup {Plain}
Carrying == SomeVersions \X NumberCases \X SomeWarmups
Bare == AllVersions \X {<< >>} \X {<< >>}
VersionFiles == {"good"} \X Bare \X {Eager} \X {Plain}
Empty == <<<< >>, << >>, << >>>>
JustRun(graphs) == {"good"} \X {Empty} \X {Quiet} \X graphs
AllFiles ==
  ({"good"} \X Carrying \X AllOptions \X {Plain})
  \cup VersionFiles
  \cup ({"bad_graph", "no_file"} \X (SomeVersions \X CaseLists \X {<< >>}) \X AllOptions \X {Plain})
  \cup JustRun(AllGraphs)

\* A composite with names of its own.
Unaliased ==
  {g \in Composites : LET c == g.nodes[1]
                      IN  c.in_aliases = << >> /\ c.out_aliases = << >> /\ "z" \in Written(c)}
CompositeFiles == JustRun(Unaliased)

=============================================================================
