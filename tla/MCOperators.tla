----------------------------- MODULE MCOperators -----------------------------
\* Models for ExpressionGraph: each puts a family of operators where their answers
\* can be told apart - values on a boundary, doubles no float holds, gaps, ties
\* that the order of a scan decides, features of unequal width.
EXTENDS ExpressionGraph

F(rows) == [type |-> "f32", cells |-> rows]
D(rows) == [type |-> "f64", cells |-> rows]
S(rows) == [type |-> "str", cells |-> rows]

None == << >>
N(op, in, out) == [op |-> op, in |-> in, out |-> out, attrs |-> None, refs |-> None]
NA(op, in, out, attrs) == [N(op, in, out) EXCEPT !.attrs = attrs]
NR(op, in, out, refs) == [N(op, in, out) EXCEPT !.refs = refs]
NAR(op, in, out, attrs, refs) == [NA(op, in, out, attrs) EXCEPT !.refs = refs]

Lit(v) == [kind |-> "lit", value |-> [kind |-> "number", value |-> v]]
Col(n) == [kind |-> "col", name |-> n]
Call(fn, args) == [kind |-> "call", fn |-> fn, args |-> args]
Derived(in, out, e) == NA("Derive", in, <<out>>, [expr |-> e])

\* A job whose outputs are all compared: the routes are sets of names.
Job(in, nodes, fns, routes, others) ==
  [in |-> in, nodes |-> nodes, fns |-> fns,
   outs |-> UNION routes \cup others,
   same |-> UNION {{<<a, b>> : a, b \in R} : R \in routes}]
J(in, nodes, routes) == Job(in, nodes, None, routes, {})
Plain(in, nodes, outs) == Job(in, nodes, None, {}, outs)

\* Every way to cut up to three rows.
AllCuts ==
  [n \in 1 .. 3 |-> CASE n = 1 -> {<<1>>}
                      [] n = 2 -> {<<2>>, <<1, 1>>}
                      [] n = 3 -> {<<3>>, <<1, 2>>, <<2, 1>>, <<1, 1, 1>>}]

Labels012 == <<1, 0, 2>>
Readings == ("2" :> 2) @@ ("5x" :> 5)

-----------------------------------------------------------------------------
\* Selecting and reshaping.

\* 101 and 103 are doubles only.
Wide == [t |-> D(<<<<1, 101, 3>>, <<103, 2, 101>>, <<5, 5, 0>>>>)]
Mixed == [a |-> F(<<<<1>>, <<2>>, <<3>>>>), b |-> D(<<<<101>>, <<103>>, <<7>>>>),
          i |-> F(<<<<0>>, <<1>>, <<5>>>>)]

CoreJobs ==
  {J(Wide, <<NA("Split", <<"t">>, <<"p", "q">>, [sections |-> <<1, 2>>]),
             N("Concat", <<"p", "q">>, <<"c">>),
             NA("Gather", <<"t">>, <<"g">>, [indices |-> <<2, 0, 1>>]),
             NA("Gather", <<"g">>, <<"h">>, [indices |-> <<1, 2, 0>>]),
             NA("TakeSlots", <<"q", "p">>, <<"s">>, [indices |-> <<2, 0, 1>>]),
             NA("Reshape", <<"t">>, <<"r">>, [new_shape |-> <<3>>]),
             N("Identity", <<"t">>, <<"d">>)>>,
     {{"c", "h", "s", "r", "d"}}),
   J(Mixed, <<N("Select", <<"i", "a", "b">>, <<"s">>),
              Derived(<<"b">>, "e", Call("if", <<Col("i"), Col("b"), Col("a")>>)),
              N("Concat", <<"a", "b">>, <<"c">>),
              NA("TakeSlots", <<"a", "b">>, <<"d">>, [indices |-> <<0, 1>>])>>,
     {{"s", "e"}, {"c", "d"}}),
   J([t |-> F(<<<<0, 3>>, <<4, 0>>, <<0, 0>>>>)],
     <<N("DenseToSparse", <<"t">>, <<"s">>), N("SparseToDense", <<"s">>, <<"d">>),
       NA("Cast", <<"t">>, <<"c">>, [output_dtype |-> "float32"])>>, {{"d", "c"}}),
   J([t |-> D(<<<<-5>>, <<101>>, <<7>>>>)],
     <<NA("Clip", <<"t">>, <<"c">>, [min |-> 0, max |-> 50]),
       Derived(<<"t">>, "e", Call("clamp", <<Col("t"), Lit(0), Lit(50)>>))>>, {{"c", "e"}}),
   \* scores with equal largest ones, and one that is missing
   J([t |-> F(<<<<3, 7, 7>>, <<9, 1, 9>>, <<NaN, 2, 4>>>>), z |-> F(<<<<0, 0, 0>>, <<0, 0, 0>>, <<0, 0, 0>>>>)],
     <<N("ArgMax", <<"t">>, <<"l">>)>>, {{"l"}}),
   J([t |-> F(<<<<3, 7, 7>>, <<9, 1, 9>>, <<1, 2, 4>>>>), z |-> F(<<<<0, 0, 0>>, <<0, 0, 0>>, <<0, 0, 0>>>>)],
     <<N("ArgMax", <<"t">>, <<"l">>), N("SelectByPrimarySecondaryScore", <<"t", "z">>, <<"m">>)>>,
     {{"l", "m"}}),
   Plain([t |-> F(<<<<7, 7>>, <<1, 1>>, <<2, 4>>>>), z |-> F(<<<<1, 2>>, <<2, 1>>, <<9, 0>>>>)],
     <<N("SelectByPrimarySecondaryScore", <<"t", "z">>, <<"m">>)>>, {"m"}),
   \* a sparse output, which has no storage to join; its grid is dense again
   Plain([t |-> F(<<<<0, 3>>, <<NaN, 0>>, <<5, 7>>>>)],
     <<N("DenseToSparse", <<"t">>, <<"s">>), NA("Reshape", <<"s">>, <<"r">>, [new_shape |-> <<2>>])>>,
     {"s", "r"})}

-----------------------------------------------------------------------------
\* Reductions and votes.

Three == [a |-> D(<<<<1>>, <<101>>, <<6>>>>), b |-> F(<<<<4>>, <<2>>, <<6>>>>),
          c |-> F(<<<<7>>, <<50>>, <<0>>>>)]
ABC == <<"a", "b", "c">>
Ballots == [a |-> F(<<<<1>>, <<0>>, <<2>>>>), b |-> F(<<<<1>>, <<2>>, <<2>>>>),
            c |-> F(<<<<0>>, <<2>>, <<1>>>>)]
Ones == [weights |-> <<1, 1, 1>>]

VoteJobs ==
  {J(Three, <<N("Sum", ABC, <<"s">>), NA("WeightedSum", ABC, <<"w">>, [weights |-> <<1, 1, 1>>]),
              Derived(ABC, "e", Call("add", <<Call("add", <<Col("a"), Col("b")>>), Col("c")>>)),
              N("Average", ABC, <<"v">>), NA("WeightedAverage", ABC, <<"u">>, Ones),
              N("Median", ABC, <<"m">>), NA("WeightedMedian", ABC, <<"n">>, Ones),
              N("Min", ABC, <<"x">>),
              Derived(ABC, "y", Call("min", <<Col("a"), Call("min", <<Col("b"), Col("c")>>)>>)),
              N("Max", ABC, <<"p">>),
              Derived(ABC, "q", Call("max", <<Col("a"), Call("max", <<Col("b"), Col("c")>>)>>))>>,
     {{"s", "w", "e"}, {"v", "u"}, {"m", "n"}, {"x", "y"}, {"p", "q"}}),
   J(Ballots, <<N("MajorityVote", ABC, <<"m">>), NA("WeightedMajorityVote", ABC, <<"w">>, Ones),
                NA("SAMMEVote", ABC, <<"p", "l">>, [n_classes |-> 3, weights |-> <<1, 1, 1>>]),
                N("ArgMax", <<"p">>, <<"k">>)>>,
     {{"m", "w", "l", "k"}}),
   Plain(Ballots, <<NA("WeightedMajorityVote", ABC, <<"w">>, [weights |-> <<1, 4, 2>>])>>, {"w"}),
   J([a |-> F(<<<<1, 3>>, <<4, 2>>, <<0, 0>>>>), b |-> F(<<<<2, 1>>, <<1, 0>>, <<0, 0>>>>)],
     <<NA("SoftVote", <<"a", "b">>, <<"p", "l">>, [normalize_rows |-> TRUE]),
       NA("WeightedSum", <<"a">>, <<"u">>, [weights |-> <<1, 1>>]),
       N("Sum", <<"u", "b">>, <<"s">>), N("ArgMax", <<"s">>, <<"k">>)>>, {{"l", "k"}}),
   Plain([a |-> D(<<<<1>>, <<4>>, <<0>>>>), b |-> D(<<<<2>>, <<1>>, <<3>>>>)],
     <<N("SoftVote", <<"a", "b">>, <<"p">>)>>, {"p"})}

-----------------------------------------------------------------------------
\* Scaling.  The mean 101 is a double no float holds.

Two == [x |-> D(<<<<101>>, <<103>>, <<5>>>>), y |-> F(<<<<4>>, <<8>>, <<12>>>>)]
Mean == D(<<<<101, 4>>>>)
Scale == D(<<<<1, 2>>>>)
Zscore(c, m, s) == Call("divide", <<Call("subtract", <<Col(c), Lit(m)>>), Lit(s)>>)
Knots == F(<<<<0, 0>>, <<0, 5>>, <<10, 10>>, <<20, 20>>, <<30, 30>>, <<30, 40>>>>)

ScalingJobs ==
  {J(Two, <<NR("StandardScaler", <<"x", "y">>, <<"z">>, [mean |-> Mean, scale |-> Scale]),
            N("Concat", <<"x", "y">>, <<"w">>),
            NR("StandardScaler", <<"w">>, <<"v">>, [mean |-> Mean, scale |-> Scale]),
            Derived(<<"x">>, "e", Zscore("x", 101, 1)), Derived(<<"y">>, "f", Zscore("y", 4, 2)),
            N("Concat", <<"e", "f">>, <<"u">>)>>, {{"z", "v", "u"}}),
   J([y |-> F(<<<<4>>, <<8>>, <<12>>>>)],
     <<NR("RobustScaler", <<"y">>, <<"r">>, [center |-> F(<<<<4>>>>), scale |-> F(<<<<2>>>>)]),
       NR("StandardScaler", <<"y">>, <<"s">>, [mean |-> F(<<<<4>>>>), scale |-> F(<<<<2>>>>)]),
       NR("MinMaxScaler", <<"y">>, <<"m">>, [data_min |-> F(<<<<4>>>>), data_max |-> F(<<<<2>>>>)]),
       NR("MaxAbsScaler", <<"y">>, <<"a">>, [scale |-> F(<<<<3>>>>)]),
       NR("RobustScaler", <<"y">>, <<"b">>, [scale |-> F(<<<<3>>>>)]),
       NA("Normalizer", <<"y">>, <<"n">>, [norm |-> "max"]),
       NA("Normalizer", <<"y">>, <<"l">>, [norm |-> "l1"]),
       NA("Normalizer", <<"y">>, <<"k">>, [norm |-> "l2"])>>,
     {{"r", "s", "m"}, {"a", "b"}, {"n", "l", "k"}}),
   J([x |-> F(<<<<3>>, <<5>>, <<NaN>>>>), y |-> F(<<<<5>>, <<6>>, <<4>>>>)],
     <<NR("Binarizer", <<"x", "y">>, <<"b", "c">>, [thresholds |-> F(<<<<5, 5>>>>)]),
       Derived(<<"y">>, "e", Call("greater", <<Col("y"), Lit(5)>>)),
       NA("Binarize", <<"x">>, <<"d">>, [threshold |-> 5]),
       Derived(<<"x">>, "f", Call("greater", <<Col("x"), Lit(5)>>)),
       NA("NormDiscrete", <<"y">>, <<"g">>, [value |-> 5]),
       Derived(<<"y">>, "h", Call("equal", <<Col("y"), Lit(5)>>))>>,
     {{"c", "e"}, {"b", "d", "f"}, {"g", "h"}}),
   \* on a reference, on the ends, outside, and two references that are equal
   J([t |-> F(<<<<10, 1>>, <<0, 20>>, <<15, 5>>>>)],
     <<NR("QuantileTransformer", <<"t">>, <<"q">>,
          [quantiles |-> F(<<<<0, 30, 60>>>>), references |-> F(<<<<0, 10, 20, 5, 5, 15>>>>)]),
       NR("NormContinuous", <<"t">>, <<"n">>,
          [orig_points |-> F(<<<<0, 10, 20, 5, 5, 15>>>>), norm_points |-> F(<<<<0, 30, 60, 0, 30, 60>>>>),
           point_offsets |-> F(<<<<0, 3, 6>>>>)])>>,
     {{"q"}, {"n"}}),
   J([t |-> F(<<<<10, 1>>, <<0, 20>>, <<15, 6>>>>)],
     <<NR("QuantileTransformer", <<"t">>, <<"q">>,
          [quantiles |-> F(<<<<0, 30, 60>>>>), references |-> F(<<<<0, 10, 20, 2, 5, 15>>>>)]),
       NR("NormContinuous", <<"t">>, <<"n">>,
          [orig_points |-> F(<<<<0, 10, 20, 2, 5, 15>>>>), norm_points |-> F(<<<<0, 30, 60, 0, 30, 60>>>>),
           point_offsets |-> F(<<<<0, 3, 6>>>>)])>>,
     {{"q", "n"}}),
   \* on the first, an inner and the last boundary; 101 is one no float holds
   J([t |-> D(<<<<10>>, <<101>>, <<103>>>>)],
     <<NR("Bucketizer", <<"t">>, <<"b">>, [boundaries |-> D(<<<<10, 20, 101>>>>)]),
       NAR("Discretizer", <<"t">>, <<"d">>,
           [left_closed |-> <<1, 1, 1, 1>>, right_closed |-> <<0, 0, 0, 0>>],
           [bin_left |-> D(<<<<-999, 10, 20, 101>>>>), bin_right |-> D(<<<<10, 20, 101, 999>>>>),
            bin_values |-> F(<<<<0, 1, 2, 3>>>>)])>>, {{"b", "d"}}),
   J([x |-> F(<<<<10>>, <<3>>, <<25>>>>), y |-> F(<<<<1>>, <<2>>, <<3>>>>)],
     <<NR("Bucketizer", <<"x", "y">>, <<"b", "c">>,
          [boundaries |-> F(<<<<10, 20, 2, 3>>>>), boundary_offsets |-> F(<<<<0, 2, 4>>>>)]),
       N("Concat", <<"b", "c">>, <<"d">>), N("Concat", <<"x", "y">>, <<"w">>),
       NR("Bucketizer", <<"w">>, <<"e">>,
          [boundaries |-> F(<<<<10, 20, 2, 3>>>>), boundary_offsets |-> F(<<<<0, 2, 4>>>>)])>>,
     {{"d", "e"}}),
   J([t |-> F(<<<<1, NaN>>, <<NaN, NaN>>, <<3, 4>>>>)],
     <<NR("Imputer", <<"t">>, <<"p", "q">>, [fill_tensor |-> F(<<<<7, 9>>>>)]),
       NA("Split", <<"t">>, <<"a", "b">>, [sections |-> <<1, 1>>]),
       Derived(<<"a">>, "c", Call("fill_missing", <<Col("a"), Lit(7)>>)),
       Derived(<<"b">>, "d", Call("coalesce", <<Col("b"), Lit(9)>>)),
       N("MissingIndicator", <<"t">>, <<"m">>),
       Derived(<<"t">>, "n", Call("is_missing", <<Col("t")>>))>>,
     {{"p", "c"}, {"q", "d"}, {"m", "n"}}),
   J([x |-> F(<<<<2>>, <<3>>, <<0>>>>), y |-> F(<<<<5>>, <<-1>>, <<4>>>>)],
     <<NA("PolynomialFeatures", <<"x", "y">>, <<"p">>, [include_bias |-> FALSE, max_degree |-> 2]),
       Derived(<<"y">>, "a", Call("square", <<Col("y")>>)),
       Derived(<<"x">>, "b", Call("multiply", <<Col("x"), Col("y")>>)),
       Derived(<<"x">>, "c", Call("square", <<Col("x")>>)),
       N("Concat", <<"y", "a", "x", "b", "c">>, <<"q">>),
       NR("PolynomialFeatures", <<"x", "y">>, <<"r">>,
          [powers |-> F(<<<<0, 1>>, <<0, 2>>, <<1, 0>>, <<1, 1>>, <<2, 0>>>>)])>>,
     {{"p", "q", "r"}}),
   J([t |-> F(<<<<-3>>, <<0>>, <<6>>>>), u |-> F(<<<<1>>, <<4>>, <<6>>>>)],
     <<NAR("PowerTransformer", <<"t">>, <<"p">>, [standardize |-> FALSE], [lambdas |-> F(<<<<1>>>>)]),
       N("Identity", <<"t">>, <<"q">>),
       NAR("PowerTransformer", <<"u">>, <<"r">>, [method |-> "box_cox"],
           [lambdas |-> F(<<<<1>>>>), mean |-> F(<<<<2>>>>), scale |-> F(<<<<3>>>>)]),
       Derived(<<"u">>, "s", Zscore("u", 3, 3))>>, {{"p", "q"}, {"r", "s"}}),
   \* on knots, repeated ones at the start, between them, and at the end
   Plain([t |-> F(<<<<0, 10>>, <<20, 25>>, <<15, 40>>>>)],
     <<NAR("SplineTransformer", <<"t">>, <<"s">>, [degree |-> 1], [knots |-> Knots])>>, {"s"})}

-----------------------------------------------------------------------------
\* Encoding: features with two and three categories, an unknown one, and
\* categories that are doubles a float apart.

Names == [t |-> S(<<<<"a", "x">>, <<"b", "z">>, <<"c", "y">>>>)]
NameCats == S(<<<<"a", "b", "x", "y", "z">>>>)
Off == F(<<<<0, 2, 5>>>>)
Codes == [t |-> D(<<<<99, 101>>, <<101, 7>>, <<5, 8>>>>)]
CodeCats == D(<<<<101, 99, 7, 101, 103>>>>)
Own5 == F(<<<<11, 12, 13, 14, 15>>>>)

EncodingJobs ==
  {J(Names, <<NR("LabelEncoder", <<"t">>, <<"l">>, [labels |-> NameCats, label_offsets |-> Off]),
              NR("OrdinalEncoder", <<"t">>, <<"o">>, [categories |-> NameCats, category_offsets |-> Off]),
              NR("OneHotEncoder", <<"t">>, <<"h">>, [categories |-> NameCats, category_offsets |-> Off]),
              NA("OHENode", <<"t">>, <<"n">>, [categories |-> <<<<"a", "b">>, <<"x", "y", "z">>>>])>>,
     {{"l", "o"}, {"h", "n"}}),
   J(Names, <<NR("OrdinalEncoder", <<"t">>, <<"o">>,
                 [categories |-> NameCats, category_offsets |-> Off, encoded_values |-> Own5,
                  default_values |-> F(<<<<1, 2>>>>)]),
              NR("TargetEncoder", <<"t">>, <<"e">>,
                 [categories |-> NameCats, category_offsets |-> Off, encoded_values |-> Own5,
                  default_values |-> F(<<<<1, 2>>>>)])>>, {{"o", "e"}}),
   J(Codes, <<NR("LabelEncode", <<"t">>, <<"l">>, [labels |-> CodeCats, label_offsets |-> Off]),
              NR("LabelEncoder", <<"t">>, <<"m">>, [labels |-> CodeCats, label_offsets |-> Off]),
              NR("OrdinalEncoder", <<"t">>, <<"o">>, [categories |-> CodeCats, category_offsets |-> Off]),
              NR("OrdinalEncoder", <<"t">>, <<"p">>,
                 [categories |-> CodeCats, category_offsets |-> Off, encoded_values |-> Own5,
                  default_values |-> F(<<<<1, 2>>>>)]),
              NR("TargetEncoder", <<"t">>, <<"e">>,
                 [categories |-> CodeCats, category_offsets |-> Off, encoded_values |-> Own5,
                  default_values |-> F(<<<<1, 2>>>>)])>>, {{"l", "m", "o"}, {"p", "e"}}),
   J([t |-> D(<<<<99>>, <<101>>, <<NaN>>>>)],
     <<NAR("MapValues", <<"t">>, <<"m">>, [default_value |-> 4, map_missing_to |-> 4],
           [keys |-> D(<<<<101, 99>>>>), values |-> D(<<<<11, 103>>>>)]),
       NR("OrdinalEncoder", <<"t">>, <<"o">>,
          [categories |-> D(<<<<101, 99>>>>), encoded_values |-> D(<<<<11, 103>>>>),
           default_values |-> F(<<<<4>>>>)])>>, {{"m", "o"}}),
   J([t |-> F(<<<<3>>, <<1>>, <<9>>>>)],
     <<NR("LabelBinarizer", <<"t">>, <<"l">>, [classes |-> F(<<<<1, 3, 5>>>>)]),
       NR("MultiLabelBinarizer", <<"t">>, <<"m">>, [classes |-> F(<<<<1, 3, 5>>>>)]),
       NR("OneHotEncoder", <<"t">>, <<"h">>, [categories |-> F(<<<<1, 3, 5>>>>)]),
       NR("OneHotEncode", <<"t">>, <<"i">>, [categories |-> F(<<<<1, 3, 5>>>>)])>>,
     {{"l", "m", "h", "i"}}),
   \* a feature of numbers before one of strings, each in an input of its own
   Plain([a |-> F(<<<<0>>, <<1>>, <<0>>>>), s |-> S(<<<<"x">>, <<"y">>, <<"q">>>>)],
     <<NR("OneHotEncoder", <<"a", "s">>, <<"h", "i">>,
          [categories |-> S(<<<<"p", "q", "x", "y">>>>), category_offsets |-> F(<<<<0, 2, 4>>>>)]),
       NR("OneHotEncoder", <<"s">>, <<"k">>, [categories |-> S(<<<<"x", "y">>>>)]),
       NA("OHENode", <<"s">>, <<"n">>, [categories |-> <<<<"x", "y">>>>])>>, {"h", "i", "k", "n"}),
   J([a |-> F(<<<<0>>, <<1>>, <<0>>>>), s |-> S(<<<<"x">>, <<"y">>, <<"q">>>>)],
     <<NR("OneHotEncoder", <<"a", "s">>, <<"h">>,
          [categories |-> S(<<<<"p", "q", "x", "y">>>>), category_offsets |-> F(<<<<0, 2, 4>>>>)]),
       NA("OHENode", <<"a", "s">>, <<"n">>, [categories |-> <<<<"p", "q">>, <<"x", "y">>>>])>>,
     {{"h", "n"}}),
   \* the third feature's category is unknown to the second
   J([t |-> S(<<<<"a", "z", "z">>, <<"b", "q", "q">>, <<"b", "x", "x">>>>)],
     <<NR("LabelEncoder", <<"t">>, <<"l">>,
          [labels |-> S(<<<<"a", "b", "x", "y", "z">>>>), label_offsets |-> F(<<<<0, 2, 4, 5>>>>)])>>, {{"l"}}),
   \* categories spelled as numbers, with one that is none
   Plain([t |-> F(<<<<2>>, <<5>>, <<1>>>>)],
     <<NR("LabelEncoder", <<"t">>, <<"l">>, [labels |-> S(<<<<"2", "x", "5x">>>>)])>>, {"l"})}

-----------------------------------------------------------------------------
\* Fitted models.

Points == [t |-> F(<<<<1, 2>>, <<3, -1>>, <<0, 4>>>>)]
Comp == F(<<<<1, 2>>, <<-1, 1>>>>)
Unit == F(<<<<1, 0>>, <<0, 1>>>>)
Zeros == F(<<<<0, 0>>>>)
White == F(<<<<2, 0>>, <<1, 1>>>>)
At12 == F(<<<<1, 2>>>>)

LearnedJobs ==
  {J(Points, <<NR("TruncatedSVD", <<"t">>, <<"s">>, [components |-> Comp]),
               NR("PCA", <<"t">>, <<"p">>, [components |-> Comp, mean |-> Zeros]),
               NR("SparsePCA", <<"t">>, <<"q">>, [components |-> Comp]),
               NAR("KernelPCA", <<"t">>, <<"k">>, [kernel |-> "linear"],
                   [fit_samples |-> Unit, dual_components |-> Comp]),
               NR("NMF", <<"t">>, <<"n">>, [components |-> Comp]),
               Derived(<<"s">>, "r", Call("relu", <<Col("s")>>)),
               NR("LatentDirichletAllocation", <<"t">>, <<"d">>, [components |-> Unit]),
               N("ArgMax", <<"d">>, <<"e">>), N("ArgMax", <<"t">>, <<"f">>)>>,
     {{"s", "p", "q", "k"}, {"n", "r"}, {"e", "f"}}),
   J(Points, <<NR("FastICA", <<"t">>, <<"i">>, [components |-> Comp, whitening |-> White, mean |-> At12]),
               NR("PCA", <<"t">>, <<"w">>, [components |-> White, mean |-> At12]),
               NR("TruncatedSVD", <<"w">>, <<"j">>, [components |-> Comp]),
               NR("FastICA", <<"t">>, <<"k">>, [components |-> Comp, mean |-> At12]),
               NR("PCA", <<"t">>, <<"l">>, [components |-> Comp, mean |-> At12]),
               NR("FactorAnalysis", <<"t">>, <<"m">>, [components |-> Comp, mean |-> At12])>>,
     {{"i", "j"}, {"k", "l", "m"}}),
   Plain(Points, <<NR("FactorAnalysis", <<"t">>, <<"m">>,
                      [components |-> Comp, mean |-> At12, noise_variance |-> F(<<<<1, 0>>>>)]),
                   NAR("KernelPCA", <<"t">>, <<"k">>, [gamma |-> 1],
                       [fit_samples |-> Unit, dual_components |-> Comp,
                        kernel_center_row_mean |-> At12, kernel_center_all_mean |-> F(<<<<3>>>>)]),
                   NAR("KernelPCA", <<"t">>, <<"p">>, [kernel |-> "poly", degree |-> 2],
                       [fit_samples |-> Unit, dual_components |-> Comp]),
                   NAR("KernelPCA", <<"t">>, <<"s">>, [kernel |-> "sigmoid"],
                       [fit_samples |-> Unit, dual_components |-> Comp])>>, {"m", "k", "p", "s"}),
   \* the nearest training row of each query, whose target is its value's
   J([t |-> F(<<<<3>>, <<20>>, <<11>>>>)],
     <<NAR("KNN", <<"t">>, <<"k">>, [n_neighbors |-> 1],
           [train_features |-> F(<<<<3>>, <<11>>, <<20>>>>), train_targets |-> F(<<<<2>>, <<0>>, <<1>>>>)]),
       NR("MapValues", <<"t">>, <<"m">>,
          [keys |-> F(<<<<3, 11, 20>>>>), values |-> F(<<<<2, 0, 1>>>>)]),
       NAR("KNN", <<"t">>, <<"r">>, [neighbor_mode |-> "radius", radius |-> 2, metric |-> "manhattan"],
           [train_features |-> F(<<<<3>>, <<11>>, <<20>>>>), train_targets |-> F(<<<<2>>, <<0>>, <<1>>>>)]),
       NAR("KNN", <<"t">>, <<"g">>, [n_neighbors |-> 1, task |-> "regression", weights |-> "distance"],
           [train_features |-> F(<<<<3>>, <<11>>, <<20>>>>), train_targets |-> F(<<<<2>>, <<0>>, <<1>>>>)])>>,
     {{"k", "m", "r", "g"}}),
   J([t |-> F(<<<<2>>, <<12>>, <<30>>>>)],
     <<NAR("KNN", <<"t">>, <<"k", "p">>, [n_neighbors |-> 3],
           [train_features |-> F(<<<<0>>, <<3>>, <<11>>, <<14>>, <<21>>>>),
            train_targets |-> F(<<<<1>>, <<1>>, <<0>>, <<0>>, <<0>>>>)]),
       N("ArgMax", <<"p">>, <<"a">>)>>, {{"k", "a"}}),
   J([t |-> F(<<<<1, NaN>>, <<9, 9>>, <<8, NaN>>>>)],
     <<NAR("KNNImputer", <<"t">>, <<"i">>, [n_neighbors |-> 1],
           [train_features |-> F(<<<<1, 7>>, <<8, 3>>>>)]),
       NA("Split", <<"t">>, <<"a", "b">>, [sections |-> <<1, 1>>]),
       NAR("MapValues", <<"a">>, <<"c">>, [default_value |-> 9],
           [keys |-> F(<<<<1, 8>>>>), values |-> F(<<<<7, 3>>>>)]),
       N("Concat", <<"a", "c">>, <<"d">>)>>, {{"i", "d"}})}

-----------------------------------------------------------------------------
\* Text.

A == <<"a">>
AB == <<"a", "b">>
C == <<"c">>
ToLower == ("A" :> "a") @@ ("B" :> "b")
Hashes == <<<<A, 7>>, <<AB, -5>>, <<C, -3>>>>
Phrases == S(<<<<<<" ", "A", " ", " ", "a", "b">>>>, <<<<"c">>>>, <<<<"c", " ", "A", "b", " ">>>>>>)
Vocab == S(<<<<A, AB>>>>)

TextJobs ==
  {J([t |-> Phrases],
     <<N("Tokenizer", <<"t">>, <<"a">>), NR("CountVectorizer", <<"a">>, <<"x">>, [vocabulary |-> Vocab]),
       N("Lowercase", <<"t">>, <<"l">>), N("NormalizeWhitespace", <<"l">>, <<"n">>),
       N("Trim", <<"n">>, <<"r">>), N("Tokenizer", <<"r">>, <<"b">>),
       NR("CountVectorizer", <<"b">>, <<"y">>, [vocabulary |-> Vocab]),
       N("RegexTokenizer", <<"t">>, <<"c">>),
       NA("NGram", <<"c">>, <<"g">>, [n_min |-> 1, n_max |-> 1]),
       NR("StopWordsRemover", <<"g">>, <<"w">>, [stop_words |-> S(<<<<<<"C">>, <<"c">>>>>>)]),
       NR("CountVectorizer", <<"w">>, <<"z">>, [vocabulary |-> Vocab]),
       NR("TfIdfTransformer", <<"z">>, <<"f">>, [idf |-> D(<<<<1, 1>>>>)])>>,
     {{"x", "y", "z", "f"}}),
   J([t |-> Phrases],
     <<NA("StringReplace", <<"t">>, <<"p">>, [old |-> A, new |-> <<"e", "a">>]),
       NA("RegexReplace", <<"t">>, <<"q">>, [pattern |-> {"a"}, replacement |-> <<"e", "a">>]),
       NA("RegexTokenizer", <<"p">>, <<"u">>, [pattern |-> {"a", "b", "c", "e"}, gaps |-> FALSE]),
       NA("RegexTokenizer", <<"q">>, <<"v">>, [min_token_length |-> 1]),
       NA("HashingVectorizer", <<"u">>, <<"x">>, [num_features |-> 3]),
       NA("HashingVectorizer", <<"v">>, <<"y">>, [num_features |-> 3])>>, {{"x", "y"}}),
   \* texts as outputs, which have no storage to join
   Plain([t |-> Phrases], <<N("Lowercase", <<"t">>, <<"l">>)>>, {"l"}),
   Plain([t |-> Phrases],
     <<N("Tokenizer", <<"t">>, <<"a">>),
       NA("HashingVectorizer", <<"a">>, <<"x">>, [num_features |-> 4]),
       NA("HashingVectorizer", <<"a">>, <<"y">>, [num_features |-> 4, alternate_sign |-> TRUE]),
       NA("HashingVectorizer", <<"a">>, <<"z">>, [num_features |-> 4, binary |-> TRUE]),
       NA("NGram", <<"a">>, <<"g">>, [n_min |-> 2, n_max |-> 2]),
       NR("CountVectorizer", <<"g">>, <<"c">>, [vocabulary |-> S(<<<<<<"a", " ", "a", "b">>, A>>>>)]),
       NAR("CountVectorizer", <<"a">>, <<"b">>, [binary |-> TRUE], [vocabulary |-> Vocab]),
       NR("Word2Vec", <<"a">>, <<"w">>,
          [vocabulary |-> Vocab, embeddings |-> D(<<<<101, 2>>, <<103, 4>>>>)])>>,
     {"x", "y", "z", "c", "b", "w"})}

-----------------------------------------------------------------------------
\* Expressions with functions a model defines: one called within another's
\* argument, one whose parameter has a column's name, one that reads a column.

Twice == [params |-> <<"x">>, body |-> Call("add", <<Col("x"), Col("x")>>)]
Minus2 == [params |-> <<"y", "x">>, body |-> Call("sub", <<Col("y"), Col("x")>>)]
Mixer == [params |-> <<"x", "w">>,
          body |-> Call("minus", <<Call("twice", <<Col("w")>>), Col("x")>>)]
Fns == [twice |-> Twice, minus |-> Minus2, mixer |-> Mixer]
XY == [x |-> F(<<<<3>>, <<NaN>>, <<5>>>>), y |-> D(<<<<101>>, <<7>>, <<-2>>>>)]
InXY == <<"x", "y">>

ExpressionJobs ==
  {Job(XY, <<NA("Compute", InXY, <<"a">>, [expr |-> Call("mixer", <<Col("x"), Call("twice", <<Col("y")>>)>>)]),
             NA("Compute", InXY, <<"b">>, [expr |-> Call("sub", <<Call("mul", <<Lit(4), Col("y")>>), Col("x")>>)]),
             NA("Compute", InXY, <<"c">>, [expr |-> Call("minus", <<Col("x"), Col("y")>>)]),
             NA("Compute", InXY, <<"d">>, [expr |-> Call("neg", <<Call("minus", <<Col("y"), Col("x")>>)>>)])>>,
       Fns, {{"a", "b"}, {"c", "d"}}, {}),
   J(XY, <<Derived(InXY, "a", Call("mod", <<Col("y"), Lit(3)>>)),
           Derived(InXY, "b", Call("sub", <<Col("y"),
             Call("mul", <<Lit(3), Call("if", <<Call("less", <<Col("y"), Lit(0)>>), Lit(0),
                Call("div", <<Col("y"), Lit(3)>>)>>)>>)>>)),
           Derived(InXY, "c", Call("leaky_relu", <<Col("y"), Lit(2)>>)),
           Derived(InXY, "d", Call("if", <<Call("greater", <<Col("y"), Lit(0)>>), Col("y"),
             Call("mul", <<Lit(2), Col("y")>>)>>)),
           Derived(InXY, "e", Call("or", <<Call("is_missing", <<Col("x")>>), Call("not", <<Col("x")>>)>>)),
           Derived(InXY, "f", Call("sub", <<Lit(1), Call("and", <<Call("is_not_missing", <<Col("x")>>), Col("x")>>)>>)),
           Derived(InXY, "g", Call("lower", <<Col("x")>>)),
           Derived(InXY, "h", Call("div", <<Col("x"), Lit(0)>>)),
           Derived(InXY, "i", Call("max", <<Col("y"), Call("negate", <<Col("y")>>)>>)),
           Derived(InXY, "j", Call("mul", <<Col("y"), Call("sign", <<Col("y")>>)>>)),
           Derived(InXY, "k", Call("abs", <<Col("y")>>)),
           Derived(InXY, "l", Call("less_or_equal", <<Col("x"), Col("y")>>)),
           Derived(InXY, "m", Call("greater_or_equal", <<Col("y"), Col("x")>>)),
           Derived(InXY, "n", Call("not_equal", <<Col("x"), Col("x")>>)),
           Derived(InXY, "o", Call("is_missing", <<Col("x")>>))>>,
     {{"a", "b"}, {"c", "d"}, {"e", "f"}, {"g", "h"}, {"i", "j", "k"}, {"l", "m"}, {"n", "o"}}),
   \* a name with its namespace, a slope left out, and no input declared
   J([x |-> F(<<<<3>>, <<NaN>>, <<-5>>>>), y |-> F(<<<<4>>, <<7>>, <<0>>>>)],
     <<Derived(None, "a", Call("omle.functions.leaky_relu", <<Col("x")>>)),
       NA("Compute", None, <<"b">>, [expr |-> Call("if", <<Call("greater", <<Col("x"), Lit(0)>>), Col("x"),
         Call("div", <<Col("x"), Lit(100)>>)>>)]),
       Derived(<<"y">>, "c", Call("leaky_relu", <<Col("x"), Lit(0), Col("y")>>)),
       NA("Derive", <<"y">>, None, [expr |-> Col("x")]),
       Derived(<<"y">>, "d", Call("if", <<Call("greater", <<Col("x"), Lit(0)>>), Col("x"),
         Call("mul", <<Col("x"), Lit(0)>>)>>))>>,
     {{"a", "b"}, {"c", "d"}})}

-----------------------------------------------------------------------------
\* Models.  A score, a probability, a distance is computed by several nodes that
\* are given the same parameters, at the width of each.

XYs(x, y) == [x |-> x, y |-> y]
InTwo == <<"x", "y">>
Label(l, n) == NA("Cast", <<l>>, <<n>>, [output_dtype |-> "float32"])
Layer(w, b, act) == [weights |-> w, bias |-> b, activation |-> act]
Score(name) == [role |-> "none", name |-> name]

\* 2x - y + 3, six times over: doubles beyond float, then floats and a gap.
WeightedJob(in, Make(_)) ==
  J(in, <<NR("LinearNode", InTwo, <<"a">>, [coefficients |-> Make(<<<<2, -1>>>>), intercept |-> Make(<<<<3>>>>)]),
          NR("SVMNode", InTwo, <<"b">>, [coefficients |-> Make(<<<<2, -1>>>>), intercept |-> Make(<<<<3>>>>)]),
          NR("SVMNode", InTwo, <<"c">>,
             [support_vectors |-> Make(<<<<1, 0>>, <<0, 1>>>>), dual_coefficients |-> Make(<<<<2, -1>>>>),
              intercept |-> Make(<<<<3>>>>)]),
          NA("NeuralNetworkNode", InTwo, <<"d">>,
             [layers |-> <<Layer(Make(<<<<1, 0>>, <<0, -1>>>>), << >>, "identity"),
                           Layer(Make(<<<<2, 1>>>>), <<3>>, "identity")>>]),
          Derived(InTwo, "f", Call("add", <<Call("sub", <<Call("mul", <<Lit(2), Col("x")>>), Col("y")>>), Lit(3)>>))>>,
     {{"a", "b", "c", "d", "f"}})

\* On both sides of a half and on it.
Sides == XYs(F(<<<<1>>, <<2>>, <<5>>>>), F(<<<<4>>, <<4>>, <<4>>>>))
Slope == [coefficients |-> F(<<<<2, -1>>>>)]
Classes == [coefficients |-> F(<<<<1, 0>>, <<0, 1>>, <<-1, 1>>>>), intercept |-> F(<<<<0, -1, 1>>>>)]
Corners == XYs(F(<<<<1>>, <<4>>, <<2>>>>), F(<<<<3>>, <<1>>, <<3>>>>))
Spots == XYs(F(<<<<1>>, <<9>>, <<4>>>>), D(<<<<2>>, <<8>>, <<0>>>>))
Centers == F(<<<<0, 1>>, <<10, 9>>, <<5, 0>>>>)
Mixture(kind, cov, out) ==
  NAR("ClusteringNode", InTwo, out, [covariance_type |-> kind],
      [means |-> Centers, weights |-> F(<<<<1, 1, 1>>>>), covariances |-> cov])

ClassifierJobs ==
  {WeightedJob(XYs(D(<<<<101>>, <<-3>>, <<7>>>>), F(<<<<4>>, <<8>>, <<50>>>>)), D),
   WeightedJob(XYs(F(<<<<5>>, <<-3>>, <<7>>>>), D(<<<<4>>, <<8>>, <<NaN>>>>)), F),
   \* the label "l" is an output as it is, an int64; those that are compared are
   \* cast to floats, which is what a cut batch keeps
   Job(Sides, <<NAR("LinearNode", InTwo, <<"l", "p">>, [post_transform |-> "sigmoid"], Slope),
                NAR("LinearNode", InTwo, <<"r">>, [post_transform |-> "sigmoid"], Slope),
                NAR("SVMNode", InTwo, <<"s">>, [post_transform |-> "logit"], Slope),
                NA("TakeSlots", <<"r">>, <<"t">>, [indices |-> <<1>>]),
                NA("NeuralNetworkNode", InTwo, <<"m", "q">>,
                   [layers |-> <<Layer(F(<<<<2, -1>>>>), << >>, "logistic")>>]),
                NR("SVMNode", InTwo, <<"n", "u">>,
                   [support_vectors |-> Unit, dual_coefficients |-> F(<<<<2, -1>>>>),
                    prob_a |-> F(<<<<-1>>>>), prob_b |-> F(<<<<0>>>>)]),
                NR("SVMNode", InTwo, <<"o", "v">>, Slope),
                Label("l", "ll"), N("ArgMax", <<"p">>, <<"la">>),
                Label("m", "lm"), Label("n", "ln"), Label("o", "lo")>>,
       None, {{"p", "r", "q", "u"}, {"s", "t"}, {"ll", "la"}, {"lm", "ln", "lo"}}, {"l"}),
   J(Corners, <<NAR("LinearNode", InTwo, <<"l", "p">>, [post_transform |-> "softmax"], Classes),
                NAR("SVMNode", InTwo, <<"m", "q">>, [post_transform |-> "softmax"], Classes),
                NA("NeuralNetworkNode", InTwo, <<"n", "r">>,
                   [layers |-> <<Layer(F(<<<<1, 0>>, <<0, 1>>>>), << >>, "relu"),
                                 Layer(Classes.coefficients, <<0, -1, 1>>, "softmax")>>]),
                NAR("NaiveBayesNode", InTwo, <<"b", "s">>, [variant |-> "multinomial"],
                    [class_log_priors |-> Classes.intercept, feature_log_prob |-> Classes.coefficients]),
                Label("l", "ll"), Label("m", "lm"), Label("n", "ln"), N("ArgMax", <<"p">>, <<"la">>),
                NAR("LinearNode", InTwo, <<"e", "f", "g">>, [post_transform |-> "exp"], Classes),
                N("Concat", <<"e", "f", "g">>, <<"h">>), N("ArgMax", <<"h">>, <<"lh">>)>>,
     {{"p", "q", "r", "s"}, {"ll", "lm", "ln", "b", "la", "lh"}}),
   Plain(Corners, <<NA("NeuralNetworkNode", InTwo, <<"t">>,
                       [layers |-> <<Layer(Unit, <<-2, -1>>, "tanh"), Layer(Unit, <<1, 0>>, "logistic")>>]),
                    NAR("SVMNode", InTwo, <<"l", "p">>, [n_support |-> <<1, 1, 1>>],
                        [support_vectors |-> D(<<<<1, 0>>, <<0, 1>>, <<-1, 1>>>>),
                         dual_coefficients |-> D(<<<<1, -1, -1>>, <<1, 1, -1>>, <<0, 0, 0>>>>),
                         intercept |-> D(<<<<0, -1, 1>>>>), prob_a |-> D(<<<<-1, -1, -1>>>>),
                         prob_b |-> D(<<<<0, 0, 0>>>>)]),
                    NAR("SVMNode", InTwo, <<"k">>, [kernel |-> "rbf"],
                        [support_vectors |-> Unit, dual_coefficients |-> F(<<<<2, -1>>>>)]),
                    NAR("NaiveBayesNode", InTwo, <<"b", "q">>, [variant |-> "bernoulli", binarize_threshold |-> 2],
                        [class_log_priors |-> F(<<<<0, 0>>>>), feature_log_prob |-> F(<<<<-1, -2>>, <<-2, -1>>>>)]),
                    NAR("NaiveBayesNode", InTwo, <<"c">>,
                        [variant |-> "categorical", category_count |-> <<3, 4>>, category_offset |-> <<0, 3>>],
                        [class_log_priors |-> D(<<<<0, 0>>>>),
                         category_log_prob |-> D(<<<<-1, -2, -3, -1, -2, -3, -4>>, <<-2, -1, -3, -4, -3, -2, -1>>>>)])>>,
        {"t", "p", "k", "b", "q", "c"}),
   \* the posteriors 65 and 66 are one float
   Plain(XYs(D(<<<<65>>, <<66>>, <<61>>>>), D(<<<<66>>, <<65>>, <<0>>>>)),
         <<NAR("NaiveBayesNode", InTwo, <<"b", "q">>, [variant |-> "multinomial"],
               [class_log_priors |-> D(<<<<0, 0>>>>), feature_log_prob |-> D(<<<<1, 0>>, <<0, 1>>>>)])>>, {"b", "q"}),
   J(Spots, <<NAR("ClusteringNode", InTwo, <<"c", "d">>, [distance_measure |-> "squared_euclidean"], [centers |-> Centers]),
              NR("ClusteringNode", InTwo, <<"e", "f">>, [centers |-> Centers]),
              NAR("KNN", InTwo, <<"k">>, [n_neighbors |-> 1],
                  [train_features |-> Centers, train_targets |-> F(<<<<0>>, <<1>>, <<2>>>>)]),
              Mixture("spherical", F(<<<<1>>, <<1>>, <<1>>>>), <<"g", "s">>),
              Mixture("diagonal", F(<<<<1, 1>>, <<1, 1>>, <<1, 1>>>>), <<"h", "t">>),
              Mixture("full", F(<<<<1, 0, 0, 1>>, <<1, 0, 0, 1>>, <<1, 0, 0, 1>>>>), <<"i", "u">>),
              NAR("NaiveBayesNode", InTwo, <<"b", "v">>, [variant |-> "gaussian"],
                  [class_log_priors |-> F(<<<<0, 0, 0>>>>), means |-> Centers,
                   variances |-> F(<<<<1, 1>>, <<1, 1>>, <<1, 1>>>>)])>>,
     {{"c", "e", "k", "g", "h", "i", "b"}, {"s", "t", "u", "v"}}),
   Plain(Spots, <<NAR("ClusteringNode", InTwo, <<"c", "d">>, [distance_measure |-> "manhattan"], [centers |-> Centers]),
                  NAR("ClusteringNode", InTwo, <<"e", "f">>, [distance_measure |-> "cosine"], [centers |-> Centers]),
                  Mixture("full", F(<<<<1, 1, 0, 2>>, <<2, 0, 0, 1>>, <<1, 2, 0, 1>>>>), <<"g", "s">>)>>,
         {"c", "d", "e", "f", "g", "s"})}

Split(f, t, kids) == [leaf |-> FALSE, feature |-> f, threshold |-> t, kids |-> kids, value |-> 0]
Leaf(v) == [leaf |-> TRUE, feature |-> -1, threshold |-> 0, kids |-> << >>, value |-> v]
Forest == <<<<Split(0, 5, <<1, 2>>), Leaf(1), Split(1, 1, <<3, 4>>), Leaf(2), Leaf(9)>>,
            <<Split(1, 3, <<1, 2>>), Leaf(2), Leaf(1)>>>>
Roles == <<[role |-> "PREDICTION", name |-> "y"], Score("decision")>>
Gappy == XYs(F(<<<<1>>, <<9>>, <<NaN>>>>), D(<<<<2>>, <<0>>, <<4>>>>))
ForestAttrs == [kind |-> "isolation_forest", trees |-> Forest, max_samples |-> 4, offset |-> -20]

AnomalyJobs ==
  {Plain(Gappy, <<NA("AnomalyDetectionNode", InTwo, <<"l", "d">>, ForestAttrs @@ [outputs |-> Roles]),
                  NA("AnomalyDetectionNode", InTwo, <<"s">>, ForestAttrs @@ [outputs |-> <<Score("s")>>])>>,
         {"l", "d", "s"}),
   J(Spots, <<NAR("AnomalyDetectionNode", InTwo, <<"l", "d">>,
                  [kind |-> "elliptic_envelope", threshold |-> -10, outputs |-> Roles],
                  [location |-> F(<<<<3, 1>>>>)]),
              NAR("AnomalyDetectionNode", InTwo, <<"m", "e">>,
                  [kind |-> "elliptic_envelope", offset |-> -10, outputs |-> Roles],
                  [location |-> F(<<<<3, 1>>>>), precision |-> D(<<<<1, 0>>, <<0, 1>>>>)])>>,
     {{"l", "m"}, {"d", "e"}}),
   J(Spots, <<NAR("AnomalyDetectionNode", InTwo, <<"s">>,
                  [kind |-> "linear_one_class_svm", outputs |-> <<Score("s")>>],
                  [coefficients |-> F(<<<<2, -1>>>>), intercept |-> F(<<<<3>>>>)]),
              NAR("AnomalyDetectionNode", InTwo, <<"t">>,
                  [kind |-> "one_class_svm", kernel |-> "linear", outputs |-> <<Score("t")>>],
                  [support_vectors |-> Unit, dual_coefficients |-> F(<<<<2, -1>>>>), intercept |-> F(<<<<3>>>>)]),
              NR("LinearNode", InTwo, <<"u">>,
                 [coefficients |-> D(<<<<2, -1>>>>), intercept |-> D(<<<<3>>>>)])>>, {{"s", "t", "u"}}),
   Plain(Spots, <<NAR("AnomalyDetectionNode", InTwo, <<"l", "d">>,
                      [kind |-> "local_outlier_factor", n_neighbors |-> 2, offset |-> -90, outputs |-> Roles],
                      [reference_samples |-> F(<<<<0, 0>>, <<1, 1>>, <<2, 0>>, <<9, 9>>>>)]),
                  NAR("AnomalyDetectionNode", InTwo, <<"m", "e">>,
                      [kind |-> "one_class_svm", offset |-> 20, outputs |-> Roles],
                      [support_vectors |-> F(<<<<1, 2>>, <<4, 1>>>>), dual_coefficients |-> F(<<<<1, 1>>>>)])>>,
         {"l", "d", "m", "e"})}

-----------------------------------------------------------------------------
\* Graphs that cannot be run.

FailingJobs ==
  {Plain(XY, <<N("Concat", InXY, <<"c">>), last>>, {"z"}) :
     last \in {N("Nonsense", InXY, <<"z">>), N("Sum", <<"x", "q">>, <<"z">>), N("Sum", InXY, <<"w">>),
               N("Derive", InXY, <<"z">>), N("KNN", InXY, <<"z">>),
               N("SelectByPrimarySecondaryScore", <<"x", "c">>, <<"z">>),
               N("SelectByPrimarySecondaryScore", <<"x">>, <<"z">>),
               N("SelectByPrimarySecondaryScore", <<"x", "y">>, None), N("RegexReplace", None, <<"z">>),
               NA("Derive", None, None, [expr |-> Col("q")]),
               Derived(InXY, "z", Call("nothing", <<Col("x")>>)),
               Derived(InXY, "z", Col("q")), N("Trim", <<"x">>, <<"z">>),
               N("Bucketizer", <<"x">>, <<"z">>),
               NA("AnomalyDetectionNode", <<"x">>, <<"z">>, ForestAttrs @@ [outputs |-> Roles])}}

AllJobs ==
  CoreJobs \cup VoteJobs \cup ScalingJobs \cup EncodingJobs \cup LearnedJobs \cup TextJobs
  \cup ExpressionJobs \cup ClassifierJobs \cup AnomalyJobs \cup FailingJobs

=============================================================================
