------------------------------ MODULE MCScoring ------------------------------
\* Models and calls for Scoring.
EXTENDS Scoring

Leaf(v) == [feature |-> 0, threshold |-> 0, op |-> "lt", set |-> {}, left |-> 0,
            right |-> 0, default |-> 0, leaf |-> v]
Split(f, op, thr, l, r, def) ==
  [feature |-> f, threshold |-> thr, op |-> op, set |-> {1}, left |-> l, right |-> r,
   default |-> def, leaf |-> << >>]
Tree(nodes) == [nodes |-> nodes, width |-> 1, complex |-> [i \in {} |-> {}]]

Bare == Tree(<<Leaf(<<7>>)>>)
Stump(op, def) == Tree(<<Split(1, op, 3, 2, 3, def), Leaf(<<1>>), Leaf(<<20>>)>>)

\* Two levels on one side or on both.
Lopsided(op, def) ==
  Tree(<<Split(2, op, 3, 2, 3, def), Split(1, op, 6, 4, 5, 0), Leaf(<<300>>), Leaf(<<5>>), Leaf(<<60>>)>>)
Even(op) ==
  Tree(<<Split(1, op, 3, 2, 5, 0), Split(2, op, 3, 3, 4, 4), Leaf(<<2>>), Leaf(<<30>>),
         Split(2, op, 6, 6, 7, 0), Leaf(<<400>>), Leaf(<<5000>>)>>)

Special == [Lopsided("lt", 0) EXCEPT !.complex = [i \in {2} |-> {0, NaN}]]
Vectors == [Tree(<<Split(1, "lt", 3, 2, 3, 0), Leaf(<<1, 2>>), Leaf(<<30, 40>>)>>) EXCEPT !.width = 2]

Ensemble(trees, agg, weights, group, base, transform) ==
  [trees |-> trees, aggregation |-> agg, weights |-> weights, group |-> group,
   base |-> base, transform |-> transform]
Sum(trees) == Ensemble(trees, "sum", << >>, << >>, << >>, "identity")

Trees == {Bare, Stump("lt", 0), Stump("le", 2), Lopsided("lt", 2), Lopsided("le", 0), Even("lt"), Even("le")}
Others == {Stump("gt", 0), Stump("in", 2), Stump("missing", 2), Special}
Pairs == {<<s, t>> : s \in Trees, t \in Trees} \cup {<<s, t>> : s \in Others, t \in {Bare, Even("lt")}}

\* Every pair of trees, summed up, shared out to outputs, weighted.
Ensembles ==
  {Sum(<<t>>) : t \in Trees \cup Others} \cup {Sum(p) : p \in Pairs} \cup {Sum(<< >>)}
  \cup {Sum(p \o <<Bare, Even("lt")>>) : p \in {<<Stump("lt", 0), Lopsided("lt", 2)>>, <<Bare, Even("le")>>}}
  \cup {Ensemble(p, "sum", << >>, <<1, 2>>, b, "identity") : p \in Pairs, b \in {<<4>>, <<4, 8>>}}
  \cup {Ensemble(p, "sum", << >>, << >>, << >>, "sigmoid_binary") : p \in Pairs}
  \cup {Ensemble(<<Vectors, Vectors>>, agg, << >>, << >>, b, "identity") :
          agg \in {"sum", "average", "max"}, b \in {<< >>, <<4, 8>>}}

Combined ==
  {Ensemble(<<s, t>>, agg, w, g, << >>, "identity") :
     s \in {Stump("lt", 0), Stump("le", 2), Special}, t \in {Bare, Lopsided("le", 0), Stump("lt", 2)},
     agg \in {"average", "weighted_sum", "weighted_avg", "soft_vote", "min", "max"},
     w \in {<<2, 3>>}, g \in {<< >>, <<1, 2>>}}
Misfit == Ensemble(<<Bare>>, "sum", << >>, << >>, <<1, 2, 3>>, "identity")

-----------------------------------------------------------------------------

Anything == [kind |-> "none"]
Interval(l, r, lo, ro) == [left |-> l, right |-> r, left_open |-> lo, right_open |-> ro]
Between(ivs) == [kind |-> "continuous", intervals |-> ivs]
Values(valid, invalid, missing) ==
  [kind |-> "discrete", valid |-> valid, invalid |-> invalid, missing |-> missing]

Feature(col, dom, m, i, o) ==
  [col |-> col, domain |-> dom, missing |-> m, missing_replacement |-> 3,
   invalid |-> i, invalid_replacement |-> 6, outlier |-> o]
Plain == <<Feature(1, Anything, "propagate", "return", "as_is"),
           Feature(2, Anything, "propagate", "return", "as_is")>>

Domains ==
  {Between(<<Interval(0, 3, FALSE, FALSE), Interval(6, Infinity, TRUE, TRUE)>>),
   Between(<<Interval(-Infinity, 3, TRUE, TRUE)>>), Between(<<Interval(3, 9, TRUE, FALSE)>>),
   Values({0, 6}, {3}, {9}), Values({}, {3}, {0})}
Policies == {"propagate", "as_value", "as_invalid"} \X {"return", "as_is", "as_value"}
            \X {"as_is", "as_missing", "as_extreme"}

\* One feature under every domain and policy, in front of both columns.
Screens ==
  {<<Feature(c, d, p[1], p[2], p[3]), Feature(2, Anything, "as_value", "return", "as_is")>> :
     c \in {1, 2}, d \in Domains, p \in Policies}

Declared ==
  [features : {Plain}, trees : Ensembles \cup Combined \cup {Misfit}, wide : {FALSE}]
  \cup [features : Screens, trees : {Sum(<<Lopsided("lt", 2), Even("lt")>>)}, wide : BOOLEAN]

-----------------------------------------------------------------------------

Call32(rows) == [f64 |-> FALSE, rows |-> rows]
Call64(rows) == [f64 |-> TRUE, rows |-> rows]

Rows == {<<v, w>> : v \in {0, 3, 6, NaN}, w \in {0, 3, NaN}}
Calls ==
  {Call32(<<r>>) : r \in Rows}
  \cup {Call32(<<<<3, 0>>, <<0, 6>>>>), Call32(<<<<NaN, 0>>, <<0, NaN>>>>),
        Call32(<<<<0, 3>>, <<NaN, NaN>>, <<3, 6>>>>), Call32(<<<<6, 0>>, <<3, 3>>, <<0, 0>>>>)}
  \cup {Call64(<<<<2, 4>>, <<7, 10>>>>), Call64(<<<<5, 3>>>>),
        Call64(<<<<Infinity, 9>>, <<9, -Infinity>>, <<NaN, 4>>>>)}

=============================================================================
