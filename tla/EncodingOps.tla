----------------------------- MODULE EncodingOps -----------------------------
(***************************************************************************)
(* The operators of omle.feature that look values up: label, one-hot,      *)
(* ordinal and target encoders, binarized labels, bins, normalized points  *)
(* and value maps (src/operator_registry.cpp, 1722-2542), and the node the *)
(* loader makes of a one-hot encoder over strings (src/nodes/ohe_node.cpp).*)
(*                                                                         *)
(* Positions in a table, offsets and codes count from 0, as in the code.   *)
(***************************************************************************)
EXTENDS Tensors

CONSTANTS
  Spelled   \* what std::stod reads in strings that begin with a number

\* std::stod, and NaN for what it throws at.
Stod(s) == IF s \in DOMAIN Spelled THEN Spelled[s] ELSE NaN

\* Several inputs hold a feature each, one input all of them.
PerCol(x)   == Len(x.in) > 1
NFeatures(x) == IF PerCol(x) THEN Len(x.in) ELSE NCols(x.in[1])
InputOf(x, f) == IF PerCol(x) THEN x.in[f] ELSE x.in[1]
Text(x, r, f) == InputOf(x, f).cells[r][IF PerCol(x) THEN 1 ELSE f]
Num(x, r, f)  == Get(InputOf(x, f), r, IF PerCol(x) THEN 1 ELSE f)
IsString(t) == t.type = "str"

\* Where the attribute's tensors are looked for: behind the data.
Slot(x, k) == IF PerCol(x) THEN Len(x.in) + 1 ELSE k

\* feat_begin and feat_end, clamped to the length of the table.
Begin(offs, f, n) == IF f <= Len(offs) THEN Least(offs[f], n) ELSE 0
End(offs, f, n)   == IF f + 1 <= Len(offs) THEN Least(offs[f + 1], n) ELSE n

\* Mutant of Own: the offsets are taken for lengths.
OwnByLength(table, offs, f) ==
  SubSeq(table, Begin(offs, f, Len(table)) + 1,
         Least(Begin(offs, f, Len(table)) + End(offs, f, Len(table)), Len(table)))

\* The part of a flat table that belongs to feature f.
Own(table, offs, f) ==
  SubSeq(table, Begin(offs, f, Len(table)) + 1, End(offs, f, Len(table)))

\* The position of the first entry equal to v, -1 for none.  NaN equals nothing.
Find(table, v) ==
  LET hits == {k \in 1 .. Len(table) : table[k] = v /\ v # NaN}
  IN  IF hits = {} THEN -1 ELSE Min(hits) - 1

\* A table of numbers: a string is what stod reads of it.
Numbers(t) ==
  IF IsString(t) THEN [k \in 1 .. Len(Flat(t)) |-> Stod(Flat(t)[k])] ELSE Flat(t)

\* A category that is no number is matched by its position.
Keys(table) == [k \in 1 .. Len(table) |-> IF table[k] = NaN THEN k - 1 ELSE table[k]]

\* The position of a cell among the categories of its feature, whether cells are
\* strings or numbers, which the first input decides for all.
PositionOf(x, cats, offs, r, f) ==
  IF IsString(x.in[1])
  THEN IF IsString(cats) THEN Find(Own(Flat(cats), offs, f), Text(x, r, f)) ELSE -1
  ELSE Find(Keys(Own(Numbers(cats), offs, f)), Num(x, r, f))

PassedThrough(x) == [r \in Rows(x) |-> [f \in 1 .. NFeatures(x) |-> Num(x, r, f)]]

\* A wide result as a column for each output, when there are several.
Spread(x, t, widths) ==
  LET off(f) == Sum(SubSeq(widths, 1, f - 1)) IN
  IF x.outs = 1 THEN Gives(<<t>>)
  ELSE Gives([f \in 1 .. Least(x.outs, Len(widths)) |->
                [t EXCEPT !.cells = [r \in DOMAIN @ |-> SubSeq(@[r], off(f) + 1, off(f) + widths[f])]]])

\* Label and target encoders do not clamp their offsets; those of a model file
\* are taken to lie within the table.
LabelEncoder(x) ==
  LET labels == Resolve64(x, Slot(x, 2), "labels")
      offs   == FlatOr(Resolve(x, Slot(x, 3), "label_offsets"), 0, 0)
      code(r, f) == LET k == PositionOf(x, labels, offs, r, f) IN IF k < 0 THEN NaN ELSE k
      table  == IF labels = NoTensor
                THEN IF IsString(x.in[1]) THEN [r \in Rows(x) |-> [f \in 1 .. NFeatures(x) |-> NaN]]
                     ELSE PassedThrough(x)
                ELSE [r \in Rows(x) |-> [f \in 1 .. NFeatures(x) |-> code(r, f)]]
  IN  Spread(x, Stored(AnyF64(x.in), table), [f \in 1 .. NFeatures(x) |-> 1])

\* Mutant of OrdinalEncoder: encoded values are taken by the position within the
\* feature.
OrdinalByPosition(x) ==
  LET cats  == Resolve64(x, Slot(x, 2), "categories")
      offs  == FlatOr(Resolve(x, Slot(x, 3), "category_offsets"), 0, 0)
      vals  == FlatOr(Resolve64(x, Len(x.in) + 1, "encoded_values"), 0, 0)
      def   == FlatOr(Resolve64(x, Len(x.in) + 1, "default_values"), 0, 0)
      worth(f, k) ==
        IF k < 0 THEN IF f <= Len(def) THEN def[f] ELSE NaN
        ELSE IF k < Len(vals) THEN vals[k + 1] ELSE k
  IN  Gives(<<Stored(AnyF64(x.in \o <<Resolve64(x, Len(x.in) + 1, "encoded_values")>>),
                [r \in Rows(x) |-> [f \in 1 .. NFeatures(x) |->
                   worth(f, PositionOf(x, cats, offs, r, f))]])>>)

\* The position, or the value encoded for it; an unseen category has a default
\* for its feature, or NaN.
OrdinalEncoder(x) ==
  LET cats  == Resolve64(x, Slot(x, 2), "categories")
      offs  == FlatOr(Resolve(x, Slot(x, 3), "category_offsets"), 0, 0)
      given == Resolve64(x, Len(x.in) + 1, "encoded_values")
      vals  == FlatOr(given, 0, 0)
      def   == FlatOr(Resolve64(x, Len(x.in) + 1, "default_values"), 0, 0)
      worth(f, k) ==
        LET at == Begin(offs, f, Len(Flat(cats))) + k + 1
        IN  IF k < 0 THEN IF f <= Len(def) THEN def[f] ELSE NaN
            ELSE IF at <= Len(vals) THEN vals[at] ELSE k
      type  == AnyF64(x.in \o <<given>>)
  IN  Gives(<<IF cats = NoTensor
              THEN Stored(type, IF IsString(x.in[1])
                                THEN [r \in Rows(x) |-> [f \in 1 .. NFeatures(x) |-> NaN]]
                                ELSE PassedThrough(x))
              ELSE Stored(type, [r \in Rows(x) |-> [f \in 1 .. NFeatures(x) |->
                                   worth(f, PositionOf(x, cats, offs, r, f))]])>>)

\* The bounds of a feature's block: given, or an equal part.
TargetBlock(offs, f, n, nf) ==
  <<IF f <= Len(offs) THEN offs[f] ELSE (f - 1) * (n \div nf),
    IF f + 1 <= Len(offs) THEN offs[f + 1] ELSE f * (n \div nf)>>

TargetEncoder(x) ==
  LET n    == IF PerCol(x) THEN Len(x.in) ELSE 1
      cats == Resolve64(x, n + 1, "categories")
      enc  == Resolve64(x, n + 2, "encoded_values")
      offs == FlatOr(Resolve(x, n + 3, "category_offsets"), 0, 0)
      def  == FlatOr(Resolve64(x, n + 4, "default_values"), NFeatures(x), 0)
      keys == IF IsString(x.in[1]) /\ IsString(cats) THEN Flat(cats) ELSE Numbers(cats)
      mean(r, f) ==
        LET b == TargetBlock(offs, f, Len(keys), NFeatures(x))
            v == IF IsString(x.in[1]) /\ IsString(cats) THEN Text(x, r, f) ELSE Num(x, r, f)
            k == Find(SubSeq(keys, b[1] + 1, b[2]), v)
        IN  IF k < 0 THEN def[f] ELSE Flat(enc)[b[1] + k + 1]
  IN  IF NoTensor \in {cats, enc} THEN Gives(<<x.in[1]>>)
      ELSE Gives(<<Stored(AnyF64(x.in \o <<enc>>),
                          [r \in Rows(x) |-> [f \in 1 .. NFeatures(x) |-> mean(r, f)]])>>)

-----------------------------------------------------------------------------
(***************************************************************************)
(* One-hot                                                                 *)
(***************************************************************************)

\* A row with a one at position k of n, or nowhere.
Hot(k, n) == [j \in 1 .. n |-> IF j = k + 1 THEN 1 ELSE 0]

\* A number taken for a position, as static_cast<int> makes it.
AsPosition(v, n) == IF v = NaN THEN -1 ELSE IF 0 <= v /\ v < n THEN v ELSE -1

\* Mutant of HotPosition: the first input's type goes for every feature.
HotPositionByFirst(x, cats, own, r, f) ==
  IF IsString(x.in[1])
  THEN IF IsString(cats) /\ IsString(InputOf(x, f)) THEN Find(own, Text(x, r, f)) ELSE -1
  ELSE IF cats # NoTensor /\ ~IsString(cats) THEN Find(own, Num(x, r, f))
  ELSE AsPosition(Num(x, r, f), Len(own))

\* Each feature by its own type: strings among strings, numbers among numbers,
\* and numbers among strings as positions.
HotPosition(x, cats, own, r, f) ==
  IF IsString(InputOf(x, f))
  THEN IF IsString(cats) THEN Find(own, Text(x, r, f)) ELSE -1
  ELSE IF cats # NoTensor /\ ~IsString(cats) THEN Find(own, Num(x, r, f))
  ELSE AsPosition(Num(x, r, f), Len(own))

\* The categories are those under the constant's own name.
OneHotEncoder(x) ==
  LET cats   == Resolve(x, Slot(x, 2), "categories")
      offs   == FlatOr(Resolve(x, Slot(x, 3), "category_offsets"), 0, 0)
      own(f) == Own(FlatOr(cats, 0, 0), offs, f)
      widths == [f \in 1 .. NFeatures(x) |-> Len(own(f))]
      row(r) == FlattenSeq([f \in 1 .. NFeatures(x) |->
                              Hot(HotPosition(x, cats, own(f), r, f), widths[f])])
  IN  Spread(x, Stored("f32", [r \in Rows(x) |-> row(r)]), widths)

\* Mutant of ScratchFor: only a buffer that has to grow is zeroed.
ScratchKept(scratch, needed) ==
  IF Len(scratch) < needed THEN [i \in 1 .. needed |-> 0] ELSE scratch

\* OHENode: the thread's buffer, as large as any call has needed, zeroed as far
\* as this one needs it.
ScratchFor(scratch, needed) ==
  [i \in 1 .. (IF Len(scratch) < needed THEN needed ELSE Len(scratch)) |->
     IF i <= needed THEN 0 ELSE scratch[i]]

\* Its rows lie in the buffer one after the other, the features' blocks within
\* them; cats holds a sequence of strings for each feature.
HotBuffer(x, cats, scratch) ==
  LET widths == [f \in 1 .. Len(cats) |-> Len(cats[f])]
      total  == Sum(widths)
      needed == NRows(x.in[1]) * total
      at(r, f) == (r - 1) * total + Sum(SubSeq(widths, 1, f - 1))
      pos(r, f) == IF IsString(InputOf(x, f)) THEN Find(cats[f], Text(x, r, f))
                   ELSE AsPosition(Num(x, r, f), widths[f])
      hot    == {at(p[1], p[2]) + pos(p[1], p[2]) + 1 :
                   p \in {q \in Rows(x) \X (1 .. Least(Len(cats), NFeatures(x))) :
                            pos(q[1], q[2]) >= 0}}
      clean  == ScratchFor(scratch, needed)
  IN  [i \in DOMAIN clean |-> IF i \in hot THEN 1 ELSE clean[i]]

HotResult(x, cats, scratch) ==
  LET widths == [f \in 1 .. Len(cats) |-> Len(cats[f])]
      total  == Sum(widths)
  IN  Spread(x, Stored("f32", [r \in Rows(x) |-> SubSeq(scratch, (r - 1) * total + 1, r * total)]),
             widths)

-----------------------------------------------------------------------------

\* One class is a threshold of one half, which a whole number passes at 1.
LabelBinarizer(x) ==
  LET classes == Resolve64(x, 2, "classes")
      neg == Attr(x, "neg_label", 0)
      pos == Attr(x, "pos_label", 1)
      row(r) == LET k == Find(Flat(classes), Get(x.in[1], r, 1))
                IN  [j \in 1 .. Len(Flat(classes)) |-> IF j = k + 1 THEN pos ELSE neg]
  IN  Gives(<<Stored("f32", [r \in Rows(x) |->
                IF classes = NoTensor
                THEN <<IF Less(0, Get(x.in[1], r, 1)) THEN pos ELSE neg>>
                ELSE row(r)])>>)

MultiLabelBinarizer(x) ==
  LET classes == Resolve64(x, 2, "classes")
      found(r) == {Find(Flat(classes), Get(x.in[1], r, l)) : l \in Cols(x.in[1])}
  IN  Gives(<<IF classes = NoTensor THEN x.in[1]
              ELSE Stored("f32", [r \in Rows(x) |-> [k \in 1 .. Len(Flat(classes)) |->
                                    IF k - 1 \in found(r) THEN 1 ELSE 0]])>>)

\* The first bin that holds the value.
Discretize(x) ==
  LET left  == Resolve64(x, 2, "bin_left")
      right == Resolve64(x, 3, "bin_right")
      vals  == Resolve64(x, 4, "bin_values")
      flag(name, k) == k > Len(Attr(x, name, << >>)) \/ x.attrs[name][k] # 0
      bins(v) == {k \in 1 .. Len(Flat(left)) :
                    /\ v > Flat(left)[k] \/ (v = Flat(left)[k] /\ flag("left_closed", k))
                    /\ v < Flat(right)[k] \/ (v = Flat(right)[k] /\ flag("right_closed", k))}
      binned(v) == IF v = NaN THEN Attr(x, "map_missing_to", NaN)
                   ELSE IF bins(v) = {} THEN Attr(x, "default_value", NaN)
                   ELSE Flat(vals)[Min(bins(v))]
  IN  IF NoTensor \in {left, right, vals} THEN Nothing
      ELSE Gives(<<Stored("f32", [r \in Rows(x) |-> [c \in Cols(x.in[1]) |->
                                    binned(Get(x.in[1], r, c))]])>>)

\* Between the points around it; outside, the end or nothing.  One point stands
\* for every value, none for none.
Interpolated(v, xs, ys, clamp) ==
  LET n  == Len(xs)
      lo == Max({k \in 1 .. n - 1 : xs[k] <= v})
  IN  IF n = 0 THEN v
      ELSE IF n = 1 THEN ys[1]
      ELSE IF v = NaN THEN NaN
      ELSE IF v <= xs[1] THEN IF clamp THEN ys[1] ELSE NaN
      ELSE IF v >= xs[n] THEN IF clamp THEN ys[n] ELSE NaN
      ELSE ys[lo] + ((v - xs[lo]) * (ys[lo + 1] - ys[lo])) \div (xs[lo + 1] - xs[lo])

NormContinuous(x) ==
  LET orig  == Resolve(x, 2, "orig_points")
      norm  == Resolve(x, 3, "norm_points")
      offs  == FlatOr(Resolve(x, 4, "point_offsets"), 0, 0)
      nf    == IF Len(offs) >= 2 THEN Len(offs) - 1 ELSE NCols(x.in[1])
      of(t, f) == SubSeq(Flat(t), (IF f <= Len(offs) THEN offs[f] ELSE 0) + 1,
                         IF f + 1 <= Len(offs) THEN offs[f + 1] ELSE Len(Flat(orig)))
      clamp == Attr(x, "outlier_treatment", "as_extreme_values") = "as_extreme_values"
  IN  IF NoTensor \in {orig, norm} THEN Nothing
      ELSE Gives(<<Stored(Width(x.in[1]), [r \in Rows(x) |-> [f \in 1 .. nf |->
                            Interpolated(Get(x.in[1], r, f), of(orig, f), of(norm, f), clamp)]])>>)

NormDiscrete(x) ==
  LET mark(v) == IF v = NaN THEN Attr(x, "map_missing_to", NaN)
                 ELSE IF v = Attr(x, "value", 0) THEN 1 ELSE 0
  IN  Gives(<<Stored(Width(x.in[1]), [r \in Rows(x) |-> [c \in Cols(x.in[1]) |->
                                        mark(Get(x.in[1], r, c))]])>>)

MapValues(x) ==
  LET keys   == Resolve64(x, 2, "keys")
      values == Resolve64(x, 3, "values")
      mapped(v) == IF v = NaN THEN Attr(x, "map_missing_to", NaN)
                   ELSE LET k == Find(Flat(keys), v)
                        IN  IF k < 0 THEN Attr(x, "default_value", NaN) ELSE Flat(values)[k + 1]
  IN  IF NoTensor \in {keys, values} THEN Nothing
      ELSE Gives(<<Stored(Width(x.in[1]), [r \in Rows(x) |-> [c \in Cols(x.in[1]) |->
                                             mapped(Get(x.in[1], r, c))]])>>)

=============================================================================
