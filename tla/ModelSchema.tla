----------------------------- MODULE ModelSchema -----------------------------
(***************************************************************************)
(* The schema node: per feature, what becomes of a missing, invalid or     *)
(* outlying value (src/model_schema.cpp, src/model_schema.h).              *)
(*                                                                         *)
(* Numbers are integers.  All of them are doubles and the multiples of     *)
(* Grain are floats, so that narrowing, which rounds to the nearest float, *)
(* and nextafter have something to do.  NaN is a model value, and Infinity *)
(* a number above all others.                                              *)
(*                                                                         *)
(* A feature is [col, missing, missing_replacement, invalid,               *)
(* invalid_replacement, outlier, domain]; a domain has a kind, "none",     *)
(* "continuous" with a sequence of intervals [left, right, left_open,      *)
(* right_open], or "discrete" with the sets valid, invalid and missing.    *)
(***************************************************************************)
EXTENDS Integers, Sequences, FiniteSetsExt

CONSTANTS
  NaN,
  Infinity,
  Grain      \* how far apart floats are, odd

\* The conversion of a double to float.
Narrow(v) == IF v = NaN THEN NaN ELSE ((v + Grain \div 2) \div Grain) * Grain

-----------------------------------------------------------------------------
(***************************************************************************)
(* Intervals                                                               *)
(***************************************************************************)

\* CompiledInterval::contains
Contains(iv, v) ==
  /\ IF iv.left_open THEN v > iv.left ELSE v >= iv.left
  /\ IF iv.right_open THEN v < iv.right ELSE v <= iv.right

\* CompiledInterval::clamp_to: an open end gives the float next to it.
ClampTo(iv, v) ==
  LET lo == IF iv.left_open THEN iv.left + Grain ELSE iv.left
      hi == IF iv.right_open THEN iv.right - Grain ELSE iv.right
  IN  CASE lo > hi            -> Narrow((lo + hi) \div 2)
        [] lo <= hi /\ v < lo -> lo
        [] lo <= hi /\ v > hi -> hi
        [] OTHER              -> v

Distance(v, c) == IF c < v THEN v - c ELSE c - v

\* clamp_to_extreme: the first of the nearest.  An infinite distance is not
\* smaller than the one the search starts with.
ClampToExtreme(dom, v) ==
  LET c(k)   == ClampTo(dom.intervals[k], v)
      finite == {k \in 1 .. Len(dom.intervals) : v \notin {Infinity, -Infinity}
                                                 /\ c(k) \notin {Infinity, -Infinity}}
      best   == {k \in finite : \A j \in finite : Distance(v, c(k)) <= Distance(v, c(j))}
  IN  IF best = {} THEN NaN ELSE c(Min(best))

-----------------------------------------------------------------------------
(***************************************************************************)
(* The policies, on the float view of a value                              *)
(***************************************************************************)

HandleInvalid(f, v) ==
  CASE f.invalid = "as_is"    -> v
    [] f.invalid = "as_value" -> f.invalid_replacement
    [] OTHER                  -> NaN

IsMissing(f, v) == v = NaN \/ (f.domain.kind = "discrete" /\ v \in f.domain.missing)

\* Mutant of IsInvalid: only the values listed as invalid are.
ListedInvalid(f, v) == f.domain.kind = "discrete" /\ v \in f.domain.invalid

IsInvalid(f, v) ==
  /\ f.domain.kind = "discrete"
  /\ v \in f.domain.invalid \/ (f.domain.valid # {} /\ v \notin f.domain.valid)

\* Mutant of IsOutlier: the value has to lie in every interval.
OutsideSome(f, v) ==
  /\ f.domain.kind = "continuous"
  /\ \E k \in 1 .. Len(f.domain.intervals) : ~Contains(f.domain.intervals[k], v)

IsOutlier(f, v) ==
  /\ f.domain.kind = "continuous" /\ f.domain.intervals # << >>
  /\ \A k \in 1 .. Len(f.domain.intervals) : ~Contains(f.domain.intervals[k], v)

\* Mutant of HandleMissing: a missing value that is to be invalid stays missing.
MissingStays(f, v) == IF f.missing = "as_value" THEN f.missing_replacement ELSE NaN

HandleMissing(f, v) ==
  CASE f.missing = "propagate" -> NaN
    [] f.missing = "as_value"  -> f.missing_replacement
    [] OTHER                   -> HandleInvalid(f, v)

HandleOutlier(f, v) ==
  CASE f.outlier = "as_is"      -> v
    [] f.outlier = "as_missing" -> NaN
    [] OTHER                    -> ClampToExtreme(f.domain, v)

\* Missing comes before invalid, and a value that one policy has dealt with is
\* not looked at by the next.
ApplySchema(f, v) ==
  CASE IsMissing(f, v)                                        -> HandleMissing(f, v)
    [] ~IsMissing(f, v) /\ IsInvalid(f, v)                    -> HandleInvalid(f, v)
    [] ~IsMissing(f, v) /\ ~IsInvalid(f, v) /\ IsOutlier(f, v) -> HandleOutlier(f, v)
    [] OTHER                                                  -> v

\* Mutant of Cell64: every value is written back as the float it was judged by.
CellNarrowed(f, v) == ApplySchema(f, Narrow(v))

\* A cell of a float64 source is judged by its float view and kept in full when
\* the schema leaves it alone.
Cell64(f, v) ==
  LET adj == ApplySchema(f, Narrow(v))
  IN  IF adj = Narrow(v) THEN v ELSE adj

Cell32(f, v) == ApplySchema(f, v)

\* ModelSchemaNode::execute on one source, its rows of type float64 or not.  In
\* batch mode, one wide tensor where the features are the columns of one source
\* in their order, as in the other, a tensor for each, the k-th feature of a row
\* is its own column of that row.
Screened(features, rows, f64) ==
  [r \in 1 .. Len(rows) |->
     [k \in 1 .. Len(features) |->
        IF f64 THEN Cell64(features[k], rows[r][features[k].col])
               ELSE Cell32(features[k], rows[r][features[k].col])]]

=============================================================================
