-------------------------- MODULE MCGraphExecutor --------------------------
(* Small instances of GraphExecutor for TLC. *)
EXTENDS GraphExecutor, TLC

\* One output of each type that vcat_tensors copies whole.
NumericTypes == [score |-> "f32", prob |-> "f64", cluster |-> "i32"]

\* A classifier's two outputs: an INT64 label and its probabilities.
ClassifierTypes == [label |-> "i64", prob |-> "f32"]

ScoreType == [score |-> "f32"]

\* No filter, one output, and a name the graph does not have.
FilterSets == {{}, {"prob"}, {"prob", "other"}, {"other"}}

=============================================================================
