------------------------------ MODULE ModelLoad ------------------------------
(***************************************************************************)
(* A model's way from its file to its first result: Model::load (Loader),  *)
(* whose build step compiles the graph (GraphLoader), and a run of the     *)
(* compiled graph by a caller who got the model.  Nothing runs before the  *)
(* graph is compiled, and no caller runs a model that was turned down.     *)
(***************************************************************************)
EXTENDS Loader, GraphLoader

CONSTANT Files  \* what there is to load: file, model, options, graph

ASSUME FilesAssumption == Files \subseteq Sources \X Models \X Options \X Graphs

mlvars == <<lvars, glvars>>

MInit == \E f \in Files : Loading(f[1], f[2], f[3]) /\ Compiling(f[4])

\* build_from_proto, before build_graph_executor looks at verification cases.
BuildGraph == step = "build" /\ source = "good" /\ Compile /\ UNCHANGED lvars

LoadStep ==
  /\ step = "build" /\ source = "good" => stage = "run"
  /\ LNext
  /\ UNCHANGED glvars

Predict == step = "loaded" /\ RunGraph /\ UNCHANGED lvars

MNext == BuildGraph \/ LoadStep \/ Predict

\* One thread loads and then calls: nothing keeps it from its next step.
MSpec == MInit /\ [][MNext]_mlvars /\ WF_mlvars(MNext)

=============================================================================
