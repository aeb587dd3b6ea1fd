------------------------------ MODULE PySession ------------------------------
(***************************************************************************)
(* The Python binding's Session over a model with one input per column     *)
(* (python/omle_runtime/__init__.py): the column schema it registers when  *)
(* it is made, and predict_proba on data frames, which takes the columns   *)
(* out of pandas' blocks at positions cached from an earlier frame and     *)
(* hands them to predict_registered.                                       *)
(*                                                                         *)
(* The data of a frame's column is the column's own name, so that a tensor *)
(* shows which column it was filled from.  A behavior is the life of one   *)
(* session, made by a C client (Session's calls, in any order) or by a     *)
(* Python one.                                                             *)
(***************************************************************************)
EXTENDS Session

CONSTANTS
  Clients, \* who makes the session: subset of {"c", "python"}
  Batches, \* the numbers of rows in Python's frames
  InType,  \* the declared type of each input: "num" or "str"
  Scored,  \* the frames passed to predict_proba: [columns, dtype]
  Strings  \* those passed to predict, with a column of strings

ASSUME PyAssumption ==
  /\ Clients \subseteq {"c", "python"}
  /\ Vals = Inputs
  /\ Batches \subseteq Nat \ {0}
  /\ InType \in [Inputs -> {"num", "str"}]
  /\ \A f \in Scored \cup Strings :
       /\ f.columns \in [1 .. Cardinality(Inputs) -> Inputs] /\ Range(f.columns) = Inputs
       /\ f.dtype \in [Inputs -> {"float32", "float64", "int64", "object"}]

VARIABLES
  client,  \* whose session it is
  cached,  \* _cached_col_key and _cached_col_positions, or None
  asked    \* what the latest predict_proba should have handed over, or None

pyvars == <<svars, client, cached, asked>>

-----------------------------------------------------------------------------
(***************************************************************************)
(* pandas and the extension module                                         *)
(***************************************************************************)

\* The elements of s that are in T, in their order.
Kept(s, T) ==
  LET kept[k \in 0 .. Len(s)] ==
        IF k = 0 THEN << >>
        ELSE IF s[k] \in T THEN Append(kept[k - 1], s[k])
        ELSE kept[k - 1]
  IN  kept[Len(s)]

\* A consolidated frame keeps the columns of a dtype in one block; the blocks
\* are in the order of the dtypes' names.
DTypeNames == <<"float32", "float64", "int64", "object">>
Blocks(f) ==
  LET dtypes == Kept(DTypeNames, {f.dtype[c] : c \in Inputs})
  IN  [k \in 1 .. Len(dtypes) |->
         Kept(f.columns, {c \in Inputs : f.dtype[c] = dtypes[k]})]

\* The type build_col_arrays hands a numpy array over as.
LentAs(d) == CASE d = "object" -> "str" [] d = "float64" -> "f64" [] OTHER -> "f32"

-----------------------------------------------------------------------------
(***************************************************************************)
(* Session                                                                 *)
(***************************************************************************)

\* col_types = [1 if is_str else 0 ...]: 0 is OMLE_COL_FLOAT32 and 1 is
\* OMLE_COL_FLOAT64.
ColTypes == [i \in Inputs |-> IF InType[i] = "str" THEN "f64" ELSE "f32"]

\* Mutant of Positions: the cache is taken for any frame.
PositionsAnyKey(f) ==
  IF cached # None THEN cached.at
  ELSE [c \in Inputs |->
          LET b == Blocks(f)
          IN  CHOOSE p \in (1 .. Len(b)) \X (1 .. Cardinality(Inputs)) :
                p[2] <= Len(b[p[1]]) /\ b[p[1]][p[2]] = c]

\* _resolve_col_positions, where the columns' names are those cached before.
Positions(f) ==
  IF cached # None /\ cached.key = f.columns THEN cached.at
  ELSE [c \in Inputs |->
          LET b == Blocks(f)
          IN  CHOOSE p \in (1 .. Len(b)) \X (1 .. Cardinality(Inputs)) :
                p[2] <= Len(b[p[1]]) /\ b[p[1]][p[2]] = c]

\* _build_col_data_fast: the column at each position, or every column by its
\* name when one of the positions is not there.
Taken(f) ==
  LET b  == Blocks(f)
      at == Positions(f)
  IN  IF \A c \in Inputs : at[c][1] <= Len(b) /\ at[c][2] <= Len(b[at[c][1]])
      THEN [c \in Inputs |-> b[at[c][1]][at[c][2]]]
      ELSE [c \in Inputs |-> c]

\* __init__ of a session on a fresh C session.
PyInit ==
  /\ client = "python"
  /\ \E o \in Asked : Created(Schema(ColTypes, o))
  /\ cached = None
  /\ asked = None

PredictProba(n, f) ==
  LET took == Taken(f)
  IN  /\ PredictRegistered(n, [i \in Inputs |-> LentAs(f.dtype[took[i]])], took)
      /\ cached' = [key |-> f.columns, at |-> Positions(f)]
      /\ asked' = [i \in Inputs |-> Cell(n, i)]

\* predict on a frame with strings: columns by name, run, get_output.
PyPredict(n, f) ==
  /\ \E c \in Inputs : f.dtype[c] = "object"  \* _df_has_strings
  /\ LET ins == [i \in Inputs |-> Cell(n, i)]
     IN  bound_inputs' = ins /\ Execute(ins)
  /\ Done("ok")
  /\ asked' = None
  /\ UNCHANGED <<bound_outputs, reg_cols, cached>>

CInit == client = "c" /\ SInit /\ cached = None /\ asked = None

CallC == client = "c" /\ SNext /\ UNCHANGED <<cached, asked>>

CallPython ==
  /\ client = "python"
  /\ \E n \in Batches :
       \/ \E f \in Scored : PredictProba(n, f)
       \/ \E f \in Strings : PyPredict(n, f)

ClientInit == client \in Clients /\ (CInit \/ PyInit)

ClientNext == (CallC \/ CallPython) /\ UNCHANGED client

ClientSpec == ClientInit /\ [][ClientNext]_pyvars

-----------------------------------------------------------------------------

\* The model scores the columns of the frame it was given, each under its own
\* name, whatever frames came before.
ProbaOfThisFrame == asked # None => reply.status = "ok" /\ reply.got[2] = asked

=============================================================================
