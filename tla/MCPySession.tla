----------------------------- MODULE MCPySession -----------------------------
\* Frames for PySession: every order of the columns, in the dtypes a run is
\* about.
EXTENDS PySession

Orders == {f \in [1 .. Cardinality(Inputs) -> Inputs] : Range(f) = Inputs}
FramesOf(dtypes) == [columns : Orders, dtype : dtypes]

All(d) == [c \in Inputs |-> d]

\* Frames whose columns share a dtype that the session reads as float32.
Uniform == FramesOf({All("float32"), All("int64")})

\* Integer columns next to float columns, as when some column has gaps.
Mixed == FramesOf([Inputs -> {"float32", "int64"}])

Labelled == FramesOf({[All("float32") EXCEPT ![CHOOSE c \in Inputs : TRUE] = "object"]})

NoFrames == {}
Numbers == [i \in Inputs |-> "num"]
OneColumn == [o \in Outputs |-> 1]

=============================================================================
