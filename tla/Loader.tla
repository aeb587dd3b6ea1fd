-------------------------------- MODULE Loader --------------------------------
(***************************************************************************)
(* Model::load: reading a model file, building its executor, judging       *)
(* whether this build executes it correctly - by the verification cases it *)
(* carries, else by the schema version it declares - and warming it up     *)
(* (src/runtime.cpp, src/model_loader.cpp, the end of src/graph_loader.cpp).*)
(*                                                                         *)
(* A version is a sequence of characters: digits, "." and "x", which       *)
(* stands for every character that is neither.  A                          *)
(* verification case is abstracted to what running it gives, output by     *)
(* output: the recorded values are matched, missed by more than the        *)
(* tolerance, met by a NaN, of another number of elements or not produced, *)
(* or they are strings.                                                    *)
(***************************************************************************)
EXTENDS Integers, FiniteSets, Sequences, TLC

CONSTANTS
  Sources,   \* what there is to read: subset of {"no_file", "unreadable", "garbled", "bad_graph", "good"}
  Models,    \* what models declare: <<version, verification cases, warmup cases>>,
             \* sequences of characters, of [refs, runs, outputs] and of
             \* [refs, runs, repeat]
  Options,   \* the load options: [run_verification, run_warmup]
  IntMax     \* the largest int

Outcomes == {"match", "mismatch", "nan", "shape", "absent", "string"}

Cases   == [refs : BOOLEAN, runs : BOOLEAN, outputs : SUBSET Outcomes]
Warmups == [refs : BOOLEAN, runs : BOOLEAN, repeat : Int]

ASSUME LoaderAssumption ==
  /\ Sources \subseteq {"no_file", "unreadable", "garbled", "bad_graph", "good"}
  /\ \A m \in Models : /\ m[1] \in Seq(STRING)
                       /\ m[2] \in Seq(Cases) /\ m[3] \in Seq(Warmups)
  /\ Options \subseteq [run_verification : BOOLEAN, run_warmup : BOOLEAN]
  /\ IntMax \in Nat

VARIABLES
  source,    \* the file
  version,   \* metadata().format_version()
  cases,     \* verification().cases()
  warmups,   \* warmup().cases()
  opts,      \* the load options
  step,      \* where load is
  at,        \* the case run_verification or run_warmup has come to
  verified,
  warnings,
  code,      \* the ErrorCode of the returned Status, or "none"
  names,     \* whether the message blames the declared version
  passes     \* calls of predict_named_serial run_warmup has made, case by case

input == <<source, version, cases, warmups, opts>>
lvars == <<input, step, at, verified, warnings, code, names, passes>>

-----------------------------------------------------------------------------
(***************************************************************************)
(* The schema version                                                      *)
(***************************************************************************)

\* The digits and what they are worth.
Worth == [d \in {ToString(n) : n \in 0 .. 9} |-> CHOOSE n \in 0 .. 9 : ToString(n) = d]
Digits == DOMAIN Worth

kFormatMajor == 0
kFormatMinor == 1

\* out[part] is an int, which wraps around.
AsInt(x) ==
  LET r == x % (2 * (IntMax + 1))
  IN  IF r > IntMax THEN r - 2 * (IntMax + 1) ELSE r

\* Mutant of Scan: a dot is taken without digits before it.
ScanLoose(s, c) ==
  IF ~s.ok THEN s
  ELSE IF c = "." THEN IF s.part = 3 THEN [s EXCEPT !.ok = FALSE]
                       ELSE [s EXCEPT !.part = @ + 1, !.digits = FALSE]
  ELSE IF c \notin Digits THEN [s EXCEPT !.ok = FALSE]
  ELSE [s EXCEPT !.out[s.part] = AsInt(10 * @ + Worth[c]), !.digits = TRUE]

\* One character of parse_format_version's loop.
Scan(s, c) ==
  IF ~s.ok THEN s
  ELSE IF c = "." THEN IF ~s.digits \/ s.part = 3 THEN [s EXCEPT !.ok = FALSE]
                       ELSE [s EXCEPT !.part = @ + 1, !.digits = FALSE]
  ELSE IF c \notin Digits THEN [s EXCEPT !.ok = FALSE]
  ELSE [s EXCEPT !.out[s.part] = AsInt(10 * @ + Worth[c]), !.digits = TRUE]

Parsed(v) ==
  LET scanned[k \in 0 .. Len(v)] ==
        IF k = 0 THEN [ok |-> TRUE, out |-> <<0, 0, 0>>, part |-> 1, digits |-> FALSE]
        ELSE Scan(scanned[k - 1], v[k])
  IN  scanned[Len(v)]

FormatStatus(v) ==
  IF v = << >> THEN "Absent"
  ELSE LET p == Parsed(v)
       IN  IF ~(p.ok /\ p.digits) THEN "Malformed"
           ELSE IF p.out[1] = kFormatMajor /\ (kFormatMajor # 0 \/ p.out[2] = kFormatMinor)
                THEN "Supported" ELSE "Unsupported"

fstatus == FormatStatus(version)

-----------------------------------------------------------------------------

\* A load of model m from file s under options o.
Loading(s, m, o) ==
  /\ source = s /\ opts = o
  /\ version = m[1] /\ cases = m[2] /\ warmups = m[3]
  /\ step = "read" /\ at = 1
  /\ verified = FALSE /\ warnings = {}
  /\ code = "none" /\ names = FALSE /\ passes = [i \in 1 .. Len(warmups) |-> 0]

\* Mutant of Throw: the exception leaves no code.
ThrowUncoded(blame) ==
  /\ step' = "failed"
  /\ names' = blame
  /\ UNCHANGED <<input, at, verified, warnings, code, passes>>

\* status_from_current_exception: whatever was thrown, InvalidGraph.
Throw(blame) ==
  /\ step' = "failed"
  /\ code' = "InvalidGraph"
  /\ names' = blame
  /\ UNCHANGED <<input, at, verified, warnings, passes>>

\* load_from_file.
ReadFile ==
  /\ step = "read" /\ source \notin {"no_file", "unreadable"}
  /\ step' = "build"
  /\ UNCHANGED <<input, at, verified, warnings, code, names, passes>>

ReadFails == step = "read" /\ source \in {"no_file", "unreadable"} /\ Throw(FALSE)

\* ParseFromArray and build_from_proto, and the pool for n_threads > 1.
Build ==
  /\ step = "build" /\ source = "good"
  /\ step' = IF opts.run_verification THEN "verify" ELSE "decide"
  /\ UNCHANGED <<input, at, verified, warnings, code, names, passes>>

BuildFails == step = "build" /\ source # "good" /\ Throw(FALSE)

\* Mutant of CasePasses: the number of elements is not compared.
CasePassesAnyShape(c) == c.refs /\ c.runs /\ c.outputs \cap {"mismatch", "absent"} = {}

\* Whether run_verification gets past a case.  Strings are not compared, and a
\* difference that is NaN is not greater than the tolerance.
CasePasses(c) ==
  c.refs /\ c.runs /\ c.outputs \cap {"mismatch", "shape", "absent"} = {}

\* Mutant of VerifyCase: the loop does not advance.
VerifyAgain ==
  /\ step = "verify" /\ at <= Len(cases) /\ CasePasses(cases[at])
  /\ UNCHANGED lvars

VerifyCase ==
  /\ step = "verify" /\ at <= Len(cases) /\ CasePasses(cases[at])
  /\ at' = at + 1
  /\ UNCHANGED <<input, step, verified, warnings, code, names, passes>>

\* Mutant of VerifyFails: a version that cannot be read is not blamed.
VerifyFailsBlameless ==
  /\ step = "verify" /\ at <= Len(cases) /\ ~CasePasses(cases[at])
  /\ Throw(fstatus = "Unsupported")

VerifyFails ==
  /\ step = "verify" /\ at <= Len(cases) /\ ~CasePasses(cases[at])
  /\ Throw(fstatus \in {"Unsupported", "Malformed"})

\* Mutant of Verified: no cases count as evidence too.
VerifiedAnyway ==
  /\ step = "verify" /\ at > Len(cases)
  /\ verified' = TRUE
  /\ step' = "decide"
  /\ UNCHANGED <<input, at, warnings, code, names, passes>>

\* run_verification returns: true when there were cases.
Verified ==
  /\ step = "verify" /\ at > Len(cases)
  /\ verified' = (cases # << >>)
  /\ step' = "decide"
  /\ UNCHANGED <<input, at, warnings, code, names, passes>>

\* A mismatch is worth a warning only where nothing was verified.
Decide ==
  /\ step = "decide"
  /\ warnings' = IF verified \/ fstatus \in {"Absent", "Supported"} THEN {}
                 ELSE {[says |-> fstatus, because |-> "no verification cases"]}
  /\ step' = IF opts.run_warmup THEN "warm" ELSE "loaded"
  /\ at' = 1
  /\ UNCHANGED <<input, verified, code, names, passes>>

\* Mutant of WarmCase: a repeat of zero runs nothing.
WarmUnclamped ==
  /\ step = "warm" /\ at <= Len(warmups) /\ warmups[at].refs /\ warmups[at].runs
  /\ passes' = [passes EXCEPT ![at] = @ + warmups[at].repeat]
  /\ at' = at + 1
  /\ UNCHANGED <<input, step, verified, warnings, code, names>>

\* Each warmup case, max(1, repeat) times.
WarmCase ==
  /\ step = "warm" /\ at <= Len(warmups) /\ warmups[at].refs /\ warmups[at].runs
  /\ passes' = [passes EXCEPT ![at] = @ + (IF warmups[at].repeat > 1 THEN warmups[at].repeat ELSE 1)]
  /\ at' = at + 1
  /\ UNCHANGED <<input, step, verified, warnings, code, names>>

WarmFails ==
  /\ step = "warm" /\ at <= Len(warmups)
  /\ ~(warmups[at].refs /\ warmups[at].runs)
  /\ Throw(FALSE)

Warmed ==
  /\ step = "warm" /\ at > Len(warmups)
  /\ step' = "loaded"
  /\ UNCHANGED <<input, at, verified, warnings, code, names, passes>>

LNext ==
  \/ ReadFile \/ ReadFails \/ Build \/ BuildFails
  \/ VerifyCase \/ VerifyFails \/ Verified \/ Decide
  \/ WarmCase \/ WarmFails \/ Warmed

LInit == \E s \in Sources, m \in Models, o \in Options : Loading(s, m, o)

LSpec == LInit /\ [][LNext]_lvars

-----------------------------------------------------------------------------

LTypeOK ==
  /\ step \in {"read", "build", "verify", "decide", "warm", "loaded", "failed"}
  /\ at \in Nat /\ passes \in [1 .. Len(warmups) -> Nat]
  /\ verified \in BOOLEAN /\ names \in BOOLEAN
  /\ code \in {"none", "InvalidGraph"}
  /\ (code # "none") <=> (step = "failed")

\* "Strict MAJOR[.MINOR[.PATCH]]" (graph_loader.cpp:2223), said without the
\* loop: the parts between the dots are one to three numbers.
Dots(v) == {i \in 1 .. Len(v) : v[i] = "."}
WellFormed(v) ==
  /\ v # << >>
  /\ \A i \in 1 .. Len(v) : v[i] \in Digits \cup {"."}
  /\ Cardinality(Dots(v)) <= 2
  /\ \A i \in Dots(v) : 1 < i /\ i < Len(v) /\ v[i + 1] # "."

\* The number that digits write.
Number(v) ==
  LET read[k \in 0 .. Len(v)] ==
        IF k = 0 THEN 0 ELSE 10 * read[k - 1] + Worth[v[k]]
  IN  read[Len(v)]

\* The characters of v from i up to the next dot.
PartAt(v, i) == SubSeq(v, i, CHOOSE j \in i - 1 .. Len(v) :
                  /\ \A k \in i .. j : v[k] # "."
                  /\ j = Len(v) \/ v[j + 1] = ".")

Major(v) == Number(PartAt(v, 1))
Minor(v) ==
  LET first == Len(PartAt(v, 1))
  IN  IF first < Len(v) THEN Number(PartAt(v, first + 2)) ELSE 0

ThisFormat(v) == Major(v) = kFormatMajor /\ Minor(v) = kFormatMinor

\* The version is judged by what it says: absent when there is nothing,
\* malformed when it is none, and otherwise supported exactly when it reads 0.1,
\* with or without a patch, where its numbers are ints.
VersionJudged ==
  /\ fstatus \in {"Absent", "Malformed", "Supported", "Unsupported"}
  /\ fstatus = "Absent" <=> version = << >>
  /\ fstatus = "Malformed" <=> version # << >> /\ ~WellFormed(version)
  /\ WellFormed(version) /\ Major(version) <= IntMax /\ Minor(version) <= IntMax =>
       (fstatus = "Supported" <=> ThisFormat(version))

\* A model that loads has met every number its verification cases record, when
\* they are run: "the load fails if results fall outside the declared
\* tolerance" (README.md:493).
Wrong(c) == c.outputs \cap {"mismatch", "nan", "shape", "absent"} # {}
LoadedMeansMatched ==
  step = "loaded" /\ opts.run_verification => \A i \in 1 .. Len(cases) : ~Wrong(cases[i])

\* Evidence before declaration: a version this build does not know is passed
\* over in silence only on a model that ran at least one case, and every
\* warning is about such a version (graph_loader.cpp:2293-2303).
SilenceIsEarned ==
  step = "loaded" =>
    IF fstatus \in {"Absent", "Supported"} THEN warnings = {}
    ELSE (warnings = {}) <=> (opts.run_verification /\ cases # << >>)

\* A failed verification says which version the model declares when, and only
\* when, that is the likely cause (graph_loader.cpp:2309-2320).
BlameIsRight ==
  names <=> step = "failed" /\ source = "good" /\ opts.run_verification
            /\ fstatus \in {"Unsupported", "Malformed"}
            /\ \E i \in 1 .. Len(cases) : ~CasePasses(cases[i])

\* Warmup never runs on a model that verification turned down, and runs each
\* case at least once, whatever its repeat says, before the model is handed out.
WarmupAfterEvidence ==
  /\ (\E i \in 1 .. Len(warmups) : passes[i] > 0) /\ opts.run_verification =>
       \A i \in 1 .. Len(cases) : CasePasses(cases[i])
  /\ step = "loaded" /\ opts.run_warmup => \A i \in 1 .. Len(warmups) : passes[i] >= 1

\* How far a load has come says what it has established.
LInv ==
  /\ LTypeOK
  /\ \E m \in Models : version = m[1] /\ cases = m[2] /\ warmups = m[3]
  /\ step \in {"read", "build"} => at = 1 /\ ~verified
  /\ step \in {"verify", "decide", "warm", "loaded"} => source = "good"
  /\ step = "verify" => /\ opts.run_verification /\ at \in 1 .. Len(cases) + 1
                         /\ \A i \in 1 .. at - 1 : CasePasses(cases[i])
  /\ step \in {"decide", "warm", "loaded"} =>
       /\ verified <=> (opts.run_verification /\ cases # << >>)
       /\ opts.run_verification => \A i \in 1 .. Len(cases) : CasePasses(cases[i])
  /\ step \in {"warm", "loaded"} =>
       ((warnings = {}) <=> (verified \/ fstatus \in {"Absent", "Supported"}))
  /\ step = "warm" => opts.run_warmup /\ at \in 1 .. Len(warmups) + 1
                       /\ \A i \in 1 .. at - 1 : passes[i] >= 1
  /\ step \in {"read", "build", "verify", "decide"} =>
       passes = [i \in 1 .. Len(warmups) |-> 0]
  /\ BlameIsRight
  /\ WarmupAfterEvidence

\* Every load ends.
LoadEnds == <>(step \in {"loaded", "failed"})

=============================================================================
