---------------------------- MODULE LoaderProofs ----------------------------
(***************************************************************************)
(* Proofs about Loader: for any models, files and options, what a load has *)
(* established when it hands a model out, and what it says when it does    *)
(* not.  And about GraphLoader and ModelLoad: for any model whose names    *)
(* leave nothing to clash, the compiled graph computes what the declared   *)
(* one does, and a load that compiles is a load of Loader's, so that the   *)
(* same holds there.                                                       *)
(*                                                                         *)
(* Both graphs are run from their first node to their last.  After every   *)
(* node of the declared graph, and after the nodes the compiled graph has  *)
(* in its place, the two stores agree on every name the declared one holds *)
(* (Agree), features of a batch apart: those lie in one tensor.  Within a  *)
(* composite the parent's store agrees with the scope inside under the     *)
(* names inlining gives (AgreeInside).                                     *)
(***************************************************************************)
EXTENDS ModelLoad, Loops, SequenceTheorems, FiniteSetTheorems

-----------------------------------------------------------------------------
(***************************************************************************)
(* A load                                                                  *)
(***************************************************************************)

\* What a model declares keeps its types.
LEMMA DeclaredIsTyped ==
  ASSUME NEW m \in Models
  PROVE  m[1] \in Seq(STRING) /\ m[2] \in Seq(Cases) /\ m[3] \in Seq(Warmups)
  BY LoaderAssumption

LEMMA LoadStarts == LInit => LInv
  <1>1. SUFFICES ASSUME NEW s \in Sources, NEW m \in Models, NEW o \in Options,
                        Loading(s, m, o)
                 PROVE  LInv
    BY DEF LInit
  <1>2. /\ step = "read" /\ at = 1 /\ verified = FALSE /\ code = "none"
        /\ names = FALSE /\ passes = [i \in 1 .. Len(warmups) |-> 0]
        /\ version = m[1] /\ cases = m[2] /\ warmups = m[3]
    BY <1>1 DEF Loading
  <1>3. LTypeOK
    BY <1>2 DEF LTypeOK
  <1>4. BlameIsRight /\ WarmupAfterEvidence
    BY <1>2 DEF BlameIsRight, WarmupAfterEvidence
  <1>5. QED
    BY <1>2, <1>3, <1>4 DEF LInv

\* An exception ends the load; it blames the version only where blame says.
LEMMA ThrowKeeps ==
  ASSUME LInv, step \in {"read", "build", "verify", "warm"},
         NEW blame \in BOOLEAN, Throw(blame),
         blame <=> /\ source = "good" /\ opts.run_verification
                   /\ fstatus \in {"Unsupported", "Malformed"}
                   /\ \E i \in 1 .. Len(cases) : ~CasePasses(cases[i])
  PROVE  LInv'
  <1>1. /\ step' = "failed" /\ code' = "InvalidGraph" /\ names' = blame
        /\ UNCHANGED <<source, version, cases, warmups, opts, at, verified, warnings, passes>>
    BY DEF Throw, input
  <1>2. fstatus' = fstatus
    BY <1>1 DEF fstatus
  <1>3. LTypeOK'
    BY <1>1 DEF LInv, LTypeOK
  <1>4. BlameIsRight'
    BY <1>1, <1>2 DEF BlameIsRight, CasePasses
  <1>5. WarmupAfterEvidence'
    BY <1>1 DEF LInv, WarmupAfterEvidence, CasePasses
  <1>6. QED
    BY <1>1, <1>3, <1>4, <1>5 DEF LInv

LEMMA LoadKeeps == LInv /\ [LNext]_lvars => LInv'
  <1> SUFFICES ASSUME LInv, [LNext]_lvars PROVE LInv'
    OBVIOUS
  <1> USE DEF input
  <1>1. PICK m \in Models : version = m[1] /\ cases = m[2] /\ warmups = m[3]
    BY DEF LInv
  <1>2. /\ cases \in Seq(Cases) /\ warmups \in Seq(Warmups)
        /\ Len(cases) \in Nat /\ Len(warmups) \in Nat
        /\ cases = << >> <=> Len(cases) = 0
    BY <1>1, DeclaredIsTyped
  <1>3. CASE UNCHANGED lvars
    BY <1>3 DEF lvars, LInv, LTypeOK, BlameIsRight, WarmupAfterEvidence, CasePasses, fstatus
  <1>4. CASE ReadFile
    BY <1>4 DEF ReadFile, LInv, LTypeOK, BlameIsRight, WarmupAfterEvidence, CasePasses, fstatus
  <1>5. CASE ReadFails
    BY <1>5, ThrowKeeps DEF ReadFails
  <1>6. CASE Build
    <2>1. /\ step = "build" /\ source = "good" /\ at = 1 /\ ~verified
          /\ step' = IF opts.run_verification THEN "verify" ELSE "decide"
          /\ UNCHANGED <<source, version, cases, warmups, opts, at, verified, warnings, code, names, passes>>
      BY <1>6 DEF Build, LInv
    <2>2. LTypeOK' /\ BlameIsRight' /\ WarmupAfterEvidence'
      BY <2>1 DEF LInv, LTypeOK, BlameIsRight, WarmupAfterEvidence, CasePasses, fstatus
    <2>3. passes' = [i \in 1 .. Len(warmups') |-> 0]
      BY <2>1 DEF LInv
    <2>4. step' = "verify" => at' \in 1 .. Len(cases') + 1 /\ 1 .. at' - 1 = {}
      BY <1>2, <2>1
    <2>5. QED
      BY <1>1, <2>1, <2>2, <2>3, <2>4 DEF LInv
  <1>7. CASE BuildFails
    BY <1>7, ThrowKeeps DEF BuildFails
  <1>8. CASE VerifyCase
    BY <1>2, <1>8 DEF VerifyCase, LInv, LTypeOK, BlameIsRight, WarmupAfterEvidence, CasePasses, fstatus
  <1>9. CASE VerifyFails
    <2> DEFINE blame == fstatus \in {"Unsupported", "Malformed"}
    <2>1. /\ step = "verify" /\ at <= Len(cases) /\ ~CasePasses(cases[at])
          /\ Throw(blame)
      BY <1>9 DEF VerifyFails
    <2>2. source = "good" /\ opts.run_verification /\ at \in 1 .. Len(cases)
      BY <1>2, <2>1 DEF LInv
    <2>3. \E i \in 1 .. Len(cases) : ~CasePasses(cases[i])
      BY <2>1, <2>2
    <2>4. blame \in BOOLEAN
      OBVIOUS
    <2>5. QED
      BY <2>1, <2>2, <2>3, <2>4, ThrowKeeps
  <1>10. CASE Verified
    <2>1. /\ step = "verify" /\ at > Len(cases) /\ step' = "decide"
          /\ verified' = (cases # << >>)
          /\ UNCHANGED <<source, version, cases, warmups, opts, at, warnings, code, names, passes>>
      BY <1>10 DEF Verified
    <2>2. LTypeOK' /\ BlameIsRight' /\ WarmupAfterEvidence'
      BY <2>1 DEF LInv, LTypeOK, BlameIsRight, WarmupAfterEvidence, CasePasses, fstatus
    <2>3. /\ opts.run_verification /\ source = "good" /\ passes = [i \in 1 .. Len(warmups) |-> 0]
          /\ at \in 1 .. Len(cases) + 1 /\ \A i \in 1 .. at - 1 : CasePasses(cases[i])
      BY <2>1 DEF LInv
    <2>4. \A i \in 1 .. Len(cases) : CasePasses(cases[i])
      BY <1>2, <2>1, <2>3
    <2>5. \A i \in 1 .. Len(cases') : CasePasses(cases'[i])
      BY <2>1, <2>4
    <2>6. QED
      BY <1>1, <2>1, <2>2, <2>3, <2>5 DEF LInv, CasePasses
  <1>11. CASE Decide
    <2>1. /\ step = "decide" /\ at' = 1
          /\ warnings' = IF verified \/ fstatus \in {"Absent", "Supported"} THEN {}
                         ELSE {[says |-> fstatus, because |-> "no verification cases"]}
          /\ step' = IF opts.run_warmup THEN "warm" ELSE "loaded"
          /\ UNCHANGED <<source, version, cases, warmups, opts, verified, code, names, passes>>
      BY <1>11 DEF Decide
    <2>2. fstatus' = fstatus
      BY <2>1 DEF fstatus
    <2>3. /\ source = "good" /\ passes = [i \in 1 .. Len(warmups) |-> 0]
          /\ verified <=> (opts.run_verification /\ cases # << >>)
          /\ opts.run_verification => \A i \in 1 .. Len(cases) : CasePasses(cases[i])
      BY <2>1 DEF LInv
    <2>4. (warnings' = {}) <=> (verified' \/ fstatus' \in {"Absent", "Supported"})
      BY <2>1, <2>2
    <2>5. LTypeOK' /\ BlameIsRight'
      BY <2>1, <2>2 DEF LInv, LTypeOK, BlameIsRight, CasePasses
    <2>6. step' \in {"warm", "loaded"} /\ (step' = "loaded" => ~opts.run_warmup)
      BY <2>1
    <2>7. WarmupAfterEvidence'
      BY <2>1, <2>3, <2>6 DEF LInv, LTypeOK, WarmupAfterEvidence, CasePasses
    <2>8. step' = "warm" => opts'.run_warmup /\ at' \in 1 .. Len(warmups') + 1
                            /\ \A i \in 1 .. at' - 1 : passes'[i] >= 1
      <3>1. at' = 1 /\ warmups' = warmups
        BY <2>1, <2>3
      <3>2. Len(warmups) \in Nat
        BY <1>2
      <3>3. at' \in 1 .. Len(warmups') + 1 /\ 1 .. at' - 1 = {}
        BY <3>1, <3>2
      <3>4. step' = "warm" => opts'.run_warmup
        BY <2>1
      <3>5. QED
        BY <3>3, <3>4
    <2>9. opts'.run_verification => \A i \in 1 .. Len(cases') : CasePasses(cases'[i])
      BY <2>1, <2>3
    <2>10. step' # "verify" /\ step' # "decide" /\ step' # "read" /\ step' # "build"
      BY <2>6
    <2>11. \E k \in Models : version' = k[1] /\ cases' = k[2] /\ warmups' = k[3]
      BY <1>1, <2>1
    <2>12. verified' <=> (opts'.run_verification /\ cases' # << >>)
      BY <2>1, <2>3
    <2>13. QED
      BY <2>1, <2>3, <2>4, <2>5, <2>7, <2>8, <2>9, <2>10, <2>11, <2>12 DEF LInv, CasePasses
  <1>12. CASE WarmCase
    <2> DEFINE more == IF warmups[at].repeat > 1 THEN warmups[at].repeat ELSE 1
    <2>1. /\ step = "warm" /\ at <= Len(warmups)
          /\ at' = at + 1 /\ passes' = [passes EXCEPT ![at] = @ + more]
          /\ UNCHANGED <<source, version, cases, warmups, opts, step, verified, warnings, code, names>>
      BY <1>12 DEF WarmCase
    <2>2. /\ opts.run_warmup /\ at \in 1 .. Len(warmups) + 1 /\ \A i \in 1 .. at - 1 : passes[i] >= 1
          /\ at \in Nat /\ passes \in [1 .. Len(warmups) -> Nat]
          /\ opts.run_verification => \A i \in 1 .. Len(cases) : CasePasses(cases[i])
      BY <2>1 DEF LInv, LTypeOK
    <2>3. more \in Nat /\ more >= 1
      <3>1. warmups[at] \in Warmups
        BY <1>2, <2>1, <2>2
      <3>2. QED
        BY <3>1 DEF Warmups
    <2> HIDE DEF more
    <2>4. /\ at' \in Nat /\ passes' \in [1 .. Len(warmups) -> Nat]
          /\ at' \in 1 .. Len(warmups) + 1 /\ \A i \in 1 .. at' - 1 : passes'[i] >= 1
      <3>1. at \in 1 .. Len(warmups) /\ at' = at + 1
        BY <1>2, <2>1, <2>2
      <3>2. passes' \in [1 .. Len(warmups) -> Nat]
        BY <2>1, <2>2, <2>3, <3>1
      <3>3. ASSUME NEW i \in 1 .. at PROVE passes'[i] >= 1
        <4>1. CASE i = at
          <5>1. passes'[at] = passes[at] + more /\ passes[at] \in Nat
            BY <2>1, <2>2, <3>1
          <5>2. QED
            BY <2>3, <4>1, <5>1
        <4>2. CASE i # at
          <5>1. i \in 1 .. at - 1 /\ passes'[i] = passes[i]
            BY <2>1, <2>2, <3>1, <4>2
          <5>2. QED
            BY <2>2, <5>1
        <4>3. QED
          BY <4>1, <4>2
      <3>4. QED
        BY <1>2, <2>2, <3>1, <3>2, <3>3
    <2>5. LTypeOK' /\ BlameIsRight' /\ WarmupAfterEvidence'
      BY <2>1, <2>2, <2>4 DEF LInv, LTypeOK, BlameIsRight, WarmupAfterEvidence, CasePasses, fstatus
    <2>6. QED
      BY <2>1, <2>2, <2>4, <2>5 DEF LInv, CasePasses, fstatus
  <1>13. CASE WarmFails
    BY <1>13, ThrowKeeps DEF WarmFails, LInv
  <1>14. CASE Warmed
    BY <1>2, <1>14 DEF Warmed, LInv, LTypeOK, BlameIsRight, WarmupAfterEvidence, CasePasses, fstatus
  <1>15. QED
    BY <1>3, <1>4, <1>5, <1>6, <1>7, <1>8, <1>9, <1>10, <1>11, <1>12, <1>13, <1>14 DEF LNext

\* What a load has established at each of its steps, whatever the model
\* declares and the options ask for (src/runtime.cpp:31-55,
\* src/graph_loader.cpp:2267-2348).
THEOREM LoadInvariant == LSpec => []LInv
  <1>1. QED
    BY LoadStarts, LoadKeeps, PTL DEF LSpec

\* A load is in one of its steps, and a failed one, and no other, has a code.
THEOREM LoadTypes == LSpec => []LTypeOK
  <1>1. LInv => LTypeOK
    BY DEF LInv
  <1>2. QED
    BY <1>1, LoadInvariant, PTL

\* A version this build does not know is passed over in silence only on a model
\* that ran at least one case (src/graph_loader.cpp:2293-2340).
THEOREM SilentLoadsAreVerified == LSpec => []SilenceIsEarned
  <1>1. LInv => SilenceIsEarned
    <2>1. SUFFICES ASSUME LInv, step = "loaded" PROVE SilenceIsEarned
      BY DEF SilenceIsEarned
    <2>2. /\ (warnings = {}) <=> (verified \/ fstatus \in {"Absent", "Supported"})
          /\ verified <=> (opts.run_verification /\ cases # << >>)
      BY <2>1 DEF LInv
    <2>3. QED
      BY <2>2 DEF SilenceIsEarned
  <1>2. QED
    BY <1>1, LoadInvariant, PTL

\* The message of a failed load names the declared version when, and only when,
\* a case failed on a model whose version this build does not read
\* (src/graph_loader.cpp:2309-2325).
THEOREM BlameIsAlwaysRight == LSpec => []BlameIsRight
  <1>1. LInv => BlameIsRight
    BY DEF LInv
  <1>2. QED
    BY <1>1, LoadInvariant, PTL

\* Warmup runs only a model that verification let pass, and each of its cases
\* at least once before the model is handed out (src/runtime.cpp:31-55,
\* src/graph_loader.cpp:2341-2348).
THEOREM WarmupFollowsEvidence == LSpec => []WarmupAfterEvidence
  <1>1. LInv => WarmupAfterEvidence
    BY DEF LInv
  <1>2. QED
    BY <1>1, LoadInvariant, PTL

\* A model that loads has met every number its cases record, if no result is
\* NaN: a difference that is NaN is not greater than any tolerance.
THEOREM LoadedModelsMatched ==
  ASSUME \A m \in Models : \A i \in 1 .. Len(m[2]) : "nan" \notin m[2][i].outputs
  PROVE  LSpec => []LoadedMeansMatched
  <1>1. LInv => LoadedMeansMatched
    <2>1. SUFFICES ASSUME LInv, step = "loaded", opts.run_verification,
                          NEW i \in 1 .. Len(cases)
                   PROVE  ~Wrong(cases[i])
      BY DEF LoadedMeansMatched
    <2>2. CasePasses(cases[i])
      BY <2>1 DEF LInv
    <2>3. "nan" \notin cases[i].outputs
      BY <2>1 DEF LInv
    <2>4. QED
      BY <2>2, <2>3 DEF CasePasses, Wrong
  <1>2. QED
    BY <1>1, LoadInvariant, PTL

-----------------------------------------------------------------------------
(***************************************************************************)
(* The schema version                                                      *)
(***************************************************************************)

LEMMA WorthType == \A d \in Digits : Worth[d] \in 0 .. 9
  <1>1. TAKE d \in Digits
  <1>2. \E n \in 0 .. 9 : ToString(n) = d
    BY DEF Digits, Worth
  <1>3. Worth[d] = CHOOSE n \in 0 .. 9 : ToString(n) = d
    BY DEF Digits, Worth
  <1>4. (CHOOSE n \in 0 .. 9 : ToString(n) = d) \in 0 .. 9
    BY <1>2
  <1>5. QED
    BY <1>3, <1>4

\* The number digits write is reached digit by digit.
LEMMA NumberRuns ==
  ASSUME NEW w \in Seq(Digits)
  PROVE  \E f \in [0 .. Len(w) -> Nat] :
           /\ f[0] = 0 /\ Number(w) = f[Len(w)]
           /\ \A k \in 1 .. Len(w) : f[k] = 10 * f[k - 1] + Worth[w[k]]
  <1> DEFINE n == Len(w)
             One(k, x) == 10 * x + Worth[w[k]]
             move == [p \in (1 .. n) \X Nat |-> One(p[1], p[2])]
             read == CHOOSE f : f = [k \in 0 .. Len(w) |-> IF k = 0 THEN 0 ELSE 10 * f[k - 1] + Worth[w[k]]]
  <1>1. Number(w) = read[n]
    BY Zenon DEF Number
  <1>2. n \in Nat /\ \A k \in 1 .. n : Worth[w[k]] \in Nat
    BY WorthType
  <1>3. ASSUME NEW k \in 1 .. n, NEW x \in Nat
        PROVE  <<k, x>> \in (1 .. n) \X Nat /\ move[<<k, x>>] = One(k, x) /\ One(k, x) \in Nat
    BY <1>2, <1>3
  <1>4. StaysIn(Nat, n, move)
    BY <1>3 DEF StaysIn
  <1> HIDE DEF n
  <1>5. PICK f \in [0 .. n -> Nat] : RunOf(f, n, 0, move)
    <2> HIDE DEF move
    <2>1. QED
      BY <1>2, <1>4, LoopRuns
  <1>6. f[0] = 0
    BY <1>5 DEF RunOf
  <1>7. ASSUME NEW k \in 1 .. n PROVE f[k] = One(k, f[k - 1])
    <2>1. k - 1 \in 0 .. n
      BY <1>2
    <2>2. f[k - 1] \in Nat
      BY <1>5, <2>1
    <2>3. move[<<k, f[k - 1]>>] = One(k, f[k - 1])
      BY <1>3, <2>2
    <2>4. f[k] = move[<<k, f[k - 1]>>]
      BY <1>5 DEF RunOf
    <2>5. QED
      BY <2>3, <2>4
  <1>8. f = [k \in 0 .. Len(w) |-> IF k = 0 THEN 0 ELSE 10 * f[k - 1] + Worth[w[k]]]
    <2>1. \A k \in 0 .. n : f[k] = IF k = 0 THEN 0 ELSE 10 * f[k - 1] + Worth[w[k]]
      <3>1. TAKE k \in 0 .. n
      <3>2. k = 0 \/ k \in 1 .. n
        BY <1>2
      <3>3. QED
        BY <1>6, <1>7, <3>2
    <2>2. f = [k \in 0 .. n |-> f[k]]
      BY <1>5
    <2>3. QED
      BY <2>1, <2>2 DEF n
  <1>9. read = [k \in 0 .. Len(w) |-> IF k = 0 THEN 0 ELSE 10 * read[k - 1] + Worth[w[k]]]
    BY <1>8, Zenon
  <1> HIDE DEF read
  <1>10. read[0] = 0 /\ \A k \in 1 .. n : read[k] = 10 * read[k - 1] + Worth[w[k]]
    <2>1. \A k \in 0 .. n : read[k] = IF k = 0 THEN 0 ELSE 10 * read[k - 1] + Worth[w[k]]
      BY <1>9 DEF n
    <2>2. 0 \in 0 .. n /\ \A k \in 1 .. n : k \in 0 .. n /\ k # 0
      BY <1>2
    <2>3. QED
      BY <2>1, <2>2
  <1>11. \A k \in 0 .. n : read[k] = f[k]
    <2> DEFINE S == {k \in 0 .. n : read[k] = f[k]}
    <2>1. 0 \in S /\ \A k \in 1 .. n : k - 1 \in S => k \in S
      BY <1>2, <1>6, <1>7, <1>10
    <2> HIDE DEF S
    <2>2. 0 .. n \subseteq S
      BY <1>2, <2>1, LoopInvariant
    <2>3. QED
      BY <2>2 DEF S
  <1>12. n \in 0 .. n
    BY <1>2
  <1>13. QED
    BY <1>1, <1>5, <1>6, <1>7, <1>11, <1>12 DEF n

LEMMA NumberOfNone == Number(<< >>) = 0
  <1>1. << >> \in Seq(Digits) /\ Len(<< >>) = 0
    BY EmptySeq
  <1>2. QED
    BY <1>1, NumberRuns

LEMMA NumberAppends ==
  ASSUME NEW w \in Seq(Digits), NEW d \in Digits
  PROVE  /\ Number(w) \in Nat
         /\ Number(Append(w, d)) = 10 * Number(w) + Worth[d]
  <1> DEFINE u == Append(w, d)
             n == Len(w)
  <1>1. /\ u \in Seq(Digits) /\ Len(u) = n + 1 /\ u[n + 1] = d
        /\ \A k \in 1 .. n : u[k] = w[k]
    BY AppendProperties
  <1>2. PICK f \in [0 .. n -> Nat] :
          /\ f[0] = 0 /\ Number(w) = f[n]
          /\ \A k \in 1 .. n : f[k] = 10 * f[k - 1] + Worth[w[k]]
    BY NumberRuns
  <1>3. PICK g \in [0 .. n + 1 -> Nat] :
          /\ g[0] = 0 /\ Number(u) = g[n + 1]
          /\ \A k \in 1 .. n + 1 : g[k] = 10 * g[k - 1] + Worth[u[k]]
    <2> HIDE DEF u
    <2>1. u \in Seq(Digits) /\ Len(u) = n + 1
      BY <1>1
    <2>2. \E g \in [0 .. Len(u) -> Nat] :
            /\ g[0] = 0 /\ Number(u) = g[Len(u)]
            /\ \A k \in 1 .. Len(u) : g[k] = 10 * g[k - 1] + Worth[u[k]]
      BY <2>1, NumberRuns
    <2> HIDE DEF n
    <2>3. QED
      BY ONLY <2>1, <2>2
  <1>4. n \in Nat
    OBVIOUS
  <1> HIDE DEF n, u
  <1>5. f[n] = g[n]
    <2> DEFINE S == {k \in 0 .. n : f[k] = g[k]}
    <2>1. 0 \in S
      BY <1>2, <1>3, <1>4
    <2>2. ASSUME NEW k \in 1 .. n, k - 1 \in S PROVE k \in S
      <3>1. k \in 1 .. n + 1 /\ k \in 0 .. n /\ f[k - 1] = g[k - 1]
        BY <1>4, <2>2
      <3>2. f[k] = 10 * f[k - 1] + Worth[w[k]]
        BY <1>2
      <3>3. g[k] = 10 * g[k - 1] + Worth[u[k]]
        BY <1>3, <3>1
      <3>4. QED
        BY <1>1, <3>1, <3>2, <3>3
    <2> HIDE DEF S
    <2>3. 0 .. n \subseteq S
      BY <1>4, <2>1, <2>2, LoopInvariant
    <2>4. n \in 0 .. n
      BY <1>4
    <2>5. QED
      BY <2>3, <2>4 DEF S
  <1>6. g[n + 1] = 10 * g[n] + Worth[u[n + 1]]
    <2>1. n + 1 \in 1 .. n + 1 /\ (n + 1) - 1 = n
      BY <1>4
    <2>2. QED
      BY <1>3, <2>1
  <1>7. f[n] \in Nat
    BY <1>2, <1>4
  <1>8. QED
    BY <1>1, <1>2, <1>3, <1>5, <1>6, <1>7 DEF u

(* A number that takes one more digit is no smaller for it, and within the same bound. *)
LEMMA TenTimes ==
  ASSUME NEW a \in Nat, NEW w \in 0 .. 9, NEW m \in Nat, 10 * a + w <= m
  PROVE  a <= m /\ 10 * a + w \in 0 .. m
  OBVIOUS

LEMMA NumberGrows ==
  ASSUME NEW v \in Seq(STRING), NEW k \in 0 .. Len(v) - 1, NEW i \in 1 .. k + 1,
         \A x \in i .. k + 1 : v[x] \in Digits
  PROVE  /\ Number(SubSeq(v, i, k)) \in Nat
         /\ Number(SubSeq(v, i, k + 1)) = 10 * Number(SubSeq(v, i, k)) + Worth[v[k + 1]]
  <1> DEFINE w == SubSeq(v, i, k)
  <1>1. w \in Seq(Digits)
    BY SubSeqProperties
  <1>2. k + 1 \in 1 .. Len(v) /\ k + 1 \in i .. Len(v) /\ i \in 1 .. Len(v) /\ (k + 1) - 1 = k
    OBVIOUS
  <1>3. SubSeq(v, i, k + 1) = w \o << v[k + 1] >>
    <2>1. SubSeq(v, i, k + 1) = SubSeq(v, i, (k + 1) - 1) \o << v[k + 1] >>
      BY <1>2, SubSeqRecursiveSecond
    <2>2. QED
      BY <1>2, <2>1
  <1>4. v[k + 1] \in Digits
    BY <1>2
  <1>5. w \o << v[k + 1] >> = Append(w, v[k + 1])
    BY <1>1, <1>4, AppendIsConcat
  <1> HIDE DEF w
  <1>6. QED
    BY <1>1, <1>3, <1>4, <1>5, NumberAppends DEF w

-----------------------------------------------------------------------------
\* What parse_format_version's loop keeps.

States == [ok : BOOLEAN, out : [1 .. 3 -> Int], part : 1 .. 3, digits : BOOLEAN]
Start  == [ok |-> TRUE, out |-> <<0, 0, 0>>, part |-> 1, digits |-> FALSE]

LEMMA WrapType == \A x \in Int : AsInt(x) \in Int /\ (x \in 0 .. IntMax => AsInt(x) = x)
  <1>1. IntMax \in Nat
    BY LoaderAssumption
  <1>2. TAKE x \in Int
  <1> DEFINE m == 2 * (IntMax + 1)
             r == x % m
  <1>3. m \in Nat /\ m > IntMax
    BY <1>1
  <1>4. r \in Int /\ (x \in 0 .. IntMax => r = x)
    <2> HIDE DEF m
    <2>1. QED
      BY <1>1, <1>3
  <1>5. AsInt(x) = IF r > IntMax THEN r - m ELSE r
    BY DEF AsInt
  <1> HIDE DEF m, r
  <1>6. QED
    BY <1>1, <1>3, <1>4, <1>5

LEMMA ScanType ==
  ASSUME NEW s \in States, NEW c \in STRING
  PROVE  Scan(s, c) \in States
  <1>1. /\ s.ok \in BOOLEAN /\ s.out \in [1 .. 3 -> Int] /\ s.part \in 1 .. 3
        /\ s.digits \in BOOLEAN
    BY DEF States
  <1>2. CASE s.ok /\ c = "." /\ s.digits /\ s.part # 3
    <2>1. Scan(s, c) = [s EXCEPT !.part = s.part + 1, !.digits = FALSE]
      BY <1>2 DEF Scan
    <2>2. s.part + 1 \in 1 .. 3
      BY <1>1, <1>2
    <2>3. QED
      BY <2>1, <2>2 DEF States
  <1>3. CASE s.ok /\ c # "." /\ c \in Digits
    <2> DEFINE x == AsInt(10 * s.out[s.part] + Worth[c])
    <2>1. x \in Int
      <3>1. s.out[s.part] \in Int /\ Worth[c] \in Int
        BY <1>1, <1>3, WorthType
      <3>2. 10 * s.out[s.part] + Worth[c] \in Int
        BY <3>1
      <3>3. QED
        BY <3>2, WrapType
    <2>2. Scan(s, c) = [s EXCEPT !.out = [s.out EXCEPT ![s.part] = x], !.digits = TRUE]
      BY <1>3 DEF Scan, States
    <2> HIDE DEF x
    <2>3. [s.out EXCEPT ![s.part] = x] \in [1 .. 3 -> Int]
      BY <1>1, <2>1
    <2>4. QED
      BY <2>2, <2>3 DEF States
  <1>4. CASE s.ok /\ ~(c = "." /\ s.digits /\ s.part # 3) /\ ~(c # "." /\ c \in Digits)
    <2>1. Scan(s, c) = [s EXCEPT !.ok = FALSE]
      BY <1>4 DEF Scan
    <2>2. QED
      BY <2>1 DEF States
  <1>5. CASE ~s.ok
    BY <1>5 DEF Scan
  <1>6. QED
    BY <1>2, <1>3, <1>4, <1>5

LEMMA StartType == Start \in States
  <1>1. <<0, 0, 0>> \in [1 .. 3 -> Int]
    OBVIOUS
  <1>2. QED
    BY <1>1 DEF Start, States

\* The version is scanned character by character.
LEMMA ScanRuns ==
  ASSUME NEW v \in Seq(STRING)
  PROVE  \E f \in [0 .. Len(v) -> States] :
           /\ f[0] = Start /\ Parsed(v) = f[Len(v)]
           /\ \A k \in 1 .. Len(v) : f[k] = Scan(f[k - 1], v[k])
  <1> DEFINE n == Len(v)
             move == [p \in (1 .. n) \X States |-> Scan(p[2], v[p[1]])]
             scanned == CHOOSE f : f = [k \in 0 .. Len(v) |->
                          IF k = 0 THEN [ok |-> TRUE, out |-> <<0, 0, 0>>, part |-> 1, digits |-> FALSE]
                          ELSE Scan(f[k - 1], v[k])]
  <1>1. Parsed(v) = scanned[n]
    BY Zenon DEF Parsed
  <1>2. n \in Nat /\ \A k \in 1 .. n : v[k] \in STRING
    OBVIOUS
  <1>3. ASSUME NEW k \in 1 .. n, NEW x \in States
        PROVE  /\ <<k, x>> \in (1 .. n) \X States /\ move[<<k, x>>] = Scan(x, v[k])
               /\ Scan(x, v[k]) \in States
    BY <1>2, <1>3, ScanType
  <1>4. StaysIn(States, n, move)
    BY <1>3 DEF StaysIn
  <1> HIDE DEF n
  <1>5. PICK f \in [0 .. n -> States] : RunOf(f, n, Start, move)
    <2> HIDE DEF move
    <2>1. QED
      BY <1>2, <1>4, StartType, LoopRuns
  <1>6. f[0] = Start
    BY <1>5 DEF RunOf
  <1>7. ASSUME NEW k \in 1 .. n PROVE f[k] = Scan(f[k - 1], v[k])
    <2>1. k - 1 \in 0 .. n
      BY <1>2
    <2>2. f[k - 1] \in States
      BY <1>5, <2>1
    <2>3. move[<<k, f[k - 1]>>] = Scan(f[k - 1], v[k])
      BY <1>3, <2>2
    <2>4. f[k] = move[<<k, f[k - 1]>>]
      BY <1>5 DEF RunOf
    <2>5. QED
      BY <2>3, <2>4
  <1>8. f = [k \in 0 .. Len(v) |->
               IF k = 0 THEN [ok |-> TRUE, out |-> <<0, 0, 0>>, part |-> 1, digits |-> FALSE]
               ELSE Scan(f[k - 1], v[k])]
    <2>1. \A k \in 0 .. n : f[k] = IF k = 0 THEN Start ELSE Scan(f[k - 1], v[k])
      <3>1. TAKE k \in 0 .. n
      <3>2. k = 0 \/ k \in 1 .. n
        BY <1>2
      <3>3. QED
        BY <1>6, <1>7, <3>2
    <2>2. f = [k \in 0 .. n |-> f[k]]
      BY <1>5
    <2>3. QED
      BY <2>1, <2>2 DEF n, Start
  <1>9. scanned = [k \in 0 .. Len(v) |->
               IF k = 0 THEN [ok |-> TRUE, out |-> <<0, 0, 0>>, part |-> 1, digits |-> FALSE]
               ELSE Scan(scanned[k - 1], v[k])]
    BY <1>8, Zenon
  <1> HIDE DEF scanned
  <1>10. scanned[0] = Start /\ \A k \in 1 .. n : scanned[k] = Scan(scanned[k - 1], v[k])
    <2>1. \A k \in 0 .. n : scanned[k] = IF k = 0 THEN Start ELSE Scan(scanned[k - 1], v[k])
      BY <1>9 DEF n, Start
    <2>2. 0 \in 0 .. n /\ \A k \in 1 .. n : k \in 0 .. n /\ k # 0
      BY <1>2
    <2>3. QED
      BY <2>1, <2>2
  <1>11. \A k \in 0 .. n : scanned[k] = f[k]
    <2> DEFINE S == {k \in 0 .. n : scanned[k] = f[k]}
    <2>1. 0 \in S /\ \A k \in 1 .. n : k - 1 \in S => k \in S
      BY <1>2, <1>6, <1>7, <1>10
    <2> HIDE DEF S
    <2>2. 0 .. n \subseteq S
      BY <1>2, <2>1, LoopInvariant
    <2>3. QED
      BY <2>2 DEF S
  <1>12. n \in 0 .. n
    BY <1>2
  <1>13. QED
    BY <1>1, <1>5, <1>6, <1>7, <1>11, <1>12 DEF n

DotsTo(v, k)    == {i \in 1 .. k : v[i] = "."}
NoDots(v, i, k) == \A x \in i .. k : v[x] # "."

\* The first k characters begin a version.
Begins(v, k) ==
  /\ \A i \in 1 .. k : v[i] \in Digits \cup {"."}
  /\ Cardinality(DotsTo(v, k)) <= 2
  /\ \A i \in DotsTo(v, k) : 1 < i /\ v[i - 1] # "."

\* A number of the scan is what its digits write, if that is an int.
Wrote(s, p, number) == number <= IntMax => s.out[p] = number

\* What the scan has read of the major and the minor number.
HasRead(v, k, s) ==
  /\ NoDots(v, 1, k) => s.part = 1 /\ s.out[2] = 0 /\ Wrote(s, 1, Number(SubSeq(v, 1, k)))
  /\ \A d \in DotsTo(v, k) : NoDots(v, 1, d - 1) /\ NoDots(v, d + 1, k) =>
       /\ s.part = 2
       /\ Wrote(s, 1, Number(SubSeq(v, 1, d - 1)))
       /\ Wrote(s, 2, Number(SubSeq(v, d + 1, k)))
  /\ \A d, e \in DotsTo(v, k) : d < e /\ NoDots(v, 1, d - 1) /\ NoDots(v, d + 1, e - 1) =>
       /\ s.part = 3
       /\ Wrote(s, 1, Number(SubSeq(v, 1, d - 1)))
       /\ Wrote(s, 2, Number(SubSeq(v, d + 1, e - 1)))

ScanIs(v, k, s) ==
  /\ s \in States
  /\ s.ok <=> Begins(v, k)
  /\ s.ok => /\ s.part = 1 + Cardinality(DotsTo(v, k))
             /\ s.digits <=> k > 0 /\ v[k] # "."
             /\ HasRead(v, k, s)

LEMMA DotsAreFinite ==
  ASSUME NEW v, NEW k \in Nat
  PROVE  /\ IsFiniteSet(DotsTo(v, k)) /\ Cardinality(DotsTo(v, k)) \in Nat
         /\ v[k + 1] = "." => Cardinality(DotsTo(v, k + 1)) = Cardinality(DotsTo(v, k)) + 1
         /\ v[k + 1] # "." => DotsTo(v, k + 1) = DotsTo(v, k)
  <1>1. IsFiniteSet(1 .. k)
    BY FS_Interval
  <1>2. DotsTo(v, k) \subseteq 1 .. k
    BY DEF DotsTo
  <1>3. IsFiniteSet(DotsTo(v, k)) /\ Cardinality(DotsTo(v, k)) \in Nat
    BY <1>1, <1>2, FS_Subset, FS_CardinalityType
  <1>4. ASSUME v[k + 1] = "." PROVE Cardinality(DotsTo(v, k + 1)) = Cardinality(DotsTo(v, k)) + 1
    <2>1. DotsTo(v, k + 1) = DotsTo(v, k) \cup {k + 1}
      BY <1>4 DEF DotsTo
    <2>2. k + 1 \notin DotsTo(v, k)
      BY DEF DotsTo
    <2>3. QED
      BY <1>3, <2>1, <2>2, FS_AddElement
  <1>5. ASSUME v[k + 1] # "." PROVE DotsTo(v, k + 1) = DotsTo(v, k)
    BY <1>5 DEF DotsTo
  <1>6. QED
    BY <1>3, <1>4, <1>5

LEMMA ScanStarts ==
  ASSUME NEW v \in Seq(STRING)
  PROVE  ScanIs(v, 0, Start)
  <1>1. DotsTo(v, 0) = {}
    BY DEF DotsTo
  <1>2. Cardinality(DotsTo(v, 0)) = 0
    BY <1>1, FS_EmptySet
  <1>3. Number(SubSeq(v, 1, 0)) = 0
    <2>1. SubSeq(v, 1, 0) = << >>
      BY SubSeqEmpty
    <2>2. QED
      BY <2>1, NumberOfNone
  <1>4. HasRead(v, 0, Start)
    BY <1>1, <1>3 DEF HasRead, Start, Wrote
  <1>5. Begins(v, 0)
    BY <1>1, <1>2 DEF Begins
  <1>6. QED
    BY <1>2, <1>4, <1>5, StartType DEF ScanIs, Start

LEMMA ScanStep ==
  ASSUME NEW v \in Seq(STRING), NEW k \in 0 .. Len(v) - 1, NEW s, ScanIs(v, k, s)
  PROVE  ScanIs(v, k + 1, Scan(s, v[k + 1]))
  <1> DEFINE c == v[k + 1]
             t == Scan(s, c)
             dots == Cardinality(DotsTo(v, k))
  <1>1. /\ k \in Nat /\ k + 1 \in 1 .. Len(v) /\ c \in STRING
        /\ s \in States /\ t \in States /\ s.ok \in BOOLEAN /\ s.part \in 1 .. 3
        /\ s.out \in [1 .. 3 -> Int] /\ s.digits \in BOOLEAN
    <2>1. k \in Nat /\ k + 1 \in 1 .. Len(v) /\ c \in STRING
      OBVIOUS
    <2>2. s \in States
      BY DEF ScanIs
    <2> HIDE DEF c
    <2>3. t \in States
      BY <2>1, <2>2, ScanType
    <2>4. QED
      BY <2>1, <2>2, <2>3 DEF States
  <1>2. /\ dots \in Nat
        /\ c = "." => Cardinality(DotsTo(v, k + 1)) = dots + 1
        /\ c # "." => DotsTo(v, k + 1) = DotsTo(v, k)
    BY <1>1, DotsAreFinite
  <1>3. Begins(v, k + 1) =>
          /\ Begins(v, k) /\ c \in Digits \cup {"."}
          /\ c = "." => dots < 2 /\ k > 0 /\ v[k] # "."
    <2>1. SUFFICES ASSUME Begins(v, k + 1)
                   PROVE  /\ Begins(v, k) /\ c \in Digits \cup {"."}
                          /\ c = "." => dots < 2 /\ k > 0 /\ v[k] # "."
      OBVIOUS
    <2>2. DotsTo(v, k) \subseteq DotsTo(v, k + 1)
      BY <1>1 DEF DotsTo
    <2>3. dots <= 2
      BY <1>2, <2>1 DEF Begins
    <2>4. c = "." => k + 1 \in DotsTo(v, k + 1)
      BY <1>1 DEF DotsTo
    <2>5. QED
      BY <1>1, <1>2, <2>1, <2>2, <2>3, <2>4 DEF Begins
  <1>4. Begins(v, k) /\ c \in Digits \cup {"."} /\ (c = "." => dots < 2 /\ k > 0 /\ v[k] # ".")
          => Begins(v, k + 1)
    <2>1. SUFFICES ASSUME Begins(v, k), c \in Digits \cup {"."},
                          c = "." => dots < 2 /\ k > 0 /\ v[k] # "."
                   PROVE  Begins(v, k + 1)
      OBVIOUS
    <2>2. \A i \in 1 .. k + 1 : v[i] \in Digits \cup {"."}
      BY <1>1, <2>1 DEF Begins
    <2>3. Cardinality(DotsTo(v, k + 1)) <= 2
      BY <1>2, <2>1 DEF Begins
    <2>4. \A i \in DotsTo(v, k + 1) : 1 < i /\ v[i - 1] # "."
      <3>1. TAKE i \in DotsTo(v, k + 1)
      <3>2. i = k + 1 \/ i \in DotsTo(v, k)
        BY <1>1 DEF DotsTo
      <3>3. i = k + 1 => c = "." /\ i - 1 = k
        BY <1>1 DEF DotsTo
      <3>4. QED
        BY <1>1, <2>1, <3>2, <3>3 DEF Begins
    <2>5. QED
      BY <2>2, <2>3, <2>4 DEF Begins
  <1>5. CASE ~s.ok
    <2>1. t = s
      BY <1>5 DEF Scan
    <2>2. ~Begins(v, k + 1)
      BY <1>3, <1>5 DEF ScanIs
    <2>3. QED
      BY <1>1, <1>5, <2>1, <2>2 DEF ScanIs
  <1>6. CASE s.ok /\ (c = "." => ~s.digits \/ s.part = 3) /\ (c # "." => c \notin Digits)
    <2>1. t = [s EXCEPT !.ok = FALSE]
      BY <1>6 DEF Scan
    <2>2. ~t.ok
      BY <1>1, <2>1 DEF States
    <2>3. ~Begins(v, k + 1)
      BY <1>1, <1>2, <1>3, <1>6 DEF ScanIs
    <2>4. QED
      BY <1>1, <2>2, <2>3 DEF ScanIs
  <1>7. ASSUME s.ok, Begins(v, k + 1),
               NEW d \in DotsTo(v, k), NEW e \in DotsTo(v, k), d < e,
               NoDots(v, 1, d - 1), NoDots(v, d + 1, e - 1)
        PROVE  /\ s.part = 3 /\ Wrote(s, 1, Number(SubSeq(v, 1, d - 1)))
               /\ Wrote(s, 2, Number(SubSeq(v, d + 1, e - 1)))
    BY <1>7 DEF ScanIs, HasRead
  <1>8. CASE s.ok /\ c = "." /\ s.digits /\ s.part # 3
    <2>1. t = [s EXCEPT !.part = s.part + 1, !.digits = FALSE]
      BY <1>8 DEF Scan
    <2>2. t.ok /\ t.part = s.part + 1 /\ ~t.digits /\ t.out = s.out
      BY <1>1, <1>8, <2>1 DEF States
    <2>3. dots < 2 /\ k > 0 /\ v[k] # "."
      BY <1>1, <1>2, <1>8 DEF ScanIs
    <2>4. Begins(v, k + 1)
      BY <1>4, <1>8, <2>3 DEF ScanIs
    <2>5. HasRead(v, k + 1, t)
      <3>1. ~NoDots(v, 1, k + 1)
        BY <1>1, <1>8 DEF NoDots
      <3>2. ASSUME NEW d \in DotsTo(v, k + 1), NoDots(v, 1, d - 1), NoDots(v, d + 1, k + 1)
            PROVE  /\ t.part = 2
                   /\ Wrote(t, 1, Number(SubSeq(v, 1, d - 1)))
                   /\ Wrote(t, 2, Number(SubSeq(v, d + 1, k + 1)))
        <4>1. d = k + 1
          <5>1. d \in 1 .. k + 1
            BY DEF DotsTo
          <5>2. d < k + 1 => k + 1 \in d + 1 .. k + 1
            BY <1>1, <5>1
          <5>3. QED
            BY <1>1, <1>8, <3>2, <5>1, <5>2 DEF NoDots
        <4>2. NoDots(v, 1, k) /\ d - 1 = k
          BY <1>1, <3>2, <4>1
        <4>3. s.part = 1 /\ s.out[2] = 0 /\ Wrote(s, 1, Number(SubSeq(v, 1, k)))
          BY <1>8, <4>2 DEF ScanIs, HasRead
        <4>4. Number(SubSeq(v, d + 1, k + 1)) = 0
          <5>1. d + 1 \in Int /\ k + 1 \in Int /\ k + 1 < d + 1
            BY <1>1, <4>1
          <5>2. SubSeq(v, d + 1, k + 1) = << >>
            BY <5>1, SubSeqEmpty
          <5>3. QED
            BY <5>2, NumberOfNone
        <4>5. QED
          BY <2>2, <4>2, <4>3, <4>4 DEF Wrote
      <3>3. ASSUME NEW d \in DotsTo(v, k + 1), NEW e \in DotsTo(v, k + 1), d < e,
                   NoDots(v, 1, d - 1), NoDots(v, d + 1, e - 1)
            PROVE  /\ t.part = 3
                   /\ Wrote(t, 1, Number(SubSeq(v, 1, d - 1)))
                   /\ Wrote(t, 2, Number(SubSeq(v, d + 1, e - 1)))
        <4>1. d \in DotsTo(v, k) /\ d \in 1 .. k /\ e \in 1 .. k + 1
          BY <1>1, <3>3 DEF DotsTo
        <4>2. e = k + 1
          <5>1. SUFFICES ASSUME e \in DotsTo(v, k) PROVE FALSE
            BY <1>1, <4>1 DEF DotsTo
          <5>2. s.part = 3
            BY <1>7, <1>8, <2>4, <3>3, <4>1, <5>1
          <5>3. QED
            BY <1>8, <5>2
        <4>3. e - 1 = k
          BY <1>1, <4>2
        <4>4. /\ s.part = 2 /\ Wrote(s, 1, Number(SubSeq(v, 1, d - 1)))
              /\ Wrote(s, 2, Number(SubSeq(v, d + 1, k)))
          BY <1>8, <3>3, <4>1, <4>3 DEF ScanIs, HasRead
        <4>5. QED
          BY <2>2, <4>3, <4>4 DEF Wrote
      <3>4. QED
        BY <3>1, <3>2, <3>3 DEF HasRead
    <2>6. t.part = 1 + Cardinality(DotsTo(v, k + 1))
      BY <1>1, <1>2, <1>8, <2>2 DEF ScanIs
    <2>7. QED
      BY <1>1, <1>8, <2>2, <2>4, <2>5, <2>6 DEF ScanIs
  <1>9. CASE s.ok /\ c # "." /\ c \in Digits
    <2> DEFINE p == s.part
               x == AsInt(10 * s.out[p] + Worth[c])
    <2>1. t = [s EXCEPT !.out = [s.out EXCEPT ![p] = x], !.digits = TRUE]
      BY <1>1, <1>9 DEF Scan, States
    <2>2. /\ t.ok /\ t.part = p /\ t.digits
          /\ t.out[p] = x /\ \A q \in 1 .. 3 : q # p => t.out[q] = s.out[q]
      BY <1>1, <1>9, <2>1 DEF States
    <2>3. Begins(v, k) /\ Begins(v, k + 1)
      BY <1>4, <1>9 DEF ScanIs
    <2>4. ASSUME NEW i \in 1 .. k + 1, NoDots(v, i, k), Wrote(s, p, Number(SubSeq(v, i, k)))
          PROVE  Wrote(t, p, Number(SubSeq(v, i, k + 1)))
      <3> DEFINE a == Number(SubSeq(v, i, k))
      <3>1. \A y \in i .. k + 1 : v[y] \in Digits
        <4>1. TAKE y \in i .. k + 1
        <4>2. y \in 1 .. k + 1 /\ (y = k + 1 \/ y \in i .. k)
          BY <1>1
        <4>3. QED
          BY <1>9, <2>3, <2>4, <4>2 DEF Begins, NoDots
      <3>2. a \in Nat /\ Number(SubSeq(v, i, k + 1)) = 10 * a + Worth[c]
        BY <3>1, NumberGrows
      <3> HIDE DEF a
      <3>3. Worth[c] \in 0 .. 9
        BY <1>9, WorthType
      <3>4. ASSUME 10 * a + Worth[c] <= IntMax PROVE t.out[p] = 10 * a + Worth[c]
        <4>1. IntMax \in Nat
          BY LoaderAssumption
        <4>2. a <= IntMax /\ 10 * a + Worth[c] \in 0 .. IntMax
          <5> DEFINE w == Worth[c]
                     m == IntMax
          <5>1. a \in Nat /\ w \in 0 .. 9 /\ m \in Nat /\ 10 * a + w <= m
            BY <3>2, <3>3, <3>4, <4>1
          <5> HIDE DEF w, m
          <5>2. a <= m /\ 10 * a + w \in 0 .. m
            BY ONLY <5>1, TenTimes
          <5>3. QED
            BY <5>2 DEF w, m
        <4>3. s.out[p] = a
          BY <2>4, <4>2 DEF Wrote, a
        <4>4. x = 10 * a + Worth[c]
          BY <4>2, <4>3, WrapType
        <4>5. QED
          BY <2>2, <4>4
      <3>5. QED
        BY <3>2, <3>4 DEF Wrote
    <2> HIDE DEF x
    <2>5. HasRead(v, k + 1, t)
      <3>1. ASSUME NoDots(v, 1, k + 1)
            PROVE  t.part = 1 /\ t.out[2] = 0 /\ Wrote(t, 1, Number(SubSeq(v, 1, k + 1)))
        <4>1. NoDots(v, 1, k)
          BY <1>1, <3>1 DEF NoDots
        <4>2. p = 1 /\ s.out[2] = 0 /\ Wrote(s, 1, Number(SubSeq(v, 1, k)))
          BY <1>9, <4>1 DEF ScanIs, HasRead
        <4>3. 1 \in 1 .. k + 1
          BY <1>1
        <4> HIDE DEF p
        <4>4. Wrote(t, p, Number(SubSeq(v, 1, k + 1)))
          BY <2>4, <4>1, <4>2, <4>3
        <4>5. QED
          BY <2>2, <4>2, <4>4
      <3>2. ASSUME NEW d \in DotsTo(v, k + 1), NoDots(v, 1, d - 1), NoDots(v, d + 1, k + 1)
            PROVE  /\ t.part = 2
                   /\ Wrote(t, 1, Number(SubSeq(v, 1, d - 1)))
                   /\ Wrote(t, 2, Number(SubSeq(v, d + 1, k + 1)))
        <4>1. d \in DotsTo(v, k) /\ d \in 1 .. k /\ NoDots(v, d + 1, k)
          BY <1>1, <1>2, <1>9, <3>2 DEF DotsTo, NoDots
        <4>2. /\ p = 2 /\ Wrote(s, 1, Number(SubSeq(v, 1, d - 1)))
              /\ Wrote(s, 2, Number(SubSeq(v, d + 1, k)))
          BY <1>9, <3>2, <4>1 DEF ScanIs, HasRead
        <4>3. d + 1 \in 1 .. k + 1
          BY <1>1, <4>1
        <4> HIDE DEF p
        <4>4. Wrote(t, p, Number(SubSeq(v, d + 1, k + 1)))
          BY <2>4, <4>1, <4>2, <4>3
        <4>5. QED
          BY <2>2, <4>2, <4>4 DEF Wrote
      <3>3. ASSUME NEW d \in DotsTo(v, k + 1), NEW e \in DotsTo(v, k + 1), d < e,
                   NoDots(v, 1, d - 1), NoDots(v, d + 1, e - 1)
            PROVE  /\ t.part = 3
                   /\ Wrote(t, 1, Number(SubSeq(v, 1, d - 1)))
                   /\ Wrote(t, 2, Number(SubSeq(v, d + 1, e - 1)))
        <4>1. d \in DotsTo(v, k) /\ e \in DotsTo(v, k)
          BY <1>2, <1>9
        <4>2. /\ p = 3 /\ Wrote(s, 1, Number(SubSeq(v, 1, d - 1)))
              /\ Wrote(s, 2, Number(SubSeq(v, d + 1, e - 1)))
          BY <1>7, <1>9, <2>3, <3>3, <4>1
        <4>3. t.out[1] = s.out[1] /\ t.out[2] = s.out[2]
          BY <2>2, <4>2
        <4>4. QED
          BY <2>2, <4>2, <4>3 DEF Wrote
      <3>4. QED
        BY <3>1, <3>2, <3>3 DEF HasRead
    <2>6. t.part = 1 + Cardinality(DotsTo(v, k + 1))
      BY <1>2, <1>9, <2>2 DEF ScanIs
    <2>7. QED
      BY <1>1, <1>9, <2>2, <2>3, <2>5, <2>6 DEF ScanIs
  <1>10. QED
    BY <1>1, <1>5, <1>6, <1>8, <1>9

LEMMA ScanEnds ==
  ASSUME NEW v \in Seq(STRING)
  PROVE  ScanIs(v, Len(v), Parsed(v))
  <1>1. PICK f \in [0 .. Len(v) -> States] :
          /\ f[0] = Start /\ Parsed(v) = f[Len(v)]
          /\ \A k \in 1 .. Len(v) : f[k] = Scan(f[k - 1], v[k])
    BY ScanRuns
  <1> DEFINE S == {k \in 0 .. Len(v) : ScanIs(v, k, f[k])}
  <1>2. Len(v) \in Nat
    OBVIOUS
  <1>3. 0 \in S
    BY <1>1, <1>2, ScanStarts
  <1>4. ASSUME NEW k \in 1 .. Len(v), k - 1 \in S PROVE k \in S
    <2>1. k - 1 \in 0 .. Len(v) - 1 /\ (k - 1) + 1 = k /\ k \in 0 .. Len(v)
      BY <1>2
    <2>2. ScanIs(v, k - 1, f[k - 1])
      BY <1>4
    <2>3. ScanIs(v, (k - 1) + 1, Scan(f[k - 1], v[(k - 1) + 1]))
      BY <2>1, <2>2, ScanStep
    <2>4. QED
      BY <1>1, <2>1, <2>3
  <1> HIDE DEF S
  <1>5. 0 .. Len(v) \subseteq S
    BY <1>2, <1>3, <1>4, LoopInvariant
  <1>6. ScanIs(v, Len(v), f[Len(v)])
    BY <1>2, <1>5 DEF S
  <1>7. QED
    BY <1>1, <1>6

\* A version is a beginning of one that does not end in a dot.
LEMMA WellFormedIs ==
  ASSUME NEW v \in Seq(STRING), v # << >>
  PROVE  /\ Len(v) > 0
         /\ WellFormed(v) <=> Begins(v, Len(v)) /\ v[Len(v)] # "."
  <1> DEFINE n == Len(v)
  <1>1. n \in Nat /\ n > 0 /\ Dots(v) = DotsTo(v, n)
    BY EmptySeq DEF Dots, DotsTo
  <1> HIDE DEF n
  <1>2. (\A i \in Dots(v) : 1 < i /\ i < n /\ v[i + 1] # ".")
          <=> v[n] # "." /\ \A i \in DotsTo(v, n) : 1 < i /\ v[i - 1] # "."
    <2>1. ASSUME \A i \in Dots(v) : 1 < i /\ i < n /\ v[i + 1] # "."
          PROVE  v[n] # "." /\ \A i \in DotsTo(v, n) : 1 < i /\ v[i - 1] # "."
      <3>1. v[n] # "."
        BY <1>1, <2>1 DEF DotsTo
      <3>2. ASSUME NEW i \in DotsTo(v, n) PROVE 1 < i /\ v[i - 1] # "."
        <4>1. 1 < i /\ i \in 1 .. n
          BY <1>1, <2>1 DEF DotsTo
        <4>2. v[i - 1] = "." => i - 1 \in DotsTo(v, n) /\ (i - 1) + 1 = i
          BY <1>1, <4>1 DEF DotsTo
        <4>3. v[i] = "."
          BY DEF DotsTo
        <4>4. QED
          BY <1>1, <2>1, <4>1, <4>2, <4>3
      <3>3. QED
        BY <3>1, <3>2
    <2>2. ASSUME v[n] # ".", \A i \in DotsTo(v, n) : 1 < i /\ v[i - 1] # ".",
                 NEW i \in Dots(v)
          PROVE  1 < i /\ i < n /\ v[i + 1] # "."
      <3>1. i \in 1 .. n /\ v[i] = "." /\ 1 < i
        BY <1>1, <2>2 DEF DotsTo
      <3>2. i < n
        BY <1>1, <2>2, <3>1
      <3>3. v[i + 1] = "." => i + 1 \in DotsTo(v, n) /\ (i + 1) - 1 = i
        BY <1>1, <3>1, <3>2 DEF DotsTo
      <3>4. QED
        BY <2>2, <3>1, <3>2, <3>3
    <2>3. QED
      BY <2>1, <2>2
  <1>3. QED
    BY <1>1, <1>2 DEF WellFormed, Begins, n

\* The part of v that begins at i ends before the next dot.
LEMMA PartIs ==
  ASSUME NEW v \in Seq(STRING), NEW i \in 1 .. Len(v) + 1, NEW j \in i - 1 .. Len(v),
         NoDots(v, i, j), j = Len(v) \/ v[j + 1] = "."
  PROVE  PartAt(v, i) = SubSeq(v, i, j) /\ Len(PartAt(v, i)) = j - i + 1
  <1> DEFINE Ends(x) == /\ \A k \in i .. x : v[k] # "."
                        /\ x = Len(v) \/ v[x + 1] = "."
  <1>1. Ends(j)
    BY DEF NoDots
  <1>2. ASSUME NEW x \in i - 1 .. Len(v), Ends(x) PROVE x = j
    <2>1. Len(v) \in Nat
      OBVIOUS
    <2>2. ASSUME x < j PROVE FALSE
      <3>1. x # Len(v) /\ x + 1 \in i .. j
        BY <2>1, <2>2
      <3>2. QED
        BY <1>1, <1>2, <3>1
    <2>3. ASSUME j < x PROVE FALSE
      <3>1. j # Len(v) /\ j + 1 \in i .. x
        BY <2>1, <2>3
      <3>2. QED
        BY <1>1, <1>2, <3>1
    <2>4. QED
      BY <2>1, <2>2, <2>3
  <1>3. PartAt(v, i) = SubSeq(v, i, CHOOSE x \in i - 1 .. Len(v) : Ends(x))
    BY DEF PartAt
  <1>4. (CHOOSE x \in i - 1 .. Len(v) : Ends(x)) = j
    <2> HIDE DEF Ends
    <2>1. QED
      BY <1>1, <1>2
  <1>5. Len(SubSeq(v, i, j)) = j - i + 1
    <2>1. \A k \in i .. j : v[k] \in STRING
      OBVIOUS
    <2>2. Len(SubSeq(v, i, j)) = IF i <= j THEN j - i + 1 ELSE 0
      BY <2>1, SubSeqProperties
    <2>3. QED
      BY <2>2
  <1>6. QED
    BY <1>3, <1>4, <1>5

\* There is a first dot in a stretch with dots.
LEMMA FirstDot ==
  ASSUME NEW v \in Seq(STRING), NEW i \in Nat, ~NoDots(v, i, Len(v))
  PROVE  \E d \in i .. Len(v) : v[d] = "." /\ NoDots(v, i, d - 1)
  <1> DEFINE D == {d \in i .. Len(v) : v[d] = "."}
  <1>1. D \subseteq Nat /\ D # {}
    BY DEF NoDots
  <1>2. PICK d \in D : \A e \in D : d <= e
    BY <1>1, LeastOf
  <1>3. NoDots(v, i, d - 1)
    BY <1>2 DEF NoDots
  <1>4. QED
    BY <1>2, <1>3

\* Of a version whose first two numbers are ints, the scan has read them.
LEMMA NumbersAreRead ==
  ASSUME NEW v \in Seq(STRING), WellFormed(v), Major(v) <= IntMax, Minor(v) <= IntMax
  PROVE  Parsed(v).out[1] = Major(v) /\ Parsed(v).out[2] = Minor(v)
  <1> DEFINE n == Len(v)
             s == Parsed(v)
             first == Len(PartAt(v, 1))
  <1>1. n \in Nat /\ n > 0 /\ Begins(v, n)
    BY WellFormedIs DEF WellFormed
  <1>2. HasRead(v, n, s)
    BY <1>1, ScanEnds DEF ScanIs
  <1>3. /\ Major(v) = Number(PartAt(v, 1))
        /\ Minor(v) = IF first < n THEN Number(PartAt(v, first + 2)) ELSE 0
    BY DEF Major, Minor
  <1> HIDE DEF s
  <1>4. CASE NoDots(v, 1, n)
    <2>1. PartAt(v, 1) = SubSeq(v, 1, n) /\ first = n
      <3>1. 1 \in 1 .. Len(v) + 1 /\ n \in 1 - 1 .. Len(v)
        BY <1>1
      <3>2. PartAt(v, 1) = SubSeq(v, 1, n) /\ Len(PartAt(v, 1)) = n - 1 + 1
        BY <1>4, <3>1, PartIs
      <3>3. QED
        BY <1>1, <3>2
    <2>2. s.out[2] = 0 /\ Wrote(s, 1, Number(SubSeq(v, 1, n)))
      BY <1>2, <1>4 DEF HasRead
    <2>3. Major(v) = Number(SubSeq(v, 1, n))
      BY <1>3, <2>1
    <2>4. Minor(v) = 0
      <3>1. ~(first < n)
        BY <1>1, <2>1
      <3> HIDE DEF first, n
      <3>2. QED
        BY <1>3, <3>1
    <2>5. QED
      BY <2>2, <2>3, <2>4 DEF Wrote, s
  <1>5. CASE ~NoDots(v, 1, n)
    <2>1. PICK d \in 1 .. n : v[d] = "." /\ NoDots(v, 1, d - 1)
      BY <1>5, FirstDot
    <2>2. d \in DotsTo(v, n)
      BY <2>1 DEF DotsTo
    <2>3. PartAt(v, 1) = SubSeq(v, 1, d - 1) /\ first = d - 1
      <3>1. 1 \in 1 .. Len(v) + 1 /\ d - 1 \in 1 - 1 .. Len(v) /\ (d - 1) + 1 = d
        BY <1>1
      <3>2. PartAt(v, 1) = SubSeq(v, 1, d - 1) /\ Len(PartAt(v, 1)) = (d - 1) - 1 + 1
        BY <2>1, <3>1, PartIs
      <3>3. QED
        BY <1>1, <3>2
    <2>4. first < n /\ first + 2 = d + 1 /\ d + 1 \in 1 .. Len(v) + 1
      BY <1>1, <2>3
    <2>5. Minor(v) = Number(PartAt(v, d + 1))
      BY <1>3, <2>4
    <2>6. CASE NoDots(v, d + 1, n)
      <3>1. PartAt(v, d + 1) = SubSeq(v, d + 1, n)
        <4>1. n \in (d + 1) - 1 .. Len(v)
          BY <1>1
        <4>2. QED
          BY <2>4, <2>6, <4>1, PartIs
      <3>2. /\ Wrote(s, 1, Number(SubSeq(v, 1, d - 1)))
            /\ Wrote(s, 2, Number(SubSeq(v, d + 1, n)))
        BY <1>2, <2>1, <2>2, <2>6 DEF HasRead
      <3>3. QED
        BY <1>3, <2>3, <2>5, <3>1, <3>2 DEF Wrote, s
    <2>7. CASE ~NoDots(v, d + 1, n)
      <3>1. PICK e \in d + 1 .. n : v[e] = "." /\ NoDots(v, d + 1, e - 1)
        <4>1. d + 1 \in Nat
          BY <1>1
        <4>2. QED
          BY <2>7, <4>1, FirstDot
      <3>2. e \in DotsTo(v, n) /\ d < e
        BY <1>1, <3>1 DEF DotsTo
      <3>3. PartAt(v, d + 1) = SubSeq(v, d + 1, e - 1)
        <4>1. e - 1 \in (d + 1) - 1 .. Len(v) /\ (e - 1) + 1 = e
          BY <1>1
        <4>2. QED
          BY <2>4, <3>1, <4>1, PartIs
      <3>4. /\ Wrote(s, 1, Number(SubSeq(v, 1, d - 1)))
            /\ Wrote(s, 2, Number(SubSeq(v, d + 1, e - 1)))
        BY <1>2, <2>1, <2>2, <3>1, <3>2 DEF HasRead
      <3>5. QED
        BY <1>3, <2>3, <2>5, <3>3, <3>4 DEF Wrote, s
    <2>8. QED
      BY <2>6, <2>7
  <1>6. QED
    BY <1>4, <1>5

\* Every version is judged by what it says, whatever characters and however many
\* it has, where its numbers are ints (src/graph_loader.cpp:2225-2263).
THEOREM VersionsAreJudged == LSpec => []VersionJudged
  <1>1. LInv => VersionJudged
    <2>1. SUFFICES ASSUME LInv PROVE VersionJudged
      OBVIOUS
    <2> DEFINE v == version
               p == Parsed(v)
    <2>2. v \in Seq(STRING)
      BY <2>1, LoaderAssumption DEF LInv
    <2>3. CASE v = << >>
      <3>1. fstatus = "Absent"
        BY <2>3 DEF fstatus, FormatStatus
      <3>2. ~WellFormed(v)
        BY <2>3 DEF WellFormed
      <3>3. QED
        BY <2>3, <3>1, <3>2 DEF VersionJudged
    <2>4. CASE v # << >>
      <3>1. /\ fstatus = IF ~(p.ok /\ p.digits) THEN "Malformed"
                         ELSE IF p.out[1] = 0 /\ p.out[2] = 1 THEN "Supported" ELSE "Unsupported"
        BY <2>4 DEF fstatus, FormatStatus, kFormatMajor, kFormatMinor
      <3>2. (p.ok /\ p.digits) <=> WellFormed(v)
        <4>1. ScanIs(v, Len(v), p)
          BY <2>2, ScanEnds
        <4>2. Len(v) > 0 /\ (WellFormed(v) <=> Begins(v, Len(v)) /\ v[Len(v)] # ".")
          BY <2>2, <2>4, WellFormedIs
        <4>3. QED
          BY <4>1, <4>2 DEF ScanIs
      <3>3. ASSUME WellFormed(v), Major(v) <= IntMax, Minor(v) <= IntMax
            PROVE  p.out[1] = Major(v) /\ p.out[2] = Minor(v)
        BY <2>2, <3>3, NumbersAreRead
      <3> HIDE DEF p
      <3>4. QED
        BY <2>4, <3>1, <3>2, <3>3
           DEF VersionJudged, ThisFormat, kFormatMajor, kFormatMinor
    <2>5. QED
      BY <2>3, <2>4
  <1>2. QED
    BY <1>1, LoadInvariant, PTL

-----------------------------------------------------------------------------
(***************************************************************************)
(* Sequences                                                               *)
(***************************************************************************)

\* What is in a list is of its range, and the other way round.
LEMMA ListIs ==
  ASSUME NEW x, IsList(x)
  PROVE  /\ Len(x) \in Nat /\ DOMAIN x = 1 .. Len(x)
         /\ \A i \in 1 .. Len(x) : x[i] \in Range(x)
         /\ \A e \in Range(x) : \E i \in 1 .. Len(x) : x[i] = e
         /\ x \in [1 .. Len(x) -> Range(x)]
  BY DEF IsList, Range

\* Sequences of one element each, one after another.
LEMMA FlattenSingles ==
  ASSUME NEW n \in Nat, NEW cs
  PROVE  FlattenSeq([i \in 1 .. n |-> <<cs[i]>>]) = [i \in 1 .. n |-> cs[i]]
  <1> DEFINE T == {cs[i] : i \in 1 .. n}
             ss == [i \in 1 .. n |-> <<cs[i]>>]
             Upto(k) == [i \in 1 .. k |-> cs[i]]
  <1>1. ss \in [1 .. n -> Seq(T)] /\ \A k \in 1 .. n : ss[k] = <<cs[k]>>
    OBVIOUS
  <1>2. PICK F : Concatenates(F, T, n, ss)
    <2> HIDE DEF ss, T
    <2>1. QED
      BY <1>1, FlattenRuns
  <1> USE DEF Concatenates
  <1>3. ASSUME NEW k \in 1 .. n PROVE Upto(k - 1) \o <<cs[k]>> = Upto(k)
    <2>1. Upto(k - 1) \in Seq(T) /\ Len(Upto(k - 1)) = k - 1 /\ Upto(k) \in Seq(T) /\ Len(Upto(k)) = k
      OBVIOUS
    <2>2. \A i \in 1 .. k : Upto(k)[i] = IF i <= k - 1 THEN Upto(k - 1)[i] ELSE <<cs[k]>>[i - (k - 1)]
      OBVIOUS
    <2>3. <<cs[k]>> \in Seq(T) /\ Len(<<cs[k]>>) = 1
      OBVIOUS
    <2> HIDE DEF Upto, T
    <2>4. QED
      BY <2>1, <2>2, <2>3, ConcatProperties, SeqEqual
  <1> DEFINE S == {k \in 0 .. n : F[k] = Upto(k)}
  <1>4. 0 \in S
    <2>1. Upto(0) = << >>
      OBVIOUS
    <2>2. QED
      BY <1>2, <2>1
  <1>5. ASSUME NEW k \in 1 .. n, k - 1 \in S PROVE k \in S
    <2>1. k \in 0 .. n /\ F[k - 1] = Upto(k - 1)
      BY <1>5
    <2>2. F[k] = F[k - 1] \o ss[k]
      BY <1>2
    <2> HIDE DEF ss, Upto
    <2>3. F[k] = Upto(k)
      BY <1>1, <1>3, <2>1, <2>2
    <2>4. QED
      BY <2>1, <2>3
  <1> HIDE DEF S
  <1>6. 0 .. n \subseteq S
    BY <1>4, <1>5, LoopInvariant
  <1>7. F[n] = Upto(n)
    BY <1>6 DEF S
  <1>8. QED
    BY <1>2, <1>7

\* One sequence on its own.
LEMMA FlattenOne ==
  ASSUME NEW T, NEW t \in Seq(T)
  PROVE  FlattenSeq([i \in 1 .. 1 |-> t]) = t
  <1> DEFINE ss == [i \in 1 .. 1 |-> t]
  <1>1. ss \in [1 .. 1 -> Seq(T)] /\ ss[1] = t
    OBVIOUS
  <1> HIDE DEF ss
  <1>2. PICK F : Concatenates(F, T, 1, ss)
    BY <1>1, FlattenRuns
  <1> USE DEF Concatenates
  <1>3. F[1] = << >> \o t
    <2>1. 1 \in 1 .. 1 /\ 1 - 1 = 0
      OBVIOUS
    <2>2. QED
      BY <1>1, <1>2, <2>1
  <1>4. QED
    BY <1>2, <1>3, ConcatEmptySeq DEF ss

-----------------------------------------------------------------------------
(***************************************************************************)
(* Runs of nodes                                                           *)
(***************************************************************************)

\* Nodes are run one after another.
LEMMA RunsAre ==
  ASSUME NEW s, NEW ns, Len(ns) \in Nat
  PROVE  /\ Runs(s, ns)[0] = s
         /\ \A k \in 1 .. Len(ns) : Runs(s, ns)[k] = RunNode(Runs(s, ns)[k - 1], ns[k])
  <1> DEFINE T == {m \in Nat : \E f : f = [i \in 0 .. m |-> IF i = 0 THEN s ELSE RunNode(f[i - 1], ns[i])]}
             run == CHOOSE f : f = [i \in 0 .. Len(ns) |-> IF i = 0 THEN s ELSE RunNode(f[i - 1], ns[i])]
  <1>1. 0 \in T
    <2> DEFINE f == [i \in 0 .. 0 |-> s]
    <2>1. f = [i \in 0 .. 0 |-> IF i = 0 THEN s ELSE RunNode(f[i - 1], ns[i])]
      OBVIOUS
    <2>2. QED
      BY <2>1
  <1>2. ASSUME NEW m \in Nat, m \in T PROVE m + 1 \in T
    <2>1. PICK f : f = [i \in 0 .. m |-> IF i = 0 THEN s ELSE RunNode(f[i - 1], ns[i])]
      BY <1>2
    <2> DEFINE g == [i \in 0 .. m + 1 |-> IF i = m + 1 THEN RunNode(f[m], ns[(m + 1)]) ELSE f[i]]
    <2>2. ASSUME NEW i \in 0 .. m + 1 PROVE g[i] = IF i = 0 THEN s ELSE RunNode(g[i - 1], ns[i])
      <3>1. CASE i = m + 1
        <4>1. i # 0 /\ i - 1 = m /\ m \in 0 .. m + 1 /\ m # m + 1
          BY <3>1
        <4>2. g[m] = f[m]
          BY <4>1
        <4> HIDE DEF g
        <4>3. g[m + 1] = RunNode(f[m], ns[(m + 1)])
          BY <4>1 DEF g
        <4>4. QED
          BY <3>1, <4>1, <4>2, <4>3
      <3>2. CASE i # m + 1 /\ i # 0
        <4>1. i \in 0 .. m /\ i - 1 \in 0 .. m + 1 /\ i - 1 # m + 1
          BY <3>2
        <4>2. g[i] = f[i] /\ g[i - 1] = f[i - 1]
          BY <3>2, <4>1
        <4>3. f[i] = RunNode(f[i - 1], ns[i])
          BY <2>1, <3>2, <4>1
        <4> HIDE DEF g
        <4>4. QED
          BY <3>2, <4>2, <4>3
      <3>3. CASE i = 0
        <4>1. 0 \in 0 .. m /\ i # m + 1
          BY <3>3
        <4>2. g[i] = f[0]
          BY <3>3, <4>1
        <4>3. f[0] = s
          BY <2>1, <4>1
        <4>4. QED
          BY <3>3, <4>2, <4>3
      <3>4. QED
        BY <3>1, <3>2, <3>3
    <2>3. g = [i \in 0 .. m + 1 |-> IF i = 0 THEN s ELSE RunNode(g[i - 1], ns[i])]
      <3>1. g = [i \in 0 .. m + 1 |-> g[i]]
        OBVIOUS
      <3> HIDE DEF g
      <3>2. QED
        BY <2>2, <3>1
    <2> HIDE DEF g
    <2>4. \E h : h = [i \in 0 .. m + 1 |-> IF i = 0 THEN s ELSE RunNode(h[i - 1], ns[i])]
      BY <2>3
    <2>5. m + 1 \in Nat
      OBVIOUS
    <2>6. QED
      BY <2>4, <2>5
  <1>3. Nat \subseteq T
    <2> HIDE DEF T
    <2>1. QED
      BY <1>1, <1>2, NatSetInduction
  <1>4. \E f : f = [i \in 0 .. Len(ns) |-> IF i = 0 THEN s ELSE RunNode(f[i - 1], ns[i])]
    BY <1>3
  <1>5. run = [i \in 0 .. Len(ns) |-> IF i = 0 THEN s ELSE RunNode(run[i - 1], ns[i])]
    BY <1>4, Zenon
  <1>6. Runs(s, ns) = run
    BY Zenon DEF Runs
  <1> HIDE DEF run, T
  <1>7. \A k \in 0 .. Len(ns) : run[k] = IF k = 0 THEN s ELSE RunNode(run[k - 1], ns[k])
    BY <1>5
  <1>8. 0 \in 0 .. Len(ns) /\ \A k \in 1 .. Len(ns) : k \in 0 .. Len(ns) /\ k # 0
    OBVIOUS
  <1>9. QED
    BY <1>6, <1>7, <1>8

\* The same inside of a composite.
LEMMA InsideRuns ==
  ASSUME NEW s, NEW node, Len(node.nodes) \in Nat
  PROVE  /\ Inside(s, node)[0] = Entered(s, node)
         /\ \A k \in 1 .. Len(node.nodes) : Inside(s, node)[k] = RunOperator(Inside(s, node)[k - 1], node.nodes[k])
  <1> DEFINE T == {m \in Nat : \E f : f = [i \in 0 .. m |-> IF i = 0 THEN Entered(s, node) ELSE RunOperator(f[i - 1], node.nodes[i])]}
             run == CHOOSE f : f = [i \in 0 .. Len(node.nodes) |-> IF i = 0 THEN Entered(s, node) ELSE RunOperator(f[i - 1], node.nodes[i])]
  <1>1. 0 \in T
    <2> DEFINE f == [i \in 0 .. 0 |-> Entered(s, node)]
    <2>1. f = [i \in 0 .. 0 |-> IF i = 0 THEN Entered(s, node) ELSE RunOperator(f[i - 1], node.nodes[i])]
      OBVIOUS
    <2>2. QED
      BY <2>1
  <1>2. ASSUME NEW m \in Nat, m \in T PROVE m + 1 \in T
    <2>1. PICK f : f = [i \in 0 .. m |-> IF i = 0 THEN Entered(s, node) ELSE RunOperator(f[i - 1], node.nodes[i])]
      BY <1>2
    <2> DEFINE g == [i \in 0 .. m + 1 |-> IF i = m + 1 THEN RunOperator(f[m], node.nodes[(m + 1)]) ELSE f[i]]
    <2>2. ASSUME NEW i \in 0 .. m + 1 PROVE g[i] = IF i = 0 THEN Entered(s, node) ELSE RunOperator(g[i - 1], node.nodes[i])
      <3>1. CASE i = m + 1
        <4>1. i # 0 /\ i - 1 = m /\ m \in 0 .. m + 1 /\ m # m + 1
          BY <3>1
        <4>2. g[m] = f[m]
          BY <4>1
        <4> HIDE DEF g
        <4>3. g[m + 1] = RunOperator(f[m], node.nodes[(m + 1)])
          BY <4>1 DEF g
        <4>4. QED
          BY <3>1, <4>1, <4>2, <4>3
      <3>2. CASE i # m + 1 /\ i # 0
        <4>1. i \in 0 .. m /\ i - 1 \in 0 .. m + 1 /\ i - 1 # m + 1
          BY <3>2
        <4>2. g[i] = f[i] /\ g[i - 1] = f[i - 1]
          BY <3>2, <4>1
        <4>3. f[i] = RunOperator(f[i - 1], node.nodes[i])
          BY <2>1, <3>2, <4>1
        <4> HIDE DEF g
        <4>4. QED
          BY <3>2, <4>2, <4>3
      <3>3. CASE i = 0
        <4>1. 0 \in 0 .. m /\ i # m + 1
          BY <3>3
        <4>2. g[i] = f[0]
          BY <3>3, <4>1
        <4>3. f[0] = Entered(s, node)
          BY <2>1, <4>1
        <4>4. QED
          BY <3>3, <4>2, <4>3
      <3>4. QED
        BY <3>1, <3>2, <3>3
    <2>3. g = [i \in 0 .. m + 1 |-> IF i = 0 THEN Entered(s, node) ELSE RunOperator(g[i - 1], node.nodes[i])]
      <3>1. g = [i \in 0 .. m + 1 |-> g[i]]
        OBVIOUS
      <3> HIDE DEF g
      <3>2. QED
        BY <2>2, <3>1
    <2> HIDE DEF g
    <2>4. \E h : h = [i \in 0 .. m + 1 |-> IF i = 0 THEN Entered(s, node) ELSE RunOperator(h[i - 1], node.nodes[i])]
      BY <2>3
    <2>5. m + 1 \in Nat
      OBVIOUS
    <2>6. QED
      BY <2>4, <2>5
  <1>3. Nat \subseteq T
    <2> HIDE DEF T
    <2>1. QED
      BY <1>1, <1>2, NatSetInduction
  <1>4. \E f : f = [i \in 0 .. Len(node.nodes) |-> IF i = 0 THEN Entered(s, node) ELSE RunOperator(f[i - 1], node.nodes[i])]
    BY <1>3
  <1>5. run = [i \in 0 .. Len(node.nodes) |-> IF i = 0 THEN Entered(s, node) ELSE RunOperator(run[i - 1], node.nodes[i])]
    BY <1>4, Zenon
  <1>6. Inside(s, node) = run
    BY Zenon DEF Inside
  <1> HIDE DEF run, T
  <1>7. \A k \in 0 .. Len(node.nodes) : run[k] = IF k = 0 THEN Entered(s, node) ELSE RunOperator(run[k - 1], node.nodes[k])
    BY <1>5
  <1>8. 0 \in 0 .. Len(node.nodes) /\ \A k \in 1 .. Len(node.nodes) : k \in 0 .. Len(node.nodes) /\ k # 0
    OBVIOUS
  <1>9. QED
    BY <1>6, <1>7, <1>8

\* Features are screened one after another.
LEMMA ScreenedRuns ==
  ASSUME NEW s, NEW node, Len(node.features) \in Nat
  PROVE  /\ Screened(s, node)[0] = s
         /\ \A k \in 1 .. Len(node.features) : Screened(s, node)[k] = Put(Screened(s, node)[k - 1], node.features[k].name, <<<<"screened", Column(Screened(s, node)[k - 1], node.features[k])>>>>)
  <1> DEFINE T == {m \in Nat : \E f : f = [i \in 0 .. m |-> IF i = 0 THEN s ELSE Put(f[i - 1], node.features[i].name, <<<<"screened", Column(f[i - 1], node.features[i])>>>>)]}
             run == CHOOSE f : f = [i \in 0 .. Len(node.features) |-> IF i = 0 THEN s ELSE Put(f[i - 1], node.features[i].name, <<<<"screened", Column(f[i - 1], node.features[i])>>>>)]
  <1>1. 0 \in T
    <2> DEFINE f == [i \in 0 .. 0 |-> s]
    <2>1. f = [i \in 0 .. 0 |-> IF i = 0 THEN s ELSE Put(f[i - 1], node.features[i].name, <<<<"screened", Column(f[i - 1], node.features[i])>>>>)]
      OBVIOUS
    <2>2. QED
      BY <2>1
  <1>2. ASSUME NEW m \in Nat, m \in T PROVE m + 1 \in T
    <2>1. PICK f : f = [i \in 0 .. m |-> IF i = 0 THEN s ELSE Put(f[i - 1], node.features[i].name, <<<<"screened", Column(f[i - 1], node.features[i])>>>>)]
      BY <1>2
    <2> DEFINE g == [i \in 0 .. m + 1 |-> IF i = m + 1 THEN Put(f[m], node.features[(m + 1)].name, <<<<"screened", Column(f[m], node.features[(m + 1)])>>>>) ELSE f[i]]
    <2>2. ASSUME NEW i \in 0 .. m + 1 PROVE g[i] = IF i = 0 THEN s ELSE Put(g[i - 1], node.features[i].name, <<<<"screened", Column(g[i - 1], node.features[i])>>>>)
      <3>1. CASE i = m + 1
        <4>1. i # 0 /\ i - 1 = m /\ m \in 0 .. m + 1 /\ m # m + 1
          BY <3>1
        <4>2. g[m] = f[m]
          BY <4>1
        <4> HIDE DEF g
        <4>3. g[m + 1] = Put(f[m], node.features[(m + 1)].name, <<<<"screened", Column(f[m], node.features[(m + 1)])>>>>)
          BY <4>1 DEF g
        <4>4. QED
          BY <3>1, <4>1, <4>2, <4>3
      <3>2. CASE i # m + 1 /\ i # 0
        <4>1. i \in 0 .. m /\ i - 1 \in 0 .. m + 1 /\ i - 1 # m + 1
          BY <3>2
        <4>2. g[i] = f[i] /\ g[i - 1] = f[i - 1]
          BY <3>2, <4>1
        <4>3. f[i] = Put(f[i - 1], node.features[i].name, <<<<"screened", Column(f[i - 1], node.features[i])>>>>)
          BY <2>1, <3>2, <4>1
        <4> HIDE DEF g
        <4>4. QED
          BY <3>2, <4>2, <4>3
      <3>3. CASE i = 0
        <4>1. 0 \in 0 .. m /\ i # m + 1
          BY <3>3
        <4>2. g[i] = f[0]
          BY <3>3, <4>1
        <4>3. f[0] = s
          BY <2>1, <4>1
        <4>4. QED
          BY <3>3, <4>2, <4>3
      <3>4. QED
        BY <3>1, <3>2, <3>3
    <2>3. g = [i \in 0 .. m + 1 |-> IF i = 0 THEN s ELSE Put(g[i - 1], node.features[i].name, <<<<"screened", Column(g[i - 1], node.features[i])>>>>)]
      <3>1. g = [i \in 0 .. m + 1 |-> g[i]]
        OBVIOUS
      <3> HIDE DEF g
      <3>2. QED
        BY <2>2, <3>1
    <2> HIDE DEF g
    <2>4. \E h : h = [i \in 0 .. m + 1 |-> IF i = 0 THEN s ELSE Put(h[i - 1], node.features[i].name, <<<<"screened", Column(h[i - 1], node.features[i])>>>>)]
      BY <2>3
    <2>5. m + 1 \in Nat
      OBVIOUS
    <2>6. QED
      BY <2>4, <2>5
  <1>3. Nat \subseteq T
    <2> HIDE DEF T
    <2>1. QED
      BY <1>1, <1>2, NatSetInduction
  <1>4. \E f : f = [i \in 0 .. Len(node.features) |-> IF i = 0 THEN s ELSE Put(f[i - 1], node.features[i].name, <<<<"screened", Column(f[i - 1], node.features[i])>>>>)]
    BY <1>3
  <1>5. run = [i \in 0 .. Len(node.features) |-> IF i = 0 THEN s ELSE Put(run[i - 1], node.features[i].name, <<<<"screened", Column(run[i - 1], node.features[i])>>>>)]
    BY <1>4, Zenon
  <1>6. Screened(s, node) = run
    BY Zenon DEF Screened
  <1> HIDE DEF run, T
  <1>7. \A k \in 0 .. Len(node.features) : run[k] = IF k = 0 THEN s ELSE Put(run[k - 1], node.features[k].name, <<<<"screened", Column(run[k - 1], node.features[k])>>>>)
    BY <1>5
  <1>8. 0 \in 0 .. Len(node.features) /\ \A k \in 1 .. Len(node.features) : k \in 0 .. Len(node.features) /\ k # 0
    OBVIOUS
  <1>9. QED
    BY <1>6, <1>7, <1>8

-----------------------------------------------------------------------------
(***************************************************************************)
(* Names inside a composite                                                *)
(***************************************************************************)

Within(node) == {b[2] : b \in Bound(node)}

\* A name stands for what an alias makes of it, or for itself.
LEMMA AliasedIs ==
  ASSUME NEW aliases, IsList(aliases), NEW n, NEW from, NEW to
  PROVE  \/ Aliased(aliases, n, from, to) = n
         \/ \E a \in Range(aliases) : a[from] = n /\ Aliased(aliases, n, from, to) = a[to]
  <1> DEFINE is == {i \in 1 .. Len(aliases) : aliases[i][from] = n}
  <1>1. Aliased(aliases, n, from, to) = IF is = {} THEN n ELSE aliases[Max(is)][to]
    BY DEF Aliased
  <1>2. ASSUME is # {} PROVE \E a \in Range(aliases) : a[from] = n /\ aliases[Max(is)][to] = a[to]
    <2>1. Len(aliases) \in Nat /\ \A i \in 1 .. Len(aliases) : aliases[i] \in Range(aliases)
      BY ListIs
    <2>2. Max(is) \in is
      <3>1. is \subseteq 1 .. Len(aliases)
        OBVIOUS
      <3> HIDE DEF is
      <3>2. QED
        BY <1>2, <2>1, <3>1, MaxIsIn
    <2>3. QED
      BY <2>1, <2>2
  <1> HIDE DEF is
  <1>3. QED
    BY <1>1, <1>2

\* Inlining gives a name that of the parent it is bound to, or leaves it alone.
LEMMA OuterIs ==
  ASSUME NEW node, NEW visible, IsComposite(node), Inlinable(node, visible), NEW n
  PROVE  \/ <<Outer(node, n), n>> \in Bound(node)
         \/ /\ Outer(node, n) = n
            /\ \A a \in Range(node.in_aliases) : a[2] = n => a[1] = n
            /\ \A a \in Range(node.out_aliases) : a[1] = n => a[2] = n
  <1> DEFINE ia == node.in_aliases
             oa == node.out_aliases
             ins  == {i \in 1 .. Len(ia) : ia[i][2] = n /\ ia[i][1] # n}
             outs == {i \in 1 .. Len(oa) : oa[i][1] = n /\ oa[i][2] # n}
  <1>1. Outer(node, n) = IF outs # {} THEN oa[Max(outs)][2]
                         ELSE IF ins # {} THEN ia[Max(ins)][1] ELSE n
    BY DEF Outer
  <1>2. IsList(ia) /\ IsList(oa)
    BY DEF IsComposite
  <1>3. /\ \A a \in Range(ia) : a[1] \in Range(node.in) /\ a[2] = Inward(node, a[1])
        /\ \A a \in Range(oa) : a[2] \in Range(node.out) /\ a[1] = Outward(node, a[2])
    BY DEF Inlinable
  <1>4. CASE outs # {}
    <2>1. Len(oa) \in Nat /\ \A i \in 1 .. Len(oa) : oa[i] \in Range(oa)
      BY <1>2, ListIs
    <2>2. Max(outs) \in outs
      <3>1. outs \subseteq 1 .. Len(oa)
        OBVIOUS
      <3> HIDE DEF outs
      <3>2. QED
        BY <1>4, <2>1, <3>1, MaxIsIn
    <2> DEFINE a == oa[Max(outs)]
    <2>3. a \in Range(oa) /\ a[1] = n
      BY <2>1, <2>2
    <2>4. Outer(node, n) = a[2]
      BY <1>1, <1>4
    <2> HIDE DEF a, outs, oa
    <2>5. a[2] \in Range(node.out) /\ n = Outward(node, a[2])
      BY <1>3, <2>3
    <2>6. QED
      BY <2>4, <2>5 DEF Bound
  <1>5. CASE outs = {} /\ ins # {}
    <2>1. Len(ia) \in Nat /\ \A i \in 1 .. Len(ia) : ia[i] \in Range(ia)
      BY <1>2, ListIs
    <2>2. Max(ins) \in ins
      <3>1. ins \subseteq 1 .. Len(ia)
        OBVIOUS
      <3> HIDE DEF ins
      <3>2. QED
        BY <1>5, <2>1, <3>1, MaxIsIn
    <2> DEFINE a == ia[Max(ins)]
    <2>3. a \in Range(ia) /\ a[2] = n
      BY <2>1, <2>2
    <2>4. Outer(node, n) = a[1]
      BY <1>1, <1>5
    <2> HIDE DEF a, ins, ia
    <2>5. a[1] \in Range(node.in) /\ n = Inward(node, a[1])
      BY <1>3, <2>3
    <2>6. QED
      BY <2>4, <2>5 DEF Bound
  <1>6. CASE outs = {} /\ ins = {}
    <2>1. Outer(node, n) = n
      BY <1>1, <1>6
    <2>2. ASSUME NEW a \in Range(ia), a[2] = n PROVE a[1] = n
      <3>1. PICK i \in 1 .. Len(ia) : ia[i] = a
        BY <1>2, ListIs
      <3>2. QED
        BY <1>6, <2>2, <3>1
    <2>3. ASSUME NEW a \in Range(oa), a[1] = n PROVE a[2] = n
      <3>1. PICK i \in 1 .. Len(oa) : oa[i] = a
        BY <1>2, ListIs
      <3>2. QED
        BY <1>6, <2>3, <3>1
    <2>4. QED
      BY <2>1, <2>2, <2>3
  <1>7. QED
    BY <1>4, <1>5, <1>6

\* A name bound to one of the parent's gets that one back.
LEMMA OuterOfBound ==
  ASSUME NEW node, NEW visible, IsComposite(node), Inlinable(node, visible),
         NEW b \in Bound(node)
  PROVE  Outer(node, b[2]) = b[1]
  <1>1. CASE <<Outer(node, b[2]), b[2]>> \in Bound(node)
    <2> DEFINE c == <<Outer(node, b[2]), b[2]>>
    <2>1. b[2] = c[2] => b = c
      BY <1>1 DEF Inlinable
    <2>2. QED
      BY <2>1
  <1>2. CASE /\ Outer(node, b[2]) = b[2]
             /\ \A a \in Range(node.in_aliases) : a[2] = b[2] => a[1] = b[2]
             /\ \A a \in Range(node.out_aliases) : a[1] = b[2] => a[2] = b[2]
    <2>1. IsList(node.in_aliases) /\ IsList(node.out_aliases)
      BY DEF IsComposite
    <2>2. ASSUME NEW n \in Range(node.in), b = <<n, Inward(node, n)>> PROVE b[1] = b[2]
      <3>1. b[1] = n /\ b[2] = Inward(node, n)
        BY <2>2
      <3>2. \/ Inward(node, n) = n
            \/ \E a \in Range(node.in_aliases) : a[1] = n /\ Inward(node, n) = a[2]
        BY <2>1, AliasedIs DEF Inward
      <3>3. QED
        BY <1>2, <3>1, <3>2
    <2>3. ASSUME NEW n \in Range(node.out), b = <<n, Outward(node, n)>> PROVE b[1] = b[2]
      <3>1. b[1] = n /\ b[2] = Outward(node, n)
        BY <2>3
      <3>2. \/ Outward(node, n) = n
            \/ \E a \in Range(node.out_aliases) : a[2] = n /\ Outward(node, n) = a[1]
        BY <2>1, AliasedIs DEF Outward
      <3>3. QED
        BY <1>2, <3>1, <3>2
    <2>4. QED
      BY <1>2, <2>2, <2>3 DEF Bound
  <1>3. QED
    BY <1>1, <1>2, OuterIs

\* Every other name stays as it is.
LEMMA OuterOfOther ==
  ASSUME NEW node, NEW visible, IsComposite(node), Inlinable(node, visible),
         NEW n, n \notin Within(node)
  PROVE  Outer(node, n) = n
  <1>1. <<Outer(node, n), n>> \notin Bound(node)
    <2>1. SUFFICES ASSUME <<Outer(node, n), n>> \in Bound(node) PROVE FALSE
      OBVIOUS
    <2>2. <<Outer(node, n), n>>[2] = n
      OBVIOUS
    <2>3. QED
      BY <2>1, <2>2 DEF Within
  <1>2. QED
    BY <1>1, OuterIs

\* What inlining does to the names of a composite: its inputs and outputs get
\* those of the parent, no two names it stores under become one, a name it writes
\* is an output or nobody else's, and constants keep theirs.
Separated(node, visible) ==
  /\ \A n \in Range(node.in) : Inward(node, n) \in Within(node) /\ Outer(node, Inward(node, n)) = n
  /\ \A n \in Range(node.out) :
       /\ Outward(node, n) \in Written(node) /\ Outer(node, Outward(node, n)) = n
  /\ \A r \in Within(node) \cup Written(node), w \in Written(node) :
       Outer(node, r) = Outer(node, w) => r = w
  /\ \A w \in Written(node) :
       \/ Outer(node, w) \in Range(node.out)
       \/ Outer(node, w) = w /\ w \notin visible
  /\ \A k \in Constants \ Within(node) : Outer(node, k) = k
  /\ Written(node) \cap Constants = {}

LEMMA InlinedNames ==
  ASSUME NEW node, NEW visible, IsComposite(node), Inlinable(node, visible),
         Range(node.in) \cup Range(node.out) \subseteq visible
  PROVE  Separated(node, visible)
  <1>1. ASSUME NEW n \in Range(node.in)
        PROVE  Inward(node, n) \in Within(node) /\ Outer(node, Inward(node, n)) = n
    <2> DEFINE b == <<n, Inward(node, n)>>
    <2>1. b \in Bound(node)
      BY DEF Bound
    <2>2. b[1] = n /\ b[2] = Inward(node, n)
      OBVIOUS
    <2> HIDE DEF b
    <2>3. Outer(node, b[2]) = b[1]
      BY <2>1, OuterOfBound
    <2>4. QED
      BY <2>1, <2>2, <2>3 DEF Within
  <1>2. ASSUME NEW n \in Range(node.out)
        PROVE  /\ Outward(node, n) \in Written(node) /\ Outward(node, n) \in Within(node)
               /\ Outer(node, Outward(node, n)) = n
    <2> DEFINE b == <<n, Outward(node, n)>>
    <2>1. b \in Bound(node)
      BY DEF Bound
    <2>2. b[1] = n /\ b[2] = Outward(node, n)
      OBVIOUS
    <2> HIDE DEF b
    <2>3. Outer(node, b[2]) = b[1]
      BY <2>1, OuterOfBound
    <2>4. QED
      BY <2>1, <2>2, <2>3 DEF Within, Inlinable
  <1>3. ASSUME NEW w \in Written(node), w \in Within(node)
        PROVE  \E n \in Range(node.out) : w = Outward(node, n) /\ Outer(node, w) = n
    <2>1. PICK b \in Bound(node) : w = b[2]
      BY <1>3 DEF Within
    <2>2. \A n \in Range(node.in) : w # Inward(node, n)
      BY DEF Inlinable
    <2>3. \A n \in Range(node.in) : b # <<n, Inward(node, n)>>
      BY <2>1, <2>2
    <2>4. PICK n \in Range(node.out) : b = <<n, Outward(node, n)>>
      BY <2>3 DEF Bound
    <2>5. w = Outward(node, n)
      BY <2>1, <2>4
    <2>6. QED
      BY <1>2, <2>5
  <1>4. ASSUME NEW w \in Written(node), w \notin Within(node)
        PROVE  Outer(node, w) = w /\ w \notin visible
    <2>1. Outer(node, w) = w
      BY <1>4, OuterOfOther
    <2>2. w \in Used(node) /\ w \notin Constants
      BY DEF Used, Inlinable
    <2>3. (Used(node) \ (Within(node) \cup Constants)) \cap visible = {}
      BY DEF Inlinable, Within
    <2>4. QED
      BY <1>4, <2>1, <2>2, <2>3
  <1>5. ASSUME NEW r \in Within(node) PROVE Outer(node, r) \in visible
    <2>1. PICK b \in Bound(node) : r = b[2]
      BY DEF Within
    <2>2. Outer(node, r) = b[1]
      BY <2>1, OuterOfBound
    <2>3. b[1] \in Range(node.in) \cup Range(node.out)
      BY DEF Bound
    <2>4. QED
      BY <2>2, <2>3
  <1>6. ASSUME NEW r \in Within(node), NEW w \in Within(node), Outer(node, r) = Outer(node, w)
        PROVE  r = w
    <2>1. PICK b \in Bound(node) : r = b[2]
      BY DEF Within
    <2>2. PICK c \in Bound(node) : w = c[2]
      BY DEF Within
    <2>3. b[1] = c[1]
      BY <1>6, <2>1, <2>2, OuterOfBound
    <2>4. b = c
      BY <2>3 DEF Inlinable
    <2>5. QED
      BY <2>1, <2>2, <2>4
  <1>7. ASSUME NEW r \in Within(node) \cup Written(node), NEW w \in Written(node),
               Outer(node, r) = Outer(node, w)
        PROVE  r = w
    <2>1. CASE r \in Within(node) /\ w \in Within(node)
      BY <1>6, <1>7, <2>1
    <2>2. CASE r \in Within(node) /\ w \notin Within(node)
      BY <1>4, <1>5, <1>7, <2>2
    <2>3. CASE r \notin Within(node) /\ w \in Within(node)
      BY <1>4, <1>5, <1>7, <2>3
    <2>4. CASE r \notin Within(node) /\ w \notin Within(node)
      BY <1>4, <1>7, <2>4
    <2>5. QED
      BY <2>1, <2>2, <2>3, <2>4
  <1>8. \A w \in Written(node) : \/ Outer(node, w) \in Range(node.out)
                                 \/ Outer(node, w) = w /\ w \notin visible
    BY <1>3, <1>4
  <1>9. \A k \in Constants \ Within(node) : Outer(node, k) = k
    BY OuterOfOther
  <1>10. Written(node) \cap Constants = {}
    BY DEF Inlinable
  <1>11. QED
    BY <1>1, <1>2, <1>7, <1>8, <1>9, <1>10 DEF Separated

-----------------------------------------------------------------------------
(***************************************************************************)
(* Operators                                                               *)
(***************************************************************************)

\* What node, run on s, makes of its output n.
Made(s, node, n) ==
  <<<<node.id, Max({j \in 1 .. Len(node.out) : node.out[j] = n}), Args(s, node)>>>>

\* After it ran, its outputs are in the store and the rest is as it was.
Ran(s, node, t) ==
  /\ t.ok = TRUE
  /\ DOMAIN t.values = Range(node.out) \cup DOMAIN s.values
  /\ \A n \in Range(node.out) : t.values[n] = Made(s, node, n)
  /\ \A n \in DOMAIN s.values \ Range(node.out) : t.values[n] = s.values[n]

\* An operator fails only where an input is missing.
LEMMA OperatorIs ==
  ASSUME NEW s, NEW node
  PROVE  /\ RunOperator(s, node).ok <=> (s.ok /\ \A n \in Range(node.in) : Has(s, n))
         /\ RunOperator(s, node).ok => Ran(s, node, RunOperator(s, node))
  <1> DEFINE t == RunOperator(s, node)
             new == [n \in Range(node.out) |-> Made(s, node, n)]
  <1>1. CASE s.ok /\ \A n \in Range(node.in) : Has(s, n)
    <2>1. t = Scope(Stored(new, s.values))
      BY <1>1, Zenon DEF RunOperator, Made
    <2>2. t.ok = TRUE /\ t.values = Stored(new, s.values)
      BY <2>1 DEF Scope
    <2>3. DOMAIN new = Range(node.out) /\ \A n \in Range(node.out) : new[n] = Made(s, node, n)
      OBVIOUS
    <2> HIDE DEF new, t
    <2>4. QED
      BY <1>1, <2>2, <2>3 DEF Stored, t, Ran
  <1>2. CASE ~(s.ok /\ \A n \in Range(node.in) : Has(s, n))
    <2>1. t = Broken
      BY <1>2, Zenon DEF RunOperator
    <2>2. QED
      BY <1>2, <2>1 DEF Broken
  <1>3. QED
    BY <1>1, <1>2

\* Kernels that read the same tensors get the same arguments.
LEMMA SameArgs ==
  ASSUME NEW s, NEW node, NEW t, NEW twin,
         twin.gathers = node.gathers, Len(twin.in) = Len(node.in),
         \A i \in 1 .. Len(node.in) : Get(t, twin.in[i]) = Get(s, node.in[i])
  PROVE  Args(t, twin) = Args(s, node)
  <1>1. [i \in 1 .. Len(twin.in) |-> Get(t, twin.in[i])]
          = [i \in 1 .. Len(node.in) |-> Get(s, node.in[i])]
    OBVIOUS
  <1>2. QED
    BY <1>1 DEF Args

\* An operator and a twin of it under other names make the same of the same
\* arguments.
LEMMA SameMade ==
  ASSUME NEW s, NEW node, NEW t, NEW twin,
         twin.id = node.id, Args(t, twin) = Args(s, node), Len(twin.out) = Len(node.out),
         NEW n, NEW m, \A j \in 1 .. Len(node.out) : twin.out[j] = m <=> node.out[j] = n
  PROVE  Made(t, twin, m) = Made(s, node, n)
  <1>1. {j \in 1 .. Len(twin.out) : twin.out[j] = m} = {j \in 1 .. Len(node.out) : node.out[j] = n}
    OBVIOUS
  <1>2. QED
    BY <1>1 DEF Made

-----------------------------------------------------------------------------
(***************************************************************************)
(* Agreement of two stores                                                 *)
(***************************************************************************)

\* Store v of the compiled graph has what store d of the declared one has under
\* the watched names, and no constant is hidden in it.
Agree(v, d, watched) ==
  /\ v.ok /\ d.ok
  /\ DOMAIN v.values \cap Constants = {}
  /\ \A n \in watched : n \in DOMAIN d.values => n \in DOMAIN v.values /\ v.values[n] = d.values[n]

LEMMA AgreeReads ==
  ASSUME NEW v, NEW d, NEW watched, Agree(v, d, watched), NEW n \in watched, Has(d, n)
  PROVE  Has(v, n) /\ Get(v, n) = Get(d, n)
  BY DEF Agree, Has, Get

\* What a store holds under the names outside of a set is still there in another.
Keeps(v, w, changed) ==
  \A n \in DOMAIN v.values : n \notin changed => n \in DOMAIN w.values /\ w.values[n] = v.values[n]

\* An operator run on both stores: on one under its own name for its inputs, or
\* with the same arguments.
LEMMA OperatorKeepsAgree ==
  ASSUME NEW v, NEW d, NEW watched, Agree(v, d, watched),
         NEW node, NEW twin, twin.id = node.id, twin.out = node.out,
         Args(v, twin) = Args(d, node), \A n \in Range(twin.in) : Has(v, n),
         Range(node.out) \cap Constants = {}, RunOperator(d, node).ok
  PROVE  Agree(RunOperator(v, twin), RunOperator(d, node), watched)
  <1> DEFINE w == RunOperator(v, twin)
             e == RunOperator(d, node)
  <1>1. v.ok /\ d.ok
    BY DEF Agree
  <1>2. w.ok
    BY <1>1, OperatorIs
  <1>3. Ran(v, twin, w) /\ Ran(d, node, e)
    BY <1>2, OperatorIs
  <1>4. \A n \in Range(node.out) : Made(v, twin, n) = Made(d, node, n)
    BY SameMade
  <1> HIDE DEF w, e
  <1>5. QED
    BY <1>3, <1>4 DEF Agree, Ran, w, e

-----------------------------------------------------------------------------
(***************************************************************************)
(* Composites                                                              *)
(***************************************************************************)

LEMMA RenamedIs ==
  ASSUME NEW node, NEW ns, IsList(ns)
  PROVE  /\ IsList(Renamed(node, ns)) /\ Len(Renamed(node, ns)) = Len(ns)
         /\ \A i \in 1 .. Len(ns) : Renamed(node, ns)[i] = Outer(node, ns[i])
         /\ \A m \in Range(Renamed(node, ns)) : \E n \in Range(ns) : m = Outer(node, n)
         /\ \A n \in Range(ns) : Outer(node, n) \in Range(Renamed(node, ns))
  <1> DEFINE r == Renamed(node, ns)
  <1>1. /\ Len(ns) \in Nat /\ \A i \in 1 .. Len(ns) : ns[i] \in Range(ns)
        /\ \A n \in Range(ns) : \E i \in 1 .. Len(ns) : ns[i] = n
    BY ListIs
  <1>2. r = [i \in 1 .. Len(ns) |-> Outer(node, ns[i])]
    BY DEF Renamed
  <1> HIDE DEF r
  <1>3. DOMAIN r = 1 .. Len(ns) /\ \A i \in 1 .. Len(ns) : r[i] = Outer(node, ns[i])
    BY <1>2
  <1>4. \A i \in 1 .. Len(ns) : r[i] \in Range(r)
    BY <1>3 DEF Range
  <1>5. \A m \in Range(r) : \E i \in 1 .. Len(ns) : m = r[i]
    BY <1>3 DEF Range
  <1>6. r \in Seq(Range(r)) /\ Len(r) = Len(ns)
    <2>1. r \in [1 .. Len(ns) -> Range(r)]
      BY <1>2, <1>3, <1>4
    <2>2. QED
      BY <1>1, <2>1
  <1>7. QED
    BY <1>1, <1>3, <1>4, <1>5, <1>6 DEF IsList, r

\* The k-th node of a composite, under the parent's names.
Twin(node, op) ==
  [kind |-> "operator", id |-> op.id, gathers |-> op.gathers,
   in |-> Renamed(node, op.in), out |-> Renamed(node, op.out)]

LEMMA InlinedIs ==
  ASSUME NEW node, IsComposite(node)
  PROVE  /\ Len(node.nodes) \in Nat
         /\ Inlined(node) = [i \in 1 .. Len(node.nodes) |-> Twin(node, node.nodes[i])]
         /\ \A i \in 1 .. Len(node.nodes) :
              IsOperator(node.nodes[i]) /\ Range(node.nodes[i].out) \subseteq Written(node)
  <1>1. Len(node.nodes) \in Nat /\ \A i \in 1 .. Len(node.nodes) : IsOperator(node.nodes[i])
    BY ListIs DEF IsComposite
  <1>2. node.kind = "composite"
    BY DEF IsComposite
  <1>3. Inlined(node) = [i \in 1 .. Len(node.nodes) |->
          [node.nodes[i] EXCEPT !.in = Renamed(node, @), !.out = Renamed(node, @)]]
    BY <1>2, Zenon DEF Inlined
  <1>4. ASSUME NEW i \in 1 .. Len(node.nodes)
        PROVE  [node.nodes[i] EXCEPT !.in = Renamed(node, @), !.out = Renamed(node, @)]
                 = Twin(node, node.nodes[i])
    <2> DEFINE op == node.nodes[i]
    <2>1. op = [kind |-> op.kind, id |-> op.id, gathers |-> op.gathers, in |-> op.in, out |-> op.out]
          /\ op.kind = "operator"
      BY <1>1 DEF IsOperator
    <2> HIDE DEF op
    <2> DEFINE fields == {"kind", "id", "gathers", "in", "out"}
               x == Renamed(node, op.in)
               y == Renamed(node, op.out)
               r == [op EXCEPT !.in = x, !.out = y]
    <2>2. DOMAIN op = fields
      BY <2>1
    <2>3. r = [f \in fields |-> r[f]]
      BY <2>2
    <2>4. r.kind = op.kind /\ r.id = op.id /\ r.gathers = op.gathers /\ r.in = x /\ r.out = y
      <3> HIDE DEF x, y
      <3>1. QED
        BY <2>2
    <2> HIDE DEF r, x, y
    <2>5. r = [kind |-> r.kind, id |-> r.id, gathers |-> r.gathers, in |-> r.in, out |-> r.out]
      BY <2>3
    <2>6. r = Twin(node, op)
      BY <2>1, <2>4, <2>5 DEF Twin, x, y
    <2>7. QED
      BY <2>6 DEF op, r, x, y
  <1>5. \A i \in 1 .. Len(node.nodes) : Range(node.nodes[i].out) \subseteq Written(node)
    BY DEF Written
  <1>6. QED
    BY <1>1, <1>3, <1>4, <1>5

\* The scope inside begins with the inputs, each under the name bound to it.
LEMMA EnteredIs ==
  ASSUME NEW node, NEW visible, IsComposite(node), Separated(node, visible), NEW s
  PROVE  /\ Entered(s, node).ok = TRUE
         /\ \A n \in Range(node.in) : Inward(node, n) \in DOMAIN Entered(s, node).values
         /\ \A r \in DOMAIN Entered(s, node).values :
              /\ r \in Within(node) /\ Outer(node, r) \in Range(node.in)
              /\ Entered(s, node).values[r] = Get(s, Outer(node, r))
  <1> DEFINE ns == node.in
             is(r) == {i \in 1 .. Len(ns) : Inward(node, ns[i]) = r}
             values == [r \in {Inward(node, n) : n \in Range(ns)} |-> Get(s, ns[Max(is(r))])]
  <1>1. Entered(s, node).ok = TRUE /\ Entered(s, node).values = values
    BY DEF Entered, Scope
  <1>2. /\ Len(ns) \in Nat /\ \A i \in 1 .. Len(ns) : ns[i] \in Range(ns)
        /\ \A n \in Range(ns) : \E i \in 1 .. Len(ns) : ns[i] = n
    <2>1. IsList(ns)
      BY DEF IsComposite
    <2>2. QED
      BY <2>1, ListIs
  <1>3. ASSUME NEW n \in Range(ns)
        PROVE  ns[Max(is(Inward(node, n)))] = n
    <2> DEFINE S == is(Inward(node, n))
    <2>1. S # {} /\ S \subseteq 1 .. Len(ns)
      BY <1>2
    <2>2. Max(S) \in S
      <3> HIDE DEF S
      <3>1. QED
        BY <1>2, <2>1, MaxIsIn
    <2>3. Inward(node, ns[Max(S)]) = Inward(node, n) /\ ns[Max(S)] \in Range(ns)
      BY <1>2, <2>2
    <2>4. \A x \in Range(ns) : Outer(node, Inward(node, x)) = x
      BY DEF Separated
    <2> HIDE DEF S
    <2>5. ns[Max(S)] = n
      BY <2>3, <2>4
    <2>6. QED
      BY <2>5 DEF S
  <1>4. DOMAIN values = {Inward(node, n) : n \in Range(ns)}
    OBVIOUS
  <1>5. ASSUME NEW n \in Range(ns) PROVE values[Inward(node, n)] = Get(s, n)
    <2>1. values[Inward(node, n)] = Get(s, ns[Max(is(Inward(node, n)))])
      OBVIOUS
    <2>2. QED
      BY <1>3, <2>1
  <1> HIDE DEF values, ns
  <1>6. \A n \in Range(ns) : Inward(node, n) \in Within(node) /\ Outer(node, Inward(node, n)) = n
    BY DEF Separated, ns
  <1>7. QED
    BY <1>1, <1>4, <1>5, <1>6 DEF ns

\* Store w of the parent, which was v before the composite, holds what scope e
\* inside of it does, and has kept what no node inside writes.
AgreeInside(node, v, w, e) ==
  /\ w.ok /\ e.ok
  /\ DOMAIN w.values \cap Constants = {}
  /\ DOMAIN e.values \subseteq Within(node) \cup Written(node)
  /\ Within(node) \cap Constants \subseteq DOMAIN e.values
  /\ \A r \in DOMAIN e.values : Has(w, Outer(node, r)) /\ Get(w, Outer(node, r)) = e.values[r]
  /\ Keeps(v, w, {Outer(node, x) : x \in Written(node)})

LEMMA InsideStarts ==
  ASSUME NEW node, NEW visible, IsComposite(node), Separated(node, visible),
         NEW v, NEW d, NEW watched, Agree(v, d, watched),
         Range(node.in) \subseteq watched, \A n \in Range(node.in) : Has(d, n)
  PROVE  AgreeInside(node, v, v, Entered(d, node))
  <1> DEFINE e == Entered(d, node)
  <1>1. /\ e.ok = TRUE
        /\ \A n \in Range(node.in) : Inward(node, n) \in DOMAIN e.values
        /\ \A r \in DOMAIN e.values :
             /\ r \in Within(node) /\ Outer(node, r) \in Range(node.in)
             /\ e.values[r] = Get(d, Outer(node, r))
    BY EnteredIs
  <1> HIDE DEF e
  <1>2. \A n \in Range(node.in) : Has(v, n) /\ Get(v, n) = Get(d, n)
    BY AgreeReads
  <1>3. Within(node) \cap Constants \subseteq DOMAIN e.values
    <2>1. SUFFICES ASSUME NEW k \in Within(node), k \in Constants PROVE k \in DOMAIN e.values
      OBVIOUS
    <2>2. PICK b \in Bound(node) : k = b[2]
      BY DEF Within
    <2>3. ASSUME NEW n \in Range(node.out), b = <<n, Outward(node, n)>> PROVE FALSE
      BY <2>1, <2>2, <2>3 DEF Separated
    <2>4. PICK n \in Range(node.in) : b = <<n, Inward(node, n)>>
      BY <2>3 DEF Bound
    <2>5. QED
      BY <1>1, <2>2, <2>4
  <1>4. v.ok /\ DOMAIN v.values \cap Constants = {}
    BY DEF Agree
  <1>5. Keeps(v, v, {Outer(node, x) : x \in Written(node)})
    BY DEF Keeps
  <1>6. QED
    BY <1>1, <1>2, <1>3, <1>4, <1>5 DEF AgreeInside, e

\* What a node inside reads, its twin reads too.
LEMMA InsideReads ==
  ASSUME NEW node, NEW visible, Separated(node, visible),
         NEW v, NEW w, NEW e, AgreeInside(node, v, w, e), NEW n, Has(e, n)
  PROVE  Has(w, Outer(node, n)) /\ Get(w, Outer(node, n)) = Get(e, n)
  <1>1. CASE n \in DOMAIN e.values
    BY <1>1 DEF AgreeInside, Get
  <1>2. CASE n \notin DOMAIN e.values
    <2>1. n \in Constants /\ n \notin Within(node)
      BY <1>2 DEF Has, AgreeInside
    <2>2. Outer(node, n) = n
      BY <2>1 DEF Separated
    <2>3. n \notin DOMAIN w.values
      BY <2>1 DEF AgreeInside
    <2>4. QED
      BY <1>2, <2>1, <2>2, <2>3 DEF Has, Get
  <1>3. QED
    BY <1>1, <1>2

LEMMA InsideStep ==
  ASSUME NEW node, NEW visible, Separated(node, visible), Range(node.out) \cap Constants = {},
         NEW v, NEW w, NEW e, AgreeInside(node, v, w, e),
         NEW op, IsOperator(op), Range(op.out) \subseteq Written(node), RunOperator(e, op).ok
  PROVE  AgreeInside(node, v, RunOperator(w, Twin(node, op)), RunOperator(e, op))
  <1> DEFINE twin == Twin(node, op)
             w1 == RunOperator(w, twin)
             e1 == RunOperator(e, op)
             changed == {Outer(node, x) : x \in Written(node)}
  <1>1. /\ twin.id = op.id /\ twin.gathers = op.gathers
        /\ twin.in = Renamed(node, op.in) /\ twin.out = Renamed(node, op.out)
    BY DEF Twin
  <1>2. IsList(op.in) /\ IsList(op.out)
    BY DEF IsOperator
  <1>3. /\ Len(twin.in) = Len(op.in)
        /\ \A i \in 1 .. Len(op.in) : twin.in[i] = Outer(node, op.in[i]) /\ op.in[i] \in Range(op.in)
        /\ \A m \in Range(twin.in) : \E n \in Range(op.in) : m = Outer(node, n)
    BY <1>1, <1>2, RenamedIs, ListIs
  <1>4. /\ Len(twin.out) = Len(op.out)
        /\ \A i \in 1 .. Len(op.out) : twin.out[i] = Outer(node, op.out[i]) /\ op.out[i] \in Range(op.out)
        /\ \A m \in Range(twin.out) : \E n \in Range(op.out) : m = Outer(node, n)
        /\ \A n \in Range(op.out) : Outer(node, n) \in Range(twin.out)
    BY <1>1, <1>2, RenamedIs, ListIs
  <1> HIDE DEF twin
  <1>5. Ran(e, op, e1) /\ e.ok /\ \A n \in Range(op.in) : Has(e, n)
    BY OperatorIs
  <1>6. Args(w, twin) = Args(e, op)
    <2>1. \A i \in 1 .. Len(op.in) : Get(w, twin.in[i]) = Get(e, op.in[i])
      BY <1>3, <1>5, InsideReads
    <2>2. QED
      BY <1>1, <1>3, <2>1, SameArgs
  <1>7. Ran(w, twin, w1)
    <2>1. \A m \in Range(twin.in) : Has(w, m)
      BY <1>3, <1>5, InsideReads
    <2>2. w.ok
      BY DEF AgreeInside
    <2>3. QED
      BY <2>1, <2>2, OperatorIs
  <1> HIDE DEF w1, e1
  <1>8. \A r \in Within(node) \cup Written(node), x \in Range(op.out) :
           Outer(node, r) = Outer(node, x) => r = x
    BY DEF Separated
  <1>9. ASSUME NEW n \in Range(op.out)
        PROVE  Outer(node, n) \in DOMAIN w1.values /\ w1.values[Outer(node, n)] = e1.values[n]
    <2>1. \A j \in 1 .. Len(op.out) : twin.out[j] = Outer(node, n) <=> op.out[j] = n
      <3>1. TAKE j \in 1 .. Len(op.out)
      <3>2. op.out[j] \in Written(node) /\ twin.out[j] = Outer(node, op.out[j])
        BY <1>4
      <3>3. QED
        BY <1>8, <3>2
    <2>2. Made(w, twin, Outer(node, n)) = Made(e, op, n)
      BY <1>1, <1>4, <1>6, <2>1, SameMade
    <2>3. Outer(node, n) \in Range(twin.out)
      BY <1>4
    <2>4. QED
      BY <1>5, <1>7, <2>2, <2>3 DEF Ran
  <1>10. Range(twin.out) \subseteq changed
    BY <1>4
  <1>11. changed \cap Constants = {}
    BY DEF Separated
  <1>12. w1.ok /\ e1.ok /\ DOMAIN w1.values \cap Constants = {}
    BY <1>5, <1>7, <1>10, <1>11 DEF Ran, AgreeInside
  <1>13. /\ DOMAIN e1.values \subseteq Within(node) \cup Written(node)
         /\ Within(node) \cap Constants \subseteq DOMAIN e1.values
    BY <1>5 DEF Ran, AgreeInside
  <1>14. ASSUME NEW r \in DOMAIN e1.values
         PROVE  Has(w1, Outer(node, r)) /\ Get(w1, Outer(node, r)) = e1.values[r]
    <2>1. CASE r \in Range(op.out)
      BY <1>9, <2>1 DEF Has, Get
    <2>2. CASE r \notin Range(op.out)
      <3>1. r \in DOMAIN e.values /\ e1.values[r] = e.values[r]
        BY <1>5, <2>2 DEF Ran
      <3>2. Has(w, Outer(node, r)) /\ Get(w, Outer(node, r)) = e.values[r]
        BY <3>1 DEF AgreeInside
      <3>3. Outer(node, r) \notin Range(twin.out)
        <4>1. r \in Within(node) \cup Written(node)
          BY <3>1 DEF AgreeInside
        <4>2. QED
          BY <1>4, <1>8, <2>2, <4>1
      <3>4. QED
        BY <1>7, <3>1, <3>2, <3>3 DEF Ran, Has, Get
    <2>3. QED
      BY <2>1, <2>2
  <1>15. Keeps(v, w1, changed)
    <2>1. SUFFICES ASSUME NEW n \in DOMAIN v.values, n \notin changed
                   PROVE  n \in DOMAIN w1.values /\ w1.values[n] = v.values[n]
      BY DEF Keeps
    <2>2. n \in DOMAIN w.values /\ w.values[n] = v.values[n]
      BY <2>1 DEF AgreeInside, Keeps
    <2> HIDE DEF changed
    <2>3. QED
      BY <1>7, <1>10, <2>1, <2>2 DEF Ran
  <1>16. QED
    BY <1>12, <1>13, <1>14, <1>15 DEF AgreeInside, w1, e1, twin

\* A composite fails where an input is missing, a node inside does or an output
\* is not there; its outputs are those of the scope inside.
LEMMA CompositeIs ==
  ASSUME NEW d, NEW node, RunComposite(d, node).ok
  PROVE  LET e == Inside(d, node)[Len(node.nodes)]
             t == RunComposite(d, node)
         IN  /\ d.ok /\ (\A n \in Range(node.in) : Has(d, n))
             /\ e.ok /\ (\A n \in Range(node.out) : Has(e, Outward(node, n)))
             /\ t.ok = TRUE
             /\ DOMAIN t.values = Range(node.out) \cup DOMAIN d.values
             /\ \A n \in Range(node.out) : t.values[n] = Get(e, Outward(node, n))
             /\ \A n \in DOMAIN d.values \ Range(node.out) : t.values[n] = d.values[n]
  <1> DEFINE e == Inside(d, node)[Len(node.nodes)]
             t == RunComposite(d, node)
             new == [n \in Range(node.out) |-> Get(e, Outward(node, n))]
             fits == /\ d.ok /\ \A n \in Range(node.in) : Has(d, n)
                     /\ e.ok /\ \A n \in Range(node.out) : Has(e, Outward(node, n))
  <1>1. t = IF fits THEN Scope(Stored(new, d.values)) ELSE Broken
    BY Zenon DEF RunComposite
  <1> HIDE DEF t
  <1>2. fits
    <2>1. t.ok
      BY DEF t
    <2> HIDE DEF fits
    <2>2. QED
      BY <1>1, <2>1 DEF Broken
  <1>3. t = Scope(Stored(new, d.values))
    BY <1>1, <1>2
  <1>4. t.ok = TRUE /\ t.values = Stored(new, d.values)
    BY <1>3 DEF Scope
  <1>5. DOMAIN new = Range(node.out) /\ \A n \in Range(node.out) : new[n] = Get(e, Outward(node, n))
    OBVIOUS
  <1> HIDE DEF new, e
  <1>6. /\ DOMAIN t.values = Range(node.out) \cup DOMAIN d.values
        /\ \A n \in Range(node.out) : t.values[n] = Get(e, Outward(node, n))
        /\ \A n \in DOMAIN d.values \ Range(node.out) : t.values[n] = d.values[n]
    BY <1>4, <1>5 DEF Stored
  <1>7. QED
    BY <1>2, <1>4, <1>6 DEF e, t

\* Where the last store of a composite's scope is whole, all before it were.
LEMMA InsideOk ==
  ASSUME NEW d, NEW node, Len(node.nodes) \in Nat, Inside(d, node)[Len(node.nodes)].ok,
         NEW k \in 0 .. Len(node.nodes)
  PROVE  Inside(d, node)[k].ok
  <1> DEFINE e == Inside(d, node)
             N == Len(node.nodes)
             S == {m \in 0 .. N : k <= m => ~ e[m].ok}
  <1>1. SUFFICES ASSUME ~ e[k].ok PROVE FALSE
    OBVIOUS
  <1>2. e[0].ok /\ \A m \in 1 .. N : e[m] = RunOperator(e[m - 1], node.nodes[m])
    <2>1. e[0] = Entered(d, node)
      BY InsideRuns
    <2>2. Entered(d, node).ok
      BY DEF Entered, Scope
    <2>3. QED
      BY <2>1, <2>2, InsideRuns
  <1> HIDE DEF e
  <1>3. k # 0
    BY <1>1, <1>2
  <1>4. 0 \in S
    BY <1>3
  <1>5. ASSUME NEW m \in 1 .. N, m - 1 \in S PROVE m \in S
    <2>1. CASE m = k
      BY <1>1, <2>1
    <2>2. CASE m # k /\ k <= m
      <3>1. ~ e[m - 1].ok
        BY <1>5, <2>2
      <3>2. ~ e[m].ok
        BY <1>2, <3>1, OperatorIs
      <3>3. QED
        BY <3>2
    <2>3. QED
      BY <2>1, <2>2
  <1> HIDE DEF S
  <1>6. 0 .. N \subseteq S
    BY <1>4, <1>5, LoopInvariant
  <1>7. QED
    BY <1>6 DEF S, e

\* A composite in a scope of its own, and its nodes inlined: w[k] is the parent's
\* store after the first k of them.
LEMMA CompositeKeepsAgree ==
  ASSUME NEW node, NEW visible, IsComposite(node), Separated(node, visible),
         Range(node.out) \cap Constants = {},
         NEW watched, watched \subseteq visible, Range(node.in) \subseteq watched,
         NEW v, NEW d, Agree(v, d, watched), RunComposite(d, node).ok,
         NEW w, w[0] = v,
         \A k \in 1 .. Len(node.nodes) : w[k] = RunNode(w[k - 1], Inlined(node)[k])
  PROVE  /\ Agree(w[Len(node.nodes)], RunComposite(d, node), watched)
         /\ Keeps(v, w[Len(node.nodes)], Range(node.out) \cup Written(node))
  <1> DEFINE e == Inside(d, node)
             N == Len(node.nodes)
             t == RunComposite(d, node)
             changed == {Outer(node, x) : x \in Written(node)}
  <1>1. /\ d.ok /\ (\A n \in Range(node.in) : Has(d, n))
        /\ e[N].ok /\ (\A n \in Range(node.out) : Has(e[N], Outward(node, n)))
        /\ t.ok = TRUE
        /\ DOMAIN t.values = Range(node.out) \cup DOMAIN d.values
        /\ \A n \in Range(node.out) : t.values[n] = Get(e[N], Outward(node, n))
        /\ \A n \in DOMAIN d.values \ Range(node.out) : t.values[n] = d.values[n]
    BY CompositeIs
  <1>2. /\ N \in Nat
        /\ Inlined(node) = [i \in 1 .. N |-> Twin(node, node.nodes[i])]
        /\ \A i \in 1 .. N : IsOperator(node.nodes[i]) /\ Range(node.nodes[i].out) \subseteq Written(node)
    BY InlinedIs
  <1>3. /\ e[0] = Entered(d, node)
        /\ \A k \in 1 .. N : e[k] = RunOperator(e[k - 1], node.nodes[k])
    BY <1>2, InsideRuns
  <1>4. \A k \in 0 .. N : e[k].ok
    BY <1>1, <1>2, InsideOk
  <1> HIDE DEF t, e, N
  <1> DEFINE S == {k \in 0 .. N : AgreeInside(node, v, w[k], e[k])}
  <1>5. 0 \in S
    <2>1. AgreeInside(node, v, v, Entered(d, node))
      BY <1>1, InsideStarts
    <2>2. QED
      BY <1>2, <1>3, <2>1
  <1>6. ASSUME NEW k \in 1 .. N, k - 1 \in S PROVE k \in S
    <2>1. w[k] = RunOperator(w[k - 1], Twin(node, node.nodes[k]))
      <3>1. Inlined(node)[k] = Twin(node, node.nodes[k])
        BY <1>2
      <3>2. Twin(node, node.nodes[k]).kind = "operator"
        BY DEF Twin
      <3>3. w[k] = RunNode(w[k - 1], Twin(node, node.nodes[k]))
        BY <3>1 DEF N
      <3>4. QED
        BY <3>2, <3>3 DEF RunNode
    <2>2. e[k] = RunOperator(e[k - 1], node.nodes[k]) /\ e[k].ok
      BY <1>3, <1>4
    <2>3. AgreeInside(node, v, w[k - 1], e[k - 1])
      BY <1>6
    <2>4. AgreeInside(node, v, w[k], e[k])
      BY <1>2, <2>1, <2>2, <2>3, InsideStep
    <2>5. QED
      BY <2>4
  <1> HIDE DEF S
  <1>7. 0 .. N \subseteq S
    BY <1>2, <1>5, <1>6, LoopInvariant
  <1>8. AgreeInside(node, v, w[N], e[N])
    BY <1>2, <1>7 DEF S
  <1>9. /\ w[N].ok /\ DOMAIN w[N].values \cap Constants = {}
        /\ \A r \in DOMAIN e[N].values : Has(w[N], Outer(node, r)) /\ Get(w[N], Outer(node, r)) = e[N].values[r]
        /\ Keeps(v, w[N], changed)
    BY <1>8 DEF AgreeInside
  <1>10. /\ changed \cap watched \subseteq Range(node.out)
         /\ changed \subseteq Range(node.out) \cup Written(node)
    BY DEF Separated
  <1> HIDE DEF changed
  <1>11. ASSUME NEW n \in Range(node.out)
         PROVE  n \in DOMAIN w[N].values /\ w[N].values[n] = t.values[n]
    <2> DEFINE r == Outward(node, n)
    <2>1. r \notin Constants /\ Outer(node, r) = n
      BY DEF Separated
    <2> HIDE DEF r
    <2>2. r \in DOMAIN e[N].values /\ t.values[n] = e[N].values[r]
      BY <1>1, <2>1 DEF Has, Get, r
    <2>3. Has(w[N], n) /\ Get(w[N], n) = e[N].values[r]
      BY <1>9, <2>1, <2>2
    <2>4. QED
      BY <2>2, <2>3 DEF Has, Get
  <1>12. ASSUME NEW n \in watched, n \in DOMAIN d.values, n \notin Range(node.out)
         PROVE  n \in DOMAIN w[N].values /\ w[N].values[n] = t.values[n]
    <2>1. n \in DOMAIN v.values /\ v.values[n] = d.values[n]
      BY <1>12 DEF Agree
    <2>2. n \notin changed
      BY <1>10, <1>12
    <2>3. n \in DOMAIN w[N].values /\ w[N].values[n] = v.values[n]
      BY <1>9, <2>1, <2>2 DEF Keeps
    <2>4. QED
      BY <1>1, <1>12, <2>1, <2>3
  <1>13. Agree(w[N], t, watched)
    BY <1>1, <1>9, <1>11, <1>12 DEF Agree
  <1>14. Keeps(v, w[N], Range(node.out) \cup Written(node))
    BY <1>9, <1>10 DEF Keeps
  <1>15. QED
    BY <1>13, <1>14 DEF t, N

-----------------------------------------------------------------------------
(***************************************************************************)
(* The nodes of a model                                                    *)
(***************************************************************************)

\* What the schema makes of feature i, and the tensor of them all.
Screen(g, i) == <<"screened", Raw(g)[g.features[i].source][g.features[i].col]>>
Wide(g) == [i \in 1 .. Len(g.features) |-> Screen(g, i)]

\* The names that both stores hold: features of a batch have none in the
\* compiled graph's.
Watched(g) ==
  IF BatchMode(g.features) THEN Visible(g) \ Range(FeatureNames(g.features)) ELSE Visible(g)

\* The compiled graph has a batch in one tensor, the declared one has its columns
\* under the features' names.
Batched(g, v, d) ==
  /\ BatchKey \in DOMAIN v.values /\ v.values[BatchKey] = Wide(g)
  /\ \A i \in 1 .. Len(g.features) :
       LET n == FeatureNames(g.features)[i]
       IN  n \in DOMAIN d.values /\ d.values[n] = <<Screen(g, i)>>

Related(g, v, d) ==
  Agree(v, d, Watched(g)) /\ (BatchMode(g.features) => Batched(g, v, d))

\* What is known of a model that leaves nothing to clash.
Sound(g) == g \in Graphs /\ Hygienic(g) /\ WholeBatch(g)

LEMMA SoundNode ==
  ASSUME NEW g, Sound(g), NEW i \in 1 .. Len(g.nodes)
  PROVE  /\ IsOperator(g.nodes[i]) \/ IsComposite(g.nodes[i])
         /\ Range(g.nodes[i].in) \cup Range(g.nodes[i].out) \subseteq Visible(g)
         /\ Range(g.nodes[i].out) \cap Constants = {}
         /\ IsComposite(g.nodes[i]) => Separated(g.nodes[i], Visible(g))
  <1> DEFINE node == g.nodes[i]
  <1>1. IsOperator(node) \/ IsComposite(node)
    BY GraphAssumption DEF Sound
  <1>2. Range(node.in) \cup Range(node.out) \subseteq Visible(g)
    BY DEF Visible
  <1>3. Range(node.out) \cap Constants = {}
    BY DEF Sound, Hygienic
  <1>4. ASSUME IsComposite(node) PROVE Separated(node, Visible(g))
    <2>1. Inlinable(node, Visible(g))
      <3>1. node.kind = "composite"
        BY <1>4 DEF IsComposite
      <3> HIDE DEF node
      <3>2. QED
        BY <3>1 DEF Sound, Hygienic, node
    <2> HIDE DEF node
    <2>2. QED
      BY <1>2, <1>4, <2>1, InlinedNames
  <1>5. QED
    BY <1>1, <1>2, <1>3, <1>4

\* A batch has a feature, and its names are a list.
LEMMA NamesAre ==
  ASSUME NEW g \in Graphs
  PROVE  LET fs == g.features IN
         /\ Len(fs) \in Nat /\ DOMAIN FeatureNames(fs) = 1 .. Len(fs)
         /\ Len(FeatureNames(fs)) = Len(fs)
         /\ \A i \in 1 .. Len(fs) :
              /\ FeatureNames(fs)[i] = fs[i].name
              /\ FeatureNames(fs)[i] \in Range(FeatureNames(fs))
         /\ \A n \in Range(FeatureNames(fs)) : \E i \in 1 .. Len(fs) : n = FeatureNames(fs)[i]
         /\ BatchMode(fs) => Len(fs) # 0 /\ fs # << >>
  <1> DEFINE fs == g.features
             ns == FeatureNames(fs)
  <1>1. IsList(fs)
    BY GraphAssumption
  <1>2. Len(fs) \in Nat /\ fs \in Seq(Range(fs))
    BY <1>1, ListIs DEF IsList
  <1>3. ns = [i \in 1 .. Len(fs) |-> fs[i].name]
    BY DEF FeatureNames
  <1>4. ASSUME BatchMode(fs) PROVE Len(fs) # 0 /\ fs # << >>
    <2>1. fs # << >>
      BY <1>4 DEF BatchMode
    <2> HIDE DEF fs
    <2>2. QED
      BY <1>2, <2>1, EmptySeq
  <1> HIDE DEF fs, ns
  <1>5. /\ DOMAIN ns = 1 .. Len(fs) /\ Len(ns) = Len(fs)
        /\ \A i \in 1 .. Len(fs) : ns[i] = fs[i].name /\ ns[i] \in Range(ns)
        /\ \A n \in Range(ns) : \E i \in 1 .. Len(fs) : n = ns[i]
    BY <1>2, <1>3 DEF Range
  <1>6. QED
    BY <1>2, <1>4, <1>5 DEF fs, ns

\* A node that reads no feature of a batch stays as it is and reads what the
\* declared one does; another reads the whole batch.
LEMMA Readers ==
  ASSUME NEW g, Sound(g), NEW i \in 1 .. Len(g.nodes)
  PROVE  LET fs == g.features
             node == g.nodes[i]
         IN  \/ Rewired(fs, node) = node /\ Range(node.in) \subseteq Watched(g)
             \/ /\ BatchMode(fs) /\ node.kind = "operator"
                /\ node.in = FeatureNames(fs) /\ (node.gathers \/ Len(fs) = 1)
                /\ Rewired(fs, node) = [node EXCEPT !.in = <<BatchKey>>]
  <1> DEFINE fs == g.features
             node == g.nodes[i]
             ns == FeatureNames(fs)
  <1>1. Range(node.in) \subseteq Visible(g)
    BY SoundNode
  <1>2. IsInjective(ns)
    BY DEF Sound, WholeBatch
  <1>3. CASE ~ BatchMode(fs)
    BY <1>1, <1>3 DEF Rewired, Watched
  <1>4. CASE BatchMode(fs)
    <2>1. \/ Range(node.in) \cap Range(ns) = {}
          \/ node.kind = "operator" /\ node.in = ns /\ (node.gathers \/ Len(fs) = 1)
      BY <1>4 DEF Sound, WholeBatch
    <2>2. CASE node.in = ns /\ node.kind = "operator" /\ (node.gathers \/ Len(fs) = 1)
      BY <1>2, <1>4, <2>2 DEF Rewired
    <2>3. CASE Range(node.in) \cap Range(ns) = {}
      <3>1. node.in # ns
        <4>1. ns[1] \in Range(ns)
          <5>1. g \in Graphs
            BY DEF Sound
          <5>2. Len(fs) \in Nat /\ Len(fs) # 0 /\ \A k \in 1 .. Len(fs) : ns[k] \in Range(ns)
            BY <1>4, <5>1, NamesAre
          <5>3. QED
            BY <5>2
        <4>2. QED
          BY <2>3, <4>1
      <3>2. QED
        BY <1>1, <1>4, <2>3, <3>1 DEF Rewired, Watched
    <2>4. QED
      BY <2>1, <2>2, <2>3
  <1>5. QED
    BY <1>3, <1>4

\* A batch lies where it was after nodes that leave its names alone.
LEMMA BatchedStays ==
  ASSUME NEW g, NEW v, NEW d, Batched(g, v, d), NEW w, NEW e, NEW changed,
         Keeps(v, w, changed), BatchKey \notin changed,
         NEW out, Keeps(d, e, out), out \cap Range(FeatureNames(g.features)) = {}, g \in Graphs
  PROVE  Batched(g, w, e)
  <1> DEFINE fs == g.features
             ns == FeatureNames(fs)
  <1>1. \A i \in 1 .. Len(fs) : ns[i] \in Range(ns)
    BY NamesAre
  <1>2. BatchKey \in DOMAIN w.values /\ w.values[BatchKey] = Wide(g)
    BY DEF Batched, Keeps
  <1> HIDE DEF ns
  <1>3. ASSUME NEW i \in 1 .. Len(fs)
        PROVE  ns[i] \in DOMAIN e.values /\ e.values[ns[i]] = <<Screen(g, i)>>
    <2>1. ns[i] \in DOMAIN d.values /\ d.values[ns[i]] = <<Screen(g, i)>>
      BY DEF Batched, ns
    <2>2. ns[i] \notin out
      BY <1>1 DEF ns
    <2>3. QED
      BY <2>1, <2>2 DEF Keeps
  <1>4. QED
    BY <1>2, <1>3 DEF Batched, ns

\* An operator of the model, in either graph.
LEMMA OperatorKeepsRelated ==
  ASSUME NEW g, Sound(g), NEW i \in 1 .. Len(g.nodes), IsOperator(g.nodes[i]),
         NEW v, NEW d, Related(g, v, d), RunOperator(d, g.nodes[i]).ok
  PROVE  Related(g, RunOperator(v, Rewired(g.features, g.nodes[i])), RunOperator(d, g.nodes[i]))
  <1> DEFINE fs == g.features
             node == g.nodes[i]
             ns == FeatureNames(fs)
             twin == Rewired(fs, node)
             w == RunOperator(v, twin)
             e == RunOperator(d, node)
  <1>1. /\ node = [kind |-> node.kind, id |-> node.id, gathers |-> node.gathers,
                   in |-> node.in, out |-> node.out]
        /\ IsList(node.in) /\ Len(node.in) \in Nat
        /\ \A k \in 1 .. Len(node.in) : node.in[k] \in Range(node.in)
    BY ListIs DEF IsOperator
  <1>2. Agree(v, d, Watched(g)) /\ (BatchMode(fs) => Batched(g, v, d)) /\ v.ok
    BY DEF Related, Agree
  <1>3. Range(node.out) \cap Constants = {} /\ g \in Graphs
    BY SoundNode DEF Sound
  <1>4. Ran(d, node, e) /\ \A n \in Range(node.in) : Has(d, n)
    BY OperatorIs
  <1> HIDE DEF node
  <1>5. /\ twin.id = node.id /\ twin.out = node.out
        /\ Args(v, twin) = Args(d, node) /\ \A n \in Range(twin.in) : Has(v, n)
    <2>1. CASE twin = node /\ Range(node.in) \subseteq Watched(g)
      <3>1. \A n \in Range(node.in) : Has(v, n) /\ Get(v, n) = Get(d, n)
        BY <1>2, <1>4, <2>1, AgreeReads
      <3>2. Args(v, node) = Args(d, node)
        BY <1>1, <3>1, SameArgs
      <3>3. QED
        BY <2>1, <3>1, <3>2
    <2>2. CASE /\ BatchMode(fs)
               /\ node.in = ns /\ (node.gathers \/ Len(fs) = 1)
               /\ twin = [node EXCEPT !.in = <<BatchKey>>]
      <3>1. /\ twin.in = <<BatchKey>> /\ twin.id = node.id
            /\ twin.out = node.out /\ twin.gathers = node.gathers
        <4>1. DOMAIN node = {"kind", "id", "gathers", "in", "out"}
          BY <1>1
        <4>2. QED
          BY <2>2, <4>1
      <3>2. Get(v, BatchKey) = Wide(g) /\ Has(v, BatchKey)
        BY <1>2, <2>2 DEF Batched, Get, Has
      <3>3. Len(fs) \in Nat /\ Len(node.in) = Len(fs)
        BY <1>3, <2>2, NamesAre
      <3>4. \A k \in 1 .. Len(fs) : Get(d, node.in[k]) = <<Screen(g, k)>>
        BY <1>2, <2>2 DEF Batched, Get
      <3> DEFINE cs == [k \in 1 .. Len(fs) |-> Screen(g, k)]
                 tensors == [k \in 1 .. Len(fs) |-> <<cs[k]>>]
                 wides == [k \in 1 .. 1 |-> cs]
      <3>5. [k \in 1 .. Len(node.in) |-> Get(d, node.in[k])] = tensors
        BY <3>3, <3>4
      <3>6. [k \in 1 .. Len(twin.in) |-> Get(v, twin.in[k])] = wides
        <4>1. Len(twin.in) = 1 /\ twin.in[1] = BatchKey
          BY <3>1
        <4>2. \A k \in 1 .. 1 : k = 1
          OBVIOUS
        <4>3. Wide(g) = cs
          BY DEF Wide
        <4> HIDE DEF twin, cs
        <4>4. QED
          BY <3>2, <4>1, <4>2, <4>3
      <3>7. /\ Args(d, node) = IF node.gathers THEN <<FlattenSeq(tensors)>> ELSE tensors
            /\ Args(v, twin) = IF node.gathers THEN <<FlattenSeq(wides)>> ELSE wides
        <4> HIDE DEF tensors, wides, twin
        <4>1. QED
          BY <3>1, <3>5, <3>6 DEF Args
      <3>8. FlattenSeq(tensors) = cs
        <4>1. cs = [k \in 1 .. Len(fs) |-> cs[k]]
          OBVIOUS
        <4> HIDE DEF cs
        <4>2. QED
          BY <3>3, <4>1, FlattenSingles
      <3>9. FlattenSeq(wides) = cs
        <4>1. cs \in Seq({cs[k] : k \in 1 .. Len(fs)})
          BY <3>3
        <4> HIDE DEF cs
        <4>2. QED
          BY <4>1, FlattenOne
      <3>10. Len(fs) = 1 => tensors = wides
        <4>1. ASSUME Len(fs) = 1 PROVE tensors = wides
          <5>1. cs = <<cs[1]>>
            BY <4>1
          <5> HIDE DEF cs
          <5>2. \A k \in 1 .. 1 : k = 1
            OBVIOUS
          <5>3. QED
            BY <4>1, <5>1, <5>2
        <4>2. QED
          BY <4>1
      <3>11. \A n \in Range(twin.in) : n = BatchKey
        <4> HIDE DEF twin
        <4>1. QED
          BY <3>1 DEF Range
      <3> HIDE DEF tensors, wides, cs, twin
      <3>12. QED
        BY <2>2, <3>1, <3>2, <3>7, <3>8, <3>9, <3>10, <3>11
    <2>3. QED
      <3>1. \/ Rewired(fs, node) = node /\ Range(node.in) \subseteq Watched(g)
            \/ /\ BatchMode(fs) /\ node.kind = "operator"
               /\ node.in = FeatureNames(fs) /\ (node.gathers \/ Len(fs) = 1)
               /\ Rewired(fs, node) = [node EXCEPT !.in = <<BatchKey>>]
        BY Readers DEF node
      <3>2. QED
        BY <2>1, <2>2, <3>1
  <1>6. e.ok
    BY DEF node
  <1>7. Agree(w, e, Watched(g))
    <2> HIDE DEF twin
    <2>1. QED
      BY <1>2, <1>3, <1>5, <1>6, OperatorKeepsAgree
  <1>8. ASSUME BatchMode(fs) PROVE Batched(g, w, e)
    <2>1. Range(node.out) \cap ({BatchKey} \cup Range(ns)) = {}
      BY <1>8 DEF Sound, WholeBatch, node
    <2>2. Ran(v, twin, w)
      <3> HIDE DEF twin
      <3>1. QED
        BY <1>2, <1>5, OperatorIs
    <2> HIDE DEF twin, w, e, ns
    <2>3. Keeps(v, w, Range(node.out)) /\ Keeps(d, e, Range(node.out))
      BY <1>4, <1>5, <2>2 DEF Ran, Keeps
    <2>4. Batched(g, v, d)
      BY <1>2, <1>8
    <2>5. BatchKey \notin Range(node.out) /\ Range(node.out) \cap Range(ns) = {}
      BY <2>1
    <2>6. QED
      BY <1>3, <2>3, <2>4, <2>5, BatchedStays DEF ns
  <1>9. QED
    BY <1>7, <1>8 DEF Related, node

\* A composite of the model, and the nodes of it that are inlined.
LEMMA CompositeKeepsRelated ==
  ASSUME NEW g, Sound(g), NEW i \in 1 .. Len(g.nodes), IsComposite(g.nodes[i]),
         NEW v, NEW d, Related(g, v, d), RunComposite(d, g.nodes[i]).ok,
         NEW w, w[0] = v,
         \A k \in 1 .. Len(g.nodes[i].nodes) : w[k] = RunNode(w[k - 1], Inlined(g.nodes[i])[k])
  PROVE  Related(g, w[Len(g.nodes[i].nodes)], RunComposite(d, g.nodes[i]))
  <1> DEFINE fs == g.features
             node == g.nodes[i]
             ns == FeatureNames(fs)
             N == Len(node.nodes)
             e == RunComposite(d, node)
  <1>1. /\ Range(node.in) \cup Range(node.out) \subseteq Visible(g)
        /\ Range(node.out) \cap Constants = {} /\ Separated(node, Visible(g)) /\ g \in Graphs
    BY SoundNode DEF Sound
  <1>2. Range(node.in) \subseteq Watched(g)
    <2>1. node.kind # "operator"
      BY DEF IsComposite
    <2>2. QED
      BY <2>1, Readers
  <1>3. Watched(g) \subseteq Visible(g)
    BY DEF Watched
  <1>4. Agree(v, d, Watched(g)) /\ (BatchMode(fs) => Batched(g, v, d))
    BY DEF Related
  <1>5. /\ Agree(w[N], e, Watched(g))
        /\ Keeps(v, w[N], Range(node.out) \cup Written(node))
    <2> DEFINE visible == Visible(g)
               watched == Watched(g)
    <2>1. Separated(node, visible) /\ watched \subseteq visible /\ Range(node.in) \subseteq watched
      BY <1>1, <1>2, <1>3
    <2>2. Agree(v, d, watched)
      BY <1>4
    <2> HIDE DEF visible, watched, node
    <2>3. IsComposite(node) /\ RunComposite(d, node).ok
          /\ \A k \in 1 .. Len(node.nodes) : w[k] = RunNode(w[k - 1], Inlined(node)[k])
      BY DEF node
    <2>4. QED
      BY <1>1, <2>1, <2>2, <2>3, CompositeKeepsAgree DEF watched
  <1>6. Keeps(d, e, Range(node.out))
    <2> HIDE DEF node
    <2>1. e.ok
      BY DEF node
    <2>2. \A n \in DOMAIN d.values \ Range(node.out) : n \in DOMAIN e.values /\ e.values[n] = d.values[n]
      BY <2>1, CompositeIs
    <2>3. QED
      BY <2>2 DEF Keeps
  <1>7. ASSUME BatchMode(fs) PROVE Batched(g, w[N], e)
    <2>1. /\ Range(node.out) \cap ({BatchKey} \cup Range(ns)) = {}
          /\ BatchKey \notin Written(node)
      BY <1>7 DEF Sound, WholeBatch, IsComposite
    <2>2. Batched(g, v, d)
      BY <1>4, <1>7
    <2>3. BatchKey \notin Range(node.out) \cup Written(node) /\ Range(node.out) \cap Range(ns) = {}
      BY <2>1
    <2>4. QED
      BY <1>1, <1>5, <1>6, <2>2, <2>3, BatchedStays
  <1>8. QED
    BY <1>5, <1>7 DEF Related

-----------------------------------------------------------------------------
(***************************************************************************)
(* The schema                                                              *)
(***************************************************************************)

\* What a feature reads is a column of its input.
LEMMA FeatureIs ==
  ASSUME NEW g \in Graphs, NEW i \in 1 .. Len(g.features), NEW s,
         g.features[i].source \in DOMAIN s.values,
         s.values[g.features[i].source] = Raw(g)[g.features[i].source]
  PROVE  <<"screened", Column(s, g.features[i])>> = Screen(g, i)
  <1> DEFINE f == g.features[i]
             t == Raw(g)[f.source]
  <1>1. f.source \in DOMAIN g.inputs /\ f.col \in 1 .. g.inputs[f.source]
        /\ g.inputs[f.source] \in Nat
    BY GraphAssumption
  <1>2. t = [k \in 1 .. g.inputs[f.source] |-> <<"raw", f.source, k>>]
    BY <1>1 DEF Raw
  <1>3. Len(t) = g.inputs[f.source] /\ f.col <= Len(t)
    <2> HIDE DEF t, f
    <2>1. Len(t) = g.inputs[f.source]
      BY <1>1, <1>2
    <2>2. QED
      BY <1>1, <2>1
  <1>4. Get(s, f.source) = t
    BY DEF Get
  <1> HIDE DEF t
  <1>5. Column(s, f) = t[f.col]
    BY <1>3, <1>4 DEF Column
  <1>6. QED
    BY <1>5 DEF Screen, t

\* What the declared graph starts from.
LEMMA PresentedIs ==
  ASSUME NEW g, Sound(g)
  PROVE  LET ns == FeatureNames(g.features)
             p == Presented(g)
         IN  /\ DOMAIN p = Range(ns) \cup DOMAIN g.inputs
             /\ \A i \in 1 .. Len(g.features) : p[ns[i]] = <<Screen(g, i)>>
             /\ \A n \in DOMAIN g.inputs : n \notin Range(ns) => p[n] = Raw(g)[n]
  <1> DEFINE fs == g.features
             ns == FeatureNames(fs)
             p == Presented(g)
             place(n) == Max({j \in 1 .. Len(fs) : fs[j].name = n})
             new == [n \in Range(ns) |-> <<Screen(g, place(n))>>]
  <1>1. g \in Graphs /\ IsInjective(ns)
    BY DEF Sound, WholeBatch
  <1>2. /\ Len(fs) \in Nat /\ DOMAIN ns = 1 .. Len(fs)
        /\ \A i \in 1 .. Len(fs) : ns[i] = fs[i].name /\ ns[i] \in Range(ns)
        /\ \A n \in Range(ns) : \E i \in 1 .. Len(fs) : n = ns[i]
    BY <1>1, NamesAre
  <1>3. ASSUME NEW i \in 1 .. Len(fs) PROVE place(ns[i]) = i
    <2>1. {j \in 1 .. Len(fs) : fs[j].name = ns[i]} = {i}
      BY <1>1, <1>2 DEF IsInjective
    <2>2. Max({i}) \in {i}
      BY <1>2, MaxIsIn
    <2>3. QED
      BY <2>1, <2>2
  <1>4. p = Stored(new, Raw(g))
    BY DEF Presented, Screen
  <1>5. DOMAIN Raw(g) = DOMAIN g.inputs
    BY DEF Raw
  <1>6. DOMAIN new = Range(ns) /\ \A i \in 1 .. Len(fs) : new[ns[i]] = <<Screen(g, i)>>
    BY <1>2, <1>3
  <1> HIDE DEF new, p, ns, fs
  <1>7. /\ DOMAIN p = Range(ns) \cup DOMAIN g.inputs
        /\ \A i \in 1 .. Len(fs) : p[ns[i]] = <<Screen(g, i)>>
        /\ \A n \in DOMAIN g.inputs : n \notin Range(ns) => p[n] = Raw(g)[n]
    BY <1>2, <1>4, <1>5, <1>6 DEF Stored
  <1>8. QED
    BY <1>7 DEF p, ns, fs

\* Where features are screened one by one, each is under its name, and inputs no
\* feature is named after are as they were.
AllScreened(g, s) ==
  LET ns == FeatureNames(g.features)
  IN  /\ s.ok = TRUE
      /\ DOMAIN s.values = Range(ns) \cup DOMAIN g.inputs
      /\ \A i \in 1 .. Len(g.features) : s.values[ns[i]] = <<Screen(g, i)>>
      /\ \A n \in DOMAIN g.inputs : n \notin Range(ns) => s.values[n] = Raw(g)[n]

LEMMA ScreenedIs ==
  ASSUME NEW g, Sound(g), ~ BatchMode(g.features), NEW node, node.features = g.features
  PROVE  AllScreened(g, Screened(Scope(Raw(g)), node)[Len(g.features)])
  <1> DEFINE fs == g.features
             ns == FeatureNames(fs)
             r == Screened(Scope(Raw(g)), node)
             upto(k) == {ns[i] : i \in 1 .. k}
             Holds(k) ==
               /\ r[k].ok = TRUE
               /\ DOMAIN r[k].values = upto(k) \cup DOMAIN g.inputs
               /\ \A i \in 1 .. k : r[k].values[ns[i]] = <<Screen(g, i)>>
               /\ \A n \in DOMAIN g.inputs : n \notin upto(k) => r[k].values[n] = Raw(g)[n]
             S == {k \in 0 .. Len(fs) : Holds(k)}
  <1>1. g \in Graphs /\ IsInjective(ns) /\ \A i, j \in 1 .. Len(fs) : i < j => fs[j].source # fs[i].name
    BY DEF Sound, WholeBatch
  <1>2. /\ Len(fs) \in Nat /\ DOMAIN ns = 1 .. Len(fs)
        /\ \A i \in 1 .. Len(fs) : ns[i] = fs[i].name /\ ns[i] \in Range(ns)
        /\ \A n \in Range(ns) : \E i \in 1 .. Len(fs) : n = ns[i]
    BY <1>1, NamesAre
  <1>3. /\ r[0] = Scope(Raw(g))
        /\ \A k \in 1 .. Len(fs) :
             r[k] = Put(r[k - 1], ns[k], <<<<"screened", Column(r[k - 1], fs[k])>>>>)
    <2>1. Len(node.features) \in Nat /\ node.features = fs
      BY <1>2
    <2>2. /\ Screened(Scope(Raw(g)), node)[0] = Scope(Raw(g))
          /\ \A k \in 1 .. Len(node.features) :
               Screened(Scope(Raw(g)), node)[k]
                 = Put(Screened(Scope(Raw(g)), node)[k - 1], node.features[k].name,
                       <<<<"screened", Column(Screened(Scope(Raw(g)), node)[k - 1],
                                              node.features[k])>>>>)
      BY <2>1, ScreenedRuns
    <2>3. \A k \in 1 .. Len(fs) : ns[k] = node.features[k].name
      BY <1>2
    <2> HIDE DEF fs, ns
    <2>4. QED
      BY <2>1, <2>2, <2>3
  <1>4. DOMAIN Raw(g) = DOMAIN g.inputs
    BY DEF Raw
  <1>5. \A k \in 1 .. Len(fs) : fs[k].source \in DOMAIN g.inputs
    BY <1>1, GraphAssumption
  <1> HIDE DEF r
  <1>6. 0 \in S
    <2>1. r[0].ok = TRUE /\ r[0].values = Raw(g)
      BY <1>3 DEF Scope
    <2>2. upto(0) = {}
      OBVIOUS
    <2>3. QED
      BY <1>2, <1>4, <2>1, <2>2
  <1>7. ASSUME NEW k \in 1 .. Len(fs), k - 1 \in S PROVE k \in S
    <2>1. Holds(k - 1)
      BY <1>7
    <2>2. upto(k) = {ns[k]} \cup upto(k - 1)
      <3> HIDE DEF ns
      <3>1. 1 .. k = {k} \cup 1 .. k - 1
        OBVIOUS
      <3>2. QED
        BY <3>1
    <2>3. \A j \in 1 .. k - 1 : j \in 1 .. Len(fs) /\ j < k
      BY <1>2
    <2>4. fs[k].source \notin upto(k - 1)
      <3>1. \A j \in 1 .. k - 1 : ns[j] # fs[k].source
        BY <1>1, <1>2, <2>3
      <3> HIDE DEF ns, fs
      <3>2. QED
        BY <3>1
    <2>5. ns[k] \notin upto(k - 1) /\ \A j \in 1 .. k - 1 : ns[j] # ns[k]
      <3> HIDE DEF ns, fs
      <3>1. \A j \in 1 .. k - 1 : ns[j] # ns[k]
        BY <1>1, <1>2, <2>3 DEF IsInjective
      <3>2. QED
        BY <3>1
    <2>6. fs[k].source \in DOMAIN r[k - 1].values /\ r[k - 1].values[fs[k].source] = Raw(g)[fs[k].source]
      BY <1>5, <2>1, <2>4
    <2>7. <<"screened", Column(r[k - 1], fs[k])>> = Screen(g, k)
      BY <1>1, <2>6, FeatureIs
    <2> DEFINE new == [x \in {ns[k]} |-> <<Screen(g, k)>>]
    <2>8. r[k].ok = TRUE /\ r[k].values = Stored(new, r[k - 1].values)
      <3>1. r[k] = Put(r[k - 1], ns[k], <<Screen(g, k)>>)
        BY <1>3, <2>7
      <3>2. QED
        BY <3>1 DEF Put, Scope
    <2>9. DOMAIN new = {ns[k]} /\ new[ns[k]] = <<Screen(g, k)>>
      OBVIOUS
    <2> HIDE DEF new, ns, fs
    <2>10. /\ DOMAIN r[k].values = {ns[k]} \cup DOMAIN r[k - 1].values
           /\ r[k].values[ns[k]] = <<Screen(g, k)>>
           /\ \A n \in DOMAIN r[k - 1].values : n # ns[k] => r[k].values[n] = r[k - 1].values[n]
      BY <2>8, <2>9 DEF Stored
    <2>11. \A i \in 1 .. k : i = k \/ (i \in 1 .. k - 1 /\ ns[i] \in upto(k - 1))
      OBVIOUS
    <2> DEFINE before == upto(k - 1)
               now == upto(k)
    <2>12. now = {ns[k]} \cup before /\ \A i \in 1 .. k : i = k \/ (i \in 1 .. k - 1 /\ ns[i] \in before)
      BY <2>2, <2>11
    <2>13. /\ DOMAIN r[k - 1].values = before \cup DOMAIN g.inputs
           /\ \A i \in 1 .. k - 1 : r[k - 1].values[ns[i]] = <<Screen(g, i)>>
           /\ \A n \in DOMAIN g.inputs : n \notin before => r[k - 1].values[n] = Raw(g)[n]
      BY <2>1
    <2> HIDE DEF before, now
    <2>14. /\ DOMAIN r[k].values = now \cup DOMAIN g.inputs
           /\ \A i \in 1 .. k : r[k].values[ns[i]] = <<Screen(g, i)>>
           /\ \A n \in DOMAIN g.inputs : n \notin now => r[k].values[n] = Raw(g)[n]
      BY <2>5, <2>10, <2>12, <2>13
    <2>15. Holds(k)
      BY <2>8, <2>14 DEF now
    <2> HIDE DEF Holds
    <2>16. QED
      BY <2>15
  <1> HIDE DEF S
  <1>8. 0 .. Len(fs) \subseteq S
    BY <1>2, <1>6, <1>7, LoopInvariant
  <1>9. Holds(Len(fs))
    <2> HIDE DEF Holds
    <2>1. QED
      BY <1>2, <1>8 DEF S
  <1>10. upto(Len(fs)) = Range(ns)
    <2> HIDE DEF ns, fs
    <2>1. QED
      BY <1>2
  <1>11. QED
    BY <1>9, <1>10 DEF r, AllScreened

\* What the compiled graph begins with, before the model's own nodes.
Begun(g) ==
  IF g.features = << >> THEN Scope(Raw(g)) ELSE RunSchema(Scope(Raw(g)), SchemaNode(g.features))

LEMMA BegunRelated ==
  ASSUME NEW g, Sound(g)
  PROVE  Related(g, Begun(g), Scope(Presented(g)))
  <1> DEFINE fs == g.features
             ns == FeatureNames(fs)
             p == Presented(g)
             d == Scope(p)
             v == Begun(g)
  <1>1. /\ g \in Graphs /\ (DOMAIN g.inputs \cup Range(ns)) \cap Constants = {}
        /\ BatchKey \notin DOMAIN g.inputs \cup Constants
    BY GraphAssumption DEF Sound, Hygienic
  <1>2. /\ DOMAIN p = Range(ns) \cup DOMAIN g.inputs
        /\ \A i \in 1 .. Len(fs) : p[ns[i]] = <<Screen(g, i)>>
        /\ \A n \in DOMAIN g.inputs : n \notin Range(ns) => p[n] = Raw(g)[n]
    BY PresentedIs
  <1>3. d.ok = TRUE /\ d.values = p
    BY DEF Scope
  <1>4. DOMAIN Raw(g) = DOMAIN g.inputs
    BY DEF Raw
  <1>5. /\ Len(fs) \in Nat
        /\ \A i \in 1 .. Len(fs) : ns[i] \in Range(ns)
        /\ \A n \in Range(ns) : \E i \in 1 .. Len(fs) : n = ns[i]
    BY <1>1, NamesAre
  <1> HIDE DEF d, p
  <1>6. CASE fs = << >>
    <2>1. ~ BatchMode(fs) /\ Range(ns) = {}
      <3>1. Len(fs) = 0
        BY <1>6
      <3>2. QED
        BY <1>5, <1>6, <3>1 DEF BatchMode
    <2>2. v.ok = TRUE /\ v.values = Raw(g)
      BY <1>6 DEF Begun, Scope
    <2> HIDE DEF v, ns, fs
    <2>3. Agree(v, d, Watched(g))
      BY <1>1, <1>2, <1>3, <1>4, <2>1, <2>2 DEF Agree
    <2>4. QED
      BY <2>1, <2>3 DEF Related, d, p, v, fs
  <1>7. CASE fs # << >> /\ ~ BatchMode(fs)
    <2> DEFINE node == SchemaNode(fs)
    <2>1. node.features = fs /\ node.batch = BatchMode(fs)
      BY DEF SchemaNode
    <2>2. v = RunSchema(Scope(Raw(g)), node)
      BY <1>7 DEF Begun
    <2> HIDE DEF v, node
    <2>3. v = Screened(Scope(Raw(g)), node)[Len(fs)]
      BY <1>7, <2>1, <2>2 DEF RunSchema
    <2>4. /\ v.ok = TRUE
          /\ DOMAIN v.values = Range(ns) \cup DOMAIN g.inputs
          /\ \A i \in 1 .. Len(fs) : v.values[ns[i]] = <<Screen(g, i)>>
          /\ \A n \in DOMAIN g.inputs : n \notin Range(ns) => v.values[n] = Raw(g)[n]
      <3>1. AllScreened(g, v)
        BY <1>7, <2>1, <2>3, ScreenedIs
      <3>2. QED
        BY <3>1 DEF AllScreened
    <2> HIDE DEF ns, fs
    <2>5. \A n \in DOMAIN p : n \in DOMAIN v.values /\ v.values[n] = p[n]
      BY <1>2, <1>5, <2>4
    <2>6. Agree(v, d, Watched(g))
      BY <1>1, <1>3, <2>4, <2>5 DEF Agree
    <2>7. QED
      BY <1>7, <2>6 DEF Related, d, p, v, fs
  <1>8. CASE fs # << >> /\ BatchMode(fs)
    <2> DEFINE node == SchemaNode(fs)
               s == Scope(Raw(g))
               wide == [i \in 1 .. Len(fs) |-> <<"screened", Column(s, fs[i])>>]
               new == [x \in {BatchKey} |-> Wide(g)]
    <2>1. node.features = fs /\ node.batch = BatchMode(fs)
      BY DEF SchemaNode
    <2>2. v = RunSchema(s, node)
      BY <1>8 DEF Begun
    <2>3. wide = Wide(g)
      <3>1. ASSUME NEW i \in 1 .. Len(fs) PROVE <<"screened", Column(s, fs[i])>> = Screen(g, i)
        <4>1. s.values = Raw(g)
          BY DEF Scope
        <4>2. fs[i].source \in DOMAIN g.inputs
          BY <1>1, GraphAssumption
        <4> HIDE DEF s
        <4>3. QED
          BY <1>1, <1>4, <4>1, <4>2, FeatureIs
      <3> HIDE DEF s
      <3>2. QED
        BY <3>1 DEF Wide
    <2> HIDE DEF node, v
    <2>4. v = Put(s, BatchKey, wide)
      BY <1>8, <2>1, <2>2 DEF RunSchema
    <2>5. v.ok = TRUE /\ v.values = Stored(new, Raw(g))
      <3> HIDE DEF wide
      <3>1. QED
        BY <2>3, <2>4 DEF Put, Scope
    <2>6. DOMAIN new = {BatchKey} /\ new[BatchKey] = Wide(g)
      OBVIOUS
    <2> HIDE DEF new, ns, fs, s
    <2>7. /\ DOMAIN v.values = {BatchKey} \cup DOMAIN g.inputs
          /\ v.values[BatchKey] = Wide(g)
          /\ \A n \in DOMAIN g.inputs : v.values[n] = Raw(g)[n]
      BY <1>1, <1>4, <2>5, <2>6 DEF Stored
    <2>8. Watched(g) \cap Range(ns) = {}
      BY <1>8 DEF Watched, fs, ns
    <2>9. Agree(v, d, Watched(g))
      BY <1>1, <1>2, <1>3, <2>5, <2>7, <2>8 DEF Agree
    <2>10. \A i \in 1 .. Len(fs) : ns[i] \in DOMAIN d.values /\ d.values[ns[i]] = <<Screen(g, i)>>
      BY <1>2, <1>3, <1>5
    <2>11. Batched(g, v, d)
      BY <2>7, <2>10 DEF Batched, fs, ns
    <2>12. QED
      BY <2>9, <2>11 DEF Related, d, p, v
  <1>9. QED
    BY <1>6, <1>7, <1>8

-----------------------------------------------------------------------------
(***************************************************************************)
(* The compiled graph                                                      *)
(***************************************************************************)

\* What there is in a node's place, and which nodes are before it.
Placed(g, i) == Inlined(Rewired(g.features, g.nodes[i]))
Leading(g) == IF g.features = << >> THEN 0 ELSE 1
Compiled(g) == Flattened(g.features, Converted(g))

LEMMA PlacedIs ==
  ASSUME NEW g, Sound(g), NEW i \in 1 .. Len(g.nodes)
  PROVE  /\ IsList(Placed(g, i)) /\ Len(Placed(g, i)) \in Nat
         /\ \A k \in 1 .. Len(Placed(g, i)) : Placed(g, i)[k].kind = "operator"
         /\ IsOperator(g.nodes[i]) => Placed(g, i) = <<Rewired(g.features, g.nodes[i])>>
         /\ IsComposite(g.nodes[i]) =>
              /\ g.nodes[i].kind = "composite" /\ Len(Placed(g, i)) = Len(g.nodes[i].nodes)
              /\ Placed(g, i) = Inlined(g.nodes[i])
  <1> DEFINE fs == g.features
             node == g.nodes[i]
             t == Placed(g, i)
  <1>1. CASE IsOperator(node)
    <2> DEFINE twin == Rewired(fs, node)
    <2>1. node.kind = "operator" /\ node = [kind |-> node.kind, id |-> node.id,
            gathers |-> node.gathers, in |-> node.in, out |-> node.out]
      BY <1>1 DEF IsOperator
    <2>2. twin.kind = "operator"
      <3> HIDE DEF node
      <3>1. DOMAIN node = {"kind", "id", "gathers", "in", "out"}
        BY <2>1
      <3>2. [node EXCEPT !.in = <<BatchKey>>].kind = "operator"
        BY <2>1, <3>1
      <3>3. QED
        BY <2>1, <3>2 DEF Rewired
    <2> HIDE DEF twin
    <2>3. Inlined(twin) = <<twin>>
      BY <2>2 DEF Inlined
    <2>4. t = <<twin>>
      BY <2>3 DEF Placed, twin
    <2>5. node.kind # "composite" /\ ~ IsComposite(node)
      BY <2>1 DEF IsComposite
    <2> HIDE DEF t, node, fs
    <2>6. Len(t) = 1 /\ t[1] = twin /\ IsList(t)
      BY <2>4 DEF IsList, Range
    <2>7. QED
      BY <2>2, <2>4, <2>5, <2>6 DEF t, node, fs, twin
  <1>2. CASE IsComposite(node)
    <2>1. node.kind = "composite"
      BY <1>2 DEF IsComposite
    <2>2. Rewired(fs, node) = node
      BY <2>1, Readers
    <2>3. t = Inlined(node)
      BY <2>2 DEF Placed
    <2>4. Len(node.nodes) \in Nat /\ Inlined(node) = [k \in 1 .. Len(node.nodes) |-> Twin(node, node.nodes[k])]
      BY <1>2, InlinedIs
    <2>5. ~ IsOperator(node)
      BY <2>1 DEF IsOperator
    <2> HIDE DEF t, node, fs
    <2>6. Len(t) = Len(node.nodes) /\ \A k \in 1 .. Len(t) : t[k] = Twin(node, node.nodes[k])
      BY <2>3, <2>4
    <2>7. \A k \in 1 .. Len(t) : t[k].kind = "operator"
      <3>1. \A op : Twin(node, op).kind = "operator"
        BY DEF Twin
      <3>2. QED
        BY <2>6, <3>1
    <2>8. IsList(t)
      <3>1. t \in [1 .. Len(node.nodes) -> Range(t)]
        BY <2>3, <2>4 DEF Range
      <3>2. QED
        BY <2>4, <3>1 DEF IsList
    <2>9. QED
      BY <2>1, <2>3, <2>4, <2>5, <2>6, <2>7, <2>8 DEF t, node, fs
  <1>3. QED
    BY <1>1, <1>2, SoundNode

\* off[i] nodes of the compiled graph stand for the schema and the first i nodes
\* of the declared one.
Laid(g, off) ==
  /\ off \in [0 .. Len(g.nodes) -> Nat]
  /\ Len(g.nodes) \in Nat /\ Len(Compiled(g)) \in Nat
  /\ off[0] = Leading(g) /\ off[Len(g.nodes)] = Len(Compiled(g))
  /\ Leading(g) \in 0 .. Len(Compiled(g))
  /\ \A i \in 1 .. Len(g.nodes) :
       /\ off[i] = off[i - 1] + Len(Placed(g, i)) /\ off[i] <= Len(Compiled(g))
       /\ \A j \in 1 .. Len(Placed(g, i)) : Compiled(g)[off[i - 1] + j] = Placed(g, i)[j]
  /\ g.features # << >> => Compiled(g)[1] = SchemaNode(g.features)
  /\ \A k \in Leading(g) + 1 .. Len(Compiled(g)) : Compiled(g)[k].kind = "operator"

LEMMA CompiledIs ==
  ASSUME NEW g, Sound(g)
  PROVE  \E off : Laid(g, off)
  <1> DEFINE fs == g.features
             n == Len(g.nodes)
             ss == [i \in 1 .. n |-> Placed(g, i)]
             T == {x \in UNION {Range(Placed(g, i)) : i \in 1 .. n} : x.kind = "operator"}
             U == T \cup {SchemaNode(fs)}
             head == IF fs = << >> THEN << >> ELSE <<SchemaNode(fs)>>
             flat == FlattenSeq(ss)
             h == Leading(g)
  <1>1. n \in Nat
    BY GraphAssumption, ListIs DEF Sound
  <1>2. ASSUME NEW i \in 1 .. n
        PROVE  /\ Placed(g, i) \in Seq(T) /\ Len(Placed(g, i)) \in Nat
    <2> DEFINE t == Placed(g, i)
    <2>1. IsList(t) /\ Len(t) \in Nat /\ \A k \in 1 .. Len(t) : t[k].kind = "operator"
      BY PlacedIs
    <2>2. \A k \in 1 .. Len(t) : t[k] \in UNION {Range(Placed(g, x)) : x \in 1 .. n}
      BY <2>1, ListIs
    <2>3. t \in [1 .. Len(t) -> T]
      <3>1. \A k \in 1 .. Len(t) : t[k] \in T
        BY <2>1, <2>2
      <3> HIDE DEF t, T
      <3>2. t \in [1 .. Len(t) -> Range(t)]
        BY <2>1, ListIs
      <3>3. QED
        BY <3>1, <3>2
    <2> HIDE DEF t, T
    <2>4. t \in Seq(T)
      BY <2>1, <2>3
    <2>5. QED
      BY <2>1, <2>4 DEF t
  <1> HIDE DEF T
  <1>3. ss \in [1 .. n -> Seq(T)] /\ \A i \in 1 .. n : ss[i] = Placed(g, i)
    BY <1>2
  <1>4. Compiled(g) = head \o flat
    <2>1. Len(Converted(g)) = n /\ \A i \in 1 .. n : Converted(g)[i] = Rewired(fs, g.nodes[i])
      BY <1>1 DEF Converted
    <2>2. [i \in 1 .. Len(Converted(g)) |-> Inlined(Converted(g)[i])] = ss
      BY <2>1 DEF Placed
    <2> HIDE DEF ss
    <2>3. QED
      BY <2>2 DEF Compiled, Flattened
  <1> HIDE DEF ss
  <1>a. PICK base : PlacedAt(base, n, ss)
    BY <1>1, <1>3, FlattenPlaces
  <1>5. /\ base \in [0 .. n -> Nat] /\ base[0] = 0 /\ base[n] = Len(flat)
        /\ \A k \in 1 .. n :
             /\ base[k] = base[k - 1] + Len(ss[k]) /\ base[k] <= base[n]
             /\ \A j \in 1 .. Len(ss[k]) : flat[base[k - 1] + j] = ss[k][j]
    BY <1>a DEF PlacedAt
  <1>6. flat \in Seq(T)
    BY <1>1, <1>3, FlattenPlaces
  <1> HIDE DEF flat
  <1>7. head \in Seq(U) /\ flat \in Seq(U) /\ Len(head) = h /\ h \in Nat
    <2>1. flat \in Seq(U)
      <3>1. T \subseteq U
        OBVIOUS
      <3> HIDE DEF U
      <3>2. QED
        BY <1>6, <3>1
    <2>2. SchemaNode(fs) \in U
      OBVIOUS
    <2> HIDE DEF U
    <2>3. CASE fs = << >>
      BY <2>1, <2>3 DEF Leading
    <2>4. CASE fs # << >>
      BY <2>1, <2>2, <2>4 DEF Leading
    <2>5. QED
      BY <2>3, <2>4
  <1>8. fs # << >> => h = 1 /\ head[1] = SchemaNode(fs)
    BY DEF Leading
  <1> HIDE DEF head, U
  <1> DEFINE ns == head \o flat
  <1>9. /\ Len(ns) = h + Len(flat) /\ Len(flat) \in Nat
        /\ \A i \in 1 .. h + Len(flat) : ns[i] = IF i <= h THEN head[i] ELSE flat[i - h]
    <2>1. /\ Len(ns) = Len(head) + Len(flat)
          /\ \A i \in 1 .. Len(head) + Len(flat) :
               ns[i] = IF i <= Len(head) THEN head[i] ELSE flat[i - Len(head)]
      BY <1>7, ConcatProperties
    <2>2. Len(flat) \in Nat
      BY <1>7
    <2> HIDE DEF ns, h
    <2>3. QED
      BY <1>7, <2>1, <2>2
  <1> HIDE DEF ns, h
  <1>10. \A j \in 1 .. Len(flat) : ns[h + j] = flat[j] /\ flat[j].kind = "operator"
    <2>1. TAKE j \in 1 .. Len(flat)
    <2>2. h + j \in 1 .. h + Len(flat) /\ ~ (h + j <= h) /\ (h + j) - h = j
      BY <1>7, <1>9
    <2>3. ns[h + j] = flat[j]
      BY <1>9, <2>2
    <2>4. flat[j] \in T
      BY <1>6
    <2>5. QED
      BY <2>3, <2>4 DEF T
  <1> DEFINE off == [i \in 0 .. n |-> h + base[i]]
  <1>11. off \in [0 .. n -> Nat] /\ off[0] = h /\ off[n] = Len(ns)
    <2>1. /\ h \in Nat /\ Len(flat) \in Nat /\ Len(ns) = h + Len(flat)
          /\ base[0] = 0 /\ base[n] = Len(flat)
      BY <1>5, <1>7, <1>9
    <2>2. ASSUME NEW i \in 0 .. n PROVE h + base[i] \in Nat
      <3>1. base[i] \in Nat
        BY <1>5
      <3>2. QED
        BY <2>1, <3>1
    <2>3. 0 \in 0 .. n /\ n \in 0 .. n
      BY <1>1
    <2> HIDE DEF n
    <2>4. off[0] = h /\ off[n] = Len(ns)
      BY <2>1, <2>3
    <2>5. QED
      BY <2>2, <2>4
  <1>12. ASSUME NEW i \in 1 .. n
         PROVE  /\ off[i] = off[i - 1] + Len(Placed(g, i)) /\ off[i] <= Len(ns)
                /\ \A j \in 1 .. Len(Placed(g, i)) : ns[off[i - 1] + j] = Placed(g, i)[j]
    <2>1. /\ base[i] = base[i - 1] + Len(Placed(g, i)) /\ base[i] <= Len(flat)
          /\ \A j \in 1 .. Len(Placed(g, i)) : flat[base[i - 1] + j] = Placed(g, i)[j]
      BY <1>3, <1>5
    <2>2. i \in 0 .. n /\ i - 1 \in 0 .. n /\ Len(Placed(g, i)) \in Nat
      BY <1>1, <1>2
    <2>3. base[i - 1] \in Nat /\ base[i] \in Nat
      BY <1>5, <2>2
    <2>4. off[i] = h + base[i] /\ off[i - 1] = h + base[i - 1]
      BY <2>2
    <2> HIDE DEF off
    <2>5. ASSUME NEW j \in 1 .. Len(Placed(g, i)) PROVE ns[off[i - 1] + j] = Placed(g, i)[j]
      <3>1. base[i - 1] + j \in 1 .. Len(flat) /\ off[i - 1] + j = h + (base[i - 1] + j)
        <4> DEFINE b == base[i - 1]
                   m == Len(Placed(g, i))
        <4>1. b \in Nat /\ m \in Nat /\ j \in 1 .. m /\ b + m <= Len(flat) /\ off[i - 1] = h + b
              /\ h \in Nat /\ Len(flat) \in Nat
          BY <1>7, <1>9, <2>1, <2>2, <2>3, <2>4
        <4> HIDE DEF b, m
        <4>2. b + j \in 1 .. Len(flat) /\ off[i - 1] + j = h + (b + j)
          BY <4>1
        <4>3. QED
          BY <4>2 DEF b
      <3>2. ns[h + (base[i - 1] + j)] = flat[base[i - 1] + j]
        BY <1>10, <3>1
      <3>3. QED
        BY <2>1, <3>1, <3>2
    <2>6. off[i] = off[i - 1] + Len(Placed(g, i)) /\ off[i] <= Len(ns)
      BY <1>7, <1>9, <2>1, <2>2, <2>3, <2>4
    <2>7. QED
      BY <2>5, <2>6
  <1>13. fs # << >> => ns[1] = SchemaNode(fs)
    BY <1>7, <1>8, <1>9
  <1>14. ASSUME NEW k \in h + 1 .. Len(ns) PROVE ns[k].kind = "operator"
    <2>1. k - h \in 1 .. Len(flat) /\ h + (k - h) = k
      BY <1>7, <1>9
    <2>2. ns[h + (k - h)] = flat[k - h] /\ flat[k - h].kind = "operator"
      BY <1>10, <2>1
    <2>3. QED
      BY <2>1, <2>2
  <1>15. Len(ns) \in Nat /\ h \in 0 .. Len(ns)
    BY <1>7, <1>9
  <1> HIDE DEF off
  <1>16. Compiled(g) = ns /\ Leading(g) = h
    BY <1>4 DEF ns, h
  <1>17. Laid(g, off)
    BY <1>1, <1>11, <1>12, <1>13, <1>14, <1>15, <1>16 DEF Laid
  <1>18. QED
    BY <1>17

\* Where the last store is whole, all before it were: a node that finds a broken
\* store leaves one.
LEMMA RunsOk ==
  ASSUME NEW s, NEW ns, Len(ns) \in Nat, NEW lo \in 0 .. Len(ns),
         \A k \in lo + 1 .. Len(ns) : ns[k].kind \in {"operator", "composite"},
         Runs(s, ns)[Len(ns)].ok, NEW k \in lo .. Len(ns)
  PROVE  Runs(s, ns)[k].ok
  <1> DEFINE r == Runs(s, ns)
             N == Len(ns)
             S == {m \in 0 .. N : k <= m => ~ r[m].ok}
  <1>1. SUFFICES ASSUME ~ r[k].ok PROVE FALSE
    OBVIOUS
  <1>2. \A m \in 1 .. N : r[m] = RunNode(r[m - 1], ns[m])
    BY RunsAre
  <1>3. ASSUME NEW m \in lo + 1 .. N, ~ r[m - 1].ok PROVE ~ r[m].ok
    <2>1. r[m] = RunNode(r[m - 1], ns[m])
      BY <1>2
    <2> HIDE DEF r
    <2>2. CASE ns[m].kind = "operator"
      <3>1. r[m] = RunOperator(r[m - 1], ns[m])
        BY <2>1, <2>2 DEF RunNode
      <3>2. QED
        BY <1>3, <3>1, OperatorIs
    <2>3. CASE ns[m].kind = "composite"
      <3>1. r[m] = RunComposite(r[m - 1], ns[m])
        BY <2>1, <2>3 DEF RunNode
      <3>2. RunComposite(r[m - 1], ns[m]).ok => r[m - 1].ok
        BY CompositeIs
      <3>3. QED
        BY <1>3, <3>1, <3>2
    <2>4. QED
      BY <2>2, <2>3
  <1> HIDE DEF r
  <1>4. 0 \in S
    BY <1>1
  <1>5. ASSUME NEW m \in 1 .. N, m - 1 \in S PROVE m \in S
    <2>1. CASE m = k
      BY <1>1, <2>1
    <2>2. CASE m # k /\ k <= m
      <3>1. ~ r[m - 1].ok /\ m \in lo + 1 .. N
        BY <1>5, <2>2
      <3>2. ~ r[m].ok
        BY <1>3, <3>1
      <3>3. QED
        BY <3>2
    <2>3. QED
      BY <2>1, <2>2
  <1> HIDE DEF S
  <1>6. 0 .. N \subseteq S
    BY <1>4, <1>5, LoopInvariant
  <1>7. QED
    BY <1>6 DEF S, r

\* The two graphs, from the store each starts with.
CompiledStores(g) == Runs(Scope(Raw(g)), Compiled(g))
DeclaredStores(g) == Runs(Scope(Presented(g)), g.nodes)

LEMMA CompiledRuns ==
  ASSUME NEW g, Sound(g), Declared(g).ok, NEW off, Laid(g, off), NEW i \in 0 .. Len(g.nodes)
  PROVE  Related(g, CompiledStores(g)[off[i]], DeclaredStores(g)[i])
  <1> DEFINE r == CompiledStores(g)
             q == DeclaredStores(g)
             n == Len(g.nodes)
             S == {k \in 0 .. n : Related(g, r[off[k]], q[k])}
  <1>1. /\ n \in Nat /\ Len(Compiled(g)) \in Nat /\ off \in [0 .. n -> Nat]
        /\ off[0] = Leading(g) /\ Leading(g) \in 0 .. Len(Compiled(g))
    BY DEF Laid
  <1>2. /\ r[0] = Scope(Raw(g))
        /\ \A k \in 1 .. Len(Compiled(g)) : r[k] = RunNode(r[k - 1], Compiled(g)[k])
    BY <1>1, RunsAre DEF CompiledStores
  <1>3. /\ q[0] = Scope(Presented(g))
        /\ \A k \in 1 .. n : q[k] = RunNode(q[k - 1], g.nodes[k])
    BY <1>1, RunsAre DEF DeclaredStores
  <1>4. ASSUME NEW k \in 0 .. n PROVE q[k].ok
    <2>1. \A j \in 0 + 1 .. n : g.nodes[j].kind \in {"operator", "composite"}
      <3>1. ASSUME NEW j \in 1 .. n PROVE g.nodes[j].kind \in {"operator", "composite"}
        <4>1. IsOperator(g.nodes[j]) \/ IsComposite(g.nodes[j])
          BY SoundNode
        <4>2. QED
          BY <4>1 DEF IsOperator, IsComposite
      <3>2. QED
        BY <3>1
    <2>2. Runs(Scope(Presented(g)), g.nodes)[n].ok
      BY DEF Declared
    <2>3. 0 \in 0 .. n /\ n \in Nat
      BY <1>1
    <2>4. QED
      BY <2>1, <2>2, <2>3, RunsOk DEF DeclaredStores
  <1> HIDE DEF r, q
  <1>5. 0 \in S
    <2>1. r[Leading(g)] = Begun(g)
      <3>1. CASE g.features = << >>
        BY <1>2, <3>1 DEF Leading, Begun
      <3>2. CASE g.features # << >>
        <4>1. Leading(g) = 1 /\ 1 \in 1 .. Len(Compiled(g)) /\ 1 - 1 = 0
          BY <1>1, <3>2 DEF Leading
        <4>2. Compiled(g)[1] = SchemaNode(g.features)
          BY <3>2 DEF Laid
        <4>3. r[1] = RunNode(Scope(Raw(g)), SchemaNode(g.features))
          BY <1>2, <4>1, <4>2
        <4>4. SchemaNode(g.features).kind = "schema"
          BY DEF SchemaNode
        <4>5. QED
          BY <3>2, <4>1, <4>3, <4>4 DEF RunNode, Begun
      <3>3. QED
        BY <3>1, <3>2
    <2>2. QED
      BY <1>1, <1>3, <2>1, BegunRelated
  <1>6. ASSUME NEW k \in 1 .. n, k - 1 \in S PROVE k \in S
    <2> DEFINE node == g.nodes[k]
               a == off[k - 1]
               N == Len(Placed(g, k))
               v == r[a]
               d == q[k - 1]
    <2>1. Related(g, v, d) /\ k \in 0 .. n
      BY <1>6
    <2>2. a \in Nat /\ off[k] = a + N /\ a + N <= Len(Compiled(g))
      <3>1. k - 1 \in 0 .. n
        OBVIOUS
      <3>2. QED
        BY <1>1, <3>1 DEF Laid
    <2>3. N \in Nat /\ \A j \in 1 .. N : Placed(g, k)[j].kind = "operator"
      BY PlacedIs
    <2>4. \A j \in 1 .. N : Compiled(g)[a + j] = Placed(g, k)[j]
      BY DEF Laid
    <2> HIDE DEF a, N
    <2>5. ASSUME NEW j \in 1 .. N
          PROVE  r[a + j] = RunNode(r[a + (j - 1)], Placed(g, k)[j])
      <3>1. a + j \in 1 .. Len(Compiled(g)) /\ (a + j) - 1 = a + (j - 1)
        BY <1>1, <2>2, <2>3
      <3>2. QED
        BY <1>2, <2>4, <3>1
    <2>6. q[k] = RunNode(d, node) /\ q[k].ok
      BY <1>3, <1>4, <2>1
    <2>7. CASE IsOperator(node)
      <3>1. Placed(g, k) = <<Rewired(g.features, node)>> /\ N = 1
        BY <2>7, PlacedIs DEF N
      <3>2. r[a + 1] = RunNode(r[a + (1 - 1)], Placed(g, k)[1])
        <4>1. 1 \in 1 .. N
          BY <3>1
        <4>2. QED
          BY <2>5, <4>1
      <3>3. a + (1 - 1) = a
        BY <2>2
      <3>4. Placed(g, k)[1].kind = "operator" /\ Placed(g, k)[1] = Rewired(g.features, node)
        BY <2>3, <3>1
      <3>5. r[off[k]] = RunOperator(v, Rewired(g.features, node))
        BY <2>2, <3>1, <3>2, <3>3, <3>4 DEF RunNode
      <3>6. q[k] = RunOperator(d, node)
        BY <2>6, <2>7 DEF RunNode, IsOperator
      <3> HIDE DEF v, d
      <3>7. Related(g, r[off[k]], q[k])
        BY <2>1, <2>6, <2>7, <3>5, <3>6, OperatorKeepsRelated
      <3>8. QED
        BY <2>1, <3>7
    <2>8. CASE IsComposite(node)
      <3>1. /\ node.kind = "composite" /\ N = Len(node.nodes)
            /\ Placed(g, k) = Inlined(node)
        BY <2>8, PlacedIs DEF N
      <3> DEFINE w == [j \in 0 .. N |-> r[a + j]]
      <3>2. w[0] = v /\ w[N] = r[off[k]]
        <4>1. a + 0 = a /\ 0 \in 0 .. N /\ N \in 0 .. N
          BY <2>2, <2>3
        <4>2. QED
          BY <2>2, <4>1
      <3>3. ASSUME NEW j \in 1 .. N PROVE w[j] = RunNode(w[j - 1], Inlined(node)[j])
        <4>1. j \in 0 .. N /\ j - 1 \in 0 .. N
          BY <2>3
        <4>2. w[j] = r[a + j] /\ w[j - 1] = r[a + (j - 1)]
          BY <4>1
        <4> HIDE DEF w
        <4>3. QED
          BY <2>5, <3>1, <4>2
      <3>4. q[k] = RunComposite(d, node)
        BY <2>6, <3>1 DEF RunNode
      <3> HIDE DEF w, v, d
      <3>5. Related(g, w[Len(node.nodes)], RunComposite(d, node))
        BY <2>1, <2>6, <2>8, <3>1, <3>2, <3>3, <3>4, CompositeKeepsRelated
      <3>6. QED
        BY <2>1, <3>1, <3>2, <3>4, <3>5
    <2>9. QED
      BY <2>7, <2>8, SoundNode
  <1> HIDE DEF S
  <1>7. 0 .. n \subseteq S
    BY <1>1, <1>5, <1>6, LoopInvariant
  <1>8. QED
    BY <1>7 DEF S, r, q

\* The compiled graph runs to its end and gives what the declared one does.
LEMMA CompiledAgrees ==
  ASSUME NEW g, Sound(g), Runnable(g)
  PROVE  /\ Len(Compiled(g)) \in Nat
         /\ \A k \in 0 .. Len(Compiled(g)) : CompiledStores(g)[k].ok
         /\ LET last == CompiledStores(g)[Len(Compiled(g))]
            IN  \A o \in g.outputs : Has(last, o) /\ Get(last, o) = Get(Declared(g), o)
  <1> DEFINE r == CompiledStores(g)
             N == Len(Compiled(g))
             n == Len(g.nodes)
  <1>1. Declared(g).ok /\ \A o \in g.outputs : Has(Declared(g), o)
    BY DEF Runnable
  <1>2. PICK off : Laid(g, off)
    BY CompiledIs
  <1>3. /\ N \in Nat /\ n \in Nat /\ off[n] = N /\ Leading(g) \in 0 .. N
        /\ \A k \in Leading(g) + 1 .. N : Compiled(g)[k].kind = "operator"
    BY <1>2 DEF Laid
  <1>4. Agree(r[N], Declared(g), Watched(g))
    <2>1. n \in 0 .. n
      BY <1>3
    <2>2. Related(g, r[off[n]], DeclaredStores(g)[n])
      BY <1>1, <1>2, <2>1, CompiledRuns
    <2>3. QED
      BY <1>3, <2>2 DEF Related, Declared, DeclaredStores
  <1>5. g.outputs \subseteq Watched(g)
    BY DEF Watched, Visible, Sound, WholeBatch
  <1>6. \A o \in g.outputs : Has(r[N], o) /\ Get(r[N], o) = Get(Declared(g), o)
    BY <1>1, <1>4, <1>5, AgreeReads
  <1>7. ASSUME NEW k \in 0 .. N PROVE r[k].ok
    <2>1. CASE k \in Leading(g) .. N
      <3>1. Runs(Scope(Raw(g)), Compiled(g))[N].ok
        BY <1>4 DEF Agree, CompiledStores
      <3>2. QED
        BY <1>3, <2>1, <3>1, RunsOk DEF CompiledStores
    <2>2. CASE k \notin Leading(g) .. N
      <3>1. k = 0
        BY <1>3, <2>2 DEF Leading
      <3>2. r[0] = Scope(Raw(g))
        BY <1>3, RunsAre DEF CompiledStores
      <3>3. QED
        BY <3>1, <3>2 DEF Scope
    <2>3. QED
      BY <2>1, <2>2
  <1>8. QED
    BY <1>3, <1>6, <1>7

-----------------------------------------------------------------------------
(***************************************************************************)
(* Loading and running a model                                             *)
(***************************************************************************)

\* Where the compiled graph's run is, for a model that leaves nothing to clash.
RunsCompiled ==
  /\ nodes = Compiled(graph)
  /\ pc \in 1 .. Len(nodes) + 1
  /\ vs = CompiledStores(graph)[pc - 1]
  /\ stage = "failed" => ~ vs.ok \/ (pc = Len(nodes) + 1 /\ \E o \in graph.outputs : ~ Has(vs, o))
  /\ stage = "done" => pc = Len(nodes) + 1

\* The inductive invariant.
GInv ==
  /\ graph \in Graphs
  /\ Sound(graph) =>
       \/ stage = "convert"
       \/ stage = "flatten" /\ nodes = Converted(graph)
       \/ stage \in {"run", "done", "failed"} /\ RunsCompiled

LEMMA CompilingStarts == MInit => GInv
  <1>1. SUFFICES ASSUME NEW f \in Files, Compiling(f[4]) PROVE GInv
    BY DEF MInit
  <1>2. f[4] \in Graphs
    BY FilesAssumption
  <1>3. graph \in Graphs /\ stage = "convert"
    BY <1>1, <1>2 DEF Compiling
  <1>4. QED
    BY <1>3 DEF GInv

LEMMA CompilingKeeps == GInv /\ [MNext]_mlvars => GInv'
  <1> SUFFICES ASSUME GInv, [MNext]_mlvars PROVE GInv'
    OBVIOUS
  <1>1. CASE UNCHANGED glvars
    BY <1>1 DEF glvars, GInv, RunsCompiled, Has
  <1>2. CASE Convert
    BY <1>2 DEF Convert, GInv
  <1>3. CASE FlattenComposites
    <2>1. /\ stage = "flatten" /\ stage' = "run" /\ graph' = graph
          /\ nodes' = Flattened(graph.features, nodes)
          /\ vs' = Scope(Raw(graph)) /\ pc' = 1
      BY <1>3 DEF FlattenComposites
    <2>2. SUFFICES ASSUME Sound(graph) PROVE RunsCompiled'
      BY <2>1 DEF GInv
    <2>3. nodes' = Compiled(graph)
      BY <2>1, <2>2 DEF GInv, Compiled
    <2>4. Len(Compiled(graph)) \in Nat /\ CompiledStores(graph)[0] = Scope(Raw(graph))
      <3>1. PICK off : Laid(graph, off)
        BY <2>2, CompiledIs
      <3>2. Len(Compiled(graph)) \in Nat
        BY <3>1 DEF Laid
      <3>3. QED
        BY <3>2, RunsAre DEF CompiledStores
    <2>5. QED
      BY <2>1, <2>3, <2>4 DEF RunsCompiled
  <1>4. CASE ExecuteNode
    <2>1. /\ stage = "run" /\ pc <= Len(nodes) /\ graph' = graph /\ nodes' = nodes
          /\ vs' = RunNode(vs, nodes[pc]) /\ pc' = pc + 1
          /\ stage' \in {"run", "failed"} /\ (stage' = "failed" => ~ vs'.ok)
      BY <1>4 DEF ExecuteNode
    <2>2. SUFFICES ASSUME Sound(graph) PROVE RunsCompiled'
      BY <2>1 DEF GInv
    <2>3. /\ nodes = Compiled(graph) /\ pc \in 1 .. Len(nodes) + 1
          /\ vs = CompiledStores(graph)[pc - 1]
      BY <2>1, <2>2 DEF GInv, RunsCompiled
    <2>4. Len(nodes) \in Nat
      <3>1. PICK off : Laid(graph, off)
        BY <2>2, CompiledIs
      <3>2. QED
        BY <2>3, <3>1 DEF Laid
    <2>5. pc \in 1 .. Len(nodes) /\ pc + 1 \in 1 .. Len(nodes) + 1 /\ (pc + 1) - 1 = pc
      BY <2>1, <2>3, <2>4
    <2>6. CompiledStores(graph)[pc] = RunNode(vs, nodes[pc])
      BY <2>3, <2>4, <2>5, RunsAre DEF CompiledStores
    <2>7. QED
      BY <2>1, <2>3, <2>5, <2>6 DEF RunsCompiled
  <1>5. CASE Collect
    <2>1. /\ stage = "run" /\ pc > Len(nodes) /\ graph' = graph /\ nodes' = nodes
          /\ vs' = vs /\ pc' = pc /\ stage' \in {"done", "failed"}
          /\ stage' = "failed" => \E o \in graph.outputs : ~ Has(vs, o)
      BY <1>5 DEF Collect
    <2>2. SUFFICES ASSUME Sound(graph) PROVE RunsCompiled'
      BY <2>1 DEF GInv
    <2>3. RunsCompiled
      BY <2>1, <2>2 DEF GInv
    <2>4. pc = Len(nodes) + 1
      <3>1. PICK off : Laid(graph, off)
        BY <2>2, CompiledIs
      <3>2. Len(nodes) \in Nat
        BY <2>3, <3>1 DEF Laid, RunsCompiled
      <3>3. QED
        BY <2>1, <2>3, <3>2 DEF RunsCompiled
    <2>5. QED
      BY <2>1, <2>3, <2>4 DEF RunsCompiled, Has
  <1>6. QED
    BY <1>1, <1>2, <1>3, <1>4, <1>5
       DEF MNext, BuildGraph, LoadStep, Predict, Compile, RunGraph, mlvars

LEMMA CompiledMeansDeclared == GInv => AsDeclaredIfHygienic
  <1>1. SUFFICES ASSUME GInv, stage \in {"done", "failed"}, Hygienic(graph), WholeBatch(graph),
                        Runnable(graph)
                 PROVE  AsDeclared(graph)
    BY DEF AsDeclaredIfHygienic
  <1>2. Sound(graph)
    BY <1>1 DEF GInv, Sound
  <1>3. RunsCompiled
    BY <1>1, <1>2 DEF GInv
  <1> DEFINE N == Len(Compiled(graph))
             last == CompiledStores(graph)[N]
  <1>4. /\ N \in Nat /\ (\A k \in 0 .. N : CompiledStores(graph)[k].ok)
        /\ \A o \in graph.outputs : Has(last, o) /\ Get(last, o) = Get(Declared(graph), o)
    BY <1>1, <1>2, CompiledAgrees
  <1> HIDE DEF N, last
  <1>5. /\ pc \in 1 .. N + 1 /\ vs = CompiledStores(graph)[pc - 1]
        /\ stage = "failed" => ~ vs.ok \/ (pc = N + 1 /\ \E o \in graph.outputs : ~ Has(vs, o))
        /\ stage = "done" => pc = N + 1
    BY <1>3 DEF RunsCompiled, N
  <1>6. pc - 1 \in 0 .. N
    BY <1>4, <1>5
  <1>7. vs.ok
    BY <1>4, <1>5, <1>6
  <1>8. ASSUME pc = N + 1 PROVE vs = last
    <2>1. pc - 1 = N
      BY <1>4, <1>8
    <2>2. QED
      BY <1>5, <2>1 DEF last
  <1>9. stage = "done" /\ vs = last
    BY <1>1, <1>4, <1>5, <1>7, <1>8
  <1>10. QED
    BY <1>4, <1>9 DEF AsDeclared

\* "Each node reads its declared inputs and writes its outputs", a composite in
\* a scope of its own (README.md:485): whatever the schema, the operators and the
\* composites of a model are, the graph build_from_proto makes of it computes
\* what the model file declares, as long as names do not clash and a batch of
\* features is read as one.
THEOREM CompiledComputesDeclared == MSpec => []AsDeclaredIfHygienic
  <1>1. QED
    BY CompilingStarts, CompilingKeeps, CompiledMeansDeclared, PTL DEF MSpec

\* Compiling the graph within a load and running it afterwards leave the load
\* what it is: every behaviour of the whole is one of Loader's.
THEOREM ModelLoadIsALoad == MSpec => LSpec
  <1>1. MInit => LInit
    BY FilesAssumption DEF MInit, LInit
  <1>2. [MNext]_mlvars => [LNext]_lvars
    BY DEF MNext, BuildGraph, LoadStep, Predict, mlvars
  <1>3. QED
    BY <1>1, <1>2, PTL DEF MSpec, LSpec

\* So a model that a caller runs was loaded in silence only if its version is
\* supported or absent, or its own cases passed.
THEOREM RunModelsAreVerified == MSpec => []SilenceIsEarned
  <1>1. QED
    BY ModelLoadIsALoad, SilentLoadsAreVerified, PTL

=============================================================================
