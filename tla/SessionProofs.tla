---------------------------- MODULE SessionProofs ----------------------------
(***************************************************************************)
(* Proofs about Session and PySession: for any inputs, outputs and data,   *)
(* and any sequence of calls, what a session answers with and what its     *)
(* callers' handles point at.                                              *)
(***************************************************************************)
EXTENDS PySession, Loops, SequenceTheorems, FiniteSetTheorems

-----------------------------------------------------------------------------
(***************************************************************************)
(* Lists of results                                                        *)
(***************************************************************************)

Records == [name : Outputs, tensor : Tensors]
Buffers == [capacity : Int, moves : Nat]

\* No name is in the list twice.
NamesOnce(own) ==
  \A i, j \in 1 .. Len(own) : own[i].name = own[j].name => i = j

\* The list has tensor t under name o.
Holds(own, o, t) ==
  \E i \in 1 .. Len(own) : own[i].name = o /\ own[i].tensor = t

\* The list a set is turned into has every element once.
LEMMA Listed ==
  ASSUME NEW S, IsFiniteSet(S)
  PROVE  /\ Cardinality(S) \in Nat
         /\ SetToSeq(S) \in [1 .. Cardinality(S) -> S]
         /\ Len(SetToSeq(S)) = Cardinality(S)
         /\ \A x \in S : \E i \in 1 .. Cardinality(S) : SetToSeq(S)[i] = x
         /\ \A i, j \in 1 .. Cardinality(S) :
              SetToSeq(S)[i] = SetToSeq(S)[j] => i = j
  <1> DEFINE n == Cardinality(S)
             q == SetToSeq(S)
  <1>1. n \in Nat /\ ExistsBijection(1 .. n, S)
    BY FS_CardinalityType
  <1>2. \E f \in [1 .. n -> S] : IsInjective(f)
    BY <1>1 DEF ExistsBijection, Bijection, Injection
  <1>3. q \in [1 .. n -> S] /\ IsInjective(q)
    BY <1>2 DEF SetToSeq
  <1> HIDE DEF n, q
  <1>4. q \in Surjection(1 .. n, S)
    <2>1. q \in Injection(1 .. n, S)
      BY <1>3 DEF Injection
    <2>2. Cardinality(1 .. n) = n
      BY <1>1, FS_Interval
    <2>3. QED
      BY <2>1, <2>2, FS_Injection DEF n
  <1>5. \A x \in S : \E i \in 1 .. n : q[i] = x
    BY <1>4 DEF Surjection
  <1>6. \A i, j \in 1 .. n : q[i] = q[j] => i = j
    BY <1>3 DEF IsInjective
  <1>7. Len(q) = n
    BY <1>1, <1>3
  <1>8. QED
    BY <1>1, <1>3, <1>5, <1>6, <1>7 DEF n, q

\* With each name once, there are no more results than outputs.
LEMMA LengthBound ==
  ASSUME NEW own \in Seq(Records), NamesOnce(own)
  PROVE  Len(own) \in Nat /\ Len(own) <= Cardinality(Outputs)
  <1> DEFINE n == Len(own)
             f == [i \in 1 .. n |-> own[i].name]
  <1>1. n \in Nat /\ \A i \in 1 .. n : own[i].name \in Outputs
    <2>1. n \in Nat /\ \A i \in 1 .. n : own[i] \in Records
      BY ElementOfSeq, LenProperties
    <2>2. QED
      BY <2>1 DEF Records
  <1>2. f \in Injection(1 .. n, Outputs)
    BY <1>1 DEF Injection, IsInjective, NamesOnce
  <1> HIDE DEF f
  <1>3. Cardinality(1 .. n) <= Cardinality(Outputs)
    BY <1>2, FS_Injection, SessionAssumption
  <1>4. Cardinality(1 .. n) = n
    BY <1>1, FS_Interval
  <1>5. QED
    BY <1>1, <1>3, <1>4

\* A result that is pushed is there afterwards, under its name once, and takes
\* no other's place.
LEMMA PushKeeps ==
  ASSUME NEW own \in Seq(Records), NamesOnce(own),
         NEW o \in Outputs, NEW t \in Tensors
  PROVE  /\ Push(own, o, t) \in Seq(Records)
         /\ NamesOnce(Push(own, o, t))
         /\ Holds(Push(own, o, t), o, t)
         /\ \A p \in Outputs \ {o}, u \in Tensors :
              Holds(own, p, u) => Holds(Push(own, o, t), p, u)
  <1> DEFINE n == Len(own)
             new == [name |-> o, tensor |-> t]
  <1>1. n \in Nat /\ new \in Records /\ own \in [1 .. n -> Records]
    <2>1. new \in Records
      BY DEF Records
    <2>2. QED
      BY <2>1, LenProperties
  <1>2. CASE IndexOf(own, o) # {}
    <2> DEFINE i == CHOOSE j \in IndexOf(own, o) : \A k \in IndexOf(own, o) : j <= k
               P == [own EXCEPT ![i].tensor = t]
    <2>1. Push(own, o, t) = P
      BY <1>2 DEF Push
    <2>2. i \in 1 .. n /\ own[i].name = o
      <3>1. PICK j \in 1 .. n : own[j].name = o
        BY <1>2 DEF IndexOf
      <3>2. IndexOf(own, o) = {j}
        BY <3>1 DEF IndexOf, NamesOnce
      <3>3. j \in IndexOf(own, o) /\ \A k \in IndexOf(own, o) : j <= k
        BY <3>1, <3>2
      <3>4. i \in IndexOf(own, o)
        BY <3>3
      <3>5. QED
        BY <3>4 DEF IndexOf
    <2> HIDE DEF i
    <2>3. /\ P \in [1 .. n -> Records] /\ P[i] = new
          /\ \A k \in 1 .. n : k # i => P[k] = own[k]
      BY <1>1, <2>2 DEF Records
    <2> HIDE DEF P, n
    <2>4. P \in Seq(Records) /\ Len(P) = n
      BY <1>1, <2>3
    <2>5. \A k \in 1 .. n : P[k].name = own[k].name
      BY <2>2, <2>3
    <2>6. NamesOnce(P)
      BY <2>4, <2>5 DEF NamesOnce, n
    <2>7. Holds(P, o, t)
      BY <2>2, <2>3, <2>4 DEF Holds
    <2>8. ASSUME NEW p \in Outputs \ {o}, NEW u \in Tensors, Holds(own, p, u)
          PROVE  Holds(P, p, u)
      <3>1. PICK k \in 1 .. n : own[k].name = p /\ own[k].tensor = u
        BY <2>8 DEF Holds, n
      <3>2. P[k] = own[k]
        BY <2>2, <2>3, <3>1
      <3>3. QED
        BY <2>4, <3>1, <3>2 DEF Holds
    <2>9. QED
      BY <2>1, <2>4, <2>6, <2>7, <2>8
  <1>3. CASE IndexOf(own, o) = {}
    <2> DEFINE P == Append(own, new)
    <2>1. Push(own, o, t) = P
      BY <1>3 DEF Push
    <2> HIDE DEF new
    <2>2. /\ P \in Seq(Records) /\ Len(P) = n + 1 /\ P[n + 1] = new
          /\ \A i \in 1 .. n : P[i] = own[i]
      BY <1>1, AppendProperties
    <2> HIDE DEF P, n
    <2>3. new.name = o /\ new.tensor = t
      BY DEF new
    <2>4. \A i \in 1 .. n : own[i].name # o
      BY <1>3 DEF IndexOf, n
    <2>5. NamesOnce(P)
      <3>1. SUFFICES ASSUME NEW i \in 1 .. n + 1, NEW j \in 1 .. n + 1, P[i].name = P[j].name
                     PROVE  i = j
        BY <2>2 DEF NamesOnce
      <3>2. CASE i \in 1 .. n /\ j \in 1 .. n
        BY <2>2, <3>1, <3>2 DEF NamesOnce, n
      <3>3. CASE i = n + 1 /\ j = n + 1
        BY <3>3
      <3>4. CASE i = n + 1 /\ j \in 1 .. n
        BY <2>2, <2>3, <2>4, <3>1, <3>4
      <3>5. CASE i \in 1 .. n /\ j = n + 1
        BY <2>2, <2>3, <2>4, <3>1, <3>5
      <3>6. QED
        BY <1>1, <3>2, <3>3, <3>4, <3>5
    <2>6. Holds(P, o, t)
      <3>1. n + 1 \in 1 .. n + 1
        BY <1>1
      <3>2. QED
        BY <2>2, <2>3, <3>1 DEF Holds
    <2>7. ASSUME NEW p \in Outputs \ {o}, NEW u \in Tensors, Holds(own, p, u)
          PROVE  Holds(P, p, u)
      <3>1. PICK k \in 1 .. n : own[k].name = p /\ own[k].tensor = u
        BY <2>7 DEF Holds, n
      <3>2. k \in 1 .. n + 1 /\ P[k] = own[k]
        BY <1>1, <2>2, <3>1
      <3>3. QED
        BY <2>2, <3>1, <3>2 DEF Holds
    <2>8. QED
      BY <2>1, <2>2, <2>5, <2>6, <2>7
  <1>4. QED
    BY <1>2, <1>3

\* The loop of take_results: afterwards the list holds every result under its
\* name, once, and it was never moved if it had room for every output.
LEMMA MovedKeeps ==
  ASSUME NEW own \in Seq(Records), NamesOnce(own), NEW buf \in Buffers,
         NEW D \in SUBSET Outputs, NEW res \in [D -> Tensors]
  PROVE  LET m == Moved(own, buf, res)
         IN  /\ m.own \in Seq(Records) /\ NamesOnce(m.own) /\ m.buf \in Buffers
             /\ \A o \in D : Holds(m.own, o, res[o])
             /\ Cardinality(Outputs) <= buf.capacity => m.buf = buf
  <1> DEFINE names == SetToSeq(DOMAIN res)
             n == Len(names)
             after == CHOOSE after :
               after = [k \in 0 .. Len(names) |->
                          IF k = 0 THEN [own |-> own, buf |-> buf]
                          ELSE LET own1 == Push(after[k - 1].own, names[k], res[names[k]])
                               IN  [own |-> own1, buf |-> Grown(after[k - 1].buf, Len(own1))]]
             S == {s \in [own : Seq(Records), buf : Buffers] : NamesOnce(s.own)}
             PushOne(k, s) == [own |-> Push(s.own, names[k], res[names[k]]),
                               buf |-> Grown(s.buf, Len(Push(s.own, names[k], res[names[k]])))]
             step == [p \in (1 .. n) \X S |-> PushOne(p[1], p[2])]
             start == [own |-> own, buf |-> buf]
  <1>1. Moved(own, buf, res) = after[n]
    BY Zenon DEF Moved
  <1>2. /\ n \in Nat
        /\ \A k \in 1 .. n : names[k] \in D /\ res[names[k]] \in Tensors
        /\ \A o \in D : \E k \in 1 .. n : names[k] = o
        /\ \A j, k \in 1 .. n : names[j] = names[k] => j = k
    <2>1. IsFiniteSet(D) /\ DOMAIN res = D
      BY FS_Subset, SessionAssumption
    <2>2. /\ Cardinality(D) \in Nat /\ names \in [1 .. Cardinality(D) -> D] /\ n = Cardinality(D)
          /\ \A o \in D : \E k \in 1 .. Cardinality(D) : names[k] = o
          /\ \A j, k \in 1 .. Cardinality(D) : names[j] = names[k] => j = k
      BY <2>1, Listed
    <2> HIDE DEF names, n
    <2>3. QED
      BY <2>2
  <1> HIDE DEF names
  <1>3. ASSUME NEW k \in 1 .. n, NEW s \in S
        PROVE  /\ PushOne(k, s) \in S
               /\ Holds(PushOne(k, s).own, names[k], res[names[k]])
               /\ \A p \in Outputs \ {names[k]}, u \in Tensors :
                    Holds(s.own, p, u) => Holds(PushOne(k, s).own, p, u)
               /\ Cardinality(Outputs) <= s.buf.capacity => PushOne(k, s).buf = s.buf
    <2> DEFINE own1 == Push(s.own, names[k], res[names[k]])
    <2>1. /\ s.own \in Seq(Records) /\ NamesOnce(s.own) /\ s.buf \in Buffers
          /\ names[k] \in Outputs /\ res[names[k]] \in Tensors
      BY <1>2
    <2>2. /\ own1 \in Seq(Records) /\ NamesOnce(own1)
          /\ Holds(own1, names[k], res[names[k]])
          /\ \A p \in Outputs \ {names[k]}, u \in Tensors :
               Holds(s.own, p, u) => Holds(own1, p, u)
      BY <2>1, PushKeeps
    <2> HIDE DEF own1
    <2>3. Len(own1) \in Nat /\ Len(own1) <= Cardinality(Outputs)
      BY <2>2, LengthBound
    <2>4. Cardinality(Outputs) \in Nat
      BY SessionAssumption, FS_CardinalityType
    <2>5. Grown(s.buf, Len(own1)) \in Buffers
      BY <2>1, <2>3 DEF Grown, Buffers
    <2>6. Cardinality(Outputs) <= s.buf.capacity => Grown(s.buf, Len(own1)) = s.buf
      BY <2>1, <2>3, <2>4 DEF Grown, Buffers
    <2>7. PushOne(k, s) = [own |-> own1, buf |-> Grown(s.buf, Len(own1))]
      BY DEF own1
    <2> HIDE DEF PushOne
    <2>8. QED
      BY <2>2, <2>5, <2>6, <2>7
  <1>4. start \in S
    OBVIOUS
  <1>5. StaysIn(S, n, step)
    BY <1>3 DEF StaysIn
  <1> HIDE DEF S
  <1>6. \E f : f = [k \in 0 .. Len(names) |->
                      IF k = 0 THEN [own |-> own, buf |-> buf]
                      ELSE LET own1 == Push(f[k - 1].own, names[k], res[names[k]])
                           IN  [own |-> own1, buf |-> Grown(f[k - 1].buf, Len(own1))]]
    <2> HIDE DEF step, start
    <2>1. PICK f \in [0 .. n -> S] : RunOf(f, n, start, step)
      <3> HIDE DEF n
      <3>1. n \in Nat
        BY <1>2
      <3>2. QED
        BY <1>4, <1>5, <3>1, LoopRuns
    <2> USE DEF RunOf
    <2>2. ASSUME NEW k \in 1 .. n PROVE f[k] = PushOne(k, f[k - 1])
      <3>1. <<k, f[k - 1]>> \in (1 .. n) \X S
        <4>1. k - 1 \in 0 .. n
          BY <1>2
        <4> HIDE DEF n
        <4>2. f[k - 1] \in S
          BY <4>1
        <4>3. QED
          BY <4>2
      <3>2. step[<<k, f[k - 1]>>] = PushOne(k, f[k - 1])
        BY <3>1 DEF step
      <3>3. QED
        BY <2>1, <3>2
    <2>3. ASSUME NEW k \in 0 .. n
          PROVE  f[k] = IF k = 0 THEN start ELSE PushOne(k, f[k - 1])
      <3>1. k = 0 \/ k \in 1 .. n
        BY <1>2
      <3> HIDE DEF PushOne
      <3>2. QED
        BY <2>1, <2>2, <3>1
    <2>4. f = [k \in 0 .. n |-> IF k = 0 THEN start ELSE PushOne(k, f[k - 1])]
      <3> HIDE DEF PushOne
      <3>1. QED
        BY <2>3
    <2>5. QED
      BY <2>4 DEF start
  <1>7. after = [k \in 0 .. Len(names) |->
                   IF k = 0 THEN [own |-> own, buf |-> buf]
                   ELSE LET own1 == Push(after[k - 1].own, names[k], res[names[k]])
                        IN  [own |-> own1, buf |-> Grown(after[k - 1].buf, Len(own1))]]
    BY <1>6, Zenon
  <1> HIDE DEF after
  <1>8. \A k \in 0 .. n : after[k] = IF k = 0 THEN start ELSE PushOne(k, after[k - 1])
    BY <1>7, Zenon
  <1> HIDE DEF PushOne, start, step
  <1> DEFINE Fine(k) == /\ after[k] \in S
                        /\ \A j \in 1 .. k : Holds(after[k].own, names[j], res[names[j]])
                        /\ Cardinality(Outputs) <= buf.capacity => after[k].buf = buf
             G == {k \in 0 .. n : Fine(k)}
  <1>9. 0 \in G
    <2>1. 0 \in 0 .. n /\ after[0] = start
      BY <1>2, <1>8
    <2>2. start.buf = buf
      BY DEF start
    <2>3. QED
      BY <1>4, <2>1, <2>2
  <1>10. ASSUME NEW k \in 1 .. n, k - 1 \in G PROVE k \in G
    <2> DEFINE s == after[k - 1]
    <2>1. /\ k \in 0 .. n /\ k # 0 /\ s \in S
          /\ \A j \in 1 .. (k - 1) : Holds(s.own, names[j], res[names[j]])
          /\ Cardinality(Outputs) <= buf.capacity => s.buf = buf
      BY <1>10
    <2>2. after[k] = PushOne(k, s)
      BY <1>8, <2>1
    <2> HIDE DEF s
    <2>3. /\ after[k] \in S /\ Holds(after[k].own, names[k], res[names[k]])
          /\ \A p \in Outputs \ {names[k]}, u \in Tensors :
               Holds(s.own, p, u) => Holds(after[k].own, p, u)
          /\ Cardinality(Outputs) <= s.buf.capacity => after[k].buf = s.buf
      BY <1>3, <2>1, <2>2
    <2>4. ASSUME NEW j \in 1 .. k PROVE Holds(after[k].own, names[j], res[names[j]])
      <3>1. CASE j = k
        BY <2>3, <3>1
      <3>2. CASE j # k
        <4>1. j \in 1 .. (k - 1) /\ j \in 1 .. n
          BY <1>2, <3>2
        <4>2. names[j] \in Outputs \ {names[k]} /\ res[names[j]] \in Tensors
          BY <1>2, <3>2, <4>1
        <4>3. QED
          BY <2>1, <2>3, <4>1, <4>2
      <3>3. QED
        BY <3>1, <3>2
    <2>5. Cardinality(Outputs) <= buf.capacity => after[k].buf = buf
      BY <2>1, <2>3
    <2>6. QED
      BY <2>1, <2>3, <2>4, <2>5
  <1>11. n \in G
    <2>1. \A k \in 1 .. n : k - 1 \in G => k \in G
      BY <1>10
    <2> HIDE DEF G
    <2>2. 0 .. n \subseteq G
      BY <1>2, <1>9, <2>1, LoopInvariant
    <2>3. QED
      BY <1>2, <2>2
  <1>12. \A o \in D : Holds(after[n].own, o, res[o])
    <2>1. TAKE o \in D
    <2>2. PICK k \in 1 .. n : names[k] = o
      BY <1>2
    <2>3. QED
      BY <1>11, <2>2
  <1>13. QED
    BY <1>1, <1>11, <1>12 DEF S

\* With each name once, the first result of a name is the one it holds.
LEMMA FirstIsTheOne ==
  ASSUME NEW own, NamesOnce(own), NEW o, NEW t, Holds(own, o, t)
  PROVE  /\ IndexOf(own, o) # {}
         /\ own[CHOOSE i \in IndexOf(own, o) : \A j \in IndexOf(own, o) : i <= j].tensor = t
  <1>1. PICK i \in 1 .. Len(own) : own[i].name = o /\ own[i].tensor = t
    BY DEF Holds
  <1>2. IndexOf(own, o) = {i}
    BY <1>1 DEF IndexOf, NamesOnce
  <1>3. i \in IndexOf(own, o) /\ \A j \in IndexOf(own, o) : i <= j
    BY <1>1, <1>2
  <1>4. (CHOOSE k \in IndexOf(own, o) : \A j \in IndexOf(own, o) : k <= j) = i
    <2>1. (CHOOSE k \in IndexOf(own, o) : \A j \in IndexOf(own, o) : k <= j) \in IndexOf(own, o)
      BY <1>3
    <2>2. QED
      BY <1>2, <2>1
  <1>5. QED
    BY <1>1, <1>2, <1>4

-----------------------------------------------------------------------------
(***************************************************************************)
(* A run                                                                   *)
(***************************************************************************)

\* What Session's calls rely on in each other.
SInv ==
  /\ STypeOK
  /\ NamesOnce(owned_outputs)
  /\ \A o \in DOMAIN last : Holds(owned_outputs, o, last[o])

\* Tensors bound to names of inputs.
InputSets == UNION {[D -> Cells] : D \in SUBSET (Inputs \cup {Flat})}

\* A graph that runs on something gets a tensor for each input.
LEMMA FedIsTyped ==
  ASSUME NEW ins \in InputSets, Runs(ins), ins # Empty
  PROVE  Fed(ins) \in [Inputs -> Cells]
  <1>1. /\ ins \in [DOMAIN ins -> Cells]
        /\ DOMAIN ins # {}
    <2>1. PICK D \in SUBSET (Inputs \cup {Flat}) : ins \in [D -> Cells]
      BY DEF InputSets
    <2>2. CASE D = {}
      BY <2>1, <2>2 DEF Empty
    <2>3. CASE D # {}
      BY <2>1, <2>3
    <2>4. QED
      BY <2>2, <2>3
  <1>2. CASE Splits(ins)
    <2> DEFINE n == CHOOSE x \in DOMAIN ins : TRUE
    <2>1. n \in DOMAIN ins
      BY <1>1
    <2>2. Fed(ins) = [i \in Inputs |-> IF n = Flat \/ i = First THEN ins[n]
                                       ELSE Cell(ins[n].rows, Garbage)]
      BY <1>2 DEF Fed
    <2> HIDE DEF n
    <2>3. ins[n] \in Cells /\ Cell(ins[n].rows, Garbage) \in Cells
      BY <1>1, <2>1 DEF Cells, Cell
    <2>4. QED
      BY <2>2, <2>3
  <1>3. CASE ~Splits(ins)
    <2>1. Inputs \subseteq DOMAIN ins
      BY <1>3 DEF Runs
    <2>2. Fed(ins) = [i \in Inputs |-> ins[i]]
      BY <1>3 DEF Fed
    <2>3. QED
      BY <1>1, <2>1, <2>2
  <1>4. QED
    BY <1>2, <1>3

\* The results of a run are one tensor for each output the filter lets through.
LEMMA ResultsAreTyped ==
  ASSUME NEW ins \in InputSets, Runs(ins)
  PROVE  /\ DOMAIN Results(ins) \subseteq Outputs
         /\ Results(ins) \in [DOMAIN Results(ins) -> Tensors]
  <1>1. CASE ins = Empty
    <2>1. Results(ins) = Empty /\ DOMAIN Empty = {}
      BY <1>1 DEF Results, Empty
    <2>2. Empty \in [{} -> Tensors]
      BY DEF Empty
    <2>3. QED
      BY <2>1, <2>2
  <1>2. CASE ins # Empty
    <2>1. Results(ins) = [o \in Selected |-> <<o, Fed(ins)>>]
      BY <1>2 DEF Results
    <2>2. Selected \subseteq Outputs /\ Fed(ins) \in [Inputs -> Cells]
      BY <1>2, FedIsTyped DEF Selected
    <2>3. QED
      BY <2>1, <2>2 DEF Tensors
  <1>3. QED
    BY <1>1, <1>2

\* run and take_results: the list stays a list of results with each name once,
\* and holds the results of the last run that succeeded.
LEMMA ExecuteKeeps ==
  ASSUME SInv, NEW ins \in InputSets, Execute(ins)
  PROVE  /\ owned_outputs' \in Seq(Records)
         /\ buffer' \in Buffers
         /\ NamesOnce(owned_outputs')
         /\ DOMAIN last' \subseteq Outputs /\ last' \in [DOMAIN last' -> Tensors]
         /\ \A o \in DOMAIN last' : Holds(owned_outputs', o, last'[o])
         /\ Cardinality(Outputs) <= buffer.capacity => buffer' = buffer
         /\ Runs(ins) => last' = Results(ins)
  <1>1. /\ owned_outputs \in Seq(Records) /\ buffer \in Buffers /\ NamesOnce(owned_outputs)
        /\ DOMAIN last \subseteq Outputs /\ last \in [DOMAIN last -> Tensors]
        /\ \A o \in DOMAIN last : Holds(owned_outputs, o, last[o])
    BY DEF SInv, STypeOK, Records, Buffers
  <1>2. CASE ~Runs(ins)
    <2>1. UNCHANGED <<owned_outputs, buffer, last>>
      BY <1>2 DEF Execute
    <2>2. QED
      BY <1>1, <1>2, <2>1
  <1>3. CASE Runs(ins)
    <2> DEFINE res == Results(ins)
               m   == Moved(owned_outputs, buffer, res)
    <2>1. owned_outputs' = m.own /\ buffer' = m.buf /\ last' = res
      BY <1>3, Zenon DEF Execute
    <2>2. DOMAIN res \in SUBSET Outputs /\ res \in [DOMAIN res -> Tensors]
      BY <1>3, ResultsAreTyped
    <2> HIDE DEF res
    <2>3. /\ m.own \in Seq(Records) /\ NamesOnce(m.own) /\ m.buf \in Buffers
          /\ \A o \in DOMAIN res : Holds(m.own, o, res[o])
          /\ Cardinality(Outputs) <= buffer.capacity => m.buf = buffer
      BY <1>1, <2>2, MovedKeeps
    <2> HIDE DEF m
    <2>4. QED
      BY <2>1, <2>2, <2>3 DEF res
  <1>4. QED
    BY <1>2, <1>3

-----------------------------------------------------------------------------
(***************************************************************************)
(* Frames                                                                  *)
(***************************************************************************)

\* Kept keeps the elements of s that are in T, and nothing else.
LEMMA KeptElements ==
  ASSUME NEW S, NEW s \in Seq(S), NEW T
  PROVE  /\ Kept(s, T) \in Seq(S)
         /\ Len(Kept(s, T)) <= Len(s)
         /\ \A i \in 1 .. Len(Kept(s, T)) : Kept(s, T)[i] \in T
         /\ \A j \in 1 .. Len(s) :
              s[j] \in T => \E i \in 1 .. Len(Kept(s, T)) : Kept(s, T)[i] = s[j]
  <1> DEFINE n == Len(s)
             Q == Seq(S)
             kept == CHOOSE kept :
               kept = [k \in 0 .. Len(s) |->
                         IF k = 0 THEN << >>
                         ELSE IF s[k] \in T THEN Append(kept[k - 1], s[k])
                         ELSE kept[k - 1]]
             One(k, q) == IF s[k] \in T THEN Append(q, s[k]) ELSE q
             step == [p \in (1 .. n) \X Q |-> One(p[1], p[2])]
  <1>1. Kept(s, T) = kept[n]
    BY Zenon DEF Kept
  <1>2. n \in Nat /\ \A k \in 1 .. n : s[k] \in S
    BY LenProperties, ElementOfSeq
  <1>3. ASSUME NEW k \in 1 .. n, NEW q \in Q
        PROVE  /\ One(k, q) \in Q /\ Len(One(k, q)) \in Nat /\ Len(q) \in Nat
               /\ Len(q) <= Len(One(k, q)) /\ Len(One(k, q)) <= Len(q) + 1
               /\ \A i \in 1 .. Len(q) : One(k, q)[i] = q[i]
               /\ s[k] \in T => /\ Len(One(k, q)) = Len(q) + 1
                                /\ One(k, q)[Len(q) + 1] = s[k]
               /\ s[k] \notin T => One(k, q) = q
    <2>1. Len(q) \in Nat
      BY LenProperties
    <2>2. CASE s[k] \in T
      <3>1. One(k, q) = Append(q, s[k])
        BY <2>2
      <3>2. /\ Append(q, s[k]) \in Q /\ Len(Append(q, s[k])) = Len(q) + 1
            /\ \A i \in 1 .. Len(q) : Append(q, s[k])[i] = q[i]
            /\ Append(q, s[k])[Len(q) + 1] = s[k]
        BY <1>2, AppendProperties
      <3> HIDE DEF One
      <3>3. QED
        BY <2>1, <2>2, <3>1, <3>2
    <2>3. CASE s[k] \notin T
      BY <2>1, <2>3
    <2>4. QED
      BY <2>2, <2>3
  <1>4. << >> \in Q /\ Len(<< >>) = 0
    BY EmptySeq
  <1> HIDE DEF Q
  <1>5. StaysIn(Q, n, step)
    BY <1>3 DEF StaysIn
  <1>6. \E f : f = [k \in 0 .. Len(s) |->
                      IF k = 0 THEN << >>
                      ELSE IF s[k] \in T THEN Append(f[k - 1], s[k])
                      ELSE f[k - 1]]
    <2> HIDE DEF step
    <2>1. PICK f \in [0 .. n -> Q] : RunOf(f, n, << >>, step)
      <3> HIDE DEF n
      <3>1. n \in Nat
        BY <1>2
      <3>2. QED
        BY <1>4, <1>5, <3>1, LoopRuns
    <2>2. ASSUME NEW k \in 1 .. n PROVE f[k] = One(k, f[k - 1])
      <3>1. k - 1 \in 0 .. n
        BY <1>2
      <3> HIDE DEF n
      <3>2. f[k - 1] \in Q
        BY <3>1
      <3>3. <<k, f[k - 1]>> \in (1 .. n) \X Q
        BY <3>2
      <3>4. step[<<k, f[k - 1]>>] = One(k, f[k - 1])
        BY <3>3 DEF step
      <3>5. QED
        BY <2>1, <3>4 DEF RunOf
    <2>3. ASSUME NEW k \in 0 .. n
          PROVE  f[k] = IF k = 0 THEN << >> ELSE One(k, f[k - 1])
      <3>1. k = 0 \/ k \in 1 .. n
        BY <1>2
      <3> HIDE DEF One
      <3>2. QED
        BY <2>1, <2>2, <3>1 DEF RunOf
    <2>4. f = [k \in 0 .. n |-> IF k = 0 THEN << >> ELSE One(k, f[k - 1])]
      <3> HIDE DEF One
      <3>1. QED
        BY <2>3
    <2>5. QED
      BY <2>4
  <1>7. kept = [k \in 0 .. Len(s) |->
                  IF k = 0 THEN << >>
                  ELSE IF s[k] \in T THEN Append(kept[k - 1], s[k])
                  ELSE kept[k - 1]]
    BY <1>6, Zenon
  <1> HIDE DEF kept
  <1>8. \A k \in 0 .. n : kept[k] = IF k = 0 THEN << >> ELSE One(k, kept[k - 1])
    BY <1>7, Zenon
  <1> HIDE DEF One, step
  <1> DEFINE G == {k \in 0 .. n :
                     /\ kept[k] \in Q /\ Len(kept[k]) \in Nat /\ Len(kept[k]) <= k
                     /\ \A i \in 1 .. Len(kept[k]) : kept[k][i] \in T
                     /\ \A j \in 1 .. k :
                          s[j] \in T => \E i \in 1 .. Len(kept[k]) : kept[k][i] = s[j]}
  <1>9. 0 \in G
    <2>1. 0 \in 0 .. n /\ kept[0] = << >>
      BY <1>2, <1>8
    <2>2. QED
      BY <1>4, <2>1
  <1>10. ASSUME NEW k \in 1 .. n, k - 1 \in G PROVE k \in G
    <2> DEFINE q == kept[k - 1]
               r == kept[k]
    <2>1. /\ k \in 0 .. n /\ k # 0 /\ q \in Q /\ Len(q) <= k - 1
          /\ \A i \in 1 .. Len(q) : q[i] \in T
          /\ \A j \in 1 .. (k - 1) :
               s[j] \in T => \E i \in 1 .. Len(q) : q[i] = s[j]
      BY <1>10
    <2>2. r = One(k, q)
      BY <1>8, <2>1
    <2> HIDE DEF q, r
    <2>3. /\ r \in Q /\ Len(r) \in Nat /\ Len(q) \in Nat
          /\ Len(q) <= Len(r) /\ Len(r) <= Len(q) + 1
          /\ \A i \in 1 .. Len(q) : r[i] = q[i]
          /\ s[k] \in T => Len(r) = Len(q) + 1 /\ r[Len(q) + 1] = s[k]
          /\ s[k] \notin T => r = q
      BY <1>3, <2>1, <2>2
    <2>4. \A i \in 1 .. Len(r) : r[i] \in T
      <3>1. TAKE i \in 1 .. Len(r)
      <3>2. i \in 1 .. Len(q) \/ (s[k] \in T /\ i = Len(q) + 1)
        BY <2>3
      <3>3. QED
        BY <2>1, <2>3, <3>2
    <2>5. ASSUME NEW j \in 1 .. k, s[j] \in T
          PROVE  \E i \in 1 .. Len(r) : r[i] = s[j]
      <3>1. CASE j = k
        <4>1. Len(q) + 1 \in 1 .. Len(r)
          BY <2>3, <2>5, <3>1
        <4>2. QED
          BY <2>3, <2>5, <3>1, <4>1
      <3>2. CASE j # k
        <4>1. j \in 1 .. (k - 1)
          BY <3>2
        <4>2. PICK i \in 1 .. Len(q) : q[i] = s[j]
          BY <2>1, <2>5, <4>1
        <4>3. i \in 1 .. Len(r) /\ r[i] = s[j]
          BY <2>3, <4>2
        <4>4. QED
          BY <4>3
      <3>3. QED
        BY <3>1, <3>2
    <2>6. Len(r) <= k
      BY <2>1, <2>3
    <2>7. QED
      BY <2>1, <2>3, <2>4, <2>5, <2>6 DEF r
  <1>11. n \in G
    <2>1. \A k \in 1 .. n : k - 1 \in G => k \in G
      BY <1>10
    <2> HIDE DEF G
    <2>2. 0 .. n \subseteq G
      BY <1>2, <1>9, <2>1, LoopInvariant
    <2>3. QED
      BY <1>2, <2>2
  <1>12. QED
    BY <1>1, <1>11 DEF Q

\* The places of a frame's columns in its blocks, looked up afresh.
PlacesIn(f) ==
  [c \in Inputs |->
     LET b == Blocks(f)
     IN  CHOOSE p \in (1 .. Len(b)) \X (1 .. Cardinality(Inputs)) :
           p[2] <= Len(b[p[1]]) /\ b[p[1]][p[2]] = c]

\* Every column of a frame is in one of its blocks, at the place looked up.
LEMMA PlacesAreRight ==
  ASSUME NEW f \in Scored \cup Strings
  PROVE  /\ Len(Blocks(f)) \in Nat
         /\ \A k \in 1 .. Len(Blocks(f)) : Blocks(f)[k] \in Seq(Inputs)
         /\ \A c \in Inputs :
              LET p == PlacesIn(f)[c]
              IN  /\ p \in (Nat \ {0}) \X (Nat \ {0})
                  /\ p[1] <= Len(Blocks(f)) /\ p[2] <= Len(Blocks(f)[p[1]])
                  /\ Blocks(f)[p[1]][p[2]] = c
  <1> DEFINE N == Cardinality(Inputs)
             All == {"float32", "float64", "int64", "object"}
             dtypes == Kept(DTypeNames, {f.dtype[c] : c \in Inputs})
             b == Blocks(f)
             Of(k) == Kept(f.columns, {c \in Inputs : f.dtype[c] = dtypes[k]})
  <1>1. N \in Nat
    BY SessionAssumption, FS_CardinalityType
  <1>2. /\ f.columns \in Seq(Inputs) /\ Len(f.columns) = N
        /\ \A c \in Inputs : \E i \in 1 .. N : f.columns[i] = c
        /\ f.dtype \in [Inputs -> All]
    <2>1. /\ f.columns \in [1 .. N -> Inputs] /\ Range(f.columns) = Inputs
          /\ f.dtype \in [Inputs -> All]
      BY PyAssumption
    <2> HIDE DEF N
    <2>2. QED
      BY <1>1, <2>1 DEF Range
  <1> HIDE DEF N
  <1>3. /\ DTypeNames \in Seq(All) /\ Len(DTypeNames) = 4
        /\ \A d \in All : \E j \in 1 .. 4 : DTypeNames[j] = d
    <2>1. DTypeNames \in Seq(All) /\ Len(DTypeNames) = 4
      BY DEF DTypeNames
    <2>2. /\ DTypeNames[1] = "float32" /\ DTypeNames[2] = "float64"
          /\ DTypeNames[3] = "int64" /\ DTypeNames[4] = "object"
      BY DEF DTypeNames
    <2>3. 1 \in 1 .. 4 /\ 2 \in 1 .. 4 /\ 3 \in 1 .. 4 /\ 4 \in 1 .. 4
      OBVIOUS
    <2>4. QED
      BY <2>1, <2>2, <2>3
  <1>4. /\ dtypes \in Seq(All) /\ Len(dtypes) \in Nat
        /\ \A c \in Inputs : \E k \in 1 .. Len(dtypes) : dtypes[k] = f.dtype[c]
    <2>1. /\ dtypes \in Seq(All)
          /\ \A j \in 1 .. Len(DTypeNames) :
               DTypeNames[j] \in {f.dtype[c] : c \in Inputs} =>
                 \E k \in 1 .. Len(dtypes) : dtypes[k] = DTypeNames[j]
      <3> DEFINE U == {f.dtype[c] : c \in Inputs}
      <3> SUFFICES
            /\ Kept(DTypeNames, U) \in Seq(All)
            /\ \A j \in 1 .. Len(DTypeNames) :
                 DTypeNames[j] \in U =>
                   \E k \in 1 .. Len(Kept(DTypeNames, U)) : Kept(DTypeNames, U)[k] = DTypeNames[j]
        BY Zenon
      <3> HIDE DEF U, All
      <3>1. DTypeNames \in Seq(All)
        BY <1>3
      <3>2. QED
        BY <3>1, KeptElements
    <2>2. Len(dtypes) \in Nat
      BY <2>1, LenProperties
    <2>3. ASSUME NEW c \in Inputs PROVE \E k \in 1 .. Len(dtypes) : dtypes[k] = f.dtype[c]
      <3> HIDE DEF dtypes
      <3>1. f.dtype[c] \in All
        BY <1>2
      <3>2. PICK j \in 1 .. 4 : DTypeNames[j] = f.dtype[c]
        BY <1>3, <3>1
      <3>3. j \in 1 .. Len(DTypeNames)
        BY <1>3
      <3>4. QED
        BY <2>1, <3>2, <3>3
    <2>4. QED
      BY <2>1, <2>2, <2>3
  <1>5. b = [k \in 1 .. Len(dtypes) |-> Of(k)]
    BY Zenon DEF Blocks
  <1> HIDE DEF dtypes, b
  <1>6. ASSUME NEW k \in 1 .. Len(dtypes)
        PROVE  /\ Of(k) \in Seq(Inputs) /\ Len(Of(k)) \in Nat /\ Len(Of(k)) <= N
               /\ \A c \in Inputs :
                    f.dtype[c] = dtypes[k] => \E i \in 1 .. Len(Of(k)) : Of(k)[i] = c
    <2> DEFINE T == {c \in Inputs : f.dtype[c] = dtypes[k]}
               q == Kept(f.columns, T)
    <2>1. /\ q \in Seq(Inputs) /\ Len(q) <= Len(f.columns)
          /\ \A j \in 1 .. Len(f.columns) :
               f.columns[j] \in T => \E i \in 1 .. Len(q) : q[i] = f.columns[j]
      <3> HIDE DEF T
      <3>1. f.columns \in Seq(Inputs)
        BY <1>2
      <3>2. QED
        BY <3>1, KeptElements
    <2>2. Len(q) \in Nat
      BY <2>1, LenProperties
    <2> HIDE DEF q
    <2>3. ASSUME NEW c \in Inputs, f.dtype[c] = dtypes[k]
          PROVE  \E i \in 1 .. Len(q) : q[i] = c
      <3>1. PICK j \in 1 .. N : f.columns[j] = c
        BY <1>2
      <3>2. f.columns[j] \in T /\ j \in 1 .. Len(f.columns)
        BY <1>2, <2>3, <3>1
      <3>3. QED
        BY <2>1, <3>1, <3>2
    <2>4. QED
      BY <1>2, <2>1, <2>2, <2>3 DEF q
  <1> HIDE DEF Of
  <1>7. Len(b) = Len(dtypes) /\ Len(b) \in Nat /\ \A k \in 1 .. Len(b) : b[k] = Of(k)
    BY <1>4, <1>5
  <1>8. ASSUME NEW c \in Inputs
        PROVE  LET p == PlacesIn(f)[c]
               IN  /\ p \in (Nat \ {0}) \X (Nat \ {0})
                   /\ p[1] <= Len(b) /\ p[2] <= Len(b[p[1]])
                   /\ b[p[1]][p[2]] = c
    <2> DEFINE D == (1 .. Len(b)) \X (1 .. N)
               p == CHOOSE p \in D : p[2] <= Len(b[p[1]]) /\ b[p[1]][p[2]] = c
    <2>1. PICK k \in 1 .. Len(dtypes) : dtypes[k] = f.dtype[c]
      BY <1>4
    <2>2. PICK i \in 1 .. Len(Of(k)) : Of(k)[i] = c
      BY <1>6, <2>1
    <2>3. k \in 1 .. Len(b) /\ i \in 1 .. N /\ b[k] = Of(k) /\ i <= Len(b[k])
      BY <1>1, <1>6, <1>7, <2>1, <2>2
    <2>4. <<k, i>> \in D /\ <<k, i>>[2] <= Len(b[<<k, i>>[1]]) /\ b[<<k, i>>[1]][<<k, i>>[2]] = c
      BY <2>2, <2>3
    <2>5. p \in D /\ p[2] <= Len(b[p[1]]) /\ b[p[1]][p[2]] = c
      <3> HIDE DEF D
      <3>1. \E r \in D : r[2] <= Len(b[r[1]]) /\ b[r[1]][r[2]] = c
        BY <2>4
      <3>2. QED
        BY <3>1, Zenon
    <2>6. PlacesIn(f)[c] = p
      BY DEF PlacesIn, N, b
    <2> HIDE DEF p
    <2>7. QED
      BY <1>1, <1>7, <2>5, <2>6
  <1>9. QED
    BY <1>6, <1>7, <1>8 DEF b

\* What a cache entry may hold: the places of the columns of a frame the session
\* has scored, under the columns' names.
Caches == {[key |-> g.columns, at |-> PlacesIn(g)] : g \in Scored}

\* Whatever is cached, the columns taken are columns of the frame.
LEMMA TakenIsTyped ==
  ASSUME NEW f \in Scored, cached # None => cached \in Caches
  PROVE  /\ Taken(f) \in [Inputs -> Inputs]
         /\ [key |-> f.columns, at |-> Positions(f)] \in Caches
  <1> DEFINE b  == Blocks(f)
             at == Positions(f)
  <1>1. PICK g \in Scored : g.columns = f.columns /\ at = PlacesIn(g)
    <2>1. CASE cached # None /\ cached.key = f.columns
      <3>1. PICK g \in Scored : cached = [key |-> g.columns, at |-> PlacesIn(g)]
        BY <2>1 DEF Caches
      <3>2. at = PlacesIn(g) /\ g.columns = f.columns
        BY <2>1, <3>1 DEF Positions
      <3>3. QED
        BY <3>2
    <2>2. CASE ~(cached # None /\ cached.key = f.columns)
      <3>1. at = PlacesIn(f)
        BY <2>2 DEF Positions, PlacesIn
      <3>2. QED
        BY <3>1
    <2>3. QED
      BY <2>1, <2>2
  <1>2. \A c \in Inputs : at[c] \in (Nat \ {0}) \X (Nat \ {0})
    BY <1>1, PlacesAreRight
  <1>3. Len(b) \in Nat /\ \A k \in 1 .. Len(b) : b[k] \in Seq(Inputs)
    BY PlacesAreRight
  <1>4. Taken(f) = IF \A c \in Inputs : at[c][1] <= Len(b) /\ at[c][2] <= Len(b[at[c][1]])
                   THEN [c \in Inputs |-> b[at[c][1]][at[c][2]]]
                   ELSE [c \in Inputs |-> c]
    BY Zenon DEF Taken
  <1> HIDE DEF at, b
  <1>5. ASSUME \A c \in Inputs : at[c][1] <= Len(b) /\ at[c][2] <= Len(b[at[c][1]]),
               NEW c \in Inputs
        PROVE  b[at[c][1]][at[c][2]] \in Inputs
    <2>1. at[c][1] \in 1 .. Len(b) /\ at[c][2] \in Nat \ {0}
      BY <1>2, <1>3, <1>5
    <2>2. b[at[c][1]] \in Seq(Inputs)
      BY <1>3, <2>1
    <2>3. at[c][2] \in 1 .. Len(b[at[c][1]])
      BY <1>5, <2>1, <2>2, LenProperties
    <2>4. QED
      BY <2>2, <2>3, ElementOfSeq
  <1>6. Taken(f) \in [Inputs -> Inputs]
    BY <1>4, <1>5
  <1>7. [key |-> f.columns, at |-> Positions(f)] \in Caches
    BY <1>1 DEF Caches, at
  <1>8. QED
    BY <1>6, <1>7

\* Frames that name the same columns in the same order keep them in the same
\* blocks (PyMixed's frames do not), and every column comes in the type the
\* session registered for it.
SameLayouts == \A f, g \in Scored : f.columns = g.columns => Blocks(f) = Blocks(g)
RightTypes  == \A f \in Scored : \A i \in Inputs : LentAs(f.dtype[i]) = ColTypes[i]

\* Then the columns taken are the ones named.
LEMMA TakenIsRight ==
  ASSUME SameLayouts, NEW f \in Scored, cached # None => cached \in Caches
  PROVE  Taken(f) = [c \in Inputs |-> c]
  <1> DEFINE b  == Blocks(f)
             at == Positions(f)
  <1>1. at = PlacesIn(f)
    <2>1. CASE cached # None /\ cached.key = f.columns
      <3>1. PICK g \in Scored : cached = [key |-> g.columns, at |-> PlacesIn(g)]
        BY <2>1 DEF Caches
      <3>2. at = PlacesIn(g) /\ g.columns = f.columns
        BY <2>1, <3>1 DEF Positions
      <3>3. Blocks(g) = Blocks(f)
        BY <3>2 DEF SameLayouts
      <3>4. PlacesIn(g) = PlacesIn(f)
        BY <3>3 DEF PlacesIn
      <3>5. QED
        BY <3>2, <3>4
    <2>2. CASE ~(cached # None /\ cached.key = f.columns)
      BY <2>2 DEF Positions, PlacesIn
    <2>3. QED
      BY <2>1, <2>2
  <1>2. \A c \in Inputs : /\ at[c][1] <= Len(b) /\ at[c][2] <= Len(b[at[c][1]])
                          /\ b[at[c][1]][at[c][2]] = c
    BY <1>1, PlacesAreRight
  <1>3. Taken(f) = IF \A c \in Inputs : at[c][1] <= Len(b) /\ at[c][2] <= Len(b[at[c][1]])
                   THEN [c \in Inputs |-> b[at[c][1]][at[c][2]]]
                   ELSE [c \in Inputs |-> c]
    BY Zenon DEF Taken
  <1> HIDE DEF at, b
  <1>4. QED
    BY <1>2, <1>3

-----------------------------------------------------------------------------
(***************************************************************************)
(* The calls                                                               *)
(***************************************************************************)

\* The part of SInv that a run does not touch, and the part it does.
CallTypes ==
  /\ DOMAIN bound_inputs \subseteq Inputs \cup {Flat}
  /\ bound_inputs \in [DOMAIN bound_inputs -> Cells]
  /\ bound_outputs \subseteq Outputs \cup {Other}
  /\ \/ reg_cols = None
     \/ reg_cols \in [types : [Inputs -> {"f32", "f64", "str"}], rows : Nat,
                      cells : [Inputs -> Cells], out : Outputs]
  /\ reply.status \in {"ok", "error", "not_found"}
RunTypes ==
  /\ owned_outputs \in Seq(Records)
  /\ buffer \in Buffers
  /\ NamesOnce(owned_outputs)
  /\ DOMAIN last \subseteq Outputs /\ last \in [DOMAIN last -> Tensors]
  /\ \A o \in DOMAIN last : Holds(owned_outputs, o, last[o])

LEMMA TwoParts ==
  /\ SInv <=> CallTypes /\ RunTypes
  /\ SInv' <=> CallTypes' /\ RunTypes'
  BY DEF SInv, STypeOK, CallTypes, RunTypes, Records, Buffers

\* A Python session is the one its __init__ made: no output is ever bound, and
\* the schema is the one registered there.
PyInv ==
  client = "python" =>
    /\ bound_outputs = {}
    /\ reg_cols # None => reg_cols.types = ColTypes /\ reg_cols.out \in Asked
    /\ cached # None => cached \in Caches

\* A call runs on tensors bound to names of inputs, or keeps off the results.
RunsOn(ins) == ins \in InputSets /\ Execute(ins)
Quiet == UNCHANGED <<owned_outputs, buffer, last>>

LEMMA RunKeeps ==
  ASSUME SInv, Quiet \/ \E ins : RunsOn(ins)
  PROVE  RunTypes' /\ (Cardinality(Outputs) <= buffer.capacity => buffer' = buffer)
  <1>1. CASE Quiet
    BY <1>1, TwoParts DEF RunTypes, Quiet
  <1>2. CASE \E ins : RunsOn(ins)
    <2>1. PICK ins \in InputSets : Execute(ins)
      BY <1>2 DEF RunsOn
    <2>2. QED
      BY <2>1, ExecuteKeeps DEF RunTypes
  <1>3. QED
    BY <1>1, <1>2

\* What a call binds is a set of inputs.
LEMMA BoundIsTyped ==
  /\ CallTypes => bound_inputs \in InputSets
  /\ \A f \in [Inputs -> Cells] : f \in InputSets /\ f # Empty /\ Runs(f) /\ Fed(f) = f
  <1>1. ASSUME CallTypes PROVE bound_inputs \in InputSets
    BY <1>1 DEF CallTypes, InputSets
  <1>2. ASSUME NEW f \in [Inputs -> Cells]
        PROVE  f \in InputSets /\ f # Empty /\ Runs(f) /\ Fed(f) = f
    <2>1. f \in InputSets
      BY DEF InputSets
    <2>2. DOMAIN f = Inputs /\ First \in Inputs
      BY SessionAssumption
    <2>3. f # Empty /\ Runs(f) /\ ~Splits(f)
      BY <2>2 DEF Empty, Runs, Splits, SlotsPresent
    <2>4. Fed(f) = f
      BY <2>3 DEF Fed
    <2>5. QED
      BY <2>1, <2>3, <2>4
  <1>3. QED
    BY <1>1, <1>2

\* The tensors a column call builds, and those predict_registered fills.
LEMMA ColumnsAreTyped ==
  ASSUME NEW n \in Nat, NEW data \in [Inputs -> Vals \cup {Null}]
  PROVE  [i \in Inputs |-> Fresh(n, data[i])] \in [Inputs -> Cells]
  <1>1. \A i \in Inputs : Fresh(n, data[i]) \in Cells
    BY DEF Fresh, Cell, Cells
  <1>2. QED
    BY <1>1

LEMMA FilledIsTyped ==
  ASSUME CallTypes, reg_cols # None,
         NEW n \in Nat, NEW data \in [Inputs -> Vals \cup {Null}], NEW types
  PROVE  Filled(n, types, data) \in [Inputs -> Cells]
  <1>1. reg_cols.rows \in Nat /\ \A i \in Inputs : reg_cols.cells[i] \in Cells
    BY DEF CallTypes
  <1>2. ASSUME NEW i \in Inputs
        PROVE  /\ data[i] # Null => Cell(n, ReadAs(reg_cols.types[i], types[i], data[i])) \in Cells
               /\ Cell(n, Zeros) \in Cells
    BY DEF ReadAs, Cell, Cells
  <1>3. QED
    BY <1>1, <1>2 DEF Filled

\* What a call answers with is one of three results, and is the output asked
\* for, of the data the graph was fed.
LEMMA WriteIsTyped ==
  ASSUME NEW ins, NEW o, NEW data, Write(ins, o, data)
  PROVE  reply'.status \in {"ok", "error", "not_found"}
  <1>1. PICK found : /\ \/ Done("error") \/ Done("not_found")
                        \/ reply' = [status |-> "ok", want |-> <<o, data>>,
                                     got |-> owned_outputs'[CHOOSE i \in found : \A j \in found : i <= j].tensor]
    BY Zenon DEF Write
  <1>2. QED
    BY <1>1 DEF Done

LEMMA WriteRight ==
  ASSUME SInv, NEW ins \in InputSets, ins # Empty, Execute(ins),
         NEW o \in Outputs, NEW data, Write(ins, o, data),
         Runs(ins) => Fed(ins) = data
  PROVE  /\ WritesThisCall'
         /\ Runs(ins) /\ o \in Selected =>
              reply'.status = "ok" /\ reply'.got = <<o, data>>
  <1> DEFINE found == IndexOf(owned_outputs', o)
             at    == CHOOSE i \in found : \A j \in found : i <= j
  <1>1. CASE ~Runs(ins)
    <2>1. reply'.want = None
      BY <1>1 DEF Write, Done
    <2>2. QED
      BY <1>1, <2>1 DEF WritesThisCall
  <1>2. CASE Runs(ins)
    <2>1. last' = [p \in Selected |-> <<p, Fed(ins)>>]
      BY <1>2, ExecuteKeeps DEF Results
    <2>2. NamesOnce(owned_outputs') /\ \A p \in DOMAIN last' : Holds(owned_outputs', p, last'[p])
      BY ExecuteKeeps
    <2>3. ASSUME o \in Selected
          PROVE  found # {} /\ owned_outputs'[at].tensor = <<o, data>>
      <3>1. Holds(owned_outputs', o, <<o, data>>)
        BY <1>2, <2>1, <2>2, <2>3
      <3>2. QED
        BY <2>2, <3>1, FirstIsTheOne
    <2>4. CASE found = {}
      <3>1. reply'.want = None
        BY <1>2, <2>4 DEF Write, Done
      <3>2. QED
        BY <2>3, <2>4, <3>1 DEF WritesThisCall
    <2>5. CASE found # {}
      <3>1. reply' = [status |-> "ok", want |-> <<o, data>>, got |-> owned_outputs'[at].tensor]
        BY <1>2, <2>5, Zenon DEF Write
      <3> HIDE DEF at, found
      <3>2. QED
        BY <2>1, <2>3, <3>1 DEF WritesThisCall
    <2>6. QED
      BY <2>4, <2>5
  <1>3. QED
    BY <1>1, <1>2

-----------------------------------------------------------------------------
(***************************************************************************)
(* The steps                                                               *)
(***************************************************************************)

\* predict_registered: the tensors it fills are inputs, and they are the data
\* it was given where no column is NULL and the types are the registered ones.
LEMMA RegisteredKeeps ==
  ASSUME SInv, NEW n \in Nat, NEW data \in [Inputs -> Vals \cup {Null}], NEW types,
         PredictRegistered(n, types, data)
  PROVE  /\ CallTypes' /\ \E ins : RunsOn(ins)
         /\ reg_cols'.types = reg_cols.types /\ reg_cols'.out = reg_cols.out
         /\ (\A i \in Inputs : data[i] # Null /\ reg_cols.types[i] = types[i]) =>
              /\ WritesThisCall'
              /\ reg_cols.out \in Selected =>
                   /\ reply'.status = "ok"
                   /\ reply'.got = <<reg_cols.out, [i \in Inputs |-> Fresh(n, data[i])]>>
  <1> DEFINE ins  == Filled(n, types, data)
             want == [i \in Inputs |-> Fresh(n, data[i])]
  <1>1. /\ reg_cols # None
        /\ reg_cols' = [reg_cols EXCEPT !.cells = ins, !.rows = n]
        /\ Execute(ins) /\ Write(ins, reg_cols.out, want)
        /\ UNCHANGED <<bound_inputs, bound_outputs>>
    BY DEF PredictRegistered
  <1>2. CallTypes
    BY TwoParts
  <1>3. ins \in [Inputs -> Cells]
    BY <1>1, <1>2, FilledIsTyped
  <1>4. reply'.status \in {"ok", "error", "not_found"}
    BY <1>1, WriteIsTyped
  <1>5. reg_cols.out \in Outputs
    BY <1>1, <1>2 DEF CallTypes
  <1>6. ASSUME \A i \in Inputs : data[i] # Null /\ reg_cols.types[i] = types[i]
        PROVE  ins = want
    BY <1>6 DEF Filled, Fresh, ReadAs
  <1> HIDE DEF ins, want
  <1>7. CallTypes'
    BY <1>1, <1>2, <1>3, <1>4 DEF CallTypes
  <1>8. reg_cols'.types = reg_cols.types /\ reg_cols'.out = reg_cols.out
    BY <1>1, <1>2 DEF CallTypes
  <1>9. ins \in InputSets /\ ins # Empty /\ Runs(ins) /\ Fed(ins) = ins
    BY <1>3, BoundIsTyped
  <1>10. RunsOn(ins)
    BY <1>1, <1>9 DEF RunsOn
  <1>11. ASSUME ins = want
         PROVE  /\ WritesThisCall'
                /\ reg_cols.out \in Selected =>
                     reply'.status = "ok" /\ reply'.got = <<reg_cols.out, want>>
    <2>1. Runs(ins) => Fed(ins) = want
      BY <1>9, <1>11
    <2>2. /\ WritesThisCall'
          /\ Runs(ins) /\ reg_cols.out \in Selected =>
               reply'.status = "ok" /\ reply'.got = <<reg_cols.out, want>>
      BY <1>1, <1>5, <1>9, <2>1, WriteRight
    <2>3. QED
      BY <1>9, <2>2
  <1>12. QED
    BY <1>6, <1>7, <1>8, <1>10, <1>11 DEF want

\* The calls of a C client.
LEMMA CallsKeep ==
  ASSUME SInv, SNext
  PROVE  /\ CallTypes' /\ (Quiet \/ \E ins : RunsOn(ins))
         /\ Null \notin Lent => WritesThisCall'
  <1> USE DEF Quiet
  <1>1. CallTypes /\ bound_inputs \in InputSets
    BY TwoParts, BoundIsTyped
  <1>2. ASSUME NEW status \in {"ok", "error", "not_found"}, Done(status)
        PROVE  reply'.status \in {"ok", "error", "not_found"} /\ WritesThisCall'
    BY <1>2 DEF Done, WritesThisCall
  <1>3. CASE Bind
    <2>1. ASSUME NEW n \in Inputs \cup {Flat}, NEW v \in Vals, BindInput(n, v)
          PROVE  CallTypes' /\ Quiet /\ WritesThisCall'
      <3>1. Cell(1, v) \in Cells
        BY DEF Cell, Cells
      <3>2. reply'.status \in {"ok", "error", "not_found"} /\ WritesThisCall'
        BY <1>2, <2>1 DEF BindInput
      <3>3. /\ DOMAIN bound_inputs' \subseteq Inputs \cup {Flat}
            /\ bound_inputs' \in [DOMAIN bound_inputs' -> Cells]
        BY <1>1, <2>1, <3>1 DEF BindInput, CallTypes
      <3>4. QED
        BY <1>1, <2>1, <3>2, <3>3 DEF BindInput, CallTypes
    <2>2. ASSUME ClearInputs PROVE CallTypes' /\ Quiet /\ WritesThisCall'
      <3>1. reply'.status \in {"ok", "error", "not_found"} /\ WritesThisCall'
        BY <1>2, <2>2 DEF ClearInputs
      <3>2. DOMAIN bound_inputs' = {} /\ bound_inputs' \in [{} -> Cells]
        BY <2>2 DEF ClearInputs, Empty
      <3>3. QED
        BY <1>1, <2>2, <3>1, <3>2 DEF ClearInputs, CallTypes
    <2>3. QED
      BY <1>3, <2>1, <2>2 DEF Bind
  <1>4. CASE Run
    <2>1. reply'.status \in {"ok", "error", "not_found"} /\ WritesThisCall'
      BY <1>2, <1>4 DEF Run
    <2>2. RunsOn(bound_inputs)
      BY <1>1, <1>4 DEF Run, RunsOn
    <2>3. QED
      BY <1>1, <1>4, <2>1, <2>2 DEF Run, CallTypes
  <1>5. CASE Ask
    <2>1. PICK o \in Outputs : GetOutput(o) \/ GetOutputFails(o)
      BY <1>5 DEF Ask
    <2>2. reply'.status \in {"ok", "error", "not_found"} /\ WritesThisCall'
      BY <1>2, <2>1 DEF GetOutput, GetOutputFails
    <2>3. QED
      BY <1>1, <2>1, <2>2 DEF GetOutput, GetOutputFails, CallTypes
  <1>6. CASE Choose
    <2>1. reply'.status \in {"ok", "error", "not_found"} /\ WritesThisCall'
      BY <1>2, <1>6 DEF Choose, BindOutput, ClearOutputs
    <2>2. QED
      BY <1>1, <1>6, <2>1 DEF Choose, BindOutput, ClearOutputs, CallTypes
  <1>7. CASE Predict
    <2>1. ASSUME NEW v \in Vals, NEW o \in Asked, PredictF32(Flat, v, o)
          PROVE  CallTypes' /\ (\E ins : RunsOn(ins)) /\ WritesThisCall'
      <3> DEFINE ins  == [m \in {Flat} |-> Cell(1, v)]
                 data == [i \in Inputs |-> Cell(1, v)]
      <3>1. /\ bound_inputs' = ins /\ Execute(ins) /\ Write(ins, o, data)
            /\ UNCHANGED <<bound_outputs, reg_cols>>
        BY <2>1 DEF PredictF32
      <3>2. Cell(1, v) \in Cells
        BY DEF Cell, Cells
      <3>3. /\ ins \in InputSets /\ ins # Empty
            /\ DOMAIN ins \subseteq Inputs \cup {Flat} /\ ins \in [DOMAIN ins -> Cells]
        <4>1. ins \in [{Flat} -> Cells] /\ DOMAIN ins = {Flat}
          BY <3>2
        <4>2. ins \in InputSets
          BY <4>1 DEF InputSets
        <4>3. ins # Empty
          BY <4>1 DEF Empty
        <4>4. QED
          BY <4>1, <4>2, <4>3
      <3>4. Fed(ins) = data
        <4>1. First # Flat /\ DOMAIN ins = {Flat}
          BY SessionAssumption
        <4>2. Cardinality(DOMAIN ins) = 1
          BY <4>1, FS_Singleton
        <4>3. Splits(ins)
          BY <4>1, <4>2 DEF Splits, SlotsPresent
        <4> DEFINE n == CHOOSE x \in DOMAIN ins : TRUE
        <4>4. n = Flat
          BY <4>1
        <4>5. Fed(ins) = [i \in Inputs |-> IF n = Flat \/ i = First THEN ins[n]
                                           ELSE Cell(ins[n].rows, Garbage)]
          BY <4>3 DEF Fed
        <4> HIDE DEF n
        <4>6. ins[n] = Cell(1, v)
          BY <4>4
        <4> HIDE DEF ins
        <4>7. QED
          BY <4>4, <4>5, <4>6
      <3> HIDE DEF ins, data
      <3>5. reply'.status \in {"ok", "error", "not_found"}
        BY <3>1, WriteIsTyped
      <3>6. o \in Outputs /\ (Runs(ins) => Fed(ins) = data)
        BY <3>4, SessionAssumption
      <3>7. WritesThisCall'
        BY <3>1, <3>3, <3>6, WriteRight
      <3>8. RunsOn(ins)
        BY <3>1, <3>3 DEF RunsOn
      <3>9. QED
        BY <1>1, <3>1, <3>3, <3>5, <3>7, <3>8 DEF CallTypes
    <2>2. ASSUME NEW n \in RowCounts, NEW data \in [Inputs -> Lent], NEW o \in Asked,
                 BindColumns(n, data) \/ PredictColumns(n, data, o)
          PROVE  CallTypes' /\ (Quiet \/ \E ins : RunsOn(ins)) /\ WritesThisCall'
      <3> DEFINE ins == [i \in Inputs |-> Fresh(n, data[i])]
      <3>1. n \in Nat /\ data \in [Inputs -> Vals \cup {Null}] /\ o \in Outputs
        BY SessionAssumption
      <3>2. ins \in [Inputs -> Cells]
        BY <3>1, ColumnsAreTyped
      <3>3. CASE BindColumns(n, data)
        <4>1. reply'.status \in {"ok", "error", "not_found"} /\ WritesThisCall'
          BY <1>2, <3>3 DEF BindColumns
        <4>2. bound_inputs' = ins
          BY <3>3 DEF BindColumns
        <4> HIDE DEF ins
        <4>3. QED
          BY <1>1, <3>2, <3>3, <4>1, <4>2 DEF BindColumns, CallTypes
      <3>4. CASE PredictColumns(n, data, o)
        <4>1. /\ bound_inputs' = ins /\ Execute(ins) /\ Write(ins, o, ins)
              /\ UNCHANGED <<bound_outputs, reg_cols>>
          BY <3>4 DEF PredictColumns
        <4> HIDE DEF ins
        <4>2. ins \in InputSets /\ ins # Empty /\ Runs(ins) /\ Fed(ins) = ins
          BY <3>2, BoundIsTyped
        <4>3. reply'.status \in {"ok", "error", "not_found"}
          BY <4>1, WriteIsTyped
        <4>4. WritesThisCall'
          BY <3>1, <4>1, <4>2, WriteRight
        <4>5. RunsOn(ins)
          BY <4>1, <4>2 DEF RunsOn
        <4>6. QED
          BY <1>1, <3>2, <4>1, <4>3, <4>4, <4>5 DEF CallTypes
      <3>5. QED
        BY <2>2, <3>3, <3>4
    <2>3. QED
      BY <1>7, <2>1, <2>2 DEF Predict
  <1>8. CASE Registered
    <2>1. ASSUME NEW types \in [Inputs -> Types], NEW o \in Asked, RegisterColumns(types, o)
          PROVE  CallTypes' /\ Quiet /\ WritesThisCall'
      <3>1. reply'.status \in {"ok", "error", "not_found"} /\ WritesThisCall'
        BY <1>2, <2>1 DEF RegisterColumns
      <3>2. types \in [Inputs -> {"f32", "f64", "str"}] /\ o \in Outputs
        BY SessionAssumption
      <3>3. Cell(1, Zeros) \in Cells
        BY DEF Cell, Cells
      <3>4. Schema(types, o) \in [types : [Inputs -> {"f32", "f64", "str"}], rows : Nat,
                                  cells : [Inputs -> Cells], out : Outputs]
        BY <3>2, <3>3 DEF Schema
      <3>5. QED
        BY <1>1, <2>1, <3>1, <3>4 DEF RegisterColumns, CallTypes
    <2>2. ASSUME NEW n \in RowCounts, NEW data \in [Inputs -> Lent],
                 reg_cols # None, PredictRegistered(n, reg_cols.types, data)
          PROVE  /\ CallTypes' /\ \E ins : RunsOn(ins)
                 /\ Null \notin Lent => WritesThisCall'
      <3>1. n \in Nat /\ data \in [Inputs -> Vals \cup {Null}]
        BY SessionAssumption
      <3>2. Null \notin Lent => \A i \in Inputs : data[i] # Null
        OBVIOUS
      <3>3. QED
        BY <2>2, <3>1, <3>2, RegisteredKeeps
    <2>3. ASSUME PredictUnregistered PROVE CallTypes' /\ Quiet /\ WritesThisCall'
      <3>1. reply'.status \in {"ok", "error", "not_found"} /\ WritesThisCall'
        BY <1>2, <2>3 DEF PredictUnregistered
      <3>2. QED
        BY <1>1, <2>3, <3>1 DEF PredictUnregistered, CallTypes
    <2>4. QED
      BY <1>8, <2>1, <2>2, <2>3 DEF Registered
  <1>9. QED
    BY <1>3, <1>4, <1>5, <1>6, <1>7, <1>8 DEF SNext

\* The calls of a Python session.
LEMMA ProbaKeeps ==
  ASSUME SInv, PyInv, client = "python", client' = client,
         NEW n \in Batches, NEW f \in Scored, PredictProba(n, f)
  PROVE  /\ CallTypes' /\ (\E ins : RunsOn(ins)) /\ PyInv'
         /\ SameLayouts /\ RightTypes => WritesThisCall' /\ ProbaOfThisFrame'
  <1> DEFINE took  == Taken(f)
             types == [i \in Inputs |-> LentAs(f.dtype[took[i]])]
  <1>1. /\ PredictRegistered(n, types, took)
        /\ cached' = [key |-> f.columns, at |-> Positions(f)]
        /\ asked' = [i \in Inputs |-> Cell(n, i)]
    BY DEF PredictProba
  <1>2. reg_cols # None /\ UNCHANGED bound_outputs
    BY <1>1 DEF PredictRegistered
  <1>3. /\ bound_outputs = {} /\ (cached # None => cached \in Caches)
        /\ reg_cols.types = ColTypes /\ reg_cols.out \in Asked
    BY <1>2 DEF PyInv
  <1>4. /\ took \in [Inputs -> Inputs]
        /\ [key |-> f.columns, at |-> Positions(f)] \in Caches
    BY <1>3, TakenIsTyped
  <1>5. Vals = Inputs /\ n \in Nat /\ Null \notin Vals
    BY PyAssumption, SessionAssumption
  <1>6. took \in [Inputs -> Vals \cup {Null}]
    BY <1>4, <1>5
  <1>7. SameLayouts => took = [c \in Inputs |-> c]
    BY <1>3, TakenIsRight
  <1>8. reg_cols.out \in Selected
    BY <1>3, SessionAssumption DEF Selected
  <1>9. SameLayouts /\ RightTypes =>
          \A i \in Inputs : took[i] # Null /\ reg_cols.types[i] = types[i]
    <2>1. SUFFICES ASSUME SameLayouts, RightTypes, NEW i \in Inputs
                   PROVE  took[i] # Null /\ reg_cols.types[i] = types[i]
      OBVIOUS
    <2> HIDE DEF took
    <2>2. took[i] = i
      BY <1>7, <2>1
    <2>3. LentAs(f.dtype[i]) = ColTypes[i]
      BY <2>1 DEF RightTypes
    <2>4. QED
      BY <1>3, <1>5, <2>2, <2>3
  <1>10. SameLayouts => [i \in Inputs |-> Fresh(n, took[i])] = [i \in Inputs |-> Cell(n, i)]
    <2> HIDE DEF took
    <2>1. SUFFICES ASSUME SameLayouts
                   PROVE  \A i \in Inputs : Fresh(n, took[i]) = Cell(n, i)
      OBVIOUS
    <2>2. \A i \in Inputs : took[i] = i /\ i # Null
      BY <1>5, <1>7, <2>1
    <2>3. QED
      BY <2>2 DEF Fresh
  <1> HIDE DEF took, types
  <1>11. /\ CallTypes' /\ \E ins : RunsOn(ins)
         /\ reg_cols'.types = reg_cols.types /\ reg_cols'.out = reg_cols.out
         /\ (\A i \in Inputs : took[i] # Null /\ reg_cols.types[i] = types[i]) =>
              /\ WritesThisCall'
              /\ reg_cols.out \in Selected =>
                   /\ reply'.status = "ok"
                   /\ reply'.got = <<reg_cols.out, [i \in Inputs |-> Fresh(n, took[i])]>>
    BY <1>1, <1>5, <1>6, RegisteredKeeps
  <1>12. PyInv'
    <2>1. Caches' = Caches /\ ColTypes' = ColTypes
      BY DEF Caches, ColTypes, PlacesIn, Blocks, Kept, DTypeNames
    <2>2. bound_outputs' = {} /\ cached' \in Caches
      BY <1>1, <1>2, <1>3, <1>4
    <2>3. QED
      BY <1>3, <1>11, <2>1, <2>2 DEF PyInv
  <1>13. ASSUME SameLayouts, RightTypes
         PROVE  WritesThisCall' /\ ProbaOfThisFrame'
    <2>1. /\ WritesThisCall' /\ reply'.status = "ok"
          /\ reply'.got = <<reg_cols.out, [i \in Inputs |-> Cell(n, i)]>>
      BY <1>8, <1>9, <1>10, <1>11, <1>13
    <2>2. reply'.got[2] = asked'
      BY <1>1, <2>1
    <2>3. QED
      BY <2>1, <2>2 DEF ProbaOfThisFrame
  <1>14. QED
    BY <1>11, <1>12, <1>13

LEMMA PyPredictKeeps ==
  ASSUME SInv, PyInv, client = "python", client' = client,
         NEW n \in Batches, NEW f \in Strings, PyPredict(n, f)
  PROVE  /\ CallTypes' /\ (\E ins : RunsOn(ins)) /\ PyInv'
         /\ WritesThisCall' /\ ProbaOfThisFrame'
  <1> DEFINE ins == [i \in Inputs |-> Cell(n, i)]
  <1>1. /\ bound_inputs' = ins /\ Execute(ins) /\ Done("ok") /\ asked' = None
        /\ UNCHANGED <<bound_outputs, reg_cols, cached>>
    BY DEF PyPredict
  <1>2. CallTypes
    BY TwoParts
  <1>3. ins \in [Inputs -> Cells]
    <2>1. \A i \in Inputs : Cell(n, i) \in Cells
      BY PyAssumption DEF Cell, Cells
    <2>2. QED
      BY <2>1
  <1> HIDE DEF ins
  <1>4. ins \in InputSets
    BY <1>3, BoundIsTyped
  <1>5. reply'.status = "ok" /\ reply'.want = None
    BY <1>1 DEF Done
  <1>6. CallTypes'
    BY <1>1, <1>2, <1>3, <1>5 DEF CallTypes
  <1>7. Caches' = Caches /\ ColTypes' = ColTypes
    BY DEF Caches, ColTypes, PlacesIn, Blocks, Kept, DTypeNames
  <1>8. PyInv'
    BY <1>1, <1>7 DEF PyInv
  <1>9. RunsOn(ins)
    BY <1>1, <1>4 DEF RunsOn
  <1>10. QED
    BY <1>1, <1>5, <1>6, <1>8, <1>9 DEF WritesThisCall, ProbaOfThisFrame

\* Every step of every client.
LEMMA StepsKeep ==
  ASSUME SInv, PyInv, [ClientNext]_pyvars
  PROVE  /\ SInv' /\ PyInv'
         /\ Cardinality(Outputs) <= buffer.capacity => buffer' = buffer
         /\ SameLayouts /\ RightTypes =>
              /\ Null \notin Lent /\ WritesThisCall => WritesThisCall'
              /\ ProbaOfThisFrame /\ (client = "c" => asked = None) =>
                   ProbaOfThisFrame' /\ (client' = "c" => asked' = None)
  <1>1. CASE UNCHANGED pyvars
    <2>1. SInv'
      BY <1>1 DEF SInv, STypeOK, NamesOnce, Holds, pyvars, svars
    <2>2. PyInv'
      BY <1>1 DEF PyInv, Caches, ColTypes, PlacesIn, Blocks, Kept, DTypeNames, pyvars, svars
    <2>3. QED
      BY <1>1, <2>1, <2>2 DEF pyvars, svars, WritesThisCall, ProbaOfThisFrame
  <1>2. CASE CallC /\ UNCHANGED client
    <2>1. /\ CallTypes' /\ (Quiet \/ \E ins : RunsOn(ins))
          /\ Null \notin Lent => WritesThisCall'
      BY <1>2, CallsKeep DEF CallC
    <2>2. /\ RunTypes'
          /\ Cardinality(Outputs) <= buffer.capacity => buffer' = buffer
      BY <2>1, RunKeeps
    <2>3. SInv'
      BY <2>1, <2>2, TwoParts
    <2>4. client = "c" /\ client' = "c" /\ asked' = asked
      BY <1>2 DEF CallC
    <2>5. QED
      BY <2>1, <2>2, <2>3, <2>4 DEF PyInv, ProbaOfThisFrame
  <1>3. CASE CallPython /\ UNCHANGED client
    <2>1. client = "python" /\ client' = client
      BY <1>3 DEF CallPython
    <2>2. PICK n \in Batches : \/ \E f \in Scored : PredictProba(n, f)
                               \/ \E f \in Strings : PyPredict(n, f)
      BY <1>3 DEF CallPython
    <2>3. /\ CallTypes' /\ (\E ins : RunsOn(ins)) /\ PyInv'
          /\ SameLayouts /\ RightTypes => WritesThisCall' /\ ProbaOfThisFrame'
      <3>1. CASE \E f \in Scored : PredictProba(n, f)
        BY <2>1, <3>1, ProbaKeeps
      <3>2. CASE \E f \in Strings : PyPredict(n, f)
        BY <2>1, <3>2, PyPredictKeeps
      <3>3. QED
        BY <2>2, <3>1, <3>2
    <2>4. /\ RunTypes'
          /\ Cardinality(Outputs) <= buffer.capacity => buffer' = buffer
      BY <2>3, RunKeeps
    <2>5. SInv'
      BY <2>3, <2>4, TwoParts
    <2>6. QED
      BY <2>1, <2>3, <2>4, <2>5
  <1>4. QED
    BY <1>1, <1>2, <1>3 DEF ClientNext

-----------------------------------------------------------------------------
(***************************************************************************)
(* What a session starts with                                              *)
(***************************************************************************)

\* The sum over a set of outputs is an integer, and no less than their number
\* where no output counts for less than one.
LEMMA TotalIsBounded ==
  ASSUME NEW f \in [Outputs -> Int]
  PROVE  /\ Total(f) \in Int
         /\ (\A o \in Outputs : f[o] >= 1) => Total(f) >= Cardinality(Outputs)
  <1> DEFINE names == SetToSeq(DOMAIN f)
             n == Len(names)
             sum == CHOOSE sum :
               sum = [k \in 0 .. Len(names) |->
                        IF k = 0 THEN 0 ELSE sum[k - 1] + f[names[k]]]
             step == [p \in (1 .. n) \X Int |-> p[2] + f[names[p[1]]]]
  <1>1. Total(f) = sum[n]
    BY Zenon DEF Total
  <1>2. n \in Nat /\ n = Cardinality(Outputs) /\ \A k \in 1 .. n : names[k] \in Outputs
    <2>1. DOMAIN f = Outputs /\ IsFiniteSet(Outputs)
      BY SessionAssumption
    <2>2. /\ Cardinality(Outputs) \in Nat /\ n = Cardinality(Outputs)
          /\ names \in [1 .. Cardinality(Outputs) -> Outputs]
      BY <2>1, Listed
    <2> HIDE DEF names, n
    <2>3. QED
      BY <2>2
  <1> HIDE DEF names
  <1>3. StaysIn(Int, n, step)
    <2>1. \A k \in 1 .. n : f[names[k]] \in Int
      BY <1>2
    <2>2. QED
      BY <2>1 DEF StaysIn
  <1>4. \E g : g = [k \in 0 .. Len(names) |->
                      IF k = 0 THEN 0 ELSE g[k - 1] + f[names[k]]]
    <2> HIDE DEF step
    <2>1. PICK g \in [0 .. n -> Int] : RunOf(g, n, 0, step)
      <3> HIDE DEF n
      <3>1. n \in Nat /\ 0 \in Int
        BY <1>2
      <3>2. QED
        BY <1>3, <3>1, LoopRuns
    <2>2. ASSUME NEW k \in 1 .. n PROVE g[k] = g[k - 1] + f[names[k]]
      <3>1. k - 1 \in 0 .. n
        BY <1>2
      <3> HIDE DEF n
      <3>2. <<k, g[k - 1]>> \in (1 .. n) \X Int
        BY <3>1
      <3>3. step[<<k, g[k - 1]>>] = g[k - 1] + f[names[k]]
        BY <3>2 DEF step
      <3>4. QED
        BY <2>1, <3>3 DEF RunOf
    <2>3. ASSUME NEW k \in 0 .. n
          PROVE  g[k] = IF k = 0 THEN 0 ELSE g[k - 1] + f[names[k]]
      <3>1. k = 0 \/ k \in 1 .. n
        BY <1>2
      <3>2. QED
        BY <2>1, <2>2, <3>1 DEF RunOf
    <2>4. g = [k \in 0 .. n |-> IF k = 0 THEN 0 ELSE g[k - 1] + f[names[k]]]
      BY <2>3
    <2>5. QED
      BY <2>4
  <1>5. sum = [k \in 0 .. Len(names) |->
                 IF k = 0 THEN 0 ELSE sum[k - 1] + f[names[k]]]
    BY <1>4, Zenon
  <1> HIDE DEF sum, step
  <1>6. \A k \in 0 .. n : sum[k] = IF k = 0 THEN 0 ELSE sum[k - 1] + f[names[k]]
    BY <1>5, Zenon
  <1> DEFINE G == {k \in 0 .. n : /\ sum[k] \in Int
                                  /\ (\A o \in Outputs : f[o] >= 1) => sum[k] >= k}
  <1>7. 0 \in G
    BY <1>2, <1>6
  <1>8. ASSUME NEW k \in 1 .. n, k - 1 \in G PROVE k \in G
    <2>1. /\ k \in 0 .. n /\ k # 0 /\ sum[k - 1] \in Int
          /\ (\A o \in Outputs : f[o] >= 1) => sum[k - 1] >= k - 1
      BY <1>8
    <2>2. sum[k] = sum[k - 1] + f[names[k]]
      BY <1>6, <2>1
    <2>3. names[k] \in Outputs /\ f[names[k]] \in Int
      BY <1>2
    <2> HIDE DEF n
    <2>4. QED
      BY <2>1, <2>2, <2>3
  <1>9. n \in G
    <2>1. \A k \in 1 .. n : k - 1 \in G => k \in G
      BY <1>8
    <2> HIDE DEF G
    <2>2. 0 .. n \subseteq G
      BY <1>2, <1>7, <2>1, LoopInvariant
    <2>3. QED
      BY <1>2, <2>2
  <1>10. QED
    BY <1>1, <1>2, <1>9

\* The outputs fit in the storage a session reserves when it is made.
RoomForAll == Cardinality(Outputs) <= NumOutputs

\* They do if each is at least one column wide.
LEMMA ColumnsMakeRoom ==
  /\ NumOutputs \in Int
  /\ (\A o \in Outputs : Slots[o] >= 1) => RoomForAll
  <1> DEFINE g == [o \in Outputs |-> IF Slots[o] = 0 THEN 1 ELSE Slots[o]]
  <1>1. Slots \in [Outputs -> Int] /\ g \in [Outputs -> Int]
    BY SessionAssumption
  <1> HIDE DEF g
  <1>2. Total(Slots) \in Int /\ Total(g) \in Int
    BY <1>1, TotalIsBounded
  <1>3. Cardinality(Outputs) \in Nat
    BY SessionAssumption, FS_CardinalityType
  <1>4. ExecutorCols = IF Total(g) = 0 THEN 1 ELSE Total(g)
    BY Zenon DEF ExecutorCols, g
  <1>5. NumOutputs \in Int
    BY <1>2, <1>4 DEF NumOutputs
  <1>6. ASSUME \A o \in Outputs : Slots[o] >= 1 PROVE RoomForAll
    <2>1. Total(Slots) >= Cardinality(Outputs)
      BY <1>1, <1>6, TotalIsBounded
    <2>2. CASE Total(Slots) > 0
      BY <2>1, <2>2 DEF RoomForAll, NumOutputs
    <2>3. CASE ~(Total(Slots) > 0)
      <3>1. Cardinality(Outputs) = 0 /\ Outputs = {}
        BY <1>2, <1>3, <2>1, <2>3, SessionAssumption, FS_EmptySet
      <3>2. g = Slots
        BY <1>1, <3>1
      <3>3. Total(g) = Total(Slots) /\ Total(Slots) = 0
        BY <1>2, <2>1, <2>3, <3>1, <3>2
      <3>4. QED
        BY <1>4, <2>3, <3>1, <3>3 DEF RoomForAll, NumOutputs
    <2>4. QED
      BY <2>2, <2>3
  <1>7. QED
    BY <1>5, <1>6

LEMMA StartIsRight ==
  ASSUME ClientInit
  PROVE  /\ SInv /\ PyInv
         /\ buffer.capacity = NumOutputs /\ buffer.moves = 0
         /\ reply.want = None /\ asked = None
  <1>1. ASSUME NEW reg, Created(reg),
               \/ reg = None
               \/ reg \in [types : [Inputs -> {"f32", "f64", "str"}], rows : Nat,
                           cells : [Inputs -> Cells], out : Outputs]
        PROVE  /\ SInv /\ reg_cols = reg /\ bound_outputs = {}
               /\ buffer.capacity = NumOutputs /\ buffer.moves = 0 /\ reply.want = None
    <2>1. DOMAIN bound_inputs = {} /\ bound_inputs \in [{} -> Cells]
      BY <1>1 DEF Created, Empty
    <2>2. DOMAIN last = {} /\ last \in [{} -> Tensors]
      BY <1>1 DEF Created, Empty
    <2>3. owned_outputs = << >> /\ owned_outputs \in Seq(Records) /\ NamesOnce(owned_outputs)
      BY <1>1, EmptySeq DEF Created, NamesOnce
    <2>4. buffer \in Buffers /\ buffer.capacity = NumOutputs /\ buffer.moves = 0
      BY <1>1, ColumnsMakeRoom DEF Created, Buffers
    <2>5. RunTypes
      BY <2>2, <2>3, <2>4 DEF RunTypes
    <2>6. CallTypes
      BY <1>1, <2>1 DEF Created, CallTypes
    <2>7. QED
      BY <1>1, <2>4, <2>5, <2>6, TwoParts DEF Created
  <1>2. CASE CInit
    BY <1>1, <1>2 DEF CInit, SInit, PyInv
  <1>3. CASE PyInit
    <2>1. PICK o \in Asked : Created(Schema(ColTypes, o))
      BY <1>3 DEF PyInit
    <2>2. ColTypes \in [Inputs -> {"f32", "f64", "str"}] /\ o \in Outputs
      BY SessionAssumption DEF ColTypes
    <2>3. Cell(1, Zeros) \in Cells
      BY DEF Cell, Cells
    <2>4. Schema(ColTypes, o) \in [types : [Inputs -> {"f32", "f64", "str"}], rows : Nat,
                                   cells : [Inputs -> Cells], out : Outputs]
      BY <2>2, <2>3 DEF Schema
    <2>5. Schema(ColTypes, o).types = ColTypes /\ Schema(ColTypes, o).out = o
      BY DEF Schema
    <2>6. QED
      BY <1>1, <1>3, <2>1, <2>4, <2>5 DEF PyInit, PyInv
  <1>4. QED
    BY <1>2, <1>3 DEF ClientInit

-----------------------------------------------------------------------------
(***************************************************************************)
(* The theorems                                                            *)
(***************************************************************************)

LEMMA SessionInvariant == ClientSpec => [](SInv /\ PyInv)
  <1>1. ClientInit => SInv /\ PyInv
    BY StartIsRight
  <1>2. SInv /\ PyInv /\ [ClientNext]_pyvars => SInv' /\ PyInv'
    BY StepsKeep
  <1>3. QED
    BY <1>1, <1>2, PTL DEF ClientSpec

\* A session's state has the types the code gives it, for any inputs, outputs
\* and clients (src/c_api.cpp:95-104, 294-1001).
THEOREM SessionTypes == ClientSpec => []STypeOK
  <1>1. SInv => STypeOK
    BY DEF SInv
  <1>2. QED
    BY <1>1, SessionInvariant, PTL

\* get_output answers with the results of the last run that succeeded, under
\* each name once, whatever runs, failures and filters came before
\* (src/c_api.cpp:363-380).
THEOREM LastRunIsAnswered == ClientSpec => []LastRunAnswered
  <1>1. SInv => LastRunAnswered
    <2>1. SUFFICES ASSUME SInv PROVE LastRunAnswered
      OBVIOUS
    <2>2. \A o \in DOMAIN last : Answer(o) = last[o]
      <3>1. TAKE o \in DOMAIN last
      <3>2. NamesOnce(owned_outputs) /\ Holds(owned_outputs, o, last[o])
        BY <2>1 DEF SInv
      <3>3. QED
        BY <3>2, FirstIsTheOne DEF Answer
    <2>3. QED
      BY <2>1, <2>2 DEF LastRunAnswered, SInv, NamesOnce
  <1>2. QED
    BY <1>1, SessionInvariant, PTL

\* owned_outputs never moves, so that every handle get_output returned keeps
\* pointing at its output, if the outputs fit in what is reserved for them
\* (src/c_api.cpp:99-101, 294-308).
THEOREM HandlesAreStable ==
  ASSUME RoomForAll
  PROVE  ClientSpec => []HandleStable
  <1> DEFINE Room == buffer.capacity = NumOutputs /\ buffer.moves = 0
  <1>1. ClientInit => Room
    BY StartIsRight
  <1>2. SInv /\ PyInv /\ Room /\ [ClientNext]_pyvars => Room'
    <2>1. SUFFICES ASSUME SInv, PyInv, Room, [ClientNext]_pyvars PROVE Room'
      OBVIOUS
    <2>2. Cardinality(Outputs) <= buffer.capacity => buffer' = buffer
      BY <2>1, StepsKeep
    <2>3. NumOutputs' = NumOutputs
      BY DEF NumOutputs, ExecutorCols, Total
    <2>4. QED
      BY <2>1, <2>2, <2>3 DEF RoomForAll
  <1>3. Room => HandleStable
    BY DEF HandleStable
  <1> HIDE DEF Room
  <1>4. QED
    BY <1>1, <1>2, <1>3, SessionInvariant, PTL DEF ClientSpec

\* They fit if every output is at least one column wide.
COROLLARY HandlesOfColumnsAreStable ==
  ASSUME \A o \in Outputs : Slots[o] >= 1
  PROVE  ClientSpec => []HandleStable
  BY ColumnsMakeRoom, HandlesAreStable

\* What a predict call writes is the output it was asked for, of the data it was
\* given, where no column is NULL and frames keep their layouts and types
\* (src/c_api.cpp:408-457, 834-864, 911-1001).
THEOREM CallsWriteTheirOwn ==
  ASSUME Null \notin Lent, SameLayouts, RightTypes
  PROVE  ClientSpec => []WritesThisCall
  <1>1. ClientInit => WritesThisCall
    BY StartIsRight DEF WritesThisCall
  <1>2. SInv /\ PyInv /\ WritesThisCall /\ [ClientNext]_pyvars => WritesThisCall'
    BY StepsKeep
  <1>3. QED
    BY <1>1, <1>2, SessionInvariant, PTL DEF ClientSpec

\* predict_proba scores the columns of the frame it was given, each under its
\* own name, whatever frames came before, where frames of the same columns have
\* the same blocks (python/omle_runtime/__init__.py:735-776, 833-854).
THEOREM ProbaIsOfThisFrame ==
  ASSUME SameLayouts, RightTypes
  PROVE  ClientSpec => []ProbaOfThisFrame
  <1> DEFINE J == ProbaOfThisFrame /\ (client = "c" => asked = None)
  <1>1. ClientInit => J
    BY StartIsRight DEF ProbaOfThisFrame
  <1>2. SInv /\ PyInv /\ J /\ [ClientNext]_pyvars => J'
    BY StepsKeep
  <1>3. J => ProbaOfThisFrame
    OBVIOUS
  <1> HIDE DEF J
  <1>4. QED
    BY <1>1, <1>2, <1>3, SessionInvariant, PTL DEF ClientSpec

=============================================================================
