-------------------------- MODULE UciEngineProofs --------------------------
(***************************************************************************)
(* What TLAPS proves about UciEngine, for any number of threads and any    *)
(* sequence of commands: no wake-up is lost, nothing shared is used after  *)
(* its life, and each answer is to the oldest "go" and not before its time.*)
(***************************************************************************)
EXTENDS UciEngine, SequenceTheorems, WellFoundedInduction, TLAPS

-----------------------------------------------------------------------------
(* Operations, and the sequences that repeat them *)

Told(t) == <<"notify", t, "">>
Await(t) == <<"wait", t, "">>
Job(t, f) == <<"run", t, f>>

Plain == {"construct", "clear", "zero", "setup"}
SearchKinds == {"iterate", "depth", "hold", "raise", "bestmove"}
Kinds == {"run", "notify", "wait", "spawn", "exit", "join", "reset"} \cup Plain \cup SearchKinds
JobNames == Plain \cup {"search", ""}
Operations == Kinds \X (0 .. MaxThreads) \X JobNames

Dest(i, n) == Each(Destroy, i, n)
Cons(i, n) == Each(Construct, i, n)
Jobs(f, i, n) == Each(LAMBDA t : RunJob(t, f), i, n)
Waits(i, n) == Each(WaitFor, i, n)

\* Sequences with the same elements are the same.
LEMMA CatIs ==
  ASSUME NEW S, NEW s \in Seq(S), NEW t \in Seq(S), NEW A \in Seq(S),
         Len(A) = Len(s) + Len(t),
         \A j \in 1 .. Len(s) : A[j] = s[j],
         \A j \in 1 .. Len(t) : A[Len(s) + j] = t[j]
  PROVE  A = s \o t
<1>1. s \o t \in Seq(S) /\ Len(s \o t) = Len(A)
  OBVIOUS
<1>2. ASSUME NEW j \in 1 .. Len(A)
      PROVE  A[j] = (s \o t)[j]
  <2>1. CASE j <= Len(s)
    BY <2>1
  <2>2. CASE j > Len(s)
    <3>1. j - Len(s) \in 1 .. Len(t) /\ j = Len(s) + (j - Len(s))
      BY <2>2
    <3> QED BY <3>1
  <2> QED BY <2>1, <2>2
<1> QED BY <1>1, <1>2

\* A function on 1..N is a sequence.
LEMMA IsSeq ==
  ASSUME NEW S, NEW N \in Nat, NEW A, A = [j \in 1 .. N |-> A[j]], \A j \in 1 .. N : A[j] \in S
  PROVE  A \in Seq(S) /\ Len(A) = N
OBVIOUS

LEMMA CatFacts ==
  ASSUME NEW S, NEW s \in Seq(S), NEW t \in Seq(S)
  PROVE  /\ s \o t \in Seq(S) /\ Len(s \o t) = Len(s) + Len(t)
         /\ \A i \in 1 .. Len(s) : (s \o t)[i] = s[i]
         /\ \A i \in 1 .. Len(t) : (s \o t)[Len(s) + i] = t[i]
         /\ s # <<>> => /\ s \o t # <<>> /\ Head(s \o t) = Head(s)
                        /\ Tail(s \o t) = Tail(s) \o t
         /\ t # <<>> => s \o t # <<>>
         /\ s = <<>> => s \o t = t
         /\ t = <<>> => s \o t = s
OBVIOUS

LEMMA CatAssoc ==
  ASSUME NEW S, NEW s \in Seq(S), NEW t \in Seq(S), NEW u \in Seq(S)
  PROVE  (s \o t) \o u = s \o (t \o u)
OBVIOUS

LEMMA TailFacts ==
  ASSUME NEW S, NEW s \in Seq(S), s # <<>>
  PROVE  /\ Tail(s) \in Seq(S) /\ Len(Tail(s)) = Len(s) - 1 /\ Len(s) \in Nat \ {0}
         /\ Head(s) = s[1] /\ s[1] \in S
         /\ \A i \in 1 .. Len(s) - 1 : Tail(s)[i] = s[i + 1]
OBVIOUS

\* The programs of one thread are sequences of operations.
LEMMA ProgramTypes ==
  ASSUME NEW t
  PROVE  /\ Len(Destroy(t)) = 4 /\ Len(Construct(t)) = 5
         /\ t \in Workers => Destroy(t) \in Seq(Operations) /\ Construct(t) \in Seq(Operations)
<1> DEFINE x == <<"exit", t, "">>
           y == <<"join", t, "">>
           z == <<"spawn", t, "">>
           j == Job(t, "search")
           c == Job(t, "construct")
           n == Told(t)
           w == Await(t)
           S == {x, y, z, j, c, n, w}
<1>1. Destroy(t) = <<x>> \o <<j, n>> \o <<y>>
  BY DEF Destroy, RunJob, Job, Told
<1>2. Construct(t) = <<z>> \o <<w>> \o <<c, n>> \o <<w>>
  BY DEF Construct, RunJob, WaitFor, Job, Told, Await
<1>3. ASSUME t \in Workers
      PROVE  S \subseteq Operations
  <2>1. t \in 0 .. MaxThreads
    BY <1>3, ThreadsAssumption DEF Workers
  <2>2. \A k \in Kinds, f \in JobNames : <<k, t, f>> \in Operations
    BY <2>1 DEF Operations
  <2>3. /\ "exit" \in Kinds /\ "join" \in Kinds /\ "spawn" \in Kinds /\ "run" \in Kinds
        /\ "notify" \in Kinds /\ "wait" \in Kinds
        /\ "search" \in JobNames /\ "" \in JobNames /\ "construct" \in JobNames
    BY DEF Kinds, Plain, JobNames
  <2>4. x \in Operations /\ y \in Operations /\ z \in Operations
    BY <2>2, <2>3
  <2>5. j \in Operations /\ c \in Operations /\ n \in Operations /\ w \in Operations
    BY <2>2, <2>3 DEF Job, Told, Await
  <2> QED BY <2>4, <2>5
<1>4. x \in S /\ y \in S /\ z \in S /\ j \in S /\ c \in S /\ n \in S /\ w \in S
  OBVIOUS
<1> HIDE DEF x, y, z, j, c, n, w, S
<1> DEFINE x1 == <<x>>
           y1 == <<y>>
           z1 == <<z>>
           w1 == <<w>>
           jn == <<j, n>>
           cn == <<c, n>>
<1>5. /\ x1 \in Seq(S) /\ y1 \in Seq(S) /\ z1 \in Seq(S) /\ w1 \in Seq(S)
      /\ jn \in Seq(S) /\ cn \in Seq(S)
      /\ Len(x1) = 1 /\ Len(y1) = 1 /\ Len(z1) = 1 /\ Len(w1) = 1 /\ Len(jn) = 2 /\ Len(cn) = 2
  BY <1>4
<1> HIDE DEF x1, y1, z1, w1, jn, cn
<1>6. \A s, r \in Seq(S) : s \o r \in Seq(S) /\ Len(s \o r) = Len(s) + Len(r)
  BY CatFacts
<1>7. x1 \o jn \o y1 \in Seq(S) /\ Len(x1 \o jn \o y1) = 4
  <2>1. x1 \o jn \in Seq(S) /\ Len(x1 \o jn) = 1 + 2
    <3>1. x1 \in Seq(S) /\ jn \in Seq(S) /\ Len(x1) = 1 /\ Len(jn) = 2
      BY <1>5
    <3>2. x1 \o jn \in Seq(S) /\ Len(x1 \o jn) = Len(x1) + Len(jn)
      BY <1>6, <3>1
    <3> QED BY <3>1, <3>2
  <2>2. x1 \o jn \o y1 \in Seq(S) /\ Len(x1 \o jn \o y1) = 1 + 2 + 1
    BY <1>5, <1>6, <2>1, Zenon
  <2> QED BY <2>2
<1>8. z1 \o w1 \o cn \o w1 \in Seq(S) /\ Len(z1 \o w1 \o cn \o w1) = 5
  <2>1. z1 \o w1 \in Seq(S) /\ Len(z1 \o w1) = 1 + 1
    <3>1. z1 \in Seq(S) /\ w1 \in Seq(S) /\ Len(z1) = 1 /\ Len(w1) = 1
      BY <1>5
    <3>2. z1 \o w1 \in Seq(S) /\ Len(z1 \o w1) = Len(z1) + Len(w1)
      BY <1>6, <3>1
    <3> QED BY <3>1, <3>2
  <2>2. z1 \o w1 \o cn \in Seq(S) /\ Len(z1 \o w1 \o cn) = 1 + 1 + 2
    BY <1>5, <1>6, <2>1, Zenon
  <2>3. z1 \o w1 \o cn \o w1 \in Seq(S) /\ Len(z1 \o w1 \o cn \o w1) = 1 + 1 + 2 + 1
    BY <1>5, <1>6, <2>2, Zenon
  <2> QED BY <2>3
<1>9. ASSUME NEW A \in Seq(S), S \subseteq Operations
      PROVE  A \in Seq(Operations)
  BY <1>9
<1>10. Destroy(t) = x1 \o jn \o y1 /\ Construct(t) = z1 \o w1 \o cn \o w1
  BY <1>1, <1>2 DEF x1, y1, z1, w1, jn, cn
<1> QED BY <1>3, <1>7, <1>8, <1>9, <1>10

\* Operations and the shortest programs.
LEMMA OpTypes ==
  /\ \A k \in Kinds : \A f \in JobNames : <<k, 0, "">> \in Operations /\ \A t \in Workers : <<k, t, f>> \in Operations
  /\ Plain \cup SearchKinds \cup {"run", "notify", "wait", "spawn", "exit", "join", "reset"} \subseteq Kinds
  /\ Plain \cup {"search", ""} \subseteq JobNames
<1>1. Workers \subseteq 0 .. MaxThreads /\ 0 \in 0 .. MaxThreads
  BY ThreadsAssumption DEF Workers
<1> QED BY <1>1 DEF Operations, Kinds, JobNames

LEMMA WaitTypes ==
  ASSUME NEW t
  PROVE  /\ WaitFor(t) = <<Await(t)>> /\ Len(WaitFor(t)) = 1
         /\ t \in Workers => Await(t) \in Operations /\ WaitFor(t) \in Seq(Operations)
<1>1. t \in Workers => Await(t) \in Operations
  BY OpTypes DEF Await
<1>2. WaitFor(t) = <<Await(t)>>
  BY DEF WaitFor, Await
<1> HIDE DEF Await
<1> QED BY <1>1, <1>2

LEMMA JobTypes ==
  ASSUME NEW t, NEW f
  PROVE  /\ RunJob(t, f) = <<Job(t, f), Told(t)>> /\ Len(RunJob(t, f)) = 2
         /\ t \in Workers /\ f \in JobNames =>
              Job(t, f) \in Operations /\ Told(t) \in Operations /\ RunJob(t, f) \in Seq(Operations)
<1>1. t \in Workers /\ f \in JobNames => Job(t, f) \in Operations /\ Told(t) \in Operations
  BY OpTypes DEF Job, Told
<1>2. RunJob(t, f) = <<Job(t, f), Told(t)>>
  BY DEF RunJob, Job, Told
<1> HIDE DEF Job, Told
<1> QED BY <1>1, <1>2

\* Division by the length of a program.
LEMMA Division ==
  ASSUME NEW w \in {1, 2, 4, 5}, NEW m \in Nat
  PROVE  /\ m * w \in Nat /\ (m + 1) * w = w + m * w
         /\ \A j \in 1 .. w : (j - 1) \div w = 0 /\ 1 + ((j - 1) % w) = j
         /\ \A j \in 1 .. m * w : /\ (j - 1) \div w \in 0 .. m - 1 /\ 1 + ((j - 1) % w) \in 1 .. w
                                  /\ (w + j - 1) \div w = 1 + ((j - 1) \div w)
                                  /\ (w + j - 1) % w = (j - 1) % w
<1>1. CASE w = 1
  BY <1>1
<1>2. CASE w = 2
  BY <1>2
<1>3. CASE w = 4
  BY <1>3
<1>4. CASE w = 5
  BY <1>4
<1> QED BY <1>1, <1>2, <1>3, <1>4

\* The programs F[i], ..., F[n] one after the other.
Row(F, w, i, n) ==
  [j \in 1 .. (n - i + 1) * w |-> F[i + ((j - 1) \div w)][1 + ((j - 1) % w)]]

LEMMA RowSteps ==
  ASSUME NEW S, NEW F, NEW w \in {1, 2, 4, 5}, NEW n \in Nat, NEW i \in 1 .. n + 1,
         \A t \in 1 .. n : F[t] \in Seq(S) /\ Len(F[t]) = w
  PROVE  /\ Row(F, w, i, n) \in Seq(S)
         /\ i = n + 1 => Row(F, w, i, n) = <<>>
         /\ i <= n => Row(F, w, i, n) = F[i] \o Row(F, w, i + 1, n)
<1>1. ASSUME NEW k \in 1 .. n + 1
      PROVE  /\ Row(F, w, k, n) \in Seq(S) /\ Len(Row(F, w, k, n)) = (n - k + 1) * w
             /\ \A j \in 1 .. (n - k + 1) * w :
                  Row(F, w, k, n)[j] = F[k + ((j - 1) \div w)][1 + ((j - 1) % w)]
  <2> DEFINE A == Row(F, w, k, n)
             m == n - k + 1
             N == m * w
             E(j) == F[k + ((j - 1) \div w)][1 + ((j - 1) % w)]
  <2>1. m \in Nat /\ k + m = n + 1 /\ k \in 1 .. n + 1
    OBVIOUS
  <2>2. A = [j \in 1 .. N |-> E(j)]
    BY DEF Row
  <2> HIDE DEF m
  <2>3. N \in Nat /\ \A j \in 1 .. N : (j - 1) \div w \in 0 .. m - 1 /\ 1 + ((j - 1) % w) \in 1 .. w
    BY <2>1, Division
  <2> HIDE DEF N
  <2>4. ASSUME NEW j \in 1 .. N
        PROVE  E(j) \in S
    <3>1. k + ((j - 1) \div w) \in 1 .. n /\ 1 + ((j - 1) % w) \in 1 .. w
      BY <2>1, <2>3
    <3> QED BY <3>1
  <2> HIDE DEF A, E
  <2>5. A = [j \in 1 .. N |-> A[j]] /\ \A j \in 1 .. N : A[j] = E(j)
    BY <2>2
  <2>6. A \in Seq(S) /\ Len(A) = N
    BY <2>3, <2>4, <2>5, IsSeq
  <2> QED BY <2>5, <2>6 DEF A, E, N, m
<1>2. CASE i = n + 1
  <2> DEFINE A == Row(F, w, i, n)
  <2>1. (n - i + 1) * w = 0
    BY <1>2
  <2>2. A \in Seq(S) /\ Len(A) = 0
    BY <1>1, <2>1
  <2> HIDE DEF A
  <2>3. A = <<>> /\ ~(i <= n)
    BY <1>2, <2>2
  <2> QED BY <2>2, <2>3 DEF A
<1>3. CASE i <= n
  <2> DEFINE A == Row(F, w, i, n)
             B == Row(F, w, i + 1, n)
             m == n - i
             E(k, j) == F[k + ((j - 1) \div w)][1 + ((j - 1) % w)]
  <2>0. i \in Nat /\ m \in Nat /\ i + 1 \in 1 .. n + 1 /\ n - i + 1 = m + 1 /\ n - (i + 1) + 1 = m
    BY <1>3
  <2>1. /\ A \in Seq(S) /\ B \in Seq(S) /\ Len(A) = (m + 1) * w /\ Len(B) = m * w
        /\ \A j \in 1 .. (m + 1) * w : A[j] = E(i, j)
        /\ \A j \in 1 .. m * w : B[j] = E(i + 1, j)
    BY <1>1, <2>0
  <2>2. /\ m * w \in Nat /\ (m + 1) * w = w + m * w
        /\ \A j \in 1 .. w : (j - 1) \div w = 0 /\ 1 + ((j - 1) % w) = j
        /\ \A j \in 1 .. m * w : /\ (j - 1) \div w \in 0 .. m - 1
                                 /\ (w + j - 1) \div w = 1 + ((j - 1) \div w)
                                 /\ (w + j - 1) % w = (j - 1) % w
    BY <2>0, Division
  <2> DEFINE N == m * w
  <2> HIDE DEF A, B, E, m, N
  <2>3. ASSUME NEW j \in 1 .. w
        PROVE  A[j] = F[i][j]
    <3>1. i + 0 = i /\ j \in 1 .. w + N
      BY <2>0, <2>2 DEF N
    <3>2. E(i, j) = F[i][j]
      BY <2>2, <3>1 DEF E
    <3> QED BY <2>1, <2>2, <3>1, <3>2 DEF N
  <2>4. ASSUME NEW j \in 1 .. N
        PROVE  A[w + j] = B[j]
    <3>1. (w + j - 1) \div w = 1 + ((j - 1) \div w) /\ (w + j - 1) % w = (j - 1) % w
      BY <2>2 DEF N
    <3>2. i + (1 + ((j - 1) \div w)) = i + 1 + ((j - 1) \div w)
      <4>1. (j - 1) \div w \in Int
        BY <2>0, <2>2 DEF N
      <4> QED BY <2>0, <4>1
    <3>3. E(i, w + j) = E(i + 1, j)
      BY <3>1, <3>2 DEF E
    <3>4. w + j \in 1 .. w + N
      BY <2>2 DEF N
    <3> QED BY <2>1, <2>2, <3>3, <3>4 DEF N
  <2>5. A = F[i] \o B
    <3>1. Len(F[i]) = w /\ F[i] \in Seq(S)
      BY <1>3, <2>0
    <3>2. Len(A) = Len(F[i]) + Len(B)
      BY <2>1, <2>2, <3>1
    <3>3. \A j \in 1 .. Len(F[i]) : A[j] = F[i][j]
      BY <2>3, <3>1
    <3>4. \A j \in 1 .. Len(B) : A[Len(F[i]) + j] = B[j]
      BY <2>1, <2>4, <3>1 DEF N
    <3> HIDE DEF Row
    <3> QED BY <2>1, <3>1, <3>2, <3>3, <3>4, CatIs
  <2>6. i # n + 1
    BY <1>3
  <2> QED BY <2>1, <2>5, <2>6 DEF A, B
<1>4. i <= n \/ i = n + 1
  OBVIOUS
<1> QED BY <1>2, <1>3, <1>4

\* The programs of all threads: that of the first, then the others'.
LEMMA EachSteps ==
  ASSUME NEW n \in 0 .. MaxThreads, NEW i \in 1 .. n + 1
  PROVE  /\ Dest(i, n) \in Seq(Operations) /\ Cons(i, n) \in Seq(Operations)
         /\ Waits(i, n) \in Seq(Operations)
         /\ i = n + 1 => Dest(i, n) = <<>> /\ Cons(i, n) = <<>> /\ Waits(i, n) = <<>>
         /\ i <= n => /\ Dest(i, n) = Destroy(i) \o Dest(i + 1, n)
                      /\ Cons(i, n) = Construct(i) \o Cons(i + 1, n)
                      /\ Waits(i, n) = WaitFor(i) \o Waits(i + 1, n)
                      /\ i \in Workers
<1>0. n \in Nat /\ \A t \in 1 .. n : t \in Workers
  BY ThreadsAssumption DEF Workers
<1> DEFINE D == [t \in 1 .. n |-> Destroy(t)]
           C == [t \in 1 .. n |-> Construct(t)]
           W == [t \in 1 .. n |-> WaitFor(t)]
<1>1. \A t \in 1 .. n : /\ Destroy(t) \in Seq(Operations) /\ Len(Destroy(t)) = 4
                        /\ Construct(t) \in Seq(Operations) /\ Len(Construct(t)) = 5
                        /\ WaitFor(t) \in Seq(Operations) /\ Len(WaitFor(t)) = 1
  BY <1>0, ProgramTypes, WaitTypes
<1>2. ASSUME NEW k \in 1 .. n + 1
      PROVE  Dest(k, n) = Row(D, 4, k, n) /\ Cons(k, n) = Row(C, 5, k, n) /\ Waits(k, n) = Row(W, 1, k, n)
  <2>1. Len(Destroy(k)) = 4 /\ Len(Construct(k)) = 5 /\ Len(WaitFor(k)) = 1
    BY ProgramTypes, WaitTypes
  <2>2. \A j \in 1 .. (n - k + 1) * 4 : k + ((j - 1) \div 4) \in 1 .. n
    BY <1>0
  <2>3. \A j \in 1 .. (n - k + 1) * 5 : k + ((j - 1) \div 5) \in 1 .. n
    BY <1>0
  <2>4. \A j \in 1 .. (n - k + 1) * 1 : k + ((j - 1) \div 1) \in 1 .. n
    BY <1>0
  <2>5. Dest(k, n) = [j \in 1 .. (n - k + 1) * 4 |-> Destroy(k + ((j - 1) \div 4))[1 + ((j - 1) % 4)]]
    BY <2>1 DEF Dest, Each
  <2>6. Cons(k, n) = [j \in 1 .. (n - k + 1) * 5 |-> Construct(k + ((j - 1) \div 5))[1 + ((j - 1) % 5)]]
    BY <2>1 DEF Cons, Each
  <2>7. Waits(k, n) = [j \in 1 .. (n - k + 1) * 1 |-> WaitFor(k + ((j - 1) \div 1))[1 + ((j - 1) % 1)]]
    BY <2>1 DEF Waits, Each
  <2>8. Dest(k, n) = Row(D, 4, k, n)
    BY <2>2, <2>5 DEF Row
  <2>9. Cons(k, n) = Row(C, 5, k, n)
    BY <2>3, <2>6 DEF Row
  <2>10. Waits(k, n) = Row(W, 1, k, n)
    BY <2>4, <2>7 DEF Row
  <2> QED BY <2>8, <2>9, <2>10
<1>3. i <= n => D[i] = Destroy(i) /\ C[i] = Construct(i) /\ W[i] = WaitFor(i) /\ i + 1 \in 1 .. n + 1 /\ i \in Workers
  BY <1>0
<1>4. /\ \A t \in 1 .. n : D[t] \in Seq(Operations) /\ Len(D[t]) = 4
      /\ \A t \in 1 .. n : C[t] \in Seq(Operations) /\ Len(C[t]) = 5
      /\ \A t \in 1 .. n : W[t] \in Seq(Operations) /\ Len(W[t]) = 1
  BY <1>1
<1> HIDE DEF D, C, W
<1>5. /\ Row(D, 4, i, n) \in Seq(Operations)
      /\ i = n + 1 => Row(D, 4, i, n) = <<>>
      /\ i <= n => Row(D, 4, i, n) = D[i] \o Row(D, 4, i + 1, n)
  BY <1>0, <1>4, RowSteps
<1>6. /\ Row(C, 5, i, n) \in Seq(Operations)
      /\ i = n + 1 => Row(C, 5, i, n) = <<>>
      /\ i <= n => Row(C, 5, i, n) = C[i] \o Row(C, 5, i + 1, n)
  BY <1>0, <1>4, RowSteps
<1>7. /\ Row(W, 1, i, n) \in Seq(Operations)
      /\ i = n + 1 => Row(W, 1, i, n) = <<>>
      /\ i <= n => Row(W, 1, i, n) = W[i] \o Row(W, 1, i + 1, n)
  BY <1>0, <1>4, RowSteps
<1> QED BY <1>2, <1>3, <1>5, <1>6, <1>7

LEMMA JobsSteps ==
  ASSUME NEW n \in 0 .. MaxThreads, NEW i \in 1 .. n + 1, NEW f \in JobNames
  PROVE  /\ Jobs(f, i, n) \in Seq(Operations)
         /\ i = n + 1 => Jobs(f, i, n) = <<>>
         /\ i <= n => Jobs(f, i, n) = RunJob(i, f) \o Jobs(f, i + 1, n)
<1>0. n \in Nat /\ \A t \in 1 .. n : t \in Workers
  BY ThreadsAssumption DEF Workers
<1> DEFINE J == [t \in 1 .. n |-> RunJob(t, f)]
<1>1. \A t \in 1 .. n : RunJob(t, f) \in Seq(Operations) /\ Len(RunJob(t, f)) = 2
  BY <1>0, JobTypes
<1>2. ASSUME NEW k \in 1 .. n + 1
      PROVE  Jobs(f, k, n) = Row(J, 2, k, n)
  <2>1. Len(RunJob(k, f)) = 2
    BY JobTypes
  <2>2. \A j \in 1 .. (n - k + 1) * 2 : k + ((j - 1) \div 2) \in 1 .. n
    BY <1>0
  <2>3. Jobs(f, k, n) = [j \in 1 .. (n - k + 1) * 2 |-> RunJob(k + ((j - 1) \div 2), f)[1 + ((j - 1) % 2)]]
    BY <2>1 DEF Jobs, Each
  <2> QED BY <2>2, <2>3 DEF Row
<1>3. i <= n => J[i] = RunJob(i, f) /\ i + 1 \in 1 .. n + 1
  BY <1>0
<1>4. \A t \in 1 .. n : J[t] \in Seq(Operations) /\ Len(J[t]) = 2
  BY <1>1
<1> HIDE DEF J
<1>5. /\ Row(J, 2, i, n) \in Seq(Operations)
      /\ i = n + 1 => Row(J, 2, i, n) = <<>>
      /\ i <= n => Row(J, 2, i, n) = J[i] \o Row(J, 2, i + 1, n)
  BY <1>0, <1>4, RowSteps
<1> QED BY <1>2, <1>3, <1>5

-----------------------------------------------------------------------------
(* Programs as runs of a table of steps *)

\* Program p leads from a to b: there is a state between any two operations,
\* and each operation is a step of the table T.
Runs(T, S, p, a, b) ==
  \E s \in [0 .. Len(p) -> S] :
    /\ s[0] = a /\ s[Len(p)] = b
    /\ \A i \in 1 .. Len(p) : <<s[i - 1], p[i], s[i]>> \in T

LEMMA RunsNone ==
  ASSUME NEW T, NEW S, NEW a \in S, NEW b
  PROVE  /\ Runs(T, S, <<>>, a, a)
         /\ Runs(T, S, <<>>, a, b) => a = b
<1>1. Len(<<>>) = 0 /\ 1 .. 0 = {} /\ 0 .. 0 = {0}
  OBVIOUS
<1>2. Runs(T, S, <<>>, a, a)
  <2> DEFINE s == [i \in {0} |-> a]
  <2>1. s \in [{0} -> S] /\ s[0] = a
    OBVIOUS
  <2> HIDE DEF s
  <2> QED BY <1>1, <2>1 DEF Runs
<1>3. Runs(T, S, <<>>, a, b) => a = b
  BY <1>1 DEF Runs
<1> QED BY <1>2, <1>3

LEMMA RunsOne ==
  ASSUME NEW T, NEW S, NEW a \in S, NEW b \in S, NEW op, <<a, op, b>> \in T
  PROVE  Runs(T, S, <<op>>, a, b)
<1> DEFINE p == <<op>>
           s == [i \in 0 .. 1 |-> IF i = 0 THEN a ELSE b]
<1>1. Len(p) = 1 /\ p[1] = op
  OBVIOUS
<1>2. s \in [0 .. 1 -> S] /\ s[0] = a /\ s[1] = b
  OBVIOUS
<1> HIDE DEF p, s
<1>3. \A i \in 1 .. 1 : <<s[i - 1], p[i], s[i]>> \in T
  <2>1. <<s[1 - 1], p[1], s[1]>> \in T
    BY <1>1, <1>2
  <2> QED BY <2>1
<1>4. Runs(T, S, p, a, b)
  BY <1>1, <1>2, <1>3 DEF Runs
<1> QED BY <1>4 DEF p

LEMMA RunsCat ==
  ASSUME NEW T, NEW S, NEW O, NEW p \in Seq(O), NEW q \in Seq(O), NEW a, NEW b, NEW c,
         Runs(T, S, p, a, b), Runs(T, S, q, b, c)
  PROVE  Runs(T, S, p \o q, a, c)
<1>1. PICK s \in [0 .. Len(p) -> S] :
        s[0] = a /\ s[Len(p)] = b /\ \A i \in 1 .. Len(p) : <<s[i - 1], p[i], s[i]>> \in T
  BY DEF Runs
<1>2. PICK r \in [0 .. Len(q) -> S] :
        r[0] = b /\ r[Len(q)] = c /\ \A i \in 1 .. Len(q) : <<r[i - 1], q[i], r[i]>> \in T
  BY DEF Runs
<1> DEFINE m == Len(p)
           n == Len(q)
           u == p \o q
           v == [i \in 0 .. m + n |-> IF i <= m THEN s[i] ELSE r[i - m]]
<1>3. /\ m \in Nat /\ n \in Nat /\ Len(u) = m + n
      /\ \A i \in 1 .. m : u[i] = p[i]
      /\ \A i \in 1 .. n : u[m + i] = q[i]
  BY CatFacts
<1>4. /\ s \in [0 .. m -> S] /\ s[0] = a /\ s[m] = b
      /\ r \in [0 .. n -> S] /\ r[0] = b /\ r[n] = c
      /\ \A i \in 1 .. m : <<s[i - 1], p[i], s[i]>> \in T
      /\ \A i \in 1 .. n : <<r[i - 1], q[i], r[i]>> \in T
  BY <1>1, <1>2
<1> HIDE DEF m, n, u
<1>5. /\ v \in [0 .. m + n -> S]
      /\ \A i \in 0 .. m : v[i] = s[i]
      /\ \A i \in 0 .. n : v[m + i] = r[i]
  <2>1. \A i \in 0 .. m + n : (IF i <= m THEN s[i] ELSE r[i - m]) \in S
    BY <1>3, <1>4
  <2>2. \A i \in 0 .. m : v[i] = s[i]
    BY <1>3
  <2>3. \A i \in 0 .. n : v[m + i] = r[i]
    <3> SUFFICES ASSUME NEW i \in 0 .. n
                 PROVE  v[m + i] = r[i]
      OBVIOUS
    <3>1. CASE i = 0
      BY <1>3, <1>4, <3>1
    <3>2. CASE i > 0
      <4>1. m + i \in 0 .. m + n /\ ~(m + i <= m) /\ (m + i) - m = i
        BY <1>3, <3>2
      <4> QED BY <4>1
    <3> QED BY <3>1, <3>2
  <2> QED BY <2>1, <2>2, <2>3
<1> HIDE DEF v
<1>6. ASSUME NEW i \in 1 .. m + n
      PROVE  <<v[i - 1], u[i], v[i]>> \in T
  <2>1. CASE i <= m
    <3>1. i \in 1 .. m /\ i \in 0 .. m /\ i - 1 \in 0 .. m
      BY <1>3, <2>1
    <3> QED BY <1>3, <1>4, <1>5, <3>1
  <2>2. CASE i > m
    <3> DEFINE j == i - m
    <3>1. j \in 1 .. n /\ j \in 0 .. n /\ j - 1 \in 0 .. n /\ m + j = i /\ m + (j - 1) = i - 1
      BY <1>3, <2>2
    <3> HIDE DEF j
    <3>2. v[i] = r[j] /\ v[i - 1] = r[j - 1] /\ u[i] = q[j]
      BY <1>3, <1>5, <3>1
    <3> QED BY <1>4, <3>1, <3>2
  <2> QED BY <1>3, <2>1, <2>2
<1>7. v[0] = a /\ v[m + n] = c
  BY <1>3, <1>4, <1>5
<1>8. Runs(T, S, u, a, c)
  BY <1>3, <1>5, <1>6, <1>7 DEF Runs
<1> QED BY <1>8 DEF u

LEMMA RunsPop ==
  ASSUME NEW T, NEW S, NEW O, NEW p \in Seq(O), p # <<>>, NEW a, NEW b, Runs(T, S, p, a, b)
  PROVE  /\ a \in S
         /\ \E c \in S : <<a, Head(p), c>> \in T /\ Runs(T, S, Tail(p), c, b)
<1>1. PICK s \in [0 .. Len(p) -> S] :
        s[0] = a /\ s[Len(p)] = b /\ \A i \in 1 .. Len(p) : <<s[i - 1], p[i], s[i]>> \in T
  BY DEF Runs
<1> DEFINE n == Len(p) - 1
           q == Tail(p)
           r == [i \in 0 .. n |-> s[i + 1]]
<1>2. /\ n \in Nat /\ Len(p) = n + 1 /\ Len(q) = n /\ Head(p) = p[1]
      /\ \A i \in 1 .. n : q[i] = p[i + 1]
  BY TailFacts
<1>3. r \in [0 .. n -> S] /\ \A i \in 0 .. n : r[i] = s[i + 1]
  <2>1. \A i \in 0 .. n : i + 1 \in 0 .. Len(p)
    BY <1>2
  <2> QED BY <2>1
<1> HIDE DEF n, q, r
<1>4. r[0] = s[1] /\ r[n] = b /\ s[1] \in S
  BY <1>1, <1>2, <1>3
<1>5. ASSUME NEW i \in 1 .. n
      PROVE  <<r[i - 1], q[i], r[i]>> \in T
  <2>1. i \in 0 .. n /\ i - 1 \in 0 .. n /\ i + 1 \in 1 .. Len(p) /\ (i - 1) + 1 = (i + 1) - 1
    BY <1>2
  <2>2. <<s[(i + 1) - 1], p[i + 1], s[i + 1]>> \in T
    BY <1>1, <2>1
  <2>3. r[i - 1] = s[(i + 1) - 1] /\ r[i] = s[i + 1] /\ q[i] = p[i + 1]
    BY <1>2, <1>3, <2>1
  <2> QED BY <2>2, <2>3
<1>6. Runs(T, S, q, s[1], b)
  BY <1>2, <1>3, <1>4, <1>5 DEF Runs
<1>7. <<a, Head(p), s[1]>> \in T
  <2>1. 1 \in 1 .. Len(p) /\ 1 - 1 = 0
    BY <1>2
  <2> QED BY <1>1, <1>2, <2>1
<1>8. a \in S
  BY <1>1, <1>2
<1> QED BY <1>4, <1>6, <1>7, <1>8 DEF q

-----------------------------------------------------------------------------
(* What the UCI thread may rely on *)

\* The pool as far as its program decides: how many threads, which are alive,
\* have their worker or are leaving, whom a job was given that it has not
\* waited for, who has been set up for the search, whom it has to notify,
\* whether the main thread is known to be out of a search, and whether a "go"
\* is asked for (1) or its flags are reset (2).
View(n, alive, made, leaving, owed, setup, told, free, go) ==
  [n |-> n, alive |-> alive, made |-> made, leaving |-> leaving, owed |-> owed,
   setup |-> setup, told |-> told, free |-> free, go |-> go]

Coherent(a) ==
  /\ a.made \subseteq a.alive /\ a.leaving \subseteq a.alive /\ a.alive \subseteq 1 .. a.n
  /\ a.owed \subseteq a.alive
  /\ a.setup # {} => a.go = 2
  /\ a.told = 0 \/ a.told \in a.alive
  /\ ~a.free => /\ a.owed = {} /\ a.leaving = {} /\ a.n # 0 /\ a.go # 2
                /\ a.alive = 1 .. a.n /\ a.made = 1 .. a.n /\ a.told \in {0, Main}

Views ==
  {a \in [n : 0 .. MaxThreads, alive : SUBSET Workers, made : SUBSET Workers,
          leaving : SUBSET Workers, owed : SUBSET Workers, setup : SUBSET Workers,
          told : 0 .. MaxThreads, free : BOOLEAN, go : 0 .. 2] : Coherent(a)}

\* The job f may be given to thread t.
MayRun(a, t, f) ==
  /\ a.free /\ t \in a.alive \ a.owed
  /\ \/ f = "construct" /\ a.leaving = {}
     \/ f \in {"clear", "zero"} /\ a.leaving = {} /\ t \in a.made
     \/ f = "setup" /\ a.leaving = {} /\ t \in a.made /\ a.go = 2
     \/ f = "search" /\ t \in a.leaving /\ t \in a.made
     \/ /\ f = "search" /\ t = Main /\ a.leaving = {} /\ a.owed = {} /\ a.go = 2
        /\ a.n # 0 /\ a.alive = 1 .. a.n /\ a.made = 1 .. a.n /\ a.setup = 1 .. a.n

\* The steps of the UCI thread that keep the pool whole, and what they do.
May(a, op) ==
  \/ op[1] = "notify" /\ a.told = op[2] /\ op[2] \in Workers
  \/ /\ a.told = 0
     /\ \/ op[1] = "wait" /\ op[2] \in Workers /\ (a.free \/ op[2] = Main)
        \/ op[1] = "run" /\ MayRun(a, op[2], op[3])
        \/ /\ op[1] = "spawn" /\ a.free /\ a.leaving = {} /\ a.go = 0
           /\ a.alive = 1 .. a.n /\ op[2] = a.n + 1 /\ op[2] \in Workers
        \/ /\ op[1] = "exit" /\ a.free /\ a.leaving = {} /\ a.go = 0
           /\ op[2] \in (a.alive \cap a.made) \ a.owed
        \/ /\ op[1] = "join" /\ a.free /\ op[2] \in a.leaving \ a.owed /\ a.go = 0
           /\ op[2] = a.n => a.alive = {a.n} 
        \/ op[1] = "reset" /\ a.free /\ a.leaving = {} /\ a.owed = {} /\ a.go = 1

AfterJob(a, t, f) ==
  IF t \in a.leaving THEN a
  ELSE IF f = "search" THEN View(a.n, a.alive, a.made, a.leaving, a.owed, {}, 0, FALSE, 0)
  ELSE View(a.n, a.alive, IF f = "construct" THEN a.made \cup {t} ELSE a.made, a.leaving, a.owed \cup {t},
            IF f = "setup" THEN a.setup \cup {t} ELSE a.setup, 0, a.free, a.go)

Telling(a, t) == View(a.n, a.alive, a.made, a.leaving, a.owed, a.setup, t, a.free, a.go)

After(a, op) ==
  LET t == op[2] IN
  CASE op[1] = "notify" -> Telling(a, 0)
    [] op[1] = "wait"   -> View(a.n, a.alive, a.made, a.leaving, a.owed \ {t}, a.setup, a.told, TRUE, a.go)
    [] op[1] = "run"    -> Telling(AfterJob(a, t, op[3]), t)
    [] op[1] = "spawn"  -> View(t, a.alive \cup {t}, a.made, a.leaving, a.owed \cup {t}, a.setup, a.told, a.free, a.go)
    [] op[1] = "exit"   -> View(a.n, a.alive, a.made, {t}, a.owed, a.setup, a.told, a.free, a.go)
    [] op[1] = "join"   -> View(IF t = a.n THEN 0 ELSE a.n, a.alive \ {t}, a.made \ {t}, a.leaving \ {t},
                                a.owed, a.setup, a.told, a.free, a.go)
    [] op[1] = "reset"  -> View(a.n, a.alive, a.made, a.leaving, a.owed, {}, a.told, a.free, 2)
    [] OTHER            -> a

Moves == {m \in Views \X Operations \X Views : May(m[1], m[2]) /\ m[3] = After(m[1], m[2])}

\* A pool that is not being rebuilt.
Pool(n, owed, setup, free, go) == View(n, 1 .. n, 1 .. n, {}, owed, setup, 0, free, go)

\* Where a program may end: with a whole pool, or with none when the engine is torn down.
AtRest(a, open) ==
  /\ a.told = 0 /\ a.go = 0 /\ a.owed = {} /\ a.leaving = {}
  /\ open => a.n # 0 /\ a.alive = 1 .. a.n /\ a.made = 1 .. a.n

Leads(p, a, open) ==
  /\ p \in Seq(Operations) /\ a \in Views
  /\ \E b \in Views : Runs(Moves, Views, p, a, b) /\ AtRest(b, open)

LEMMA ViewTypes ==
  ASSUME NEW n \in 0 .. MaxThreads, NEW al \in SUBSET Workers, NEW md \in SUBSET Workers,
         NEW lv \in SUBSET Workers, NEW ow \in SUBSET Workers, NEW su \in SUBSET Workers,
         NEW to \in 0 .. MaxThreads, NEW fr \in BOOLEAN, NEW go \in 0 .. 2
  PROVE  LET a == View(n, al, md, lv, ow, su, to, fr, go)
         IN  /\ a.n = n /\ a.alive = al /\ a.made = md /\ a.leaving = lv /\ a.owed = ow
             /\ a.setup = su /\ a.told = to /\ a.free = fr /\ a.go = go
             /\ Coherent(a) => a \in Views
BY DEF View, Views

LEMMA ViewFields ==
  ASSUME NEW a \in Views
  PROVE  /\ a.n \in 0 .. MaxThreads /\ a.told \in 0 .. MaxThreads /\ a.free \in BOOLEAN /\ a.go \in 0 .. 2
         /\ a.alive \subseteq Workers /\ a.made \subseteq Workers /\ a.leaving \subseteq Workers
         /\ a.owed \subseteq Workers /\ a.setup \subseteq Workers /\ Coherent(a)
         /\ MaxThreads \in Nat /\ Workers = 1 .. MaxThreads
BY ThreadsAssumption DEF Views, Workers

LEMMA MoveTypes ==
  ASSUME NEW a \in Views, NEW op \in Operations, May(a, op)
  PROVE  After(a, op) \in Views /\ <<a, op, After(a, op)>> \in Moves
<1> DEFINE t == op[2]
           b == After(a, op)
<1> SUFFICES b \in Views
  BY DEF Moves
<1> HIDE DEF b, t
<1>1. /\ a.n \in 0 .. MaxThreads /\ a.told \in 0 .. MaxThreads /\ a.free \in BOOLEAN /\ a.go \in 0 .. 2
      /\ a.alive \in SUBSET Workers /\ a.made \in SUBSET Workers /\ a.leaving \in SUBSET Workers
      /\ a.owed \in SUBSET Workers /\ a.setup \in SUBSET Workers /\ Coherent(a)
      /\ MaxThreads \in Nat /\ Workers = 1 .. MaxThreads
      /\ {} \in SUBSET Workers /\ 0 \in 0 .. MaxThreads /\ FALSE \in BOOLEAN /\ TRUE \in BOOLEAN
      /\ 0 \in 0 .. 2 /\ 2 \in 0 .. 2
  BY ViewFields
<1>2. CASE op[1] = "notify"
  <2> DEFINE al == a.alive
             md == a.made
             lv == a.leaving
             ow == a.owed
             su == a.setup
             m == a.n
  <2>1. b = View(m, al, md, lv, ow, su, 0, a.free, a.go)
    BY <1>2 DEF After, Telling, b, t
  <2>2. TRUE
    BY <1>2 DEF May, t
  <2>3. /\ m \in 0 .. MaxThreads /\ al \in SUBSET Workers /\ md \in SUBSET Workers /\ lv \in SUBSET Workers
        /\ ow \in SUBSET Workers /\ su \in SUBSET Workers /\ 0 \in 0 .. MaxThreads
    BY <1>1, <2>2
  <2> HIDE DEF al, md, lv, ow, su, m
  <2>4. /\ b.n = m /\ b.alive = al /\ b.made = md /\ b.leaving = lv /\ b.owed = ow
        /\ b.setup = su /\ b.told = 0 /\ b.free = a.free /\ b.go = a.go /\ (Coherent(b) => b \in Views)
    BY <1>1, <2>1, <2>3, ViewTypes
  <2>5. Coherent(b)
    BY <1>1, <1>2, <2>2, <2>4 DEF Coherent, Main, al, md, lv, ow, su, m
  <2> QED BY <2>4, <2>5
<1>3. CASE op[1] = "wait"
  <2> DEFINE al == a.alive
             md == a.made
             lv == a.leaving
             ow == a.owed \ {t}
             su == a.setup
             m == a.n
             fr == TRUE
  <2>1. b = View(m, al, md, lv, ow, su, a.told, fr, a.go)
    BY <1>3 DEF After, b, t
  <2>2. a.told = 0
    BY <1>3 DEF May, t
  <2>3. /\ m \in 0 .. MaxThreads /\ al \in SUBSET Workers /\ md \in SUBSET Workers /\ lv \in SUBSET Workers
        /\ ow \in SUBSET Workers /\ su \in SUBSET Workers /\ fr \in BOOLEAN /\ a.told \in 0 .. MaxThreads
    BY <1>1, <2>2
  <2> HIDE DEF al, md, lv, ow, su, m, fr
  <2>4. /\ b.n = m /\ b.alive = al /\ b.made = md /\ b.leaving = lv /\ b.owed = ow
        /\ b.setup = su /\ b.told = a.told /\ b.free = fr /\ b.go = a.go /\ (Coherent(b) => b \in Views)
    BY <1>1, <2>1, <2>3, ViewTypes
  <2>5. Coherent(b)
    BY <1>1, <1>3, <2>2, <2>4 DEF Coherent, Main, al, md, lv, ow, su, m, fr
  <2> QED BY <2>4, <2>5
<1>4. CASE op[1] = "run" /\ t \in a.leaving
  <2> DEFINE al == a.alive
             md == a.made
             lv == a.leaving
             ow == a.owed
             su == a.setup
             m == a.n
  <2>1. b = View(m, al, md, lv, ow, su, t, a.free, a.go)
    BY <1>4 DEF After, AfterJob, Telling, b, t
  <2>2. a.free /\ t \in a.alive
    BY <1>4 DEF May, MayRun, t
  <2>3. /\ m \in 0 .. MaxThreads /\ al \in SUBSET Workers /\ md \in SUBSET Workers /\ lv \in SUBSET Workers
        /\ ow \in SUBSET Workers /\ su \in SUBSET Workers /\ t \in 0 .. MaxThreads
    BY <1>1, <2>2
  <2> HIDE DEF al, md, lv, ow, su, m
  <2>4. /\ b.n = m /\ b.alive = al /\ b.made = md /\ b.leaving = lv /\ b.owed = ow
        /\ b.setup = su /\ b.told = t /\ b.free = a.free /\ b.go = a.go /\ (Coherent(b) => b \in Views)
    BY <1>1, <2>1, <2>3, ViewTypes
  <2>5. Coherent(b)
    BY <1>1, <1>4, <2>2, <2>4 DEF Coherent, Main, al, md, lv, ow, su, m
  <2> QED BY <2>4, <2>5
<1>5. CASE op[1] = "run" /\ t \notin a.leaving /\ op[3] = "search"
  <2> DEFINE al == a.alive
             md == a.made
             lv == a.leaving
             ow == a.owed
             su == {}
             m == a.n
             fr == FALSE
  <2>1. b = View(m, al, md, lv, ow, su, t, fr, 0)
    BY <1>5 DEF After, AfterJob, Telling, View, b, t
  <2>2. t = Main /\ a.leaving = {} /\ a.owed = {} /\ a.n # 0 /\ t \in a.alive /\ a.alive = 1 .. a.n /\ a.made = 1 .. a.n
    BY <1>5 DEF May, MayRun, t
  <2>3. /\ m \in 0 .. MaxThreads /\ al \in SUBSET Workers /\ md \in SUBSET Workers /\ lv \in SUBSET Workers
        /\ ow \in SUBSET Workers /\ su \in SUBSET Workers /\ fr \in BOOLEAN /\ t \in 0 .. MaxThreads
    BY <1>1, <2>2
  <2> HIDE DEF al, md, lv, ow, su, m, fr
  <2>4. /\ b.n = m /\ b.alive = al /\ b.made = md /\ b.leaving = lv /\ b.owed = ow
        /\ b.setup = su /\ b.told = t /\ b.free = fr /\ b.go = 0 /\ (Coherent(b) => b \in Views)
    BY <1>1, <2>1, <2>3, ViewTypes
  <2>5. Coherent(b)
    BY <1>1, <1>5, <2>2, <2>4 DEF Coherent, Main, al, md, lv, ow, su, m, fr
  <2> QED BY <2>4, <2>5
<1>6. CASE op[1] = "run" /\ t \notin a.leaving /\ op[3] # "search"
  <2> DEFINE al == a.alive
             md == IF op[3] = "construct" THEN a.made \cup {t} ELSE a.made
             lv == a.leaving
             ow == a.owed \cup {t}
             su == IF op[3] = "setup" THEN a.setup \cup {t} ELSE a.setup
             m == a.n
  <2>1. b = View(m, al, md, lv, ow, su, t, a.free, a.go)
    BY <1>6 DEF After, AfterJob, Telling, View, b, t
  <2>2. a.free /\ t \in a.alive /\ (op[3] = "setup" => a.go = 2)
    BY <1>6 DEF May, MayRun, t
  <2>3. /\ m \in 0 .. MaxThreads /\ al \in SUBSET Workers /\ md \in SUBSET Workers /\ lv \in SUBSET Workers
        /\ ow \in SUBSET Workers /\ su \in SUBSET Workers /\ t \in 0 .. MaxThreads
    BY <1>1, <2>2
  <2> HIDE DEF al, md, lv, ow, su, m
  <2>4. /\ b.n = m /\ b.alive = al /\ b.made = md /\ b.leaving = lv /\ b.owed = ow
        /\ b.setup = su /\ b.told = t /\ b.free = a.free /\ b.go = a.go /\ (Coherent(b) => b \in Views)
    BY <1>1, <2>1, <2>3, ViewTypes
  <2>5. Coherent(b)
    BY <1>1, <1>6, <2>2, <2>4 DEF Coherent, Main, al, md, lv, ow, su, m
  <2> QED BY <2>4, <2>5
<1>7. CASE op[1] = "spawn"
  <2> DEFINE al == a.alive \cup {t}
             md == a.made
             lv == a.leaving
             ow == a.owed \cup {t}
             su == a.setup
             m == t
  <2>1. b = View(m, al, md, lv, ow, su, a.told, a.free, a.go)
    BY <1>7 DEF After, b, t
  <2>2. a.told = 0 /\ a.free /\ a.leaving = {} /\ a.go = 0 /\ a.alive = 1 .. a.n /\ t = a.n + 1 /\ t \in Workers
    BY <1>7 DEF May, t
  <2>3. /\ m \in 0 .. MaxThreads /\ al \in SUBSET Workers /\ md \in SUBSET Workers /\ lv \in SUBSET Workers
        /\ ow \in SUBSET Workers /\ su \in SUBSET Workers /\ a.told \in 0 .. MaxThreads
    BY <1>1, <2>2
  <2> HIDE DEF al, md, lv, ow, su, m
  <2>4. /\ b.n = m /\ b.alive = al /\ b.made = md /\ b.leaving = lv /\ b.owed = ow
        /\ b.setup = su /\ b.told = a.told /\ b.free = a.free /\ b.go = a.go /\ (Coherent(b) => b \in Views)
    BY <1>1, <2>1, <2>3, ViewTypes
  <2>5. Coherent(b)
    BY <1>1, <1>7, <2>2, <2>4 DEF Coherent, Main, al, md, lv, ow, su, m
  <2> QED BY <2>4, <2>5
<1>8. CASE op[1] = "exit"
  <2> DEFINE al == a.alive
             md == a.made
             lv == {t}
             ow == a.owed
             su == a.setup
             m == a.n
  <2>1. b = View(m, al, md, lv, ow, su, a.told, a.free, a.go)
    BY <1>8 DEF After, b, t
  <2>2. a.told = 0 /\ a.free /\ t \in a.alive
    BY <1>8 DEF May, t
  <2>3. /\ m \in 0 .. MaxThreads /\ al \in SUBSET Workers /\ md \in SUBSET Workers /\ lv \in SUBSET Workers
        /\ ow \in SUBSET Workers /\ su \in SUBSET Workers /\ a.told \in 0 .. MaxThreads
    BY <1>1, <2>2
  <2> HIDE DEF al, md, lv, ow, su, m
  <2>4. /\ b.n = m /\ b.alive = al /\ b.made = md /\ b.leaving = lv /\ b.owed = ow
        /\ b.setup = su /\ b.told = a.told /\ b.free = a.free /\ b.go = a.go /\ (Coherent(b) => b \in Views)
    BY <1>1, <2>1, <2>3, ViewTypes
  <2>5. Coherent(b)
    BY <1>1, <1>8, <2>2, <2>4 DEF Coherent, Main, al, md, lv, ow, su, m
  <2> QED BY <2>4, <2>5
<1>9. CASE op[1] = "join"
  <2> DEFINE al == a.alive \ {t}
             md == a.made \ {t}
             lv == a.leaving \ {t}
             ow == a.owed
             su == a.setup
             m == IF t = a.n THEN 0 ELSE a.n
  <2>1. b = View(m, al, md, lv, ow, su, a.told, a.free, a.go)
    BY <1>9 DEF After, b, t
  <2>2. a.told = 0 /\ a.free /\ t \in a.leaving /\ t \notin a.owed /\ (t = a.n => a.alive = {a.n})
    BY <1>9 DEF May, t
  <2>3. /\ m \in 0 .. MaxThreads /\ al \in SUBSET Workers /\ md \in SUBSET Workers /\ lv \in SUBSET Workers
        /\ ow \in SUBSET Workers /\ su \in SUBSET Workers /\ a.told \in 0 .. MaxThreads
    BY <1>1, <2>2
  <2> HIDE DEF al, md, lv, ow, su, m
  <2>4. /\ b.n = m /\ b.alive = al /\ b.made = md /\ b.leaving = lv /\ b.owed = ow
        /\ b.setup = su /\ b.told = a.told /\ b.free = a.free /\ b.go = a.go /\ (Coherent(b) => b \in Views)
    BY <1>1, <2>1, <2>3, ViewTypes
  <2>5. Coherent(b)
    BY <1>1, <1>9, <2>2, <2>4 DEF Coherent, Main, al, md, lv, ow, su, m
  <2> QED BY <2>4, <2>5
<1>10. CASE op[1] = "reset"
  <2> DEFINE al == a.alive
             md == a.made
             lv == a.leaving
             ow == a.owed
             su == {}
             m == a.n
  <2>1. b = View(m, al, md, lv, ow, su, a.told, a.free, 2)
    BY <1>10 DEF After, b, t
  <2>2. a.free
    BY <1>10 DEF May, t
  <2>3. /\ m \in 0 .. MaxThreads /\ al \in SUBSET Workers /\ md \in SUBSET Workers /\ lv \in SUBSET Workers
        /\ ow \in SUBSET Workers /\ su \in SUBSET Workers /\ a.told \in 0 .. MaxThreads
    BY <1>1, <2>2
  <2> HIDE DEF al, md, lv, ow, su, m
  <2>4. /\ b.n = m /\ b.alive = al /\ b.made = md /\ b.leaving = lv /\ b.owed = ow
        /\ b.setup = su /\ b.told = a.told /\ b.free = a.free /\ b.go = 2 /\ (Coherent(b) => b \in Views)
    BY <1>1, <2>1, <2>3, ViewTypes
  <2>5. Coherent(b)
    BY <1>1, <1>10, <2>2, <2>4 DEF Coherent, Main, al, md, lv, ow, su, m
  <2> QED BY <2>4, <2>5
<1> QED BY <1>2, <1>3, <1>4, <1>5, <1>6, <1>7, <1>8, <1>9, <1>10 DEF May, t

\* What a program does next, and that it may end where it ends.
LEMMA LeadsOn ==
  ASSUME NEW p, NEW a, NEW open, Leads(p, a, open)
  PROVE  /\ p = <<>> => AtRest(a, open)
         /\ p # <<>> => /\ Head(p) \in Operations /\ May(a, Head(p))
                        /\ After(a, Head(p)) \in Views
                        /\ Leads(Tail(p), After(a, Head(p)), open)
<1>1. PICK b \in Views : Runs(Moves, Views, p, a, b) /\ AtRest(b, open)
  BY DEF Leads
<1>2. p \in Seq(Operations) /\ a \in Views
  BY DEF Leads
<1>3. CASE p = <<>>
  BY <1>1, <1>2, <1>3, RunsNone
<1>4. CASE p # <<>>
  <2>1. PICK c \in Views : <<a, Head(p), c>> \in Moves /\ Runs(Moves, Views, Tail(p), c, b)
    BY <1>1, <1>2, <1>4, RunsPop
  <2>2. Head(p) \in Operations /\ May(a, Head(p)) /\ c = After(a, Head(p))
    BY <2>1 DEF Moves
  <2>3. Tail(p) \in Seq(Operations)
    BY <1>2, <1>4
  <2> QED BY <1>1, <1>4, <2>1, <2>2, <2>3 DEF Leads
<1> QED BY <1>3, <1>4

-----------------------------------------------------------------------------
(* The programs of the UCI thread keep the pool whole *)

LEMMA Cat11 ==
  ASSUME NEW S, NEW a \in S, NEW b \in S
  PROVE  <<a>> \in Seq(S) /\ <<b>> \in Seq(S) /\ <<a>> \o <<b>> = <<a, b>>
<1> DEFINE s == <<a>>
           t == <<b>>
           A == <<a, b>>
<1>1. /\ s \in Seq(S) /\ t \in Seq(S) /\ A \in Seq(S)
      /\ Len(s) = 1 /\ Len(t) = 1 /\ Len(A) = 2
      /\ \A j \in 1 .. 1 : A[j] = s[j]
      /\ \A j \in 1 .. 1 : A[1 + j] = t[j]
  OBVIOUS
<1> HIDE DEF s, t, A
<1>2. Len(A) = Len(s) + Len(t)
  BY <1>1
<1>3. (\A j \in 1 .. Len(s) : A[j] = s[j]) /\ \A j \in 1 .. Len(t) : A[Len(s) + j] = t[j]
  BY <1>1
<1>4. A = s \o t
  BY <1>1, <1>2, <1>3, CatIs
<1> QED BY <1>1, <1>4 DEF A, s, t

\* One operation as a program of its own.
LEMMA StepRuns ==
  ASSUME NEW a \in Views, NEW op \in Operations, May(a, op)
  PROVE  After(a, op) \in Views /\ Runs(Moves, Views, <<op>>, a, After(a, op))
BY MoveTypes, RunsOne

LEMMA WaitRuns ==
  ASSUME NEW a \in Views, NEW t \in Workers, a.told = 0, a.free \/ t = Main,
         NEW b, b = View(a.n, a.alive, a.made, a.leaving, a.owed \ {t}, a.setup, 0, TRUE, a.go)
  PROVE  b \in Views /\ Runs(Moves, Views, WaitFor(t), a, b)
<1>1. May(a, Await(t)) /\ Await(t) \in Operations /\ WaitFor(t) = <<Await(t)>> /\ b = After(a, Await(t))
  <2>1. May(a, Await(t))
    BY DEF May, Await
  <2>2. b = After(a, Await(t))
    BY DEF After, Await
  <2> QED BY <2>1, <2>2, WaitTypes
<1> QED BY <1>1, StepRuns

LEMMA JobRuns ==
  ASSUME NEW a \in Views, NEW t \in Workers, NEW f \in JobNames, a.told = 0, MayRun(a, t, f)
  PROVE  AfterJob(a, t, f) \in Views /\ Runs(Moves, Views, RunJob(t, f), a, AfterJob(a, t, f))
<1> DEFINE x == Job(t, f)
           y == Told(t)
           b == AfterJob(a, t, f)
           c == After(a, x)
<1>1. x \in Operations /\ y \in Operations /\ RunJob(t, f) = <<x, y>>
  BY JobTypes
<1>2. May(a, x)
  BY DEF May, Job
<1>3. c \in Views /\ Runs(Moves, Views, <<x>>, a, c)
  BY <1>1, <1>2, StepRuns
<1>4. c = Telling(b, t)
  BY DEF After, Job
<1>5. c.told = t
  BY <1>4 DEF Telling, View
<1>6. May(c, y)
  BY <1>5 DEF May, Told
<1>7. b = View(b.n, b.alive, b.made, b.leaving, b.owed, b.setup, 0, b.free, b.go)
  BY DEF AfterJob, Views, View
<1>8. After(c, y) = b
  <2>1. After(c, y) = Telling(c, 0)
    BY DEF After, Told
  <2> HIDE DEF b, c
  <2>2. Telling(c, 0) = Telling(b, 0)
    BY <1>4 DEF Telling, View
  <2>3. Telling(b, 0) = b
    BY <1>7 DEF Telling
  <2> QED BY <2>1, <2>2, <2>3
<1> HIDE DEF x, y, b, c
<1>9. b \in Views /\ Runs(Moves, Views, <<y>>, c, b)
  BY <1>1, <1>3, <1>6, <1>8, StepRuns
<1>10. <<x>> \in Seq(Operations) /\ <<y>> \in Seq(Operations) /\ <<x>> \o <<y>> = <<x, y>>
  BY <1>1, Cat11
<1>11. Runs(Moves, Views, RunJob(t, f), a, b)
  BY <1>1, <1>3, <1>9, <1>10, RunsCat
<1> QED BY <1>9, <1>11 DEF b

\* A pool with threads i to n, all idle.
Left(i, n) == View(IF i <= n THEN n ELSE 0, i .. n, i .. n, {}, {}, {}, 0, TRUE, 0)

LEMMA PoolTypes ==
  ASSUME NEW n \in 0 .. MaxThreads
  PROVE  /\ \A i \in 1 .. n + 1 : Left(i, n) \in Views
         /\ \A go \in 0 .. 2, free \in BOOLEAN : free \/ (n # 0 /\ go # 2) => Pool(n, {}, {}, free, go) \in Views
<1>0. MaxThreads \in Nat /\ Workers = 1 .. MaxThreads /\ n \in Nat /\ n <= MaxThreads
  BY ThreadsAssumption DEF Workers
<1>1. ASSUME NEW i \in 1 .. n + 1
      PROVE  Left(i, n) \in Views
  <2> DEFINE m == IF i <= n THEN n ELSE 0
             R == i .. n
  <2>1. m \in 0 .. MaxThreads /\ R \subseteq Workers /\ R \subseteq 1 .. m
    BY <1>0
  <2> HIDE DEF m, R
  <2> DEFINE a == View(m, R, R, {}, {}, {}, 0, TRUE, 0)
  <2>3. Coherent(a)
    BY <2>1 DEF View, Coherent
  <2>4. a \in Views
    BY <1>0, <2>1, <2>3 DEF View, Views
  <2> QED BY <2>4 DEF Left, m, R
<1>2. ASSUME NEW go \in 0 .. 2, NEW free \in BOOLEAN, free \/ (n # 0 /\ go # 2)
      PROVE  Pool(n, {}, {}, free, go) \in Views
  <2> DEFINE R == 1 .. n
  <2>1. R \subseteq Workers
    BY <1>0
  <2> HIDE DEF R
  <2>2. View(n, R, R, {}, {}, {}, 0, free, go) \in Views
    BY <1>0, <1>2, <2>1 DEF View, Views, Coherent, R
  <2> QED BY <2>2 DEF Pool, R
<1> QED BY <1>1, <1>2

LEMMA DestroyRuns ==
  ASSUME NEW n \in 0 .. MaxThreads, NEW t \in 1 .. n
  PROVE  Runs(Moves, Views, Destroy(t), Left(t, n), Left(t + 1, n))
<1>0. /\ MaxThreads \in Nat /\ Workers = 1 .. MaxThreads /\ n \in Nat /\ n <= MaxThreads
      /\ t \in Workers /\ t <= n
  BY ThreadsAssumption DEF Workers
<1> DEFINE x == <<"exit", t, "">>
           y == <<"join", t, "">>
           R == t .. n
           a == View(n, R, R, {}, {}, {}, 0, TRUE, 0)
           b == View(n, R, R, {t}, {}, {}, 0, TRUE, 0)
           c == View(IF t = n THEN 0 ELSE n, R \ {t}, R \ {t}, {}, {}, {}, 0, TRUE, 0)
<1>1. t \in R /\ (t = n => R = {n}) /\ R \ {t} = t + 1 .. n
  BY <1>0
<1>2. Left(t, n) = a /\ Left(t + 1, n) = c
  <2>1. t <= n /\ (t + 1 <= n <=> t # n)
    BY <1>0
  <2> QED BY <1>1, <2>1 DEF Left
<1>3. a \in Views /\ x \in Operations /\ y \in Operations
  <2>1. x \in Operations /\ y \in Operations
    BY <1>0, OpTypes
  <2>2. Left(t, n) \in Views
    BY <1>0, PoolTypes
  <2> QED BY <1>2, <2>1, <2>2
<1> HIDE DEF R
<1>4. May(a, x) /\ After(a, x) = b
  <2>1. May(a, x)
    BY <1>1 DEF May, View
  <2>2. After(a, x) = View(a.n, a.alive, a.made, {t}, a.owed, a.setup, a.told, a.free, a.go)
    BY DEF After
  <2> QED BY <2>1, <2>2 DEF View
<1>5. b \in Views /\ Runs(Moves, Views, <<x>>, a, b)
  <2> HIDE DEF a, b, x
  <2> QED BY <1>3, <1>4, StepRuns
<1>6. Runs(Moves, Views, RunJob(t, "search"), b, b)
  <2>1. MayRun(b, t, "search") /\ b.told = 0 /\ t \in b.leaving
    BY <1>1 DEF MayRun, View
  <2>2. "search" \in JobNames
    BY DEF JobNames
  <2> HIDE DEF b
  <2>3. AfterJob(b, t, "search") = b
    BY <2>1 DEF AfterJob
  <2> QED BY <1>0, <1>5, <2>1, <2>2, <2>3, JobRuns
<1>7. May(b, y) /\ After(b, y) = c
  <2>1. May(b, y)
    BY <1>1 DEF May, View
  <2>2. After(b, y) = View(IF t = b.n THEN 0 ELSE b.n, b.alive \ {t}, b.made \ {t}, b.leaving \ {t},
                           b.owed, b.setup, b.told, b.free, b.go)
    BY DEF After
  <2>3. {t} \ {t} = {}
    OBVIOUS
  <2> QED BY <2>1, <2>2, <2>3 DEF View
<1>8. Runs(Moves, Views, <<y>>, b, c)
  <2> HIDE DEF b, c, y
  <2> QED BY <1>3, <1>5, <1>7, StepRuns
<1>9. Destroy(t) = <<x>> \o RunJob(t, "search") \o <<y>>
  BY DEF Destroy
<1>10. <<x>> \in Seq(Operations) /\ <<y>> \in Seq(Operations) /\ RunJob(t, "search") \in Seq(Operations)
  <2>1. "search" \in JobNames
    BY DEF JobNames
  <2>2. RunJob(t, "search") \in Seq(Operations)
    BY <1>0, <2>1, JobTypes
  <2> HIDE DEF x, y
  <2> QED BY <1>3, <2>2
<1> HIDE DEF a, b, c, x, y
<1>11. /\ Runs(Moves, Views, <<x>> \o RunJob(t, "search"), a, b)
       /\ <<x>> \o RunJob(t, "search") \in Seq(Operations)
  BY <1>5, <1>6, <1>10, RunsCat, CatFacts
<1>12. Runs(Moves, Views, (<<x>> \o RunJob(t, "search")) \o <<y>>, a, c)
  BY <1>8, <1>10, <1>11, RunsCat
<1> QED BY <1>2, <1>9, <1>12

LEMMA ConstructRuns ==
  ASSUME NEW t \in Workers
  PROVE  Runs(Moves, Views, Construct(t), Left(1, t - 1), Left(1, t))
<1>0. /\ MaxThreads \in Nat /\ Workers = 1 .. MaxThreads /\ t \in Nat /\ t # 0
      /\ t - 1 \in 0 .. MaxThreads /\ t \in 0 .. MaxThreads
  BY ThreadsAssumption DEF Workers
<1> DEFINE x == <<"spawn", t, "">>
           Q == 1 .. t - 1
           R == 1 .. t
           w == WaitFor(t)
           j == RunJob(t, "construct")
           a == View(t - 1, Q, Q, {}, {}, {}, 0, TRUE, 0)
           b == View(t, R, Q, {}, {t}, {}, 0, TRUE, 0)
           c == View(t, R, Q, {}, {}, {}, 0, TRUE, 0)
           d == View(t, R, R, {}, {t}, {}, 0, TRUE, 0)
           e == View(t, R, R, {}, {}, {}, 0, TRUE, 0)
<1>1. t \in R /\ t \notin Q /\ Q \cup {t} = R
  BY <1>0
<1>2. Left(1, t - 1) = a /\ Left(1, t) = e
  <2>1. (1 <= t - 1 <=> t - 1 # 0) /\ 1 <= t
    BY <1>0
  <2> QED BY <2>1 DEF Left
<1>3. a \in Views /\ x \in Operations
  <2>1. 1 \in 1 .. (t - 1) + 1
    BY <1>0
  <2> QED BY <1>0, <1>2, <2>1, PoolTypes, OpTypes
<1>4. May(a, x) /\ After(a, x) = b
  <2>1. May(a, x)
    BY <1>0 DEF May, View
  <2>2. After(a, x) = View(t, a.alive \cup {t}, a.made, a.leaving, a.owed \cup {t}, a.setup, a.told, a.free, a.go)
    BY DEF After
  <2> HIDE DEF Q, R
  <2>3. {} \cup {t} = {t}
    OBVIOUS
  <2> QED BY <1>1, <2>1, <2>2, <2>3 DEF View
<1> HIDE DEF Q, R
<1>5. b \in Views /\ Runs(Moves, Views, <<x>>, a, b)
  <2> HIDE DEF a, b, x
  <2> QED BY <1>3, <1>4, StepRuns
<1>s. {t} \ {t} = {} /\ {} \cup {t} = {t}
  OBVIOUS
<1>6. c \in Views /\ Runs(Moves, Views, w, b, c)
  <2>1. /\ c = View(b.n, b.alive, b.made, b.leaving, b.owed \ {t}, b.setup, 0, TRUE, b.go)
        /\ b.told = 0 /\ b.free = TRUE
    BY <1>s DEF View
  <2> HIDE DEF b, c
  <2> QED BY <1>5, <2>1, WaitRuns
<1>7. d \in Views /\ Runs(Moves, Views, j, c, d)
  <2>1. MayRun(c, t, "construct") /\ c.told = 0 /\ t \notin c.leaving
    BY <1>1 DEF MayRun, View
  <2>2. d = AfterJob(c, t, "construct")
    BY <1>1, <1>s DEF View, AfterJob
  <2>3. "construct" \in JobNames
    BY DEF JobNames, Plain
  <2> HIDE DEF c, d
  <2> QED BY <1>6, <2>1, <2>2, <2>3, JobRuns
<1>8. e \in Views /\ Runs(Moves, Views, w, d, e)
  <2>1. /\ e = View(d.n, d.alive, d.made, d.leaving, d.owed \ {t}, d.setup, 0, TRUE, d.go)
        /\ d.told = 0 /\ d.free = TRUE
    BY <1>s DEF View
  <2> HIDE DEF d, e
  <2> QED BY <1>7, <2>1, WaitRuns
<1>9. Construct(t) = ((<<x>> \o w) \o j) \o w
  BY DEF Construct
<1>10. <<x>> \in Seq(Operations) /\ w \in Seq(Operations) /\ j \in Seq(Operations)
  <2>1. "construct" \in JobNames
    BY DEF JobNames, Plain
  <2>2. w \in Seq(Operations) /\ j \in Seq(Operations)
    BY <2>1, JobTypes, WaitTypes
  <2> HIDE DEF x, w, j
  <2> QED BY <1>3, <2>2
<1> HIDE DEF a, b, c, d, e, x, w, j
<1>11. Runs(Moves, Views, <<x>> \o w, a, c) /\ <<x>> \o w \in Seq(Operations)
  BY <1>5, <1>6, <1>10, RunsCat, CatFacts
<1>12. Runs(Moves, Views, (<<x>> \o w) \o j, a, d) /\ (<<x>> \o w) \o j \in Seq(Operations)
  BY <1>7, <1>10, <1>11, RunsCat, CatFacts
<1>13. Runs(Moves, Views, ((<<x>> \o w) \o j) \o w, a, e)
  BY <1>8, <1>10, <1>12, RunsCat
<1> QED BY <1>2, <1>9, <1>13

\* What holds after the last thread, and for a thread when for the next, holds for all.
LEMMA Downward ==
  ASSUME NEW n \in Nat, NEW G, n + 1 \in G, \A i \in 1 .. n : i + 1 \in G => i \in G
  PROVE  1 .. n + 1 \subseteq G
<1> DEFINE L == OpToRel(<, Nat)
           S == {k \in 0 .. n : n + 1 - k \notin G}
<1>1. IsWellFoundedOn(L, Nat)
  BY NatLessThanWellFounded
<1>2. ASSUME S # {}
      PROVE  FALSE
  <2>1. S \in SUBSET Nat
    OBVIOUS
  <2> HIDE DEF L
  <2>2. PICK k \in S : \A y \in S : ~(<<y, k>> \in L)
    BY <1>1, <1>2, <2>1, WFMin
  <2>3. k \in 0 .. n /\ n + 1 - k \notin G /\ k # 0
    OBVIOUS
  <2>4. k - 1 \notin S
    <3>1. <<k - 1, k>> \in L
      BY <2>3 DEF OpToRel, L
    <3> QED BY <2>2, <3>1
  <2>5. n + 1 - (k - 1) \in G /\ n + 1 - (k - 1) = (n + 1 - k) + 1
    BY <2>3, <2>4
  <2>6. n + 1 - k \in 1 .. n
    BY <2>3
  <2> QED BY <2>3, <2>5, <2>6
<1>3. ASSUME NEW i \in 1 .. n + 1
      PROVE  i \in G
  <2>1. n + 1 - i \in 0 .. n /\ n + 1 - (n + 1 - i) = i
    OBVIOUS
  <2> QED BY <1>2, <2>1
<1> QED BY <1>3

LEMMA DestRuns ==
  ASSUME NEW n \in 1 .. MaxThreads
  PROVE  Runs(Moves, Views, Dest(1, n), Left(1, n), Left(n + 1, n))
<1>0. n \in 0 .. MaxThreads /\ n \in Nat
  BY ThreadsAssumption
<1> DEFINE G == {i \in 1 .. n + 1 : Runs(Moves, Views, Dest(i, n), Left(i, n), Left(n + 1, n))}
<1>1. n + 1 \in G
  <2>1. n + 1 \in 1 .. n + 1
    BY <1>0
  <2>2. Dest(n + 1, n) = <<>> /\ Left(n + 1, n) \in Views
    BY <1>0, <2>1, EachSteps, PoolTypes
  <2>3. Runs(Moves, Views, Dest(n + 1, n), Left(n + 1, n), Left(n + 1, n))
    BY <2>2, RunsNone
  <2> QED BY <2>1, <2>3
<1>2. ASSUME NEW i \in 1 .. n, i + 1 \in G
      PROVE  i \in G
  <2>1. i \in 1 .. n + 1 /\ i + 1 \in 1 .. n + 1 /\ i <= n
    BY <1>0
  <2>2. /\ Dest(i, n) = Destroy(i) \o Dest(i + 1, n) /\ Dest(i + 1, n) \in Seq(Operations)
        /\ Destroy(i) \in Seq(Operations)
    BY <1>0, <2>1, EachSteps, ProgramTypes
  <2>3. Runs(Moves, Views, Destroy(i), Left(i, n), Left(i + 1, n))
    BY <1>0, DestroyRuns
  <2>4. Runs(Moves, Views, Dest(i + 1, n), Left(i + 1, n), Left(n + 1, n))
    BY <1>2
  <2>5. Runs(Moves, Views, Destroy(i) \o Dest(i + 1, n), Left(i, n), Left(n + 1, n))
    BY <2>2, <2>3, <2>4, RunsCat
  <2> QED BY <2>1, <2>2, <2>5
<1> HIDE DEF G
<1>3. 1 \in G
  <2>1. 1 .. n + 1 \subseteq G
    BY <1>0, <1>1, <1>2, Downward
  <2> QED BY <1>0, <2>1
<1> QED BY <1>3 DEF G

LEMMA ConsRuns ==
  ASSUME NEW n \in 0 .. MaxThreads
  PROVE  Runs(Moves, Views, Cons(1, n), Left(1, 0), Left(1, n))
<1>0. n \in Nat /\ MaxThreads \in Nat /\ Workers = 1 .. MaxThreads
  BY ThreadsAssumption DEF Workers
<1> DEFINE G == {i \in 1 .. n + 1 : Runs(Moves, Views, Cons(i, n), Left(1, i - 1), Left(1, n))}
<1>1. n + 1 \in G
  <2>1. n + 1 \in 1 .. n + 1 /\ 1 \in 1 .. n + 1 /\ n + 1 - 1 = n
    BY <1>0
  <2>2. Cons(n + 1, n) = <<>> /\ Left(1, n) \in Views
    BY <1>0, <2>1, EachSteps, PoolTypes
  <2>3. Runs(Moves, Views, Cons(n + 1, n), Left(1, n), Left(1, n))
    BY <2>2, RunsNone
  <2> QED BY <2>1, <2>3
<1>2. ASSUME NEW i \in 1 .. n, i + 1 \in G
      PROVE  i \in G
  <2>1. i \in 1 .. n + 1 /\ i + 1 \in 1 .. n + 1 /\ i <= n /\ i \in Workers /\ (i + 1) - 1 = i
    BY <1>0
  <2>2. /\ Cons(i, n) = Construct(i) \o Cons(i + 1, n) /\ Cons(i + 1, n) \in Seq(Operations)
        /\ Construct(i) \in Seq(Operations)
    BY <1>0, <2>1, EachSteps, ProgramTypes
  <2>3. Runs(Moves, Views, Construct(i), Left(1, i - 1), Left(1, i))
    BY <2>1, ConstructRuns
  <2>4. Runs(Moves, Views, Cons(i + 1, n), Left(1, i), Left(1, n))
    BY <1>2, <2>1
  <2>5. Runs(Moves, Views, Construct(i) \o Cons(i + 1, n), Left(1, i - 1), Left(1, n))
    BY <2>2, <2>3, <2>4, RunsCat
  <2> QED BY <2>1, <2>2, <2>5
<1> HIDE DEF G
<1>3. 1 \in G
  <2>1. 1 .. n + 1 \subseteq G
    BY <1>0, <1>1, <1>2, Downward
  <2> QED BY <1>0, <2>1
<1>4. 1 - 1 = 0
  OBVIOUS
<1> QED BY <1>3, <1>4 DEF G

Whole(a, n, owed, setup, go) ==
  /\ a \in Views /\ a.n = n /\ a.alive = 1 .. n /\ a.made = 1 .. n /\ a.leaving = {}
  /\ a.owed = owed /\ a.setup = setup /\ a.told = 0 /\ a.free /\ a.go = go

\* A whole pool, with jobs for the threads in owed; setup are those set up.
LEMMA PoolIs ==
  ASSUME NEW n \in 1 .. MaxThreads, NEW owed \in SUBSET (1 .. n), NEW setup \in SUBSET (1 .. n), NEW go \in 0 .. 2,
         setup # {} => go = 2
  PROVE  Whole(Pool(n, owed, setup, TRUE, go), n, owed, setup, go)
<1>0. MaxThreads \in Nat /\ Workers = 1 .. MaxThreads /\ n \in Nat /\ n <= MaxThreads
  BY ThreadsAssumption DEF Workers
<1> DEFINE R == 1 .. n
           a == View(n, R, R, {}, owed, setup, 0, TRUE, go)
<1>1. R \subseteq Workers /\ owed \subseteq Workers /\ setup \subseteq Workers
  BY <1>0
<1>2. Coherent(a)
  BY DEF Coherent, View
<1>3. a \in Views
  <2> HIDE DEF R
  <2> QED BY <1>0, <1>1, <1>2 DEF Views, View
<1> QED BY <1>3 DEF Pool, View, Whole

LEMMA WaitsRun ==
  ASSUME NEW n \in 1 .. MaxThreads, NEW k \in 1 .. n + 1, NEW setup \in SUBSET (1 .. n), NEW go \in 0 .. 2,
         setup # {} => go = 2, NEW X \in SUBSET (1 .. n)
  PROVE  Runs(Moves, Views, Waits(k, n), Pool(n, (k .. n) \cap X, setup, TRUE, go), Pool(n, {}, setup, TRUE, go))
<1>0. n \in 0 .. MaxThreads /\ n \in Nat /\ MaxThreads \in Nat /\ Workers = 1 .. MaxThreads
  BY ThreadsAssumption DEF Workers
<1> DEFINE A(i) == Pool(n, (i .. n) \cap X, setup, TRUE, go)
           z == Pool(n, {}, setup, TRUE, go)
           G == {i \in 1 .. n + 1 : Runs(Moves, Views, Waits(i, n), A(i), z)}
<1>1. n + 1 \in G
  <2>1. n + 1 \in 1 .. n + 1 /\ (n + 1 .. n) \cap X = {}
    BY <1>0
  <2>2. Waits(n + 1, n) = <<>>
    BY <1>0, <2>1, EachSteps
  <2>3. z \in Views
    <3>1. {} \in SUBSET (1 .. n)
      OBVIOUS
    <3> QED BY <3>1, PoolIs DEF Whole
  <2>4. Runs(Moves, Views, Waits(n + 1, n), z, z)
    BY <2>2, <2>3, RunsNone
  <2> QED BY <2>1, <2>4
<1>2. ASSUME NEW i \in 1 .. n, i + 1 \in G
      PROVE  i \in G
  <2>1. i \in 1 .. n + 1 /\ i + 1 \in 1 .. n + 1 /\ i <= n /\ i \in Workers
    BY <1>0
  <2>2. /\ Waits(i, n) = WaitFor(i) \o Waits(i + 1, n) /\ Waits(i + 1, n) \in Seq(Operations)
        /\ WaitFor(i) \in Seq(Operations)
    BY <1>0, <2>1, EachSteps, WaitTypes
  <2> DEFINE a == A(i)
             b == A(i + 1)
             P == (i .. n) \cap X
             Q == (i + 1 .. n) \cap X
  <2>3. P \in SUBSET (1 .. n) /\ Q \in SUBSET (1 .. n) /\ P \ {i} = Q
    BY <1>0, <2>1
  <2>5. a = Pool(n, P, setup, TRUE, go) /\ b = View(n, 1 .. n, 1 .. n, {}, Q, setup, 0, TRUE, go)
    BY DEF Pool
  <2> HIDE DEF P, Q, a, b, A
  <2>4. Whole(a, n, P, setup, go)
    BY <2>3, <2>5, PoolIs
  <2>6. b = View(a.n, a.alive, a.made, a.leaving, a.owed \ {i}, a.setup, 0, TRUE, a.go)
    BY <2>3, <2>4, <2>5 DEF Whole
  <2>7. Runs(Moves, Views, WaitFor(i), a, b)
    BY <2>1, <2>4, <2>6, WaitRuns DEF Whole
  <2>8. Runs(Moves, Views, Waits(i + 1, n), b, z)
    BY <1>2 DEF b
  <2>9. Runs(Moves, Views, WaitFor(i) \o Waits(i + 1, n), a, z)
    BY <2>2, <2>7, <2>8, RunsCat
  <2> QED BY <2>1, <2>2, <2>9 DEF a
<1> HIDE DEF G
<1>3. k \in G
  <2>1. 1 .. n + 1 \subseteq G
    BY <1>0, <1>1, <1>2, Downward
  <2> QED BY <2>1
<1> QED BY <1>3 DEF G

\* Those that a job f given to threads 1 to i - 1 sets up.
SetUp(f, i) == IF f = "setup" THEN 1 .. i - 1 ELSE {}

LEMMA JobsRun ==
  ASSUME NEW n \in 1 .. MaxThreads, NEW f \in {"clear", "zero", "setup"}, NEW go \in 0 .. 2, f = "setup" => go = 2
  PROVE  Runs(Moves, Views, Jobs(f, 1, n), Pool(n, {}, {}, TRUE, go), Pool(n, 1 .. n, SetUp(f, n + 1), TRUE, go))
<1>0. /\ n \in 0 .. MaxThreads /\ n \in Nat /\ MaxThreads \in Nat /\ Workers = 1 .. MaxThreads
      /\ f \in JobNames
  <2>1. f \in JobNames
    BY DEF JobNames, Plain
  <2> QED BY <2>1, ThreadsAssumption DEF Workers
<1> DEFINE A(i) == Pool(n, 1 .. i - 1, SetUp(f, i), TRUE, go)
           G == {i \in 1 .. n + 1 : Runs(Moves, Views, Jobs(f, i, n), A(i), A(n + 1))}
<1>s. \A i \in 1 .. n + 1 : SetUp(f, i) \in SUBSET (1 .. n) /\ (SetUp(f, i) # {} => go = 2) /\ 1 .. i - 1 \in SUBSET (1 .. n)
  BY <1>0 DEF SetUp
<1>1. n + 1 \in G
  <2>1. n + 1 \in 1 .. n + 1
    BY <1>0
  <2>2. Jobs(f, n + 1, n) = <<>>
    BY <1>0, <2>1, JobsSteps
  <2>3. A(n + 1) \in Views
    <3> DEFINE P == 1 .. n + 1 - 1
               X == SetUp(f, n + 1)
    <3>1. P \in SUBSET (1 .. n) /\ X \in SUBSET (1 .. n) /\ (X # {} => go = 2)
      BY <1>s, <2>1
    <3> HIDE DEF P, X
    <3>2. Whole(Pool(n, P, X, TRUE, go), n, P, X, go)
      BY <3>1, PoolIs
    <3>3. Pool(n, P, X, TRUE, go) \in Views
      BY <3>2 DEF Whole
    <3>4. A(n + 1) = Pool(n, P, X, TRUE, go)
      BY DEF P, X, A
    <3> HIDE DEF A
    <3> QED BY <3>3, <3>4
  <2> HIDE DEF A
  <2>4. Runs(Moves, Views, Jobs(f, n + 1, n), A(n + 1), A(n + 1))
    BY <2>2, <2>3, RunsNone
  <2> QED BY <2>1, <2>4
<1>2. ASSUME NEW i \in 1 .. n, i + 1 \in G
      PROVE  i \in G
  <2>1. i \in 1 .. n + 1 /\ i + 1 \in 1 .. n + 1 /\ i <= n /\ i \in Workers
    BY <1>0
  <2>2. /\ Jobs(f, i, n) = RunJob(i, f) \o Jobs(f, i + 1, n) /\ Jobs(f, i + 1, n) \in Seq(Operations)
        /\ RunJob(i, f) \in Seq(Operations)
    BY <1>0, <2>1, JobsSteps, JobTypes
  <2> DEFINE a == A(i)
             b == A(i + 1)
             P == 1 .. i - 1
             Q == 1 .. (i + 1) - 1
             X == SetUp(f, i)
             Y == SetUp(f, i + 1)
  <2>3. /\ P \in SUBSET (1 .. n) /\ X \in SUBSET (1 .. n) /\ (X # {} => go = 2)
        /\ P \cup {i} = Q /\ i \notin P /\ i \in 1 .. n
    BY <1>0, <1>s, <2>1
  <2>4. Y = IF f = "setup" THEN X \cup {i} ELSE X
    BY <2>3 DEF SetUp
  <2>6. a = Pool(n, P, X, TRUE, go) /\ b = View(n, 1 .. n, 1 .. n, {}, Q, Y, 0, TRUE, go)
    BY DEF Pool
  <2> HIDE DEF P, Q, X, Y, a, b, A
  <2>5. Whole(a, n, P, X, go)
    BY <2>3, <2>6, PoolIs
  <2>7. MayRun(a, i, f)
    BY <2>3, <2>5 DEF MayRun, Whole
  <2>8. b = AfterJob(a, i, f)
    <3>1. AfterJob(a, i, f) = View(a.n, a.alive, a.made, a.leaving, a.owed \cup {i},
                                   IF f = "setup" THEN a.setup \cup {i} ELSE a.setup, 0, a.free, a.go)
      BY <2>5 DEF AfterJob, Whole
    <3> QED BY <2>3, <2>4, <2>5, <2>6, <3>1 DEF Whole
  <2>9. Runs(Moves, Views, RunJob(i, f), a, b)
    BY <1>0, <2>1, <2>5, <2>7, <2>8, JobRuns DEF Whole
  <2>10. Runs(Moves, Views, Jobs(f, i + 1, n), b, A(n + 1))
    BY <1>2 DEF b
  <2>11. Runs(Moves, Views, RunJob(i, f) \o Jobs(f, i + 1, n), a, A(n + 1))
    BY <2>2, <2>9, <2>10, RunsCat
  <2> QED BY <2>1, <2>2, <2>11 DEF a
<1> HIDE DEF G
<1>3. 1 \in G
  <2>1. 1 .. n + 1 \subseteq G
    BY <1>0, <1>1, <1>2, Downward
  <2> QED BY <1>0, <2>1
<1>4. A(1) = Pool(n, {}, {}, TRUE, go) /\ A(n + 1) = Pool(n, 1 .. n, SetUp(f, n + 1), TRUE, go)
  <2>1. 1 .. 1 - 1 = {} /\ n + 1 - 1 = n
    BY <1>0
  <2> QED BY <2>1 DEF SetUp
<1> HIDE DEF A
<1> QED BY <1>3, <1>4 DEF G

\* One job for every thread, and waiting for all.
LEMMA RoundRuns ==
  ASSUME NEW n \in 1 .. MaxThreads, NEW f \in {"clear", "zero", "setup"}, NEW go \in 0 .. 2, f = "setup" => go = 2
  PROVE  /\ Jobs(f, 1, n) \o Waits(1, n) \in Seq(Operations)
         /\ Runs(Moves, Views, Jobs(f, 1, n) \o Waits(1, n), Pool(n, {}, {}, TRUE, go),
                 Pool(n, {}, IF f = "setup" THEN 1 .. n ELSE {}, TRUE, go))
<1>0. n \in 0 .. MaxThreads /\ n \in Nat /\ 1 \in 1 .. n + 1 /\ n + 1 - 1 = n /\ f \in JobNames
  <2>1. f \in JobNames
    BY DEF JobNames, Plain
  <2> QED BY <2>1, ThreadsAssumption
<1>1. Jobs(f, 1, n) \in Seq(Operations) /\ Waits(1, n) \in Seq(Operations)
  BY <1>0, EachSteps, JobsSteps
<1> DEFINE X == IF f = "setup" THEN 1 .. n ELSE {}
<1>2. SetUp(f, n + 1) = X /\ X \in SUBSET (1 .. n) /\ (X # {} => go = 2)
  BY <1>0 DEF SetUp
<1> HIDE DEF X
<1>3. Runs(Moves, Views, Jobs(f, 1, n), Pool(n, {}, {}, TRUE, go), Pool(n, 1 .. n, X, TRUE, go))
  BY <1>2, JobsRun
<1>4. Runs(Moves, Views, Waits(1, n), Pool(n, 1 .. n, X, TRUE, go), Pool(n, {}, X, TRUE, go))
  <2>1. 1 .. n \in SUBSET (1 .. n) /\ (1 .. n) \cap (1 .. n) = 1 .. n
    OBVIOUS
  <2>2. Runs(Moves, Views, Waits(1, n), Pool(n, (1 .. n) \cap (1 .. n), X, TRUE, go), Pool(n, {}, X, TRUE, go))
    BY <1>0, <1>2, <2>1, WaitsRun
  <2> QED BY <2>1, <2>2
<1>5. Runs(Moves, Views, Jobs(f, 1, n) \o Waits(1, n), Pool(n, {}, {}, TRUE, go), Pool(n, {}, X, TRUE, go))
  BY <1>1, <1>3, <1>4, RunsCat
<1> QED BY <1>1, <1>5, CatFacts DEF X

\* The pool at rest: the main thread may be in a search unless it is known to be free.
Rest(n, free) == Pool(n, {}, {}, free, 0)

LEMMA MainWaitRuns ==
  ASSUME NEW n \in 1 .. MaxThreads, NEW free \in BOOLEAN, NEW go \in 0 .. 1
  PROVE  /\ WaitFor(Main) \in Seq(Operations)
         /\ Runs(Moves, Views, WaitFor(Main), Pool(n, {}, {}, free, go), Pool(n, {}, {}, TRUE, go))
<1>0. Main \in Workers /\ n \in 0 .. MaxThreads /\ n # 0
  BY ThreadsAssumption DEF Main, Workers
<1> DEFINE a == Pool(n, {}, {}, free, go)
           b == Pool(n, {}, {}, TRUE, go)
<1>1. a \in Views
  BY <1>0, PoolTypes
<1>2. /\ b = View(a.n, a.alive, a.made, a.leaving, a.owed \ {Main}, a.setup, 0, TRUE, a.go)
      /\ a.told = 0
  <2>1. {} \ {Main} = {}
    OBVIOUS
  <2> QED BY <2>1 DEF Pool, View
<1> HIDE DEF a, b
<1>3. Runs(Moves, Views, WaitFor(Main), a, b)
  BY <1>0, <1>1, <1>2, WaitRuns
<1> QED BY <1>0, <1>3, WaitTypes DEF a, b

LEMMA ClearRuns ==
  ASSUME NEW n \in 1 .. MaxThreads
  PROVE  /\ PoolClear(n) \in Seq(Operations) /\ TTClear(n) \in Seq(Operations)
         /\ Runs(Moves, Views, PoolClear(n), Rest(n, TRUE), Rest(n, TRUE))
         /\ Runs(Moves, Views, TTClear(n), Rest(n, TRUE), Rest(n, TRUE))
<1>1. PoolClear(n) = Jobs("clear", 1, n) \o Waits(1, n) /\ TTClear(n) = Jobs("zero", 1, n) \o Waits(1, n)
  BY DEF PoolClear, TTClear, Jobs, Waits
<1>2. \A f \in {"clear", "zero"} :
        /\ Jobs(f, 1, n) \o Waits(1, n) \in Seq(Operations)
        /\ Runs(Moves, Views, Jobs(f, 1, n) \o Waits(1, n), Rest(n, TRUE), Rest(n, TRUE))
  <2> SUFFICES ASSUME NEW f \in {"clear", "zero"}
               PROVE  /\ Jobs(f, 1, n) \o Waits(1, n) \in Seq(Operations)
                      /\ Runs(Moves, Views, Jobs(f, 1, n) \o Waits(1, n), Rest(n, TRUE), Rest(n, TRUE))
    OBVIOUS
  <2>1. f \in {"clear", "zero", "setup"} /\ f # "setup" /\ 0 \in 0 .. 2 /\ 0 \in 0 .. 1
    OBVIOUS
  <2>2. /\ Jobs(f, 1, n) \o Waits(1, n) \in Seq(Operations)
        /\ Runs(Moves, Views, Jobs(f, 1, n) \o Waits(1, n), Pool(n, {}, {}, TRUE, 0),
                 Pool(n, {}, IF f = "setup" THEN 1 .. n ELSE {}, TRUE, 0))
    BY <2>1, RoundRuns
  <2> QED BY <2>1, <2>2 DEF Rest
<1> QED BY <1>1, <1>2

\* Two programs that run one after the other.
LEMMA Then ==
  ASSUME NEW p \in Seq(Operations), NEW q \in Seq(Operations), NEW a, NEW b, NEW c,
         Runs(Moves, Views, p, a, b), Runs(Moves, Views, q, b, c)
  PROVE  p \o q \in Seq(Operations) /\ Runs(Moves, Views, p \o q, a, c)
BY RunsCat, CatFacts

LEMMA PoolSetRuns ==
  ASSUME NEW old \in 0 .. MaxThreads, NEW n \in 1 .. MaxThreads, NEW a, a = IF old > 0 THEN Rest(old, TRUE) ELSE Left(1, 0)
  PROVE  /\ PoolSet(old, n) \in Seq(Operations)
         /\ Runs(Moves, Views, PoolSet(old, n), a, Rest(n, TRUE))
<1>0. n \in 0 .. MaxThreads /\ 1 \in 1 .. n + 1 /\ 1 \in 1 .. old + 1 /\ 0 \in 0 .. 2 /\ 0 \in 0 .. 1 /\ TRUE \in BOOLEAN /\ 1 <= n
  BY ThreadsAssumption
<1> DEFINE w == WaitFor(Main)
           d == IF old > 0 THEN w \o Dest(1, old) ELSE <<>>
           c == Cons(1, n)
           p == PoolClear(n)
           e == Left(1, 0)
           z == Rest(n, TRUE)
<1>1. PoolSet(old, n) = ((d \o c) \o p) \o w
  BY DEF PoolSet, Dest, Cons
<1>2. Left(1, n) = z
  BY <1>0 DEF Left, Rest, Pool
<1>3. d \in Seq(Operations) /\ Runs(Moves, Views, d, a, e)
  <2>1. CASE old > 0
    <3>1. old \in 1 .. MaxThreads /\ 1 <= old
      BY <2>1, ThreadsAssumption
    <3>2. w \in Seq(Operations) /\ Runs(Moves, Views, w, Rest(old, TRUE), Rest(old, TRUE))
      BY <1>0, <3>1, MainWaitRuns DEF Rest
    <3>3. Left(1, old) = Rest(old, TRUE)
      BY <3>1 DEF Left, Rest, Pool
    <3>4. Left(old + 1, old) = e
      <4>1. ~(old + 1 <= old) /\ old + 1 .. old = {} /\ 1 .. 0 = {} /\ ~(1 <= 0)
        BY <3>1
      <4> QED BY <4>1 DEF Left
    <3>5. Dest(1, old) \in Seq(Operations) /\ Runs(Moves, Views, Dest(1, old), Rest(old, TRUE), e)
      BY <1>0, <3>1, <3>3, <3>4, DestRuns, EachSteps
    <3> HIDE DEF e, w
    <3>6. w \o Dest(1, old) \in Seq(Operations) /\ Runs(Moves, Views, w \o Dest(1, old), Rest(old, TRUE), e)
      BY <3>2, <3>5, Then
    <3> QED BY <2>1, <3>6
  <2>2. CASE ~(old > 0)
    <3>1. e \in Views
      <4>1. 0 \in 0 .. MaxThreads /\ 1 \in 1 .. 0 + 1
        BY ThreadsAssumption
      <4> QED BY <4>1, PoolTypes
    <3> HIDE DEF e
    <3>2. Runs(Moves, Views, <<>>, e, e) /\ <<>> \in Seq(Operations)
      BY <3>1, RunsNone
    <3> QED BY <2>2, <3>2 DEF e
  <2> QED BY <2>1, <2>2
<1>4. c \in Seq(Operations) /\ Runs(Moves, Views, c, e, z)
  BY <1>0, <1>2, ConsRuns, EachSteps
<1>5. p \in Seq(Operations) /\ Runs(Moves, Views, p, z, z)
  BY ClearRuns
<1>6. w \in Seq(Operations) /\ Runs(Moves, Views, w, z, z)
  BY <1>0, MainWaitRuns DEF Rest
<1> HIDE DEF d, c, p, w, e, z
<1>7. d \o c \in Seq(Operations) /\ Runs(Moves, Views, d \o c, a, z)
  BY <1>3, <1>4, Then
<1>8. (d \o c) \o p \in Seq(Operations) /\ Runs(Moves, Views, (d \o c) \o p, a, z)
  BY <1>5, <1>7, Then
<1>9. ((d \o c) \o p) \o w \in Seq(Operations) /\ Runs(Moves, Views, ((d \o c) \o p) \o w, a, z)
  BY <1>6, <1>8, Then
<1> QED BY <1>1, <1>9 DEF z

LEMMA SetTTSizeRuns ==
  ASSUME NEW n \in 1 .. MaxThreads, NEW free \in BOOLEAN
  PROVE  /\ SetTTSize(n) \in Seq(Operations)
         /\ Runs(Moves, Views, SetTTSize(n), Rest(n, free), Rest(n, TRUE))
<1>1. 0 \in 0 .. 2 /\ 0 \in 0 .. 1
  OBVIOUS
<1>2. WaitFor(Main) \in Seq(Operations) /\ Runs(Moves, Views, WaitFor(Main), Rest(n, free), Rest(n, TRUE))
  BY <1>1, MainWaitRuns DEF Rest
<1>3. TTClear(n) \in Seq(Operations) /\ Runs(Moves, Views, TTClear(n), Rest(n, TRUE), Rest(n, TRUE))
  BY ClearRuns
<1> DEFINE w == WaitFor(Main)
           q == TTClear(n)
           a == Rest(n, free)
           z == Rest(n, TRUE)
<1>4. SetTTSize(n) = w \o q
  BY DEF SetTTSize
<1> HIDE DEF w, q, a, z
<1>5. w \o q \in Seq(Operations) /\ Runs(Moves, Views, w \o q, a, z)
  <2>1. /\ w \in Seq(Operations) /\ Runs(Moves, Views, w, a, z)
        /\ q \in Seq(Operations) /\ Runs(Moves, Views, q, z, z)
    BY <1>2, <1>3 DEF w, q, a, z
  <2> QED BY <2>1, Then
<1> QED BY <1>4, <1>5 DEF a, z

LEMMA ResizeRuns ==
  ASSUME NEW old \in 0 .. MaxThreads, NEW n \in 1 .. MaxThreads, NEW a, a = IF old > 0 THEN Rest(old, TRUE) ELSE Left(1, 0)
  PROVE  /\ ResizeThreads(old, n) \in Seq(Operations)
         /\ Runs(Moves, Views, ResizeThreads(old, n), a, Rest(n, TRUE))
<1> DEFINE w == IF old > 0 THEN Waits(2, old) ELSE <<>>
           p == PoolSet(old, n)
           q == SetTTSize(n)
           z == Rest(n, TRUE)
<1>1. ResizeThreads(old, n) = (w \o p) \o q
  BY DEF ResizeThreads, Waits
<1>2. w \in Seq(Operations) /\ Runs(Moves, Views, w, a, a)
  <2>1. CASE old > 0
    <3>1. old \in 1 .. MaxThreads /\ 2 \in 1 .. old + 1 /\ old \in Nat
      BY <2>1, ThreadsAssumption
    <3>2. Waits(2, old) \in Seq(Operations)
      BY <3>1, EachSteps
    <3>3. Runs(Moves, Views, Waits(2, old), Rest(old, TRUE), Rest(old, TRUE))
      <4>1. {} \in SUBSET (1 .. old) /\ (2 .. old) \cap {} = {} /\ 0 \in 0 .. 2 /\ 0 \in 0 .. 1 /\ ({} # {} => 0 = 2)
        OBVIOUS
      <4>2. Runs(Moves, Views, Waits(2, old), Pool(old, (2 .. old) \cap {}, {}, TRUE, 0), Pool(old, {}, {}, TRUE, 0))
        BY <3>1, <4>1, WaitsRun
      <4> QED BY <4>1, <4>2 DEF Rest
    <3> QED BY <2>1, <3>2, <3>3
  <2>2. CASE ~(old > 0)
    <3>1. a = Left(1, 0) /\ w = <<>>
      BY <2>2
    <3>2. a \in Views
      <4>1. 0 \in 0 .. MaxThreads /\ 1 \in 1 .. 0 + 1
        BY ThreadsAssumption
      <4> QED BY <3>1, <4>1, PoolTypes
    <3>3. Runs(Moves, Views, <<>>, a, a)
      BY <3>2, RunsNone, Zenon
    <3>4. <<>> \in Seq(Operations)
      OBVIOUS
    <3> QED BY <3>1, <3>3, <3>4
  <2> QED BY <2>1, <2>2
<1>3. p \in Seq(Operations) /\ Runs(Moves, Views, p, a, z)
  BY PoolSetRuns
<1>4. q \in Seq(Operations) /\ Runs(Moves, Views, q, z, z)
  BY SetTTSizeRuns
<1> HIDE DEF w, p, q, z
<1>5. w \o p \in Seq(Operations) /\ Runs(Moves, Views, w \o p, a, z)
  BY <1>2, <1>3, Then
<1>6. (w \o p) \o q \in Seq(Operations) /\ Runs(Moves, Views, (w \o p) \o q, a, z)
  BY <1>4, <1>5, Then
<1> QED BY <1>1, <1>6 DEF z

\* The program of "go": the flags are reset, every worker is set up, the main thread searches.
LEMMA StartThinkingRuns ==
  ASSUME NEW n \in 1 .. MaxThreads, NEW free \in BOOLEAN
  PROVE  /\ StartThinking(n) \in Seq(Operations)
         /\ Runs(Moves, Views, StartThinking(n), Pool(n, {}, {}, free, 1), Rest(n, FALSE))
<1>0. /\ n \in 0 .. MaxThreads /\ n # 0 /\ n \in Nat /\ Main \in Workers /\ Main \in 1 .. n
      /\ 1 \in 0 .. 2 /\ 1 \in 0 .. 1 /\ 2 \in 0 .. 2 /\ TRUE \in BOOLEAN
  BY ThreadsAssumption DEF Main, Workers
<1> DEFINE w == WaitFor(Main)
           x == <<"reset", 0, "">>
           r == Op("reset")
           j == Jobs("setup", 1, n) \o Waits(1, n)
           s == RunJob(Main, "search")
           a == Pool(n, {}, {}, free, 1)
           b == Pool(n, {}, {}, TRUE, 1)
           c == Pool(n, {}, {}, TRUE, 2)
           R == 1 .. n
           d == Pool(n, {}, R, TRUE, 2)
           e == Rest(n, FALSE)
<1>1. StartThinking(n) = ((w \o r) \o (j)) \o s
  <2> DEFINE f == Jobs("setup", 1, n)
             g == Waits(1, n)
  <2>1. StartThinking(n) = (((w \o r) \o f) \o g) \o s
    BY DEF StartThinking, Jobs, Waits
  <2>2. w \o r \in Seq(Operations) /\ f \in Seq(Operations) /\ g \in Seq(Operations)
    <3>1. w \in Seq(Operations)
      BY <1>0, WaitTypes
    <3>2. "setup" \in JobNames /\ 1 \in 1 .. n + 1
      BY <1>0 DEF JobNames, Plain
    <3>3. f \in Seq(Operations) /\ g \in Seq(Operations)
      BY <1>0, <3>2, EachSteps, JobsSteps
    <3>4. r \in Seq(Operations)
      <4>1. x \in Operations
        BY OpTypes
      <4> HIDE DEF x
      <4>2. <<x>> \in Seq(Operations)
        BY <4>1
      <4> QED BY <4>2 DEF Op, x
    <3> HIDE DEF f, g, w, r
    <3> QED BY <3>1, <3>3, <3>4, CatFacts
  <2> DEFINE h == w \o r
  <2>3. h \in Seq(Operations)
    BY <2>2
  <2> HIDE DEF h, f, g
  <2>4. (h \o f) \o g = h \o (f \o g)
    BY <2>2, <2>3, CatAssoc
  <2> QED BY <2>1, <2>4 DEF h, f, g
<1>2. w \in Seq(Operations) /\ Runs(Moves, Views, w, a, b)
  BY <1>0, MainWaitRuns
<1>3. r \in Seq(Operations) /\ Runs(Moves, Views, r, b, c)
  <2>1. x \in Operations
    BY OpTypes
  <2>2. b \in Views
    BY <1>0, PoolTypes
  <2>3. May(b, x) /\ After(b, x) = c
    <3>1. May(b, x)
      BY DEF May, Pool, View
    <3>2. After(b, x) = View(b.n, b.alive, b.made, b.leaving, b.owed, {}, b.told, b.free, 2)
      BY DEF After
    <3> QED BY <3>1, <3>2 DEF Pool, View
  <2>4. r = <<x>>
    BY DEF Op
  <2> HIDE DEF b, c, x, r
  <2>5. <<x>> \in Seq(Operations)
    BY <2>1
  <2>6. Runs(Moves, Views, <<x>>, b, c)
    BY <2>1, <2>2, <2>3, StepRuns
  <2> QED BY <2>4, <2>5, <2>6
<1>4. j \in Seq(Operations) /\ Runs(Moves, Views, j, c, d)
  <2>1. "setup" \in {"clear", "zero", "setup"}
    OBVIOUS
  <2>2. j \in Seq(Operations) /\ Runs(Moves, Views, j, c, Pool(n, {}, IF "setup" = "setup" THEN 1 .. n ELSE {}, TRUE, 2))
    BY <1>0, <2>1, RoundRuns
  <2> QED BY <2>2
<1>5. s \in Seq(Operations) /\ Runs(Moves, Views, s, d, e)
  <2> DEFINE f == "search"
  <2>1. f \in JobNames
    BY DEF JobNames
  <2>2. Whole(d, n, {}, R, 2)
    <3>1. {} \in SUBSET (1 .. n) /\ R \in SUBSET (1 .. n) /\ R = 1 .. n
      OBVIOUS
    <3> HIDE DEF R
    <3>2. Whole(Pool(n, {}, R, TRUE, 2), n, {}, R, 2)
      BY <1>0, <3>1, PoolIs
    <3> QED BY <3>2
  <2>3. AfterJob(d, Main, f) = e
    <3>1. AfterJob(d, Main, f) = View(d.n, d.alive, d.made, d.leaving, d.owed, {}, 0, FALSE, 0)
      BY <2>2 DEF AfterJob, Whole
    <3>2. d.n = n /\ d.alive = 1 .. n /\ d.made = 1 .. n /\ d.leaving = {} /\ d.owed = {}
      BY <2>2 DEF Whole
    <3> HIDE DEF d
    <3> QED BY <3>1, <3>2 DEF Rest, Pool
  <2> HIDE DEF d, e
  <2>4. MayRun(d, Main, f)
    BY <1>0, <2>2 DEF MayRun, Whole
  <2> HIDE DEF f
  <2>5. d \in Views /\ d.told = 0
    BY <2>2 DEF Whole
  <2>6. Runs(Moves, Views, RunJob(Main, f), d, e)
    BY <1>0, <2>1, <2>3, <2>4, <2>5, JobRuns
  <2>7. RunJob(Main, f) \in Seq(Operations)
    BY <1>0, <2>1, JobTypes
  <2> QED BY <2>6, <2>7 DEF f
<1> HIDE DEF w, r, j, s, a, b, c, d, e
<1>6. w \o r \in Seq(Operations) /\ Runs(Moves, Views, w \o r, a, c)
  BY <1>2, <1>3, Then
<1>7. (w \o r) \o j \in Seq(Operations) /\ Runs(Moves, Views, (w \o r) \o j, a, d)
  BY <1>4, <1>6, Then
<1>8. ((w \o r) \o j) \o s \in Seq(Operations) /\ Runs(Moves, Views, ((w \o r) \o j) \o s, a, e)
  BY <1>5, <1>7, Then
<1> QED BY <1>1, <1>8 DEF a, e

LEMMA SearchClearRuns ==
  ASSUME NEW n \in 1 .. MaxThreads, NEW free \in BOOLEAN
  PROVE  /\ SearchClear(n) \in Seq(Operations)
         /\ Runs(Moves, Views, SearchClear(n), Rest(n, free), Rest(n, TRUE))
<1> DEFINE w == WaitFor(Main)
           p == TTClear(n)
           q == PoolClear(n)
           a == Rest(n, free)
           z == Rest(n, TRUE)
<1>1. SearchClear(n) = (w \o p) \o q
  BY DEF SearchClear
<1>2. w \in Seq(Operations) /\ Runs(Moves, Views, w, a, z)
  <2>1. 0 \in 0 .. 2 /\ 0 \in 0 .. 1
    OBVIOUS
  <2> QED BY <2>1, MainWaitRuns DEF Rest
<1>3. /\ p \in Seq(Operations) /\ Runs(Moves, Views, p, z, z)
      /\ q \in Seq(Operations) /\ Runs(Moves, Views, q, z, z)
  BY ClearRuns
<1> HIDE DEF w, p, q, a, z
<1>4. w \o p \in Seq(Operations) /\ Runs(Moves, Views, w \o p, a, z)
  BY <1>2, <1>3, Then
<1>5. (w \o p) \o q \in Seq(Operations) /\ Runs(Moves, Views, (w \o p) \o q, a, z)
  BY <1>3, <1>4, Then
<1> QED BY <1>1, <1>5 DEF a, z

LEMMA TearDownRuns ==
  ASSUME NEW n \in 1 .. MaxThreads, NEW free \in BOOLEAN
  PROVE  /\ TearDown(n) \in Seq(Operations)
         /\ Runs(Moves, Views, TearDown(n), Rest(n, free), Left(n + 1, n))
<1> DEFINE w == WaitFor(Main)
           d == Dest(1, n)
           a == Rest(n, free)
           b == Rest(n, TRUE)
           z == Left(n + 1, n)
<1>0. n \in 0 .. MaxThreads /\ 1 \in 1 .. n + 1 /\ 1 <= n /\ 0 \in 0 .. 2 /\ 0 \in 0 .. 1 /\ TRUE \in BOOLEAN
  BY ThreadsAssumption
<1>1. TearDown(n) = (w \o w) \o d
  BY DEF TearDown, Dest
<1>2. w \in Seq(Operations) /\ Runs(Moves, Views, w, a, b) /\ Runs(Moves, Views, w, b, b)
  <2>1. w \in Seq(Operations) /\ Runs(Moves, Views, w, a, b)
    BY <1>0, MainWaitRuns DEF Rest
  <2>2. Runs(Moves, Views, w, b, b)
    BY <1>0, MainWaitRuns DEF Rest
  <2> QED BY <2>1, <2>2
<1>3. d \in Seq(Operations) /\ Runs(Moves, Views, d, b, z)
  <2>1. Left(1, n) = b
    BY <1>0 DEF Left, Rest, Pool
  <2> QED BY <1>0, <2>1, DestRuns, EachSteps
<1> HIDE DEF w, d, a, b, z
<1>4. w \o w \in Seq(Operations) /\ Runs(Moves, Views, w \o w, a, b)
  BY <1>2, Then
<1>5. (w \o w) \o d \in Seq(Operations) /\ Runs(Moves, Views, (w \o w) \o d, a, z)
  BY <1>3, <1>4, Then
<1> QED BY <1>1, <1>5 DEF a, z

\* A pool between two commands.
LEMMA RestIs ==
  /\ \A n \in 1 .. MaxThreads, free \in BOOLEAN :
        /\ Rest(n, free) \in Views /\ AtRest(Rest(n, free), TRUE)
        /\ Left(n + 1, n) \in Views /\ AtRest(Left(n + 1, n), FALSE)
        /\ Pool(n, {}, {}, free, 1) \in Views
  /\ \A a \in Views : AtRest(a, TRUE) =>
        a.n \in 1 .. MaxThreads /\ a.free \in BOOLEAN /\ a = Rest(a.n, a.free)
<1>1. ASSUME NEW n \in 1 .. MaxThreads, NEW free \in BOOLEAN
      PROVE  /\ Rest(n, free) \in Views /\ AtRest(Rest(n, free), TRUE)
             /\ Left(n + 1, n) \in Views /\ AtRest(Left(n + 1, n), FALSE)
             /\ Pool(n, {}, {}, free, 1) \in Views
  <2>1. n \in 0 .. MaxThreads /\ n # 0 /\ n + 1 \in 1 .. n + 1 /\ 0 \in 0 .. 2 /\ 0 \in 0 .. 1 /\ 1 \in 0 .. 2 /\ 1 \in 0 .. 1
    BY ThreadsAssumption
  <2>2. Rest(n, free) \in Views /\ Left(n + 1, n) \in Views /\ Pool(n, {}, {}, free, 1) \in Views
    BY <2>1, PoolTypes DEF Rest
  <2>3. AtRest(Rest(n, free), TRUE)
    BY <2>1 DEF AtRest, Rest, Pool, View
  <2>4. AtRest(Left(n + 1, n), FALSE)
    BY <2>1 DEF AtRest, Left, View
  <2> QED BY <2>2, <2>3, <2>4
<1>2. ASSUME NEW a \in Views, AtRest(a, TRUE)
      PROVE  a.n \in 1 .. MaxThreads /\ a.free \in BOOLEAN /\ a = Rest(a.n, a.free)
  <2>1. a.n \in 1 .. MaxThreads /\ a.free \in BOOLEAN
    BY <1>2, ViewFields DEF AtRest
  <2>2. a = View(a.n, a.alive, a.made, a.leaving, a.owed, a.setup, a.told, a.free, a.go)
    BY DEF Views, View
  <2>3. a.setup = {}
    BY <1>2, ViewFields DEF AtRest, Coherent
  <2>4. /\ a.alive = 1 .. a.n /\ a.made = 1 .. a.n /\ a.leaving = {} /\ a.owed = {} /\ a.told = 0
        /\ a.go = 0
    BY <1>2 DEF AtRest
  <2> QED BY <2>1, <2>2, <2>3, <2>4 DEF Rest, Pool
<1> QED BY <1>1, <1>2

\* A program that a command begins leads back to rest.
LEMMA CommandLeads ==
  ASSUME NEW a \in Views, AtRest(a, TRUE)
  PROVE  /\ a.n \in 1 .. MaxThreads /\ a.free \in BOOLEAN
         /\ Leads(StartThinking(a.n), Pool(a.n, {}, {}, a.free, 1), TRUE)
         /\ Leads(SearchClear(a.n), a, TRUE)
         /\ \A n \in Workers : Leads(WaitFor(Main) \o ResizeThreads(a.n, n), a, TRUE)
         /\ Leads(WaitFor(Main) \o SetTTSize(a.n), a, TRUE)
         /\ Leads(WaitFor(Main) \o PoolClear(a.n), a, TRUE)
         /\ Leads(TearDown(a.n), a, FALSE)
<1> DEFINE n == a.n
           f == a.free
           w == WaitFor(Main)
           b == Rest(n, f)
           z == Rest(n, TRUE)
<1>1. n \in 1 .. MaxThreads /\ f \in BOOLEAN /\ a = b
  BY RestIs
<1>2. /\ TRUE \in BOOLEAN /\ FALSE \in BOOLEAN /\ 0 \in 0 .. 2 /\ 0 \in 0 .. 1 /\ n \in 0 .. MaxThreads /\ n > 0
      /\ Workers = 1 .. MaxThreads
  BY <1>1, ThreadsAssumption DEF Workers
<1> HIDE DEF n, f
<1>3. \A m \in 1 .. MaxThreads : Rest(m, TRUE) \in Views /\ AtRest(Rest(m, TRUE), TRUE)
  BY <1>2, RestIs
<1>4. w \in Seq(Operations) /\ Runs(Moves, Views, w, b, z)
  BY <1>1, <1>2, MainWaitRuns DEF Rest
<1>5. ASSUME NEW p \in Seq(Operations), NEW m \in 1 .. MaxThreads, Runs(Moves, Views, p, z, Rest(m, TRUE))
      PROVE  Leads(w \o p, a, TRUE)
  <2> DEFINE y == Rest(m, TRUE)
  <2>1. y \in Views /\ AtRest(y, TRUE)
    BY <1>3
  <2> HIDE DEF w, b, z, y
  <2>2. Runs(Moves, Views, p, z, y)
    BY <1>5 DEF y
  <2>3. w \o p \in Seq(Operations) /\ Runs(Moves, Views, w \o p, b, y)
    BY <1>4, <2>2, Then
  <2> QED BY <1>1, <2>1, <2>3 DEF Leads
<1>6. Leads(StartThinking(n), Pool(n, {}, {}, f, 1), TRUE)
  <2> DEFINE p == StartThinking(n)
             x == Pool(n, {}, {}, f, 1)
             y == Rest(n, FALSE)
  <2>1. y \in Views /\ AtRest(y, TRUE) /\ x \in Views
    BY <1>1, <1>2, RestIs
  <2>2. p \in Seq(Operations) /\ Runs(Moves, Views, p, x, y)
    BY <1>1, StartThinkingRuns
  <2> HIDE DEF p, x, y
  <2>3. Leads(p, x, TRUE)
    BY <2>1, <2>2 DEF Leads
  <2> QED BY <2>3 DEF p, x
<1>7. Leads(SearchClear(n), a, TRUE)
  <2> DEFINE p == SearchClear(n)
  <2>1. p \in Seq(Operations) /\ Runs(Moves, Views, p, b, z)
    BY <1>1, SearchClearRuns
  <2>2. z \in Views /\ AtRest(z, TRUE)
    BY <1>1, <1>3
  <2> HIDE DEF p, b, z
  <2>3. Leads(p, a, TRUE)
    BY <1>1, <2>1, <2>2 DEF Leads
  <2> QED BY <2>3 DEF p
<1>8. ASSUME NEW m \in Workers
      PROVE  Leads(w \o ResizeThreads(n, m), a, TRUE)
  <2> DEFINE p == ResizeThreads(n, m)
  <2>1. z = IF n > 0 THEN Rest(n, TRUE) ELSE Left(1, 0)
    BY <1>2
  <2>2. p \in Seq(Operations) /\ Runs(Moves, Views, p, z, Rest(m, TRUE))
    <3> HIDE DEF z
    <3> QED BY <1>2, <2>1, ResizeRuns
  <2>3. m \in 1 .. MaxThreads
    BY <1>2
  <2> HIDE DEF p, w, z
  <2>4. Leads(w \o p, a, TRUE)
    BY <1>5, <2>2, <2>3
  <2> QED BY <2>4 DEF p
<1>9. Leads(w \o SetTTSize(n), a, TRUE)
  <2> DEFINE p == SetTTSize(n)
  <2>1. p \in Seq(Operations) /\ Runs(Moves, Views, p, z, Rest(n, TRUE))
    BY <1>1, <1>2, SetTTSizeRuns
  <2> HIDE DEF p, w, z
  <2>2. Leads(w \o p, a, TRUE)
    BY <1>1, <1>5, <2>1
  <2> QED BY <2>2 DEF p
<1>10. Leads(w \o PoolClear(n), a, TRUE)
  <2> DEFINE p == PoolClear(n)
  <2>1. p \in Seq(Operations) /\ Runs(Moves, Views, p, z, Rest(n, TRUE))
    BY <1>1, ClearRuns
  <2> HIDE DEF p, w, z
  <2>2. Leads(w \o p, a, TRUE)
    BY <1>1, <1>5, <2>1
  <2> QED BY <2>2 DEF p
<1>11. Leads(TearDown(n), a, FALSE)
  <2> DEFINE p == TearDown(n)
             y == Left(n + 1, n)
  <2>1. p \in Seq(Operations) /\ Runs(Moves, Views, p, b, y)
    BY <1>1, TearDownRuns
  <2>2. y \in Views /\ AtRest(y, FALSE)
    BY <1>1, RestIs
  <2> HIDE DEF p, b, y
  <2>3. Leads(p, a, FALSE)
    BY <1>1, <2>1, <2>2 DEF Leads
  <2> QED BY <2>3 DEF p
<1> QED BY <1>1, <1>6, <1>7, <1>8, <1>9, <1>10, <1>11 DEF n, f

\* The engine starts by building a pool of one thread.
LEMMA StartLeads ==
  Left(1, 0) \in Views /\ Leads(ResizeThreads(0, 1), Left(1, 0), TRUE)
<1> DEFINE a == Left(1, 0)
           z == Rest(1, TRUE)
           p == ResizeThreads(0, 1)
<1>1. 0 \in 0 .. MaxThreads /\ 1 \in 1 .. MaxThreads /\ 1 \in 1 .. 0 + 1 /\ ~(0 > 0) /\ TRUE \in BOOLEAN
  BY ThreadsAssumption
<1>2. a \in Views
  BY <1>1, PoolTypes
<1>3. z \in Views /\ AtRest(z, TRUE)
  BY <1>1, RestIs
<1>4. a = IF 0 > 0 THEN Rest(0, TRUE) ELSE Left(1, 0)
  BY <1>1
<1> HIDE DEF a, z, p
<1>5. p \in Seq(Operations) /\ Runs(Moves, Views, p, a, z)
  BY <1>1, <1>4, ResizeRuns DEF p, z
<1>6. Leads(p, a, TRUE)
  BY <1>2, <1>3, <1>5 DEF Leads
<1> QED BY <1>2, <1>6 DEF a, p

-----------------------------------------------------------------------------
(* The search of the main thread *)

\* Where Worker::start_searching is: who has been given a search that was not
\* waited for, whom the main thread has to notify, and what it does.
Phases == {"start", "hold", "raise", "wait", "end"}
Hunt(n, told, out, phase) == [n |-> n, told |-> told, out |-> out, phase |-> phase]
Hunts ==
  {m \in [n : 0 .. MaxThreads, told : 0 .. MaxThreads, out : SUBSET Workers, phase : Phases] :
     m.out \subseteq 2 .. m.n /\ (m.told # 0 => m.phase = "start" /\ m.told \in m.out)}
Ended(n) == Hunt(n, 0, {}, "end")

HMay(m, op) ==
  \/ op[1] = "run" /\ op[3] = "search" /\ m.phase = "start" /\ m.told = 0 /\ op[2] \in (2 .. m.n) \ m.out
  \/ op[1] = "notify" /\ m.phase = "start" /\ m.told = op[2] /\ op[2] \in 2 .. m.n
  \/ op[1] \in {"iterate", "depth"} /\ m.phase = "start" /\ m.told = 0
  \/ op[1] = "hold" /\ m.phase \in {"start", "hold"} /\ m.told = 0
  \/ op[1] = "raise" /\ m.phase = "raise"
  \/ op[1] = "wait" /\ m.phase = "wait" /\ op[2] \in 2 .. m.n
  \/ op[1] = "bestmove" /\ m.phase = "wait" /\ m.out = {}

HAfter(m, op) ==
  CASE op[1] = "run" -> Hunt(m.n, op[2], m.out \cup {op[2]}, m.phase)
    [] op[1] = "notify" -> Hunt(m.n, 0, m.out, m.phase)
    [] op[1] \in {"iterate", "depth"} -> Hunt(m.n, 0, m.out, "hold")
    [] op[1] = "hold" -> Hunt(m.n, 0, m.out, "raise")
    [] op[1] = "raise" -> Hunt(m.n, 0, m.out, "wait")
    [] op[1] = "wait" -> Hunt(m.n, 0, m.out \ {op[2]}, m.phase)
    [] OTHER -> Ended(m.n)

HMoves == {x \in Hunts \X Operations \X Hunts : HMay(x[1], x[2]) /\ x[3] = HAfter(x[1], x[2])}

HLeads(p, m) == p \in Seq(Operations) /\ m \in Hunts /\ Runs(HMoves, Hunts, p, m, Ended(m.n))

LEMMA HuntTypes ==
  ASSUME NEW n \in 0 .. MaxThreads, NEW told \in 0 .. MaxThreads, NEW out \in SUBSET (2 .. n), NEW phase \in Phases,
         told # 0 => phase = "start" /\ told \in out
  PROVE  LET m == Hunt(n, told, out, phase)
         IN  m \in Hunts /\ m.n = n /\ m.told = told /\ m.out = out /\ m.phase = phase
<1>1. out \in SUBSET Workers
  BY ThreadsAssumption DEF Workers
<1> QED BY <1>1 DEF Hunt, Hunts

LEMMA HuntFields ==
  ASSUME NEW m \in Hunts
  PROVE  /\ m.n \in 0 .. MaxThreads /\ m.told \in 0 .. MaxThreads /\ m.out \in SUBSET (2 .. m.n) /\ m.phase \in Phases
         /\ m.told # 0 => m.phase = "start" /\ m.told \in m.out
         /\ m = Hunt(m.n, m.told, m.out, m.phase)
BY DEF Hunts, Hunt

LEMMA HMoveTypes ==
  ASSUME NEW m \in Hunts, NEW op \in Operations, HMay(m, op)
  PROVE  /\ HAfter(m, op) \in Hunts /\ HAfter(m, op).n = m.n
         /\ <<m, op, HAfter(m, op)>> \in HMoves
<1> DEFINE n == m.n
           o == m.out
           t == op[2]
           b == HAfter(m, op)
<1> SUFFICES b \in Hunts /\ b.n = n
  BY DEF HMoves
<1>1. /\ n \in 0 .. MaxThreads /\ o \in SUBSET (2 .. n) /\ m.phase \in Phases /\ 0 \in 0 .. MaxThreads
      /\ (m.told # 0 => m.phase = "start" /\ m.told \in o) /\ {} \in SUBSET (2 .. n)
      /\ {"hold", "raise", "wait", "end"} \subseteq Phases /\ MaxThreads \in Nat
  BY HuntFields, ThreadsAssumption DEF Phases
<1> HIDE DEF n, o, t, b
<1>2. CASE op[1] = "run"
  <2>1. m.phase = "start" /\ t \in 2 .. n
    BY <1>2 DEF HMay, t, n
  <2> DEFINE q == o \cup {t}
             s == m.phase
  <2>2. q \in SUBSET (2 .. n) /\ t \in 0 .. MaxThreads /\ t \in q
    BY <1>1, <2>1
  <2>3. b = Hunt(n, t, q, s) /\ s \in Phases /\ s = "start"
    BY <1>1, <1>2, <2>1 DEF HAfter, b, n, t, o
  <2> HIDE DEF q, s
  <2> QED BY <1>1, <2>2, <2>3, HuntTypes
<1>3. CASE op[1] = "notify"
  <2> DEFINE s == m.phase
  <2>1. b = Hunt(n, 0, o, s) /\ s \in Phases
    BY <1>1, <1>3 DEF HAfter, b, n, t, o
  <2> HIDE DEF s
  <2> QED BY <1>1, <2>1, HuntTypes
<1>4. CASE op[1] \in {"iterate", "depth"}
  <2> DEFINE s == "hold"
  <2>1. b = Hunt(n, 0, o, s) /\ s \in Phases
    BY <1>1, <1>4 DEF HAfter, b, n, t, o
  <2> HIDE DEF s
  <2> QED BY <1>1, <2>1, HuntTypes
<1>5. CASE op[1] = "hold"
  <2> DEFINE s == "raise"
  <2>1. b = Hunt(n, 0, o, s) /\ s \in Phases
    BY <1>1, <1>5 DEF HAfter, b, n, t, o
  <2> HIDE DEF s
  <2> QED BY <1>1, <2>1, HuntTypes
<1>6. CASE op[1] = "raise"
  <2> DEFINE s == "wait"
  <2>1. b = Hunt(n, 0, o, s) /\ s \in Phases
    BY <1>1, <1>6 DEF HAfter, b, n, t, o
  <2> HIDE DEF s
  <2> QED BY <1>1, <2>1, HuntTypes
<1>7. CASE op[1] = "wait"
  <2> DEFINE s == m.phase
             q == o \ {t}
  <2>1. b = Hunt(n, 0, q, s) /\ s \in Phases /\ q \in SUBSET (2 .. n)
    BY <1>1, <1>7 DEF HAfter, b, n, t, o
  <2> HIDE DEF s, q
  <2> QED BY <1>1, <2>1, HuntTypes
<1>8. CASE op[1] = "bestmove"
  <2> DEFINE s == "end"
             q == {}
  <2>1. b = Hunt(n, 0, q, s) /\ s \in Phases /\ q \in SUBSET (2 .. n)
    BY <1>1, <1>8 DEF HAfter, b, n, t, o, Ended
  <2> HIDE DEF s, q
  <2> QED BY <1>1, <2>1, HuntTypes
<1> QED BY <1>2, <1>3, <1>4, <1>5, <1>6, <1>7, <1>8 DEF HMay

LEMMA HLeadsOn ==
  ASSUME NEW p, NEW m, HLeads(p, m)
  PROVE  /\ m \in Hunts /\ p \in Seq(Operations)
         /\ p = <<>> => m = Ended(m.n)
         /\ p # <<>> => /\ Head(p) \in Operations /\ HMay(m, Head(p))
                        /\ HAfter(m, Head(p)) \in Hunts /\ HAfter(m, Head(p)).n = m.n
                        /\ HLeads(Tail(p), HAfter(m, Head(p)))
<1>1. p \in Seq(Operations) /\ m \in Hunts /\ Runs(HMoves, Hunts, p, m, Ended(m.n))
  BY DEF HLeads
<1>2. CASE p = <<>>
  BY <1>1, <1>2, RunsNone
<1>3. CASE p # <<>>
  <2>1. PICK c \in Hunts : <<m, Head(p), c>> \in HMoves /\ Runs(HMoves, Hunts, Tail(p), c, Ended(m.n))
    BY <1>1, <1>3, RunsPop
  <2>2. Head(p) \in Operations /\ HMay(m, Head(p)) /\ c = HAfter(m, Head(p))
    BY <2>1 DEF HMoves
  <2>3. Tail(p) \in Seq(Operations)
    BY <1>1, <1>3
  <2>4. c.n = m.n
    BY <1>1, <2>2, HMoveTypes
  <2> QED BY <1>1, <1>3, <2>1, <2>2, <2>3, <2>4 DEF HLeads
<1> QED BY <1>1, <1>2, <1>3

\* An operation before a program.
LEMMA HLeadsFrom ==
  ASSUME NEW p, NEW m \in Hunts, NEW op \in Operations, HMay(m, op), HLeads(p, HAfter(m, op))
  PROVE  HLeads(<<op>> \o p, m)
<1> DEFINE c == HAfter(m, op)
           q == <<op>>
<1>1. c \in Hunts /\ c.n = m.n /\ <<m, op, c>> \in HMoves
  BY HMoveTypes
<1> HIDE DEF c
<1>2. p \in Seq(Operations) /\ Runs(HMoves, Hunts, p, c, Ended(m.n))
  BY <1>1 DEF HLeads, c
<1>3. q \in Seq(Operations) /\ Runs(HMoves, Hunts, q, m, c)
  BY <1>1, RunsOne
<1> HIDE DEF q
<1>4. q \o p \in Seq(Operations) /\ Runs(HMoves, Hunts, q \o p, m, Ended(m.n))
  BY <1>2, <1>3, RunsCat, CatFacts
<1> QED BY <1>4 DEF HLeads, q

\* The main thread gives a search to the threads after the first.
LEMMA HuntJobs ==
  ASSUME NEW n \in 1 .. MaxThreads, NEW p, HLeads(p, Hunt(n, 0, 2 .. n, "start"))
  PROVE  HLeads(Jobs("search", 2, n) \o p, Hunt(n, 0, {}, "start"))
<1>0. /\ n \in 0 .. MaxThreads /\ n \in Nat /\ MaxThreads \in Nat /\ Workers = 1 .. MaxThreads
      /\ "search" \in JobNames /\ p \in Seq(Operations)
  BY ThreadsAssumption DEF Workers, JobNames, HLeads
<1> DEFINE f == "search"
           A(i) == Hunt(n, 0, 2 .. i - 1, "start")
           G == {i \in 1 .. n + 1 : i = 1 \/ HLeads(Jobs(f, i, n) \o p, A(i))}
<1>1. n + 1 \in G
  <2>1. n + 1 \in 1 .. n + 1 /\ n + 1 - 1 = n
    BY <1>0
  <2>2. Jobs(f, n + 1, n) = <<>>
    BY <1>0, <2>1, JobsSteps
  <2>3. Jobs(f, n + 1, n) \o p = p
    BY <1>0, <2>2
  <2>4. HLeads(Jobs(f, n + 1, n) \o p, A(n + 1))
    <3> DEFINE b == Hunt(n, 0, 2 .. n, "start")
    <3>1. A(n + 1) = b
      BY <2>1
    <3>2. HLeads(p, b)
      OBVIOUS
    <3> HIDE DEF A, b
    <3> QED BY <2>3, <3>1, <3>2
  <2> HIDE DEF A
  <2> QED BY <2>1, <2>4
<1>2. ASSUME NEW i \in 1 .. n, i + 1 \in G
      PROVE  i \in G
  <2>1. CASE i = 1
    BY <1>0, <2>1
  <2>2. CASE i # 1
    <3>1. /\ i \in 1 .. n + 1 /\ i + 1 \in 1 .. n + 1 /\ i <= n /\ i \in Workers /\ i + 1 # 1 /\ i \in 2 .. n
          /\ i \in 0 .. MaxThreads /\ 0 \in 0 .. MaxThreads
      BY <1>0, <2>2
    <3> DEFINE a == A(i)
               o == 2 .. i - 1
               q == 2 .. (i + 1) - 1
               c == Hunt(n, i, q, "start")
               b == A(i + 1)
               r == Jobs(f, i + 1, n)
               x == Job(i, f)
               y == Told(i)
    <3>2. o \in SUBSET (2 .. n) /\ q \in SUBSET (2 .. n) /\ o \cup {i} = q /\ i \notin o /\ i \in q
      BY <1>0, <3>1
    <3>3. a = Hunt(n, 0, o, "start") /\ b = Hunt(n, 0, q, "start")
      OBVIOUS
    <3> HIDE DEF o, q, a, b, A
    <3>4. "start" \in Phases
      BY DEF Phases
    <3>5. /\ a \in Hunts /\ a.n = n /\ a.told = 0 /\ a.out = o /\ a.phase = "start"
          /\ c \in Hunts /\ c.n = n /\ c.told = i /\ c.out = q /\ c.phase = "start"
      <4> DEFINE s == "start"
      <4>1. s \in Phases /\ a = Hunt(n, 0, o, s) /\ c = Hunt(n, i, q, s) /\ s = "start"
        BY <3>3, <3>4
      <4> HIDE DEF s, c
      <4>2. a \in Hunts /\ a.n = n /\ a.told = 0 /\ a.out = o /\ a.phase = s
        BY <1>0, <3>1, <3>2, <4>1, HuntTypes
      <4>3. c \in Hunts /\ c.n = n /\ c.told = i /\ c.out = q /\ c.phase = s
        BY <1>0, <3>1, <3>2, <4>1, HuntTypes
      <4> QED BY <4>1, <4>2, <4>3
    <3> HIDE DEF c
    <3>6. HMay(a, x) /\ HAfter(a, x) = c
      <4>1. x[1] = "run" /\ x[2] = i /\ x[3] = "search"
        BY DEF Job
      <4> HIDE DEF x
      <4> QED BY <3>1, <3>2, <3>5, <4>1 DEF HMay, HAfter, c
    <3>7. HMay(c, y) /\ HAfter(c, y) = b
      <4>1. y[1] = "notify" /\ y[2] = i
        BY DEF Told
      <4> HIDE DEF y
      <4> QED BY <3>1, <3>2, <3>3, <3>5, <4>1 DEF HMay, HAfter
    <3>8. /\ x \in Operations /\ y \in Operations
          /\ <<x>> \in Seq(Operations) /\ <<y>> \in Seq(Operations) /\ RunJob(i, f) = <<x>> \o <<y>>
      BY <1>0, <3>1, JobTypes, Cat11
    <3>9. r \in Seq(Operations) /\ Jobs(f, i, n) = RunJob(i, f) \o r
      BY <1>0, <3>1, JobsSteps
    <3>10. HLeads(r \o p, b)
      BY <1>2, <3>1 DEF b
    <3> HIDE DEF x, y, r
    <3> DEFINE x1 == <<x>>
               y1 == <<y>>
    <3>11. HLeads(y1 \o (r \o p), c)
      BY <3>5, <3>7, <3>8, <3>10, HLeadsFrom
    <3>12. HLeads(x1 \o (y1 \o (r \o p)), a)
      BY <3>5, <3>6, <3>8, <3>11, HLeadsFrom
    <3>13. x1 \o (y1 \o (r \o p)) = Jobs(f, i, n) \o p
      <4>1. /\ x1 \in Seq(Operations) /\ y1 \in Seq(Operations) /\ r \in Seq(Operations) /\ p \in Seq(Operations)
            /\ Jobs(f, i, n) = (x1 \o y1) \o r
        BY <1>0, <3>8, <3>9
      <4> HIDE DEF x1, y1, f
      <4>2. x1 \o y1 \in Seq(Operations) /\ r \o p \in Seq(Operations)
        BY <4>1, CatFacts
      <4>3. ((x1 \o y1) \o r) \o p = (x1 \o y1) \o (r \o p)
        BY <4>1, <4>2, CatAssoc
      <4>4. (x1 \o y1) \o (r \o p) = x1 \o (y1 \o (r \o p))
        <5> DEFINE u == r \o p
        <5>1. u \in Seq(Operations)
          BY <4>2
        <5> HIDE DEF u
        <5>2. (x1 \o y1) \o u = x1 \o (y1 \o u)
          BY <4>1, <5>1, CatAssoc
        <5> QED BY <5>2 DEF u
      <4> QED BY <4>1, <4>3, <4>4
    <3>14. HLeads(Jobs(f, i, n) \o p, a)
      BY <3>12, <3>13
    <3> QED BY <3>1, <3>14 DEF a
  <2> QED BY <2>1, <2>2
<1> HIDE DEF G
<1>3. 1 .. n + 1 \subseteq G
  BY <1>0, <1>1, <1>2, Downward
<1>4. 2 \in G /\ 2 # 1 /\ 2 .. 2 - 1 = {}
  BY <1>0, <1>3
<1> QED BY <1>4 DEF G

\* It waits for them.
LEMMA HuntWaits ==
  ASSUME NEW n \in 1 .. MaxThreads, NEW p, HLeads(p, Hunt(n, 0, {}, "wait")), NEW X \in SUBSET (2 .. n)
  PROVE  HLeads(Waits(2, n) \o p, Hunt(n, 0, X, "wait"))
<1>0. /\ n \in 0 .. MaxThreads /\ n \in Nat /\ MaxThreads \in Nat /\ Workers = 1 .. MaxThreads
      /\ p \in Seq(Operations)
  BY ThreadsAssumption DEF Workers, HLeads
<1> DEFINE A(i) == Hunt(n, 0, (i .. n) \cap X, "wait")
           G == {i \in 1 .. n + 1 : i = 1 \/ HLeads(Waits(i, n) \o p, A(i))}
<1>1. n + 1 \in G
  <2>1. n + 1 \in 1 .. n + 1 /\ (n + 1 .. n) \cap X = {}
    BY <1>0
  <2>2. Waits(n + 1, n) = <<>>
    BY <1>0, <2>1, EachSteps
  <2>3. Waits(n + 1, n) \o p = p
    BY <1>0, <2>2
  <2> QED BY <2>1, <2>3
<1>2. ASSUME NEW i \in 1 .. n, i + 1 \in G
      PROVE  i \in G
  <2>1. CASE i = 1
    BY <1>0, <2>1
  <2>2. CASE i # 1
    <3>1. /\ i \in 1 .. n + 1 /\ i + 1 \in 1 .. n + 1 /\ i <= n /\ i \in Workers /\ i + 1 # 1 /\ i \in 2 .. n
          /\ 0 \in 0 .. MaxThreads
      BY <1>0, <2>2
    <3> DEFINE a == A(i)
               o == (i .. n) \cap X
               q == (i + 1 .. n) \cap X
               b == A(i + 1)
               r == Waits(i + 1, n)
               x == Await(i)
               s == "wait"
    <3>2. o \in SUBSET (2 .. n) /\ o \ {i} = q
      BY <1>0, <3>1
    <3>3. a = Hunt(n, 0, o, s) /\ b = Hunt(n, 0, q, s) /\ s = "wait" /\ s \in Phases
      BY DEF Phases
    <3> HIDE DEF o, q, a, b, A, s
    <3>5. a \in Hunts /\ a.n = n /\ a.told = 0 /\ a.out = o /\ a.phase = s
      BY <1>0, <3>1, <3>2, <3>3, HuntTypes
    <3>6. HMay(a, x) /\ HAfter(a, x) = b
      <4>1. x[1] = "wait" /\ x[2] = i
        BY DEF Await
      <4> HIDE DEF x
      <4> QED BY <3>1, <3>2, <3>3, <3>5, <4>1 DEF HMay, HAfter
    <3>8. x \in Operations /\ WaitFor(i) = <<x>> /\ <<x>> \in Seq(Operations)
      BY <3>1, WaitTypes
    <3>9. r \in Seq(Operations) /\ Waits(i, n) = WaitFor(i) \o r
      BY <1>0, <3>1, EachSteps
    <3>10. HLeads(r \o p, b)
      BY <1>2, <3>1 DEF b
    <3> HIDE DEF x, r
    <3> DEFINE x1 == <<x>>
    <3>12. HLeads(x1 \o (r \o p), a)
      BY <3>5, <3>6, <3>8, <3>10, HLeadsFrom
    <3>13. x1 \o (r \o p) = Waits(i, n) \o p
      <4>1. /\ x1 \in Seq(Operations) /\ r \in Seq(Operations) /\ p \in Seq(Operations)
            /\ Waits(i, n) = x1 \o r
        BY <1>0, <3>8, <3>9
      <4> HIDE DEF x1
      <4>2. (x1 \o r) \o p = x1 \o (r \o p)
        BY <4>1, CatAssoc
      <4> QED BY <4>1, <4>2
    <3>14. HLeads(Waits(i, n) \o p, a)
      BY <3>12, <3>13
    <3> QED BY <3>1, <3>14 DEF a
  <2> QED BY <2>1, <2>2
<1> HIDE DEF G
<1>3. 1 .. n + 1 \subseteq G
  BY <1>0, <1>1, <1>2, Downward
<1>4. 2 \in G /\ 2 # 1
  BY <1>0, <1>3
<1>5. (2 .. n) \cap X = X
  OBVIOUS
<1> QED BY <1>4, <1>5 DEF G

\* What the main thread executes for the job "search", whether or not the root has moves.
LEMMA SearchLeads ==
  ASSUME NEW n \in 1 .. MaxThreads, NEW iterates \in BOOLEAN
  PROVE  LET p == IF iterates THEN Jobs("search", 2, n) \o Op("iterate") ELSE <<>>
         IN  HLeads(((p \o Op("hold")) \o Op("raise")) \o Waits(2, n) \o Op("bestmove"), Hunt(n, 0, {}, "start"))
<1>0. /\ n \in 0 .. MaxThreads /\ n \in Nat /\ 2 \in 1 .. n + 1 /\ 0 \in 0 .. MaxThreads
      /\ {} \in SUBSET (2 .. n) /\ 2 .. n \in SUBSET (2 .. n)
      /\ {"start", "hold", "raise", "wait", "end"} \subseteq Phases
  BY ThreadsAssumption DEF Phases
<1> DEFINE O(k) == <<k, 0, "">>
           hd == O("hold")
           it == O("iterate")
           ra == O("raise")
           bm == O("bestmove")
           W == Waits(2, n)
           J == Jobs("search", 2, n)
<1>1. hd \in Operations /\ it \in Operations /\ ra \in Operations /\ bm \in Operations
  BY OpTypes DEF SearchKinds
<1>2. /\ hd[1] = "hold" /\ it[1] = "iterate" /\ ra[1] = "raise" /\ bm[1] = "bestmove"
      /\ Op("hold") = <<hd>> /\ Op("iterate") = <<it>> /\ Op("raise") = <<ra>> /\ Op("bestmove") = <<bm>>
  BY DEF Op
<1> HIDE DEF hd, it, ra, bm
<1> DEFINE h1 == <<hd>>
           i1 == <<it>>
           r1 == <<ra>>
           b1 == <<bm>>
<1>3. /\ h1 \in Seq(Operations) /\ i1 \in Seq(Operations) /\ r1 \in Seq(Operations) /\ b1 \in Seq(Operations)
      /\ W \in Seq(Operations) /\ J \in Seq(Operations)
  <2>1. "search" \in JobNames
    BY DEF JobNames
  <2>2. W \in Seq(Operations) /\ J \in Seq(Operations)
    BY <1>0, <2>1, EachSteps, JobsSteps
  <2> HIDE DEF W, J
  <2> QED BY <1>1, <2>2
<1> DEFINE e == Ended(n)
           H(X, s) == Hunt(n, 0, X, s)
<1>4. ASSUME NEW X \in SUBSET (2 .. n), NEW s \in Phases
      PROVE  H(X, s) \in Hunts /\ H(X, s).n = n /\ H(X, s).told = 0 /\ H(X, s).out = X /\ H(X, s).phase = s
  BY <1>0, HuntTypes
<1>5. HLeads(b1, H({}, "wait"))
  <2> DEFINE m == H({}, "wait")
  <2>1. m \in Hunts /\ m.n = n /\ m.out = {} /\ m.phase = "wait"
    BY <1>0, <1>4
  <2> HIDE DEF m
  <2>2. HMay(m, bm) /\ HAfter(m, bm) = e
    BY <1>2, <2>1 DEF HMay, HAfter
  <2>3. e \in Hunts
    BY <1>1, <2>1, <2>2, HMoveTypes
  <2>4. <<m, bm, e>> \in HMoves
    BY <1>1, <2>1, <2>2, HMoveTypes
  <2> HIDE DEF e
  <2>5. Runs(HMoves, Hunts, <<bm>>, m, e)
    BY <2>1, <2>3, <2>4, RunsOne
  <2>6. e = Ended(m.n)
    BY <2>1 DEF e
  <2>7. HLeads(b1, m)
    BY <1>3, <2>1, <2>5, <2>6 DEF HLeads
  <2> QED BY <2>7 DEF m
<1>6. ASSUME NEW X \in SUBSET (2 .. n)
      PROVE  HLeads(W \o b1, H(X, "wait"))
  <2> HIDE DEF b1
  <2> QED BY <1>5, HuntWaits
<1>7. ASSUME NEW X \in SUBSET (2 .. n)
      PROVE  HLeads(r1 \o (W \o b1), H(X, "raise"))
  <2> DEFINE m == H(X, "raise")
             q == W \o b1
  <2>1. m \in Hunts /\ m.n = n /\ m.told = 0 /\ m.out = X /\ m.phase = "raise"
    BY <1>0, <1>4
  <2> HIDE DEF m
  <2>2. HMay(m, ra) /\ HAfter(m, ra) = H(X, "wait")
    BY <1>2, <2>1 DEF HMay, HAfter
  <2>3. HLeads(q, HAfter(m, ra))
    BY <1>6, <2>2
  <2> HIDE DEF q
  <2>4. HLeads(<<ra>> \o q, m)
    BY <1>1, <2>1, <2>2, <2>3, HLeadsFrom
  <2> QED BY <2>4 DEF m, q
<1> DEFINE q == r1 \o (W \o b1)
<1>8. ASSUME NEW X \in SUBSET (2 .. n), NEW s \in {"start", "hold"}
      PROVE  HLeads(h1 \o q, H(X, s))
  <2> DEFINE m == H(X, s)
  <2>1. m \in Hunts /\ m.n = n /\ m.told = 0 /\ m.out = X /\ m.phase = s
    <3>1. s \in Phases
      BY <1>0
    <3> QED BY <1>4, <3>1
  <2> HIDE DEF m
  <2>2. HMay(m, hd) /\ HAfter(m, hd) = H(X, "raise")
    BY <1>2, <2>1 DEF HMay, HAfter
  <2>3. HLeads(q, HAfter(m, hd))
    BY <1>7, <2>2
  <2> HIDE DEF q
  <2>4. HLeads(<<hd>> \o q, m)
    BY <1>1, <2>1, <2>2, <2>3, HLeadsFrom
  <2> QED BY <2>4 DEF m
<1> DEFINE u == h1 \o q
<1>9. HLeads(i1 \o u, H(2 .. n, "start"))
  <2> DEFINE X == 2 .. n
             m == H(X, "start")
  <2>1. m \in Hunts /\ m.n = n /\ m.told = 0 /\ m.out = X /\ m.phase = "start"
    BY <1>0, <1>4
  <2>0. X \in SUBSET (2 .. n)
    OBVIOUS
  <2> HIDE DEF m, X
  <2>2. HMay(m, it) /\ HAfter(m, it) = H(X, "hold")
    BY <1>2, <2>1 DEF HMay, HAfter
  <2>3. HLeads(u, HAfter(m, it))
    BY <1>8, <2>0, <2>2
  <2> HIDE DEF u
  <2>4. HLeads(<<it>> \o u, m)
    BY <1>1, <2>1, <2>2, <2>3, HLeadsFrom
  <2> QED BY <2>4 DEF m, X
<1>10. HLeads(J \o (i1 \o u), H({}, "start"))
  <2> HIDE DEF u, i1
  <2> QED BY <1>9, HuntJobs
<1>11. HLeads(u, H({}, "start"))
  BY <1>0, <1>8
<1>12. u \in Seq(Operations)
  BY <1>11 DEF HLeads
<1> DEFINE p == IF iterates THEN J \o i1 ELSE <<>>
<1>13. p \in Seq(Operations) /\ HLeads(p \o u, H({}, "start"))
  <2> HIDE DEF u, i1, J, H
  <2>1. J \o i1 \in Seq(Operations) /\ <<>> \in Seq(Operations)
    BY <1>3, CatFacts
  <2>2. (J \o i1) \o u = J \o (i1 \o u)
    BY <1>3, <1>12, CatAssoc
  <2>3. <<>> \o u = u
    BY <1>12
  <2> QED BY <1>10, <1>11, <2>1, <2>2, <2>3
<1>14. p \o u = ((p \o h1) \o r1) \o W \o b1
  <2> HIDE DEF p, h1, r1, W, b1
  <2> DEFINE v == W \o b1
             x == p \o h1
             y == x \o r1
  <2>0. \A s1, t1, w1 \in Seq(Operations) : (s1 \o t1) \o w1 = s1 \o (t1 \o w1)
    BY CatAssoc
  <2>1. v \in Seq(Operations) /\ x \in Seq(Operations)
    BY <1>3, <1>13, CatFacts
  <2>a. y \in Seq(Operations) /\ r1 \o v \in Seq(Operations)
    <3> HIDE DEF x, v
    <3> QED BY <1>3, <2>1, CatFacts
  <2>2. (y \o W) \o b1 = y \o v
    <3> HIDE DEF y
    <3> QED BY <1>3, <2>a, CatAssoc
  <2>3. y \o v = x \o (r1 \o v)
    <3> HIDE DEF x, v
    <3>1. x \in Seq(Operations) /\ r1 \in Seq(Operations) /\ v \in Seq(Operations)
      BY <1>3, <2>1
    <3>2. (x \o r1) \o v = x \o (r1 \o v)
      BY <3>1, <2>0
    <3> QED BY <3>2
  <2>4. x \o (r1 \o v) = p \o (h1 \o (r1 \o v))
    <3> DEFINE z == r1 \o v
    <3> HIDE DEF z, v
    <3>1. (p \o h1) \o z = p \o (h1 \o z)
      <4>1. p \in Seq(Operations) /\ h1 \in Seq(Operations) /\ z \in Seq(Operations)
        BY <1>3, <1>13, <2>a DEF z
      <4> QED BY <4>1, <2>0
    <3> QED BY <3>1 DEF z
  <2> QED BY <2>2, <2>3, <2>4
<1>15. HLeads(((p \o h1) \o r1) \o W \o b1, H({}, "start"))
  BY <1>13, <1>14
<1> QED BY <1>2, <1>15
-----------------------------------------------------------------------------
(* The inductive invariant *)

\* Thread t has been given the job k, or executes it.
Post(t, k) == (jobFunc[t] = k /\ ~exit[t]) \/ prog[t] = Op(k)

\* The main thread has been given a search, or is in one.
Busy(m) == m.phase # "end" \/ (jobFunc[Main] = "search" /\ ~exit[Main])

TypesOK == EngineTypeOK /\ prog \in [Actors -> Seq(Operations)]

\* A thread in idle_loop: what its fields say of where it is.
ThreadsOK ==
  \A t \in Workers :
    /\ pc[t] = "absent" => ~searching[t]
    /\ pc[t] \in {"top", "running", "exited"} => searching[t]
    /\ t \in cv[t] => pc[t] = "parked"
    /\ prog[t] # <<>> => pc[t] = "running"
    /\ pc[t] = "exited" => exit[t]
    /\ exit[t] => pc[t] \in {"absent", "parked", "exited"} /\ jobFunc[t] \in {"none", "search"}
    /\ ~exit[t] => (jobFunc[t] # "none" <=> pc[t] = "parked" /\ searching[t])

\* The UCI thread's view of the pool is true, and no job escapes it.
PoolOK(a) ==
  /\ a.n = size
  /\ \A t \in Workers : /\ t \in a.alive <=> pc[t] # "absent"
                        /\ t \in a.leaving <=> exit[t] /\ pc[t] # "absent"
                        /\ t \in a.made => worker[t] \/ Post(t, "construct")
                        /\ \A k \in Plain : Post(t, k) => t \in a.owed

\* So is the main thread's view of its search, which the UCI thread stays out of.
SearchOK(a, m) ==
  /\ m.n = size
  /\ m.phase = "end" => m.out = {} /\ (prog[Main] = <<>> \/ \E k \in Plain : prog[Main] = Op(k))
  /\ m.phase # "end" => HLeads(prog[Main], m)
  /\ Busy(m) => ~a.free
  /\ searching[Main] /\ ~exit[Main] => Main \in a.owed \/ ~a.free
  /\ \A t \in Workers \ {Main} :
       /\ searching[t] /\ ~exit[t] => t \in a.owed \cup m.out
       /\ Post(t, "search") \/ prog[t] = Op("iterate") \/ prog[t] = Op("depth") => t \in m.out
       /\ prog[t] = <<>> \/ \E k \in Plain \cup {"iterate", "depth"} : prog[t] = Op(k)

\* A parked thread with a job is about to be notified; who is blocked waits for a busy thread.
WaitersOK(a, m) ==
  \A t \in Workers :
    /\ pc[t] = "parked" /\ t \in cv[t] /\ searching[t] => a.told = t \/ m.told = t
    /\ \A b \in cv[t] \ {t} : searching[t] /\ (AtOp(b, "run") \/ AtOp(b, "wait")) /\ Target(b) = t

\* A worker that has been set up for the search.
Ready(t) == rootList[t] = setupStates /\ rootDepth[t] = 0 /\ (t = Main => limits = request)

\* The lists of states have the owner that the code says, and depths stay below MAX_PLY.
ListsOK(a, m) ==
  /\ states # 0 => posList = states
  /\ states = 0 => posList = setupStates /\ setupStates # 0
  /\ nextList \in Nat \ {0}
  /\ rootList \in [Workers -> Nat] /\ states \in Nat /\ setupStates \in Nat
  /\ \A t \in a.setup : Post(t, "setup") \/ Ready(t)
  /\ a.go = 2 \/ Busy(m) => setupStates # 0
  /\ Busy(m) => \A t \in 1 .. size : rootList[t] = setupStates
  /\ Busy(m) /\ a.go = 0 => limits = request
DepthsOK(m) ==
  /\ (jobFunc[Main] = "search" /\ ~exit[Main]) \/ m.phase = "start" =>
       \A t \in (1 .. size) \ m.out : rootDepth[t] < MaxPly
  /\ \A t \in Workers : (jobFunc[t] = "search" /\ ~exit[t]) \/ AtOp(t, "iterate") \/ AtOp(t, "depth") =>
                          rootDepth[t] < MaxPly

\* The searches that are asked for or under way are those not answered yet.
One(b) == IF b THEN 1 ELSE 0
CountOK(a, m) == goes = bestmoves + One(a.go > 0) + One(Busy(m))

ProgOK(a) == Leads(prog[UCI], a, uci = "loop")

Safe(a, m) ==
  /\ TypesOK /\ ThreadsOK /\ PoolOK(a) /\ SearchOK(a, m) /\ WaitersOK(a, m)
  /\ ListsOK(a, m) /\ DepthsOK(m) /\ CountOK(a, m) /\ ProgOK(a)
SafeInv == \E a \in Views, m \in Hunts : Safe(a, m)

LEMMA OpIs ==
  ASSUME NEW k
  PROVE  /\ Op(k) # <<>> /\ Head(Op(k))[1] = k /\ Tail(Op(k)) = <<>>
         /\ k \in Kinds => /\ Op(k) \in Seq(Operations)
                           /\ \A s \in Seq(Operations) :
                                /\ Op(k) \o s \in Seq(Operations) /\ Op(k) \o s # <<>>
                                /\ Head(Op(k) \o s)[1] = k /\ Tail(Op(k) \o s) = s
<1> DEFINE x == <<k, 0, "">>
           p == <<x>>
<1>1. Op(k) = p /\ x[1] = k
  BY DEF Op
<1>2. k \in Kinds => x \in Operations
  BY OpTypes
<1> HIDE DEF x
<1>3. p # <<>> /\ Head(p) = x /\ Tail(p) = <<>>
  OBVIOUS
<1>4. ASSUME k \in Kinds
      PROVE  p \in Seq(Operations)
  BY <1>2, <1>4
<1> HIDE DEF p
<1>5. ASSUME k \in Kinds, NEW s \in Seq(Operations)
      PROVE  p \o s \in Seq(Operations) /\ p \o s # <<>> /\ Head(p \o s) = x /\ Tail(p \o s) = s
  <2>1. p \in Seq(Operations)
    BY <1>4, <1>5
  <2>2. p \o s \in Seq(Operations) /\ p \o s # <<>> /\ Head(p \o s) = Head(p) /\ Tail(p \o s) = Tail(p) \o s
    BY <1>3, <1>5, <2>1, CatFacts
  <2>3. <<>> \o s = s
    BY <1>5
  <2> QED BY <1>3, <2>2, <2>3
<1> QED BY <1>1, <1>3, <1>4, <1>5

\* What the UCI thread does next is a step that its view allows.
LEMMA UciActs ==
  ASSUME NEW a \in Views, ProgOK(a), prog[UCI] # <<>>
  PROVE  LET op == Head(prog[UCI])
         IN  op \in Operations /\ May(a, op) /\ After(a, op) \in Views
             /\ Leads(Tail(prog[UCI]), After(a, op), uci = "loop")
BY LeadsOn DEF ProgOK

\* The main thread waits, or gives jobs, only in a search.
LEMMA MainActs ==
  ASSUME NEW a \in Views, NEW m \in Hunts, SearchOK(a, m), prog[Main] # <<>>
  PROVE  LET op == Head(prog[Main])
         IN  \/ m.phase = "end" /\ \E k \in Plain : prog[Main] = Op(k) /\ op[1] = k
             \/ /\ m.phase # "end" /\ ~a.free /\ op[1] \notin Plain
                /\ op \in Operations /\ HMay(m, op) /\ HAfter(m, op) \in Hunts /\ HAfter(m, op).n = m.n
                /\ HLeads(Tail(prog[Main]), HAfter(m, op))
<1>1. CASE m.phase = "end"
  BY <1>1, OpIs DEF SearchOK
<1>2. CASE m.phase # "end"
  <2>1. HLeads(prog[Main], m) /\ ~a.free
    BY <1>2 DEF SearchOK, Busy
  <2>2. HMay(m, Head(prog[Main]))
    BY <2>1, HLeadsOn
  <2>3. Head(prog[Main])[1] \notin Plain
    BY <2>2 DEF HMay, Plain
  <2> QED BY <1>2, <2>1, <2>2, <2>3, HLeadsOn
<1> QED BY <1>1, <1>2

\* Nobody else does.
LEMMA Acting ==
  ASSUME NEW a \in Views, NEW m \in Hunts, Safe(a, m), NEW c \in Actors,
         AtOp(c, "run") \/ AtOp(c, "wait") \/ AtOp(c, "notify")
  PROVE  /\ c = UCI \/ (c = Main /\ m.phase # "end")
         /\ c = Main => ~a.free /\ Target(c) \in 2 .. m.n
         /\ Target(c) \in Workers /\ Target(c) # c
<1> DEFINE op == Head(prog[c])
<1>1. prog[c] # <<>> /\ op[1] \in {"run", "wait", "notify"} /\ op[2] = Target(c)
  BY DEF AtOp, Target
<1>2. op[1] \notin Plain \cup {"iterate", "depth"}
  BY <1>1 DEF Plain
<1>3. CASE c = UCI
  <2>1. May(a, op)
    BY <1>1, <1>3, UciActs DEF Safe
  <2>2. op[2] \in Workers
    BY <1>1, <2>1, ViewFields DEF May, MayRun, Coherent
  <2> QED BY <1>1, <1>3, <2>2 DEF UCI, Main, Workers
<1>4. CASE c = Main
  <2>1. m.phase # "end" /\ ~a.free /\ HMay(m, op)
    BY <1>1, <1>2, <1>4, MainActs DEF Safe
  <2>2. op[2] \in 2 .. m.n
    BY <1>1, <2>1 DEF HMay
  <2>3. op[2] \in Workers /\ op[2] # Main
    BY <2>2, HuntFields, ThreadsAssumption DEF Workers, Main
  <2> QED BY <1>1, <1>4, <2>1, <2>2, <2>3
<1>5. CASE c \in Workers \ {Main}
  <2>1. PICK k \in Plain \cup {"iterate", "depth"} : prog[c] = Op(k)
    BY <1>1, <1>5 DEF Safe, SearchOK
  <2> QED BY <1>1, <1>2, <2>1, OpIs
<1> QED BY <1>3, <1>4, <1>5 DEF Actors

\* At most one actor is blocked on a thread that it waits for.
LEMMA OneBlocked ==
  ASSUME NEW a \in Views, NEW m \in Hunts, Safe(a, m), NEW t \in Workers, NEW b \in cv[t] \ {t}
  PROVE  /\ searching[t] /\ (AtOp(b, "run") \/ AtOp(b, "wait")) /\ Target(b) = t /\ b \in Actors
         /\ \A c \in cv[t] \ {t} : c = b
         /\ b = UCI \/ b = Main
<1>0. cv[t] \subseteq Actors
  BY DEF Safe, TypesOK, EngineTypeOK
<1>1. ASSUME NEW c \in cv[t] \ {t}
      PROVE  /\ searching[t] /\ (AtOp(c, "run") \/ AtOp(c, "wait")) /\ Target(c) = t /\ c \in Actors
             /\ c = UCI \/ c = Main
             /\ c = Main => ~a.free /\ t # Main
  <2>1. searching[t] /\ (AtOp(c, "run") \/ AtOp(c, "wait")) /\ Target(c) = t /\ c \in Actors
    BY <1>0 DEF Safe, WaitersOK
  <2> QED BY <2>1, Acting
<1>2. ASSUME ~a.free, t # Main, UCI \in cv[t] \ {t}
      PROVE  FALSE
  <2>1. (AtOp(UCI, "run") \/ AtOp(UCI, "wait")) /\ Target(UCI) = t
    BY <1>1, <1>2
  <2>2. May(a, Head(prog[UCI])) /\ Head(prog[UCI])[2] = t /\ Head(prog[UCI])[1] \in {"run", "wait"}
    BY <2>1, UciActs DEF Safe, AtOp, Target
  <2> QED BY <1>2, <2>2 DEF May, MayRun
<1> QED BY <1>1, <1>2

-----------------------------------------------------------------------------
(* Each action keeps the invariant *)

LEMMA IdleTopSafe ==
  ASSUME NEW a \in Views, NEW m \in Hunts, Safe(a, m), NEW t \in Workers, IdleTop(t)
  PROVE  Safe(a, m)'
<1> USE DEF Safe
<1>0. /\ pc[t] = "top" /\ searching[t] /\ ~exit[t] /\ jobFunc[t] = "none" /\ t \notin cv[t] /\ prog[t] = <<>>
      /\ pc \in [Workers -> {"absent", "top", "parked", "running", "exited"}]
      /\ searching \in [Workers -> BOOLEAN] /\ cv \in [Workers -> SUBSET Actors]
  BY DEF IdleTop, ThreadsOK, TypesOK, EngineTypeOK
<1>1. /\ pc' = [pc EXCEPT ![t] = "parked"] /\ searching' = [searching EXCEPT ![t] = FALSE]
      /\ cv' = [cv EXCEPT ![t] = {t}]
      /\ UNCHANGED <<exit, jobFunc, worker, size, prog, flagVars, goVars, listVars, sessVars>>
  <2>1. PICK w \in NotifyOne(cv[t]) : cv' = [cv EXCEPT ![t] = w \cup {t}]
    BY DEF IdleTop
  <2>2. w = {}
    <3>1. CASE cv[t] = {}
      BY <3>1 DEF NotifyOne
    <3>2. CASE cv[t] # {}
      <4>1. PICK b \in cv[t] : w = cv[t] \ {b}
        BY <2>1, <3>2 DEF NotifyOne
      <4>2. \A c \in cv[t] : c = b
        BY <1>0, OneBlocked
      <4> QED BY <4>1, <4>2
    <3> QED BY <3>1, <3>2
  <2> QED BY <2>1, <2>2 DEF IdleTop
<1>2. TypesOK'
  <2>1. t \in Actors
    BY DEF Actors
  <2> QED BY <1>0, <1>1, <2>1 DEF TypesOK, EngineTypeOK, flagVars, goVars, listVars, sessVars
<1>3. ThreadsOK'
  BY <1>0, <1>1 DEF ThreadsOK
<1>4. PoolOK(a)'
  BY <1>0, <1>1 DEF PoolOK, Post
<1>5. SearchOK(a, m)'
  BY <1>0, <1>1 DEF SearchOK, Post, Busy, AtOp, Target
<1>6. WaitersOK(a, m)'
  BY <1>0, <1>1 DEF WaitersOK, AtOp, Target
<1>7. ListsOK(a, m)'
  BY <1>0, <1>1 DEF ListsOK, Ready, Post, Busy, goVars, listVars
<1>8. DepthsOK(m)'
  BY <1>0, <1>1 DEF DepthsOK, goVars, AtOp
<1>9. CountOK(a, m)' /\ ProgOK(a)'
  BY <1>0, <1>1 DEF CountOK, Busy, ProgOK, sessVars
<1> QED BY <1>2, <1>3, <1>4, <1>5, <1>6, <1>7, <1>8, <1>9

LEMMA JobEndSafe ==
  ASSUME NEW a \in Views, NEW m \in Hunts, Safe(a, m), NEW t \in Workers, JobEnd(t)
  PROVE  Safe(a, m)'
<1> USE DEF Safe
<1>0. /\ pc[t] = "running" /\ searching[t] /\ ~exit[t] /\ jobFunc[t] = "none" /\ t \notin cv[t] /\ prog[t] = <<>>
      /\ pc \in [Workers -> {"absent", "top", "parked", "running", "exited"}]
      /\ pc' = [pc EXCEPT ![t] = "top"]
      /\ UNCHANGED <<searching, exit, jobFunc, worker, cv, size, prog, flagVars, goVars, listVars, sessVars>>
  BY DEF JobEnd, ThreadsOK, TypesOK, EngineTypeOK
<1>1. TypesOK'
  BY <1>0 DEF TypesOK, EngineTypeOK, flagVars, goVars, listVars, sessVars
<1>2. ThreadsOK' /\ PoolOK(a)' /\ WaitersOK(a, m)'
  BY <1>0 DEF ThreadsOK, PoolOK, Post, WaitersOK, AtOp, Target
<1>3. SearchOK(a, m)'
  BY <1>0 DEF SearchOK, Post, Busy, AtOp, Target
<1>4. ListsOK(a, m)' /\ DepthsOK(m)' /\ CountOK(a, m)' /\ ProgOK(a)'
  BY <1>0 DEF ListsOK, Ready, Post, Busy, DepthsOK, CountOK, ProgOK, AtOp, goVars, listVars, sessVars
<1> QED BY <1>1, <1>2, <1>3, <1>4

\* A woken thread parks again, leaves, or takes a job other than the search of the main thread.
LEMMA WakeSafe ==
  ASSUME NEW a \in Views, NEW m \in Hunts, Safe(a, m), NEW t \in Workers, Wake(t),
         ~(t = Main /\ searching[t] /\ ~exit[t] /\ jobFunc[t] = "search")
  PROVE  Safe(a, m)'
<1> USE DEF Safe
<1>0. /\ pc[t] = "parked" /\ t \notin cv[t] /\ prog[t] = <<>> /\ t \in Actors
      /\ pc \in [Workers -> {"absent", "top", "parked", "running", "exited"}]
      /\ jobFunc \in [Workers -> {"none", "construct", "clear", "zero", "setup", "search"}]
      /\ cv \in [Workers -> SUBSET Actors] /\ prog \in [Actors -> Seq(Operations)]
      /\ UNCHANGED <<searching, exit, worker, size, flagVars, goVars, listVars, sessVars>>
  BY DEF Wake, ThreadsOK, TypesOK, EngineTypeOK, Actors
<1>1. CASE ~searching[t]
  <2>1. cv' = [cv EXCEPT ![t] = @ \cup {t}] /\ UNCHANGED <<pc, jobFunc, prog>>
    BY <1>1 DEF Wake
  <2>2. TypesOK'
    BY <1>0, <2>1 DEF TypesOK, EngineTypeOK, flagVars, goVars, listVars, sessVars
  <2>3. ThreadsOK' /\ PoolOK(a)' /\ WaitersOK(a, m)'
    BY <1>0, <1>1, <2>1 DEF ThreadsOK, PoolOK, Post, WaitersOK, AtOp, Target
  <2>4. SearchOK(a, m)'
    BY <1>0, <2>1 DEF SearchOK, Post, Busy, AtOp, Target
  <2>5. ListsOK(a, m)' /\ DepthsOK(m)' /\ CountOK(a, m)' /\ ProgOK(a)'
    BY <1>0, <2>1 DEF ListsOK, Ready, Post, Busy, DepthsOK, CountOK, ProgOK, AtOp, goVars, listVars, sessVars
  <2> QED BY <2>2, <2>3, <2>4, <2>5
<1>2. CASE searching[t] /\ exit[t]
  <2>1. pc' = [pc EXCEPT ![t] = "exited"] /\ UNCHANGED <<cv, jobFunc, prog>>
    BY <1>2 DEF Wake
  <2>2. TypesOK'
    BY <1>0, <2>1 DEF TypesOK, EngineTypeOK, flagVars, goVars, listVars, sessVars
  <2>3. ThreadsOK' /\ PoolOK(a)' /\ WaitersOK(a, m)'
    BY <1>0, <1>2, <2>1 DEF ThreadsOK, PoolOK, Post, WaitersOK, AtOp, Target
  <2>4. SearchOK(a, m)'
    BY <1>0, <2>1 DEF SearchOK, Post, Busy, AtOp, Target
  <2>5. ListsOK(a, m)' /\ DepthsOK(m)' /\ CountOK(a, m)' /\ ProgOK(a)'
    BY <1>0, <2>1 DEF ListsOK, Ready, Post, Busy, DepthsOK, CountOK, ProgOK, AtOp, goVars, listVars, sessVars
  <2> QED BY <2>2, <2>3, <2>4, <2>5
<1>3. CASE searching[t] /\ ~exit[t]
  <2> DEFINE f == jobFunc[t]
             k == IF f = "search" THEN "iterate" ELSE f
  <2>1. f \in Plain \cup {"search"} /\ (f = "search" => t # Main) /\ k \in Plain \cup {"iterate"} /\ k \in Kinds
    <3>1. f # "none"
      BY <1>0, <1>3 DEF ThreadsOK
    <3>2. f \in Plain \cup {"search"}
      BY <1>0, <3>1 DEF Plain
    <3>3. k \in Plain \cup {"iterate"}
      BY <3>2
    <3> QED BY <1>3, <3>2, <3>3 DEF Kinds, SearchKinds
  <2>2. /\ pc' = [pc EXCEPT ![t] = "running"] /\ jobFunc' = [jobFunc EXCEPT ![t] = "none"]
        /\ prog' = [prog EXCEPT ![t] = Op(k)] /\ cv' = cv
    <3>1. JobProgram(t, f) = Op(k)
      BY <2>1 DEF JobProgram
    <3> QED BY <1>3, <3>1 DEF Wake
  <2>3. Op(k) \in Seq(Operations) /\ Op(k) # <<>> /\ (\A j : Op(j) = Op(k) => j = k) /\ Head(Op(k))[1] = k
    BY <2>1, OpIs
  <2>4. t = Main => m.phase = "end"
    <3>1. SUFFICES ASSUME t = Main, m.phase # "end"
                   PROVE  FALSE
      OBVIOUS
    <3>2. HLeads(<<>>, m)
      BY <1>0, <3>1 DEF SearchOK
    <3> QED BY <3>1, <3>2, HLeadsOn DEF Ended, Hunt
  <2>5. \A u \in Actors : prog'[u] = IF u = t THEN Op(k) ELSE prog[u]
    BY <1>0, <2>2
  <2>s. (f = "search" <=> k = "iterate") /\ k \notin {"search", "depth"} /\ (k \in Plain <=> f \in Plain) /\ (f \in Plain => k = f)
    BY <2>1 DEF Plain
  <2> HIDE DEF k
  <2>6. TypesOK'
    BY <1>0, <2>2, <2>3 DEF TypesOK, EngineTypeOK, flagVars, goVars, listVars, sessVars
  <2>7. ThreadsOK'
    BY <1>0, <1>3, <2>2, <2>3, <2>5 DEF ThreadsOK, Actors
  <2>j. \A u \in Workers : u # t => jobFunc'[u] = jobFunc[u] /\ prog'[u] = prog[u] /\ exit'[u] = exit[u]
    BY <1>0, <2>2, <2>5 DEF Actors
  <2>t. jobFunc'[t] = "none" /\ prog'[t] = Op(k) /\ "none" \notin Plain \cup {"search"}
    BY <1>0, <2>2, <2>5 DEF Plain
  <2>p. ASSUME NEW u \in Workers, NEW j \in Plain \cup {"search"}, Post(u, j)'
        PROVE  Post(u, j)
    <3>1. CASE u = t
      <4>1. j = k /\ j = f
        BY <2>p, <2>3, <2>s, <2>t, <3>1 DEF Post
      <4> QED BY <1>3, <3>1, <4>1 DEF Post
    <3>2. CASE u # t
      BY <2>p, <2>j, <3>2 DEF Post
    <3> QED BY <3>1, <3>2
  <2>q. ASSUME NEW u \in Workers, NEW j \in Plain, Post(u, j)
        PROVE  Post(u, j)'
    <3>1. CASE u = t
      <4>1. prog[u] # Op(j)
        BY <1>0, <3>1, OpIs
      <4>2. j = f
        BY <2>q, <3>1, <4>1 DEF Post
      <4> QED BY <2>s, <2>t, <3>1, <4>2 DEF Post
    <3>2. CASE u # t
      BY <2>q, <2>j, <3>2 DEF Post
    <3> QED BY <3>1, <3>2
  <2>b. Busy(m)' = Busy(m)
    BY <1>0, <1>3, <2>2, <2>1 DEF Busy
  <2>8. PoolOK(a)'
    <3>1. "construct" \in Plain
      BY DEF Plain
    <3> QED BY <1>0, <2>2, <2>p, <2>q, <3>1 DEF PoolOK
  <2>9. WaitersOK(a, m)'
    <3>1. \A u \in Workers : pc'[u] = "parked" => pc[u] = "parked"
      BY <1>0, <2>2
    <3>2. \A u \in Workers : \A b \in cv[u] \ {u} : prog'[b] = prog[b]
      BY <1>0, <2>5, OneBlocked DEF AtOp
    <3> QED BY <1>0, <2>2, <3>1, <3>2 DEF WaitersOK, AtOp, Target
  <2>10. SearchOK(a, m)'
    <3>1. m.n = size' /\ (Busy(m)' => ~a.free) /\ (searching'[Main] /\ ~exit'[Main] => Main \in a.owed \/ ~a.free)
      BY <1>0, <2>b DEF SearchOK
    <3>2. m.phase = "end" => m.out = {} /\ (prog'[Main] = <<>> \/ \E j \in Plain : prog'[Main] = Op(j))
      <4>1. CASE t = Main
        BY <2>1, <2>4, <2>5, <2>s, <4>1 DEF SearchOK, Actors
      <4>2. CASE t # Main
        BY <2>5, <4>2, ThreadsAssumption DEF SearchOK, Actors, Workers, Main
      <4> QED BY <4>1, <4>2
    <3>3. m.phase # "end" => HLeads(prog'[Main], m)
      BY <2>4, <2>5, ThreadsAssumption DEF SearchOK, Actors, Workers, Main
    <3>4. ASSUME NEW u \in Workers \ {Main}
          PROVE  /\ searching'[u] /\ ~exit'[u] => u \in a.owed \cup m.out
                 /\ Post(u, "search")' \/ prog'[u] = Op("iterate") \/ prog'[u] = Op("depth") => u \in m.out
                 /\ prog'[u] = <<>> \/ \E j \in Plain \cup {"iterate", "depth"} : prog'[u] = Op(j)
      <4>1. searching'[u] /\ ~exit'[u] => u \in a.owed \cup m.out
        BY <1>0 DEF SearchOK
      <4>2. Post(u, "search")' => u \in m.out
        BY <2>p, <3>4 DEF SearchOK
      <4>3. CASE u = t
        <5>1. prog'[u] = Op(k)
          BY <2>5, <4>3 DEF Actors
        <5>2. k = "iterate" => u \in m.out
          BY <1>3, <2>s, <3>4, <4>3 DEF SearchOK, Post
        <5> QED BY <2>1, <2>3, <2>s, <4>1, <4>2, <5>1, <5>2
      <4>4. CASE u # t
        <5>1. prog'[u] = prog[u]
          BY <2>5, <4>4 DEF Actors
        <5> QED BY <3>4, <4>1, <4>2, <5>1 DEF SearchOK
      <4> QED BY <4>3, <4>4
    <3> QED BY <3>1, <3>2, <3>3, <3>4 DEF SearchOK
  <2>11. ListsOK(a, m)'
    <3>1. "setup" \in Plain /\ a.setup \subseteq Workers
      BY ViewFields DEF Plain
    <3> QED BY <1>0, <2>b, <2>q, <3>1 DEF ListsOK, Ready, goVars, listVars
  <2>12. DepthsOK(m)'
    <3>1. Main \in Workers
      BY ThreadsAssumption DEF Workers, Main
    <3>2. \A u \in Workers : rootDepth'[u] = rootDepth[u] /\ (jobFunc'[u] = "search" => jobFunc[u] = "search")
      BY <1>0, <2>2 DEF goVars
    <3>3. \A u \in Workers : AtOp(u, "iterate")' \/ AtOp(u, "depth")' =>
             AtOp(u, "iterate") \/ AtOp(u, "depth") \/ (jobFunc[u] = "search" /\ ~exit[u])
      BY <1>3, <2>3, <2>5, <2>s DEF AtOp, Actors
    <3>4. \A u \in 1 .. size : u \in Workers
      BY ThreadsAssumption DEF TypesOK, EngineTypeOK, Workers
    <3>5. UNCHANGED <<exit, size, rootDepth>>
      BY <1>0 DEF goVars
    <3> QED BY <3>1, <3>2, <3>3, <3>4, <3>5 DEF DepthsOK
  <2>13. CountOK(a, m)' /\ ProgOK(a)'
    <3>1. prog'[UCI] = prog[UCI]
      BY <2>5 DEF Actors, Workers, UCI
    <3> QED BY <1>0, <2>b, <3>1 DEF CountOK, ProgOK, sessVars
  <2> QED BY <2>6, <2>7, <2>8, <2>9, <2>10, <2>11, <2>12, <2>13
<1>4. searching[t] \in BOOLEAN /\ exit[t] \in BOOLEAN
  BY DEF TypesOK, EngineTypeOK
<1> QED BY <1>1, <1>2, <1>3, <1>4

\* The main thread begins a search.
LEMMA WakeMainSafe ==
  ASSUME NEW a \in Views, NEW m \in Hunts, Safe(a, m), Wake(Main),
         searching[Main], ~exit[Main], jobFunc[Main] = "search"
  PROVE  \E h \in Hunts : Safe(a, h)'
<1> USE DEF Safe
<1>0. /\ pc[Main] = "parked" /\ Main \notin cv[Main] /\ prog[Main] = <<>> /\ Main \in Actors /\ Main \in Workers
      /\ pc \in [Workers -> {"absent", "top", "parked", "running", "exited"}]
      /\ jobFunc \in [Workers -> {"none", "construct", "clear", "zero", "setup", "search"}]
      /\ prog \in [Actors -> Seq(Operations)]
      /\ pc' = [pc EXCEPT ![Main] = "running"] /\ jobFunc' = [jobFunc EXCEPT ![Main] = "none"]
      /\ prog' = [prog EXCEPT ![Main] = JobProgram(Main, "search")]
      /\ UNCHANGED <<searching, exit, worker, cv, size, flagVars, goVars, listVars, sessVars>>
  <2>1. Main \in Workers
    BY ThreadsAssumption DEF Workers, Main
  <2> QED BY <2>1 DEF Wake, ThreadsOK, TypesOK, EngineTypeOK, Actors
<1>1. Busy(m) /\ ~a.free /\ size \in 1 .. MaxThreads
  <2>1. Busy(m) /\ ~a.free
    BY DEF Busy, SearchOK
  <2>2. a.n = size /\ a.n # 0 /\ a.n \in 0 .. MaxThreads
    BY <2>1, ViewFields DEF PoolOK, Coherent
  <2> QED BY <2>1, <2>2, ThreadsAssumption
<1>2. m.phase = "end" /\ m.out = {}
  <2>1. SUFFICES ASSUME m.phase # "end"
                 PROVE  FALSE
    BY DEF SearchOK
  <2>2. HLeads(<<>>, m)
    BY <1>0, <2>1 DEF SearchOK
  <2> QED BY <2>1, <2>2, HLeadsOn DEF Ended, Hunt
<1>3. PICK h \in Hunts : h.n = size /\ h.out = {} /\ h.told = 0 /\ h.phase = "start" /\ HLeads(prog'[Main], h)
  <2> DEFINE p == IF ~noMoves THEN Jobs("search", 2, size) \o Op("iterate") ELSE <<>>
             q == ((p \o Op("hold")) \o Op("raise")) \o Waits(2, size) \o Op("bestmove")
  <2>1. JobProgram(Main, "search") = q
    BY DEF JobProgram, Jobs, Waits
  <2>2. HLeads(q, Hunt(size, 0, {}, "start"))
    <3>1. (~noMoves) \in BOOLEAN
      OBVIOUS
    <3> QED BY <1>1, <3>1, SearchLeads
  <2>3. Hunt(size, 0, {}, "start") \in Hunts
    BY <2>2 DEF HLeads
  <2>4. prog'[Main] = q
    BY <1>0, <2>1
  <2> HIDE DEF q
  <2> QED BY <2>2, <2>3, <2>4 DEF Hunt
<1>4. prog'[Main] \in Seq(Operations) /\ prog'[Main] # <<>> /\ \A u \in Actors \ {Main} : prog'[u] = prog[u]
  <2>1. prog'[Main] \in Seq(Operations) /\ prog'[Main] # <<>>
    BY <1>3, HLeadsOn DEF Ended, Hunt
  <2> QED BY <1>0, <2>1
<1>5. Busy(h)' /\ ~(jobFunc'[Main] = "search")
  BY <1>0, <1>3 DEF Busy
<1>6. TypesOK'
  <2>1. prog' \in [Actors -> Seq(Operations)]
    BY <1>0, <1>4
  <2> QED BY <1>0, <2>1 DEF TypesOK, EngineTypeOK, flagVars, goVars, listVars, sessVars
<1>7. ThreadsOK'
  BY <1>0, <1>4 DEF ThreadsOK, Actors
<1>p. \A u \in Workers, j \in Plain \cup {"search"} : (u # Main => (Post(u, j)' <=> Post(u, j)))
  BY <1>0, <1>4 DEF Post, Actors
<1>q. \A j \in Plain : ~Post(Main, j)' /\ ~Post(Main, j)
  <2> SUFFICES ASSUME NEW j \in Plain
               PROVE  ~Post(Main, j)' /\ ~Post(Main, j)
    OBVIOUS
  <2>1. j # "search" /\ j # "none"
    BY DEF Plain
  <2>2. ~Post(Main, j)
    BY <1>0, <2>1, OpIs DEF Post
  <2>3. Head(prog'[Main])[1] \notin Plain
    BY <1>3, <1>4, HLeadsOn DEF HMay, Plain
  <2>4. prog'[Main] # Op(j)
    BY <2>3, OpIs
  <2>5. jobFunc'[Main] = "none"
    BY <1>0
  <2> QED BY <2>1, <2>2, <2>4, <2>5 DEF Post
<1>8. PoolOK(a)'
  <2>1. "construct" \in Plain
    BY DEF Plain
  <2> QED BY <1>0, <1>p, <1>q, <2>1 DEF PoolOK
<1>9. SearchOK(a, h)'
  <2>1. h.n = size' /\ h.phase # "end" /\ HLeads(prog'[Main], h) /\ ~a.free
    BY <1>0, <1>1, <1>3
  <2>2. ASSUME NEW u \in Workers \ {Main}
        PROVE  /\ searching'[u] /\ ~exit'[u] => u \in a.owed \cup h.out
               /\ Post(u, "search")' \/ prog'[u] = Op("iterate") \/ prog'[u] = Op("depth") => u \in h.out
               /\ prog'[u] = <<>> \/ \E j \in Plain \cup {"iterate", "depth"} : prog'[u] = Op(j)
    BY <1>0, <1>2, <1>3, <1>4, <1>p, <2>2 DEF SearchOK, Actors
  <2> QED BY <2>1, <2>2 DEF SearchOK
<1>10. WaitersOK(a, h)'
  <2>1. \A u \in Workers : pc'[u] = "parked" => pc[u] = "parked" /\ u # Main
    BY <1>0
  <2>2. \A u \in Workers : \A b \in cv[u] \ {u} : prog'[b] = prog[b]
    BY <1>0, <1>4, OneBlocked DEF AtOp
  <2>3. m.told = 0
    BY <1>2, HuntFields
  <2> QED BY <1>0, <1>3, <2>1, <2>2, <2>3 DEF WaitersOK, AtOp, Target
<1>11. ListsOK(a, h)'
  <2>1. "setup" \in Plain /\ a.setup = {}
    BY <1>1, ViewFields DEF Plain, Coherent
  <2> QED BY <1>0, <1>1, <1>5, <2>1 DEF ListsOK, goVars, listVars
<1>12. DepthsOK(h)'
  <2>1. \A u \in 1 .. size : u \in Workers
    BY <1>1, ThreadsAssumption DEF Workers
  <2>2. UNCHANGED <<exit, size, rootDepth>>
    BY <1>0 DEF goVars
  <2>3. \A u \in 1 .. size : rootDepth[u] < MaxPly
    BY <1>2 DEF DepthsOK
  <2>4. Main \in 1 .. size
    BY <1>1 DEF Main
  <2>5. \A u \in Workers \ {Main} : prog'[u] = prog[u] /\ jobFunc'[u] = jobFunc[u]
    BY <1>0, <1>4 DEF Actors
  <2> QED BY <1>0, <1>3, <2>1, <2>2, <2>3, <2>4, <2>5 DEF DepthsOK, AtOp
<1>13. CountOK(a, h)' /\ ProgOK(a)'
  <2>1. prog'[UCI] = prog[UCI]
    BY <1>4 DEF Actors, Main, UCI
  <2> QED BY <1>0, <1>1, <1>5, <2>1 DEF CountOK, ProgOK, sessVars
<1> QED BY <1>6, <1>7, <1>8, <1>9, <1>10, <1>11, <1>12, <1>13

LEMMA BlockSafe ==
  ASSUME NEW a \in Views, NEW m \in Hunts, Safe(a, m), NEW c \in Actors, Block(c)
  PROVE  Safe(a, m)'
<1> USE DEF Safe
<1> DEFINE t == Target(c)
<1>0. /\ (AtOp(c, "run") \/ AtOp(c, "wait")) /\ searching[t] /\ t \in Workers /\ t # c
      /\ cv \in [Workers -> SUBSET Actors] /\ cv' = [cv EXCEPT ![t] = @ \cup {c}]
      /\ UNCHANGED <<pc, searching, exit, jobFunc, worker, size, prog, flagVars, goVars, listVars, sessVars>>
  BY Acting DEF Block, TypesOK, EngineTypeOK
<1>1. TypesOK'
  <2> HIDE DEF t
  <2> QED BY <1>0 DEF TypesOK, EngineTypeOK, flagVars, goVars, listVars, sessVars
<1>2. ThreadsOK' /\ PoolOK(a)'
  <2> HIDE DEF t
  <2> QED BY <1>0 DEF ThreadsOK, PoolOK, Post
<1>3. WaitersOK(a, m)'
  <2>1. \A u \in Workers : cv'[u] = IF u = t THEN cv[u] \cup {c} ELSE cv[u]
    BY <1>0
  <2>2. \A b : AtOp(b, "run")' = AtOp(b, "run") /\ AtOp(b, "wait")' = AtOp(b, "wait") /\ Target(b)' = Target(b)
    BY <1>0 DEF AtOp, Target
  <2>3. Target(c) = t
    OBVIOUS
  <2> HIDE DEF t
  <2> QED BY <1>0, <2>1, <2>2, <2>3 DEF WaitersOK
<1>4. SearchOK(a, m)'
  BY <1>0 DEF SearchOK, Post, Busy, AtOp, Target
<1>5. ListsOK(a, m)' /\ DepthsOK(m)' /\ CountOK(a, m)' /\ ProgOK(a)'
  <2> HIDE DEF t
  <2> QED BY <1>0 DEF ListsOK, Ready, Post, Busy, DepthsOK, CountOK, ProgOK, AtOp, goVars, listVars, sessVars
<1> QED BY <1>1, <1>2, <1>3, <1>4, <1>5

\* The UCI thread goes on to its next operation.
LEMMA UciPops ==
  ASSUME NEW a \in Views, NEW m \in Hunts, Safe(a, m), NEW k, AtOp(UCI, k), Pop(UCI), uci' = uci
  PROVE  LET op == Head(prog[UCI])
         IN  /\ op[1] = k /\ op[2] = Target(UCI) /\ op \in Operations /\ May(a, op)
             /\ After(a, op) \in Views /\ Leads(prog'[UCI], After(a, op), uci' = "loop")
             /\ prog' \in [Actors -> Seq(Operations)] /\ UCI \in Actors
             /\ \A u \in Actors \ {UCI} : prog'[u] = prog[u]
             /\ \A u \in Workers : prog'[u] = prog[u] /\ u \in Actors /\ u # UCI
             /\ Main \in Workers
<1>1. prog[UCI] # <<>> /\ Head(prog[UCI])[1] = k /\ prog \in [Actors -> Seq(Operations)] /\ UCI \in Actors
  BY DEF AtOp, Safe, TypesOK, Actors
<1>2. prog' = [prog EXCEPT ![UCI] = Tail(prog[UCI])] /\ Tail(prog[UCI]) \in Seq(Operations)
  BY <1>1 DEF Pop
<1>3. prog' \in [Actors -> Seq(Operations)] /\ \A u \in Actors \ {UCI} : prog'[u] = prog[u]
  BY <1>1, <1>2
<1>4. Leads(prog'[UCI], After(a, Head(prog[UCI])), uci' = "loop")
  BY <1>1, <1>2, UciActs DEF Safe
<1>5. \A u \in Workers : prog'[u] = prog[u] /\ u \in Actors /\ u # UCI
  BY <1>3 DEF Actors, Workers, UCI
<1>6. Main \in Workers
  BY ThreadsAssumption DEF Workers, Main
<1> QED BY <1>1, <1>3, <1>4, <1>5, <1>6, UciActs DEF Safe, Target

\* So does the main thread, in a search.
LEMMA MainPops ==
  ASSUME NEW a \in Views, NEW m \in Hunts, Safe(a, m), NEW k, k \notin Plain, AtOp(Main, k), Pop(Main), uci' = uci
  PROVE  LET op == Head(prog[Main])
         IN  /\ op[1] = k /\ op[2] = Target(Main) /\ op \in Operations /\ m.phase # "end" /\ ~a.free /\ HMay(m, op)
             /\ HAfter(m, op) \in Hunts /\ HAfter(m, op).n = m.n /\ HLeads(prog'[Main], HAfter(m, op))
             /\ prog' \in [Actors -> Seq(Operations)] /\ Main \in Workers /\ Main \in Actors
             /\ \A u \in Actors \ {Main} : prog'[u] = prog[u]
             /\ \A u \in Workers \ {Main} : prog'[u] = prog[u] /\ u \in Actors
             /\ ProgOK(a)' /\ pc[Main] = "running" /\ jobFunc[Main] = "none" /\ ~exit[Main] /\ searching[Main]
<1>0. Main \in Workers /\ Main \in Actors /\ UCI \in Actors \ {Main}
  BY ThreadsAssumption DEF Workers, Main, UCI, Actors
<1>1. prog[Main] # <<>> /\ Head(prog[Main])[1] = k /\ prog \in [Actors -> Seq(Operations)]
  BY DEF AtOp, Safe, TypesOK
<1>2. prog' = [prog EXCEPT ![Main] = Tail(prog[Main])] /\ Tail(prog[Main]) \in Seq(Operations)
  BY <1>0, <1>1 DEF Pop
<1>3. prog' \in [Actors -> Seq(Operations)] /\ prog'[Main] = Tail(prog[Main])
      /\ \A u \in Actors \ {Main} : prog'[u] = prog[u]
  BY <1>0, <1>1, <1>2
<1>4. /\ m.phase # "end" /\ ~a.free /\ Head(prog[Main]) \in Operations /\ HMay(m, Head(prog[Main]))
      /\ HAfter(m, Head(prog[Main])) \in Hunts /\ HAfter(m, Head(prog[Main])).n = m.n
      /\ HLeads(Tail(prog[Main]), HAfter(m, Head(prog[Main])))
  BY <1>1, MainActs DEF Safe
<1>5. ProgOK(a)'
  BY <1>0, <1>3 DEF Safe, ProgOK
<1>6. pc[Main] = "running" /\ jobFunc[Main] = "none" /\ ~exit[Main] /\ searching[Main]
  BY <1>0, <1>1 DEF Safe, ThreadsOK
<1>7. \A u \in Workers \ {Main} : prog'[u] = prog[u] /\ u \in Actors
  BY <1>3 DEF Actors
<1> QED BY <1>0, <1>1, <1>3, <1>4, <1>5, <1>6, <1>7 DEF Target

\* A thread that does not search has no job, and works on none.
LEMMA NotSearching ==
  ASSUME NEW a \in Views, NEW m \in Hunts, Safe(a, m), NEW t \in Workers, ~searching[t]
  PROVE  /\ prog[t] = <<>> /\ pc[t] \in {"absent", "parked"} /\ cv[t] \subseteq {t}
         /\ ~exit[t] => jobFunc[t] = "none"
         /\ \A k \in Plain \cup {"search"} : ~Post(t, k)
         /\ t = Main => ~Busy(m)
<1>1. /\ pc[t] \in {"absent", "parked"} /\ prog[t] = <<>> /\ (~exit[t] => jobFunc[t] = "none")
  BY DEF Safe, ThreadsOK, TypesOK, EngineTypeOK
<1>2. cv[t] \subseteq {t}
  BY OneBlocked
<1>3. \A k \in Plain \cup {"search"} : ~Post(t, k)
  BY <1>1, OpIs DEF Post, Plain
<1>4. t = Main => m.phase = "end"
  <2> SUFFICES ASSUME t = Main, m.phase # "end"
               PROVE  FALSE
    OBVIOUS
  <2>1. HLeads(<<>>, m)
    BY <1>1 DEF Safe, SearchOK
  <2> QED BY <2>1, HLeadsOn DEF Ended, Hunt
<1>5. t = Main => ~Busy(m)
  BY <1>1, <1>4 DEF Busy
<1> QED BY <1>1, <1>2, <1>3, <1>5

LEMMA UciWaitSafe ==
  ASSUME NEW a \in Views, NEW m \in Hunts, Safe(a, m), WaitForSearchFinished(UCI)
  PROVE  \E b \in Views : Safe(b, m)'
<1> USE DEF Safe
<1> DEFINE t == Target(UCI)
           op == Head(prog[UCI])
<1>0. /\ AtOp(UCI, "wait") /\ UCI \notin cv[t] /\ ~searching[t]
      /\ Pop(UCI) /\ UNCHANGED <<idleVars, flagVars, goVars, listVars, sessVars>> /\ uci' = uci
  BY DEF WaitForSearchFinished, sessVars
<1>1. /\ op[1] = "wait" /\ op[2] = t /\ May(a, op) /\ After(a, op) \in Views
      /\ Leads(prog'[UCI], After(a, op), uci' = "loop")
      /\ prog' \in [Actors -> Seq(Operations)] /\ UCI \in Actors
      /\ \A u \in Actors \ {UCI} : prog'[u] = prog[u]
      /\ \A u \in Workers : prog'[u] = prog[u] /\ u \in Actors /\ u # UCI
      /\ Main \in Workers
  BY <1>0, UciPops
<1>2. PICK b \in Views : b = After(a, op)
  BY <1>1
<1>3. /\ b.n = a.n /\ b.alive = a.alive /\ b.made = a.made /\ b.leaving = a.leaving /\ b.owed = a.owed \ {t}
      /\ b.setup = a.setup /\ b.told = a.told /\ b.free /\ b.go = a.go
      /\ a.told = 0 /\ t \in Workers /\ (a.free \/ t = Main)
  <2>1. b = View(a.n, a.alive, a.made, a.leaving, a.owed \ {t}, a.setup, a.told, TRUE, a.go)
    BY <1>1, <1>2 DEF After
  <2>2. a.told = 0 /\ t \in Workers /\ (a.free \/ t = Main)
    BY <1>1 DEF May
  <2> QED BY <2>1, <2>2 DEF View
<1> HIDE DEF t, op
<1>4. /\ prog[t] = <<>> /\ pc[t] \in {"absent", "parked"} /\ cv[t] \subseteq {t}
      /\ (~exit[t] => jobFunc[t] = "none")
      /\ (\A k \in Plain \cup {"search"} : ~Post(t, k))
      /\ (t = Main => ~Busy(m))
  BY <1>0, <1>3, NotSearching
<1>5. ~Busy(m) /\ (Busy(m)' <=> Busy(m))
  <2>1. ~Busy(m)
    BY <1>3, <1>4 DEF SearchOK
  <2> QED BY <1>0, <2>1 DEF Busy, idleVars
<1>6. \A u \in Workers : \A k : Post(u, k)' <=> Post(u, k)
  BY <1>0, <1>1 DEF Post, idleVars
<1>7. TypesOK'
  BY <1>0, <1>1 DEF TypesOK, EngineTypeOK, idleVars, flagVars, goVars, listVars, sessVars
<1>8. ThreadsOK'
  BY <1>0, <1>1 DEF ThreadsOK, idleVars
<1>9. PoolOK(b)'
  BY <1>0, <1>3, <1>4, <1>6 DEF PoolOK, idleVars
<1>10. SearchOK(b, m)'
  <2>1. UNCHANGED <<searching, exit, size>>
    BY <1>0 DEF idleVars
  <2>2. searching[Main] /\ ~exit[Main] => Main \in b.owed
    BY <1>0, <1>3 DEF SearchOK
  <2>3. prog'[Main] = prog[Main]
    BY <1>1
  <2>4. ASSUME NEW u \in Workers \ {Main}
        PROVE  /\ searching'[u] /\ ~exit'[u] => u \in b.owed \cup m.out
               /\ Post(u, "search")' \/ prog'[u] = Op("iterate") \/ prog'[u] = Op("depth") => u \in m.out
               /\ prog'[u] = <<>> \/ \E j \in Plain \cup {"iterate", "depth"} : prog'[u] = Op(j)
    BY <1>0, <1>1, <1>3, <1>6, <2>1 DEF SearchOK
  <2> QED BY <1>5, <2>1, <2>2, <2>3, <2>4 DEF SearchOK
<1>11. WaitersOK(b, m)'
  <2>1. \A u \in Workers : UCI \notin cv[u]
    <3>1. SUFFICES ASSUME NEW u \in Workers, UCI \in cv[u] \ {u}
                   PROVE  FALSE
      BY <1>1
    <3>2. Target(UCI) = u
      BY <3>1, OneBlocked
    <3> QED BY <1>0, <3>1, <3>2 DEF t
  <2>2. \A u \in Workers : \A c \in cv[u] \ {u} : prog'[c] = prog[c]
    BY <1>1, <2>1, OneBlocked
  <2> QED BY <1>0, <1>3, <2>2 DEF WaitersOK, idleVars, AtOp, Target
<1>12. ListsOK(b, m)' /\ DepthsOK(m)' /\ CountOK(b, m)'
  <2>1. a.setup \subseteq Workers
    BY ViewFields
  <2>2. ListsOK(b, m)'
    BY <1>0, <1>3, <1>5, <1>6, <2>1 DEF ListsOK, Ready, idleVars, goVars, listVars
  <2>3. DepthsOK(m)'
    BY <1>0, <1>1 DEF DepthsOK, AtOp, idleVars, goVars
  <2>4. CountOK(b, m)'
    BY <1>0, <1>3, <1>5 DEF CountOK, One, sessVars
  <2> QED BY <2>2, <2>3, <2>4
<1>13. ProgOK(b)'
  BY <1>1, <1>2 DEF ProgOK
<1> QED BY <1>7, <1>8, <1>9, <1>10, <1>11, <1>12, <1>13

LEMMA MainWaitSafe ==
  ASSUME NEW a \in Views, NEW m \in Hunts, Safe(a, m), WaitForSearchFinished(Main)
  PROVE  \E h \in Hunts : Safe(a, h)'
<1> USE DEF Safe
<1> DEFINE t == Target(Main)
           op == Head(prog[Main])
<1>0. /\ AtOp(Main, "wait") /\ Main \notin cv[t] /\ ~searching[t] /\ "wait" \notin Plain
      /\ Pop(Main) /\ UNCHANGED <<idleVars, flagVars, goVars, listVars, sessVars>> /\ uci' = uci
  BY DEF WaitForSearchFinished, sessVars, Plain
<1>1. /\ op[1] = "wait" /\ op[2] = t /\ m.phase # "end" /\ ~a.free /\ HMay(m, op) /\ HAfter(m, op) \in Hunts
      /\ HAfter(m, op).n = m.n /\ HLeads(prog'[Main], HAfter(m, op))
      /\ prog' \in [Actors -> Seq(Operations)] /\ Main \in Workers /\ Main \in Actors
      /\ \A u \in Actors \ {Main} : prog'[u] = prog[u]
      /\ \A u \in Workers \ {Main} : prog'[u] = prog[u] /\ u \in Actors
      /\ ProgOK(a)' /\ pc[Main] = "running" /\ jobFunc[Main] = "none" /\ ~exit[Main] /\ searching[Main]
  BY <1>0, MainPops
<1>2. PICK h \in Hunts : h = HAfter(m, op)
  BY <1>1
<1>3. h.n = m.n /\ h.told = 0 /\ h.out = m.out \ {t} /\ h.phase = "wait" /\ m.phase = "wait" /\ t \in 2 .. m.n
      /\ m.told = 0
  <2>1. h = Hunt(m.n, 0, m.out \ {t}, m.phase) /\ m.phase = "wait" /\ t \in 2 .. m.n
    BY <1>1, <1>2 DEF HAfter, HMay
  <2> QED BY <2>1, HuntFields DEF Hunt
<1>t. t \in Workers \ {Main}
  BY <1>3, HuntFields, ThreadsAssumption DEF Workers, Main
<1> HIDE DEF t, op
<1>4. prog[t] = <<>> /\ (\A k \in Plain \cup {"search"} : ~Post(t, k))
  BY <1>0, <1>t, NotSearching
<1>5. Busy(m) /\ Busy(h)'
  BY <1>1, <1>3 DEF Busy
<1>6. \A u \in Workers : \A k \in Plain : Post(u, k)' <=> Post(u, k)
  <2>1. \A u \in Workers \ {Main} : \A k \in Plain : Post(u, k)' <=> Post(u, k)
    BY <1>0, <1>1 DEF Post, idleVars
  <2>2. \A k \in Plain : ~Post(Main, k) /\ ~Post(Main, k)'
    <3> SUFFICES ASSUME NEW k \in Plain
                 PROVE  ~Post(Main, k) /\ ~Post(Main, k)'
      OBVIOUS
    <3>1. k # "none"
      BY DEF Plain
    <3>2. prog[Main] # Op(k)
      BY <1>0, OpIs DEF AtOp
    <3>3. prog'[Main] # Op(k)
      <4>1. Head(Op(k))[1] \in Plain /\ Op(k) # <<>>
        BY OpIs
      <4>2. prog'[Main] # <<>> => HMay(h, Head(prog'[Main]))
        BY <1>1, <1>2, HLeadsOn
      <4> QED BY <4>1, <4>2 DEF HMay, Plain
    <3> QED BY <1>0, <1>1, <3>1, <3>2, <3>3 DEF Post, idleVars
  <2> QED BY <2>1, <2>2
<1>7. TypesOK'
  BY <1>0, <1>1 DEF TypesOK, EngineTypeOK, idleVars, flagVars, goVars, listVars, sessVars
<1>8. ThreadsOK'
  BY <1>0, <1>1 DEF ThreadsOK, idleVars
<1>9. PoolOK(a)'
  <2>1. "construct" \in Plain
    BY DEF Plain
  <2> QED BY <1>0, <1>6, <2>1 DEF PoolOK, idleVars
<1>10. SearchOK(a, h)'
  <2>1. h.n = size' /\ h.phase # "end" /\ HLeads(prog'[Main], h) /\ ~a.free
    BY <1>0, <1>1, <1>2, <1>3 DEF SearchOK, idleVars
  <2>2. ASSUME NEW u \in Workers \ {Main}
        PROVE  /\ searching'[u] /\ ~exit'[u] => u \in a.owed \cup h.out
               /\ Post(u, "search")' \/ prog'[u] = Op("iterate") \/ prog'[u] = Op("depth") => u \in h.out
               /\ prog'[u] = <<>> \/ \E j \in Plain \cup {"iterate", "depth"} : prog'[u] = Op(j)
    <3>1. CASE u = t
      <4>1. ~searching'[u] /\ prog'[u] = <<>> /\ \A k : Op(k) # <<>>
        BY <1>0, <1>1, <1>4, <3>1, OpIs DEF idleVars
      <4>2. jobFunc'[u] = jobFunc[u] /\ exit'[u] = exit[u] /\ ~Post(t, "search")
        BY <1>0, <1>4 DEF idleVars
      <4>3. ~Post(u, "search")'
        BY <3>1, <4>1, <4>2 DEF Post
      <4> QED BY <4>1, <4>3
    <3>2. CASE u # t
      BY <1>0, <1>1, <1>3, <3>2 DEF SearchOK, idleVars, Post
    <3> QED BY <3>1, <3>2
  <2> QED BY <2>1, <2>2 DEF SearchOK
<1>11. WaitersOK(a, h)'
  <2>1. \A u \in Workers : Main \notin cv[u]
    <3>1. SUFFICES ASSUME NEW u \in Workers, Main \in cv[u]
                   PROVE  FALSE
      OBVIOUS
    <3>2. u # Main
      BY <1>1, <3>1 DEF ThreadsOK
    <3>3. Target(Main) = u
      BY <3>1, <3>2, OneBlocked
    <3> QED BY <1>0, <3>1, <3>3 DEF t
  <2>2. \A u \in Workers : \A c \in cv[u] \ {u} : prog'[c] = prog[c]
    BY <1>1, <2>1, OneBlocked
  <2> QED BY <1>0, <1>3, <2>2 DEF WaitersOK, idleVars, AtOp, Target
<1>12. ListsOK(a, h)' /\ DepthsOK(h)' /\ CountOK(a, h)'
  <2>1. a.setup \subseteq Workers /\ "setup" \in Plain
    BY ViewFields DEF Plain
  <2>2. ListsOK(a, h)'
    BY <1>0, <1>5, <1>6, <2>1 DEF ListsOK, Ready, idleVars, goVars, listVars
  <2>3. DepthsOK(h)'
    <3>1. AtOp(Main, "iterate")' \/ AtOp(Main, "depth")' => FALSE
      BY <1>1, <1>2, <1>3, HLeadsOn DEF AtOp, HMay
    <3>2. \A u \in Workers \ {Main} : AtOp(u, "iterate")' = AtOp(u, "iterate") /\ AtOp(u, "depth")' = AtOp(u, "depth")
      BY <1>1 DEF AtOp
    <3>3. jobFunc'[Main] = "none" /\ h.phase # "start"
      BY <1>0, <1>1, <1>3 DEF idleVars
    <3> QED BY <1>0, <3>1, <3>2, <3>3 DEF DepthsOK, idleVars, goVars
  <2>4. CountOK(a, h)'
    BY <1>0, <1>5 DEF CountOK, sessVars
  <2> QED BY <2>2, <2>3, <2>4
<1> QED BY <1>1, <1>2, <1>7, <1>8, <1>9, <1>10, <1>11, <1>12

LEMMA UciNotifySafe ==
  ASSUME NEW a \in Views, NEW m \in Hunts, Safe(a, m), NotifyJob(UCI)
  PROVE  \E b \in Views : Safe(b, m)'
<1> USE DEF Safe
<1> DEFINE t == Target(UCI)
           op == Head(prog[UCI])
<1>0. /\ AtOp(UCI, "notify") /\ (\E w \in NotifyOne(cv[t]) : cv' = [cv EXCEPT ![t] = w])
      /\ Pop(UCI) /\ UNCHANGED <<pc, searching, exit, jobFunc, worker, size, flagVars, goVars, listVars, sessVars>>
      /\ uci' = uci /\ cv \in [Workers -> SUBSET Actors]
  BY DEF NotifyJob, sessVars, TypesOK, EngineTypeOK
<1>1. /\ op[1] = "notify" /\ op[2] = t /\ May(a, op) /\ After(a, op) \in Views
      /\ Leads(prog'[UCI], After(a, op), uci' = "loop")
      /\ prog' \in [Actors -> Seq(Operations)] /\ UCI \in Actors
      /\ \A u \in Actors \ {UCI} : prog'[u] = prog[u]
      /\ \A u \in Workers : prog'[u] = prog[u] /\ u \in Actors /\ u # UCI
      /\ Main \in Workers
  BY <1>0, UciPops
<1>2. PICK b \in Views : b = After(a, op)
  BY <1>1
<1>3. /\ b.n = a.n /\ b.alive = a.alive /\ b.made = a.made /\ b.leaving = a.leaving /\ b.owed = a.owed
      /\ b.setup = a.setup /\ b.told = 0 /\ b.free = a.free /\ b.go = a.go
      /\ a.told = t /\ t \in Workers
  <2>1. b = View(a.n, a.alive, a.made, a.leaving, a.owed, a.setup, 0, a.free, a.go)
    BY <1>1, <1>2 DEF After, Telling
  <2>2. a.told = t /\ t \in Workers
    BY <1>1 DEF May
  <2> QED BY <2>1, <2>2 DEF View
<1>4. \A u \in Workers : UCI \notin cv[u]
  <2>1. SUFFICES ASSUME NEW u \in Workers, UCI \in cv[u] \ {u}
                 PROVE  FALSE
    BY <1>1
  <2>2. AtOp(UCI, "run") \/ AtOp(UCI, "wait")
    BY <2>1, OneBlocked
  <2> QED BY <1>1, <2>2 DEF AtOp
<1>5. cv[t] \subseteq {t}
  <2>1. SUFFICES ASSUME NEW c \in cv[t] \ {t}
                 PROVE  FALSE
    OBVIOUS
  <2>2. c = Main /\ (AtOp(c, "run") \/ AtOp(c, "wait")) /\ Target(c) = t
    BY <1>3, <1>4, <2>1, OneBlocked
  <2>3. ~a.free /\ t \in 2 .. m.n
    <3>1. Main \in Actors /\ (AtOp(Main, "run") \/ AtOp(Main, "wait")) /\ Target(Main) = t
      BY <1>1, <2>2
    <3> QED BY <3>1, Acting
  <2>4. t = Main \/ t = 0
    BY <1>3, <2>3, ViewFields DEF Coherent
  <2> QED BY <2>3, <2>4, HuntFields DEF Main
<1>6. cv' = [cv EXCEPT ![t] = {}]
  BY <1>0, <1>5 DEF NotifyOne
<1> HIDE DEF t, op
<1>7. \A u \in Workers : \A k : Post(u, k)' <=> Post(u, k)
  BY <1>0, <1>1 DEF Post
<1>8. Busy(m)' = Busy(m)
  BY <1>0 DEF Busy
<1>9. TypesOK'
  BY <1>0, <1>1, <1>6 DEF TypesOK, EngineTypeOK, flagVars, goVars, listVars, sessVars
<1>10. ThreadsOK'
  BY <1>0, <1>1, <1>6 DEF ThreadsOK
<1>11. PoolOK(b)'
  BY <1>0, <1>3, <1>7 DEF PoolOK
<1>12. SearchOK(b, m)'
  <2>1. prog'[Main] = prog[Main]
    BY <1>1
  <2>2. ASSUME NEW u \in Workers \ {Main}
        PROVE  /\ searching'[u] /\ ~exit'[u] => u \in b.owed \cup m.out
               /\ Post(u, "search")' \/ prog'[u] = Op("iterate") \/ prog'[u] = Op("depth") => u \in m.out
               /\ prog'[u] = <<>> \/ \E j \in Plain \cup {"iterate", "depth"} : prog'[u] = Op(j)
    <3>1. searching'[u] = searching[u] /\ exit'[u] = exit[u] /\ prog'[u] = prog[u] /\ Post(u, "search")' = Post(u, "search")
      BY <1>0, <1>1 DEF Post
    <3> QED BY <1>3, <3>1 DEF SearchOK
  <2> QED BY <1>0, <1>3, <1>8, <2>1, <2>2 DEF SearchOK
<1>13. WaitersOK(b, m)'
  <2>1. \A u \in Workers : u # t => cv'[u] = cv[u]
    BY <1>0, <1>6
  <2>2. cv'[t] = {}
    BY <1>0, <1>3, <1>6
  <2>3. \A u \in Workers : \A c \in cv[u] \ {u} : prog'[c] = prog[c]
    BY <1>1, <1>4, OneBlocked
  <2> QED BY <1>0, <1>3, <2>1, <2>2, <2>3 DEF WaitersOK, AtOp, Target
<1>14. ListsOK(b, m)' /\ DepthsOK(m)' /\ CountOK(b, m)'
  <2>1. a.setup \subseteq Workers
    BY ViewFields
  <2>2. ListsOK(b, m)'
    BY <1>0, <1>3, <1>7, <1>8, <2>1 DEF ListsOK, Ready, goVars, listVars
  <2>3. DepthsOK(m)'
    BY <1>0, <1>1 DEF DepthsOK, AtOp, goVars
  <2>4. CountOK(b, m)'
    BY <1>0, <1>3, <1>8 DEF CountOK, One, sessVars
  <2> QED BY <2>2, <2>3, <2>4
<1>15. ProgOK(b)'
  BY <1>1, <1>2 DEF ProgOK
<1> QED BY <1>9, <1>10, <1>11, <1>12, <1>13, <1>14, <1>15

\* In a search the main thread executes no job of another kind.
LEMMA NoPlain ==
  ASSUME NEW p, NEW h, HLeads(p, h)
  PROVE  \A k \in Plain : p # Op(k)
<1> SUFFICES ASSUME NEW k \in Plain, p = Op(k)
             PROVE  FALSE
  OBVIOUS
<1>1. p # <<>> /\ Head(p)[1] \in Plain
  BY OpIs
<1>2. HMay(h, Head(p))
  BY <1>1, HLeadsOn
<1> QED BY <1>1, <1>2 DEF HMay, Plain

LEMMA MainNotifySafe ==
  ASSUME NEW a \in Views, NEW m \in Hunts, Safe(a, m), NotifyJob(Main)
  PROVE  \E h \in Hunts : Safe(a, h)'
<1> USE DEF Safe
<1> DEFINE t == Target(Main)
           op == Head(prog[Main])
<1>0. /\ AtOp(Main, "notify") /\ "notify" \notin Plain /\ (\E w \in NotifyOne(cv[t]) : cv' = [cv EXCEPT ![t] = w])
      /\ Pop(Main) /\ UNCHANGED <<pc, searching, exit, jobFunc, worker, size, flagVars, goVars, listVars, sessVars>>
      /\ uci' = uci /\ cv \in [Workers -> SUBSET Actors]
  BY DEF NotifyJob, sessVars, TypesOK, EngineTypeOK, Plain
<1>1. /\ op[1] = "notify" /\ op[2] = t /\ m.phase # "end" /\ ~a.free /\ HMay(m, op) /\ HAfter(m, op) \in Hunts
      /\ HAfter(m, op).n = m.n /\ HLeads(prog'[Main], HAfter(m, op))
      /\ prog' \in [Actors -> Seq(Operations)] /\ Main \in Workers /\ Main \in Actors
      /\ \A u \in Actors \ {Main} : prog'[u] = prog[u]
      /\ \A u \in Workers \ {Main} : prog'[u] = prog[u] /\ u \in Actors
      /\ ProgOK(a)' /\ pc[Main] = "running" /\ jobFunc[Main] = "none" /\ ~exit[Main] /\ searching[Main]
  BY <1>0, MainPops
<1>2. PICK h \in Hunts : h = HAfter(m, op)
  BY <1>1
<1>3. /\ h.n = m.n /\ h.told = 0 /\ h.out = m.out /\ h.phase = "start" /\ m.phase = "start"
      /\ m.told = t /\ t \in 2 .. m.n
  <2>1. h = Hunt(m.n, 0, m.out, m.phase) /\ m.phase = "start" /\ m.told = t /\ t \in 2 .. m.n
    BY <1>1, <1>2 DEF HAfter, HMay
  <2> QED BY <2>1 DEF Hunt
<1>t. t \in Workers \ {Main}
  BY <1>3, HuntFields, ThreadsAssumption DEF Workers, Main
<1>4. \A u \in Workers : Main \notin cv[u]
  <2>1. SUFFICES ASSUME NEW u \in Workers, Main \in cv[u]
                 PROVE  FALSE
    OBVIOUS
  <2>2. u # Main
    BY <1>1, <2>1 DEF ThreadsOK
  <2>3. AtOp(Main, "run") \/ AtOp(Main, "wait")
    BY <2>1, <2>2, OneBlocked
  <2> QED BY <1>1, <2>3 DEF AtOp
<1>5. cv[t] \subseteq {t}
  <2>1. SUFFICES ASSUME NEW c \in cv[t] \ {t}
                 PROVE  FALSE
    OBVIOUS
  <2>2. c = UCI /\ (AtOp(c, "run") \/ AtOp(c, "wait")) /\ Target(c) = t
    BY <1>t, <1>4, <2>1, OneBlocked
  <2>3. May(a, Head(prog[UCI])) /\ Head(prog[UCI])[1] \in {"run", "wait"} /\ Head(prog[UCI])[2] = t
    BY <2>2, UciActs DEF AtOp, Target
  <2> QED BY <1>1, <1>t, <2>3 DEF May, MayRun
<1>6. cv' = [cv EXCEPT ![t] = {}]
  BY <1>0, <1>5 DEF NotifyOne
<1> HIDE DEF t, op
<1>7. \A u \in Workers : \A k \in Plain : Post(u, k)' <=> Post(u, k)
  <2>1. \A u \in Workers \ {Main} : \A k \in Plain : Post(u, k)' <=> Post(u, k)
    BY <1>0, <1>1 DEF Post
  <2>2. \A k \in Plain : prog[Main] # Op(k) /\ prog'[Main] # Op(k)
    BY <1>1, NoPlain DEF SearchOK
  <2> QED BY <1>0, <1>1, <2>1, <2>2 DEF Post
<1>8. Busy(m) /\ Busy(h)'
  BY <1>1, <1>3 DEF Busy
<1>9. TypesOK'
  BY <1>0, <1>1, <1>6 DEF TypesOK, EngineTypeOK, flagVars, goVars, listVars, sessVars
<1>10. ThreadsOK'
  BY <1>0, <1>1, <1>6 DEF ThreadsOK
<1>11. PoolOK(a)'
  <2>1. "construct" \in Plain
    BY DEF Plain
  <2> QED BY <1>0, <1>7, <2>1 DEF PoolOK
<1>12. SearchOK(a, h)'
  <2>1. h.n = size' /\ h.phase # "end" /\ HLeads(prog'[Main], h) /\ ~a.free
    BY <1>0, <1>1, <1>2, <1>3 DEF SearchOK
  <2>2. ASSUME NEW u \in Workers \ {Main}
        PROVE  /\ searching'[u] /\ ~exit'[u] => u \in a.owed \cup h.out
               /\ Post(u, "search")' \/ prog'[u] = Op("iterate") \/ prog'[u] = Op("depth") => u \in h.out
               /\ prog'[u] = <<>> \/ \E j \in Plain \cup {"iterate", "depth"} : prog'[u] = Op(j)
    BY <1>0, <1>1, <1>3 DEF SearchOK, Post
  <2> QED BY <2>1, <2>2 DEF SearchOK
<1>13. WaitersOK(a, h)'
  <2>1. \A u \in Workers : u # t => cv'[u] = cv[u]
    BY <1>0, <1>6
  <2>2. cv'[t] = {}
    BY <1>0, <1>t, <1>6
  <2>3. \A u \in Workers : \A c \in cv[u] \ {u} : prog'[c] = prog[c]
    BY <1>1, <1>4, OneBlocked
  <2> QED BY <1>0, <1>3, <2>1, <2>2, <2>3 DEF WaitersOK, AtOp, Target
<1>14. ListsOK(a, h)' /\ DepthsOK(h)' /\ CountOK(a, h)'
  <2>1. a.setup \subseteq Workers /\ "setup" \in Plain
    BY ViewFields DEF Plain
  <2>2. ListsOK(a, h)'
    BY <1>0, <1>7, <1>8, <2>1 DEF ListsOK, Ready, goVars, listVars
  <2>3. DepthsOK(h)'
    <3>1. UNCHANGED <<jobFunc, exit, size, rootDepth>>
      BY <1>0 DEF goVars
    <3>2. \A u \in 1 .. size : u \in Workers
      BY ThreadsAssumption DEF TypesOK, EngineTypeOK, Workers
    <3>3. \A u \in (1 .. size) \ m.out : rootDepth[u] < MaxPly
      BY <1>3 DEF DepthsOK
    <3>4. Main \in (1 .. size) \ m.out
      BY <1>3, HuntFields DEF SearchOK, Main
    <3>5. \A u \in Workers \ {Main} : AtOp(u, "iterate")' = AtOp(u, "iterate") /\ AtOp(u, "depth")' = AtOp(u, "depth")
      BY <1>1 DEF AtOp
    <3> QED BY <1>3, <3>1, <3>2, <3>3, <3>4, <3>5 DEF DepthsOK
  <2>4. CountOK(a, h)'
    BY <1>0, <1>8 DEF CountOK, One, sessVars
  <2> QED BY <2>2, <2>3, <2>4
<1> QED BY <1>1, <1>2, <1>9, <1>10, <1>11, <1>12, <1>13, <1>14

\* The UCI thread may give jobs, and change the pool, only when there is no search.
LEMMA NoSearch ==
  ASSUME NEW a \in Views, NEW m \in Hunts, Safe(a, m), a.free
  PROVE  ~Busy(m) /\ m.phase = "end" /\ m.out = {} /\ m.told = 0
<1>1. ~Busy(m) /\ m.phase = "end"
  BY DEF Safe, SearchOK, Busy
<1> QED BY <1>1, HuntFields DEF Safe, SearchOK

\* A thread that is given no job has none; what it was told before is over.
LEMMA UciRunSafe ==
  ASSUME NEW a \in Views, NEW m \in Hunts, Safe(a, m), RunCustomJob(UCI)
  PROVE  \E b \in Views : Safe(b, m)'
<1> USE DEF Safe
<1> DEFINE op == Head(prog[UCI])
<1>a. PICK t : t = Target(UCI)
  OBVIOUS
<1>b. PICK f : f = op[3]
  OBVIOUS
<1>0. /\ AtOp(UCI, "run") /\ UCI \notin cv[t] /\ ~searching[t]
      /\ jobFunc' = [jobFunc EXCEPT ![t] = f] /\ searching' = [searching EXCEPT ![t] = TRUE]
      /\ Pop(UCI) /\ UNCHANGED <<pc, exit, worker, cv, size, flagVars, goVars, listVars, sessVars>> /\ uci' = uci
      /\ jobFunc \in [Workers -> {"none", "construct", "clear", "zero", "setup", "search"}]
      /\ searching \in [Workers -> BOOLEAN]
  BY <1>a, <1>b DEF RunCustomJob, sessVars, TypesOK, EngineTypeOK
<1>1. /\ op[1] = "run" /\ op[2] = t /\ May(a, op) /\ After(a, op) \in Views
      /\ Leads(prog'[UCI], After(a, op), uci' = "loop")
      /\ prog' \in [Actors -> Seq(Operations)] /\ UCI \in Actors
      /\ \A u \in Actors \ {UCI} : prog'[u] = prog[u]
      /\ \A u \in Workers : prog'[u] = prog[u] /\ u \in Actors /\ u # UCI
      /\ Main \in Workers
  BY <1>0, <1>a, UciPops
<1>2. PICK b \in Views : b = After(a, op)
  BY <1>1
<1>3. MayRun(a, t, f) /\ a.told = 0 /\ b = Telling(AfterJob(a, t, f), t)
  BY <1>1, <1>2, <1>b DEF May, After
<1> HIDE DEF op
<1>4. /\ a.free /\ t \in a.alive /\ t \notin a.owed /\ t \in Workers /\ Coherent(a)
      /\ f \in Plain \cup {"search"} /\ (t \in a.leaving => f = "search")
      /\ (f = "construct" \/ t \in a.made) /\ (t \notin a.leaving => a.leaving = {})
      /\ (f = "setup" => a.go = 2)
  BY <1>3, ViewFields DEF MayRun, Plain
<1>5. ~Busy(m) /\ m.phase = "end" /\ m.out = {} /\ m.told = 0
  BY <1>4, NoSearch
<1>6. /\ prog[t] = <<>> /\ pc[t] \in {"absent", "parked"} /\ cv[t] \subseteq {t}
      /\ (~exit[t] => jobFunc[t] = "none")
      /\ (\A k \in Plain \cup {"search"} : ~Post(t, k))
  BY <1>0, <1>4, NotSearching
<1>7. /\ pc[t] = "parked" /\ (exit[t] <=> t \in a.leaving) /\ a.n = size
  BY <1>4, <1>6 DEF PoolOK
<1>8. b.n = a.n /\ b.alive = a.alive /\ b.leaving = a.leaving /\ b.told = t
  BY <1>3 DEF Telling, AfterJob, View
<1>9. /\ jobFunc'[t] = f /\ searching'[t] = TRUE
      /\ \A u \in Workers : u # t => jobFunc'[u] = jobFunc[u] /\ searching'[u] = searching[u]
  BY <1>0, <1>4
<1>10. /\ \A u \in Workers : u # t => \A k : Post(u, k)' <=> Post(u, k)
       /\ \A k \in Plain \cup {"search"} : Post(t, k)' <=> (t \notin a.leaving /\ k = f)
  <2>1. \A u \in Workers : u # t => \A k : Post(u, k)' <=> Post(u, k)
    BY <1>0, <1>1, <1>9 DEF Post
  <2>2. prog'[t] = <<>> /\ \A k : prog'[t] # Op(k)
    BY <1>1, <1>4, <1>6, OpIs
  <2> QED BY <1>0, <1>4, <1>7, <1>9, <2>1, <2>2 DEF Post
<1>11. TypesOK'
  <2>1. f \in {"none", "construct", "clear", "zero", "setup", "search"}
    BY <1>4 DEF Plain
  <2>2. jobFunc' \in [Workers -> {"none", "construct", "clear", "zero", "setup", "search"}] /\ searching' \in [Workers -> BOOLEAN]
    BY <1>0, <2>1
  <2> QED BY <1>0, <1>1, <2>2 DEF TypesOK, EngineTypeOK, flagVars, goVars, listVars, sessVars
<1>12. ThreadsOK'
  <2>1. ASSUME NEW u \in Workers
        PROVE  /\ pc'[u] = "absent" => ~searching'[u]
               /\ pc'[u] \in {"top", "running", "exited"} => searching'[u]
               /\ u \in cv'[u] => pc'[u] = "parked"
               /\ prog'[u] # <<>> => pc'[u] = "running"
               /\ pc'[u] = "exited" => exit'[u]
               /\ exit'[u] => pc'[u] \in {"absent", "parked", "exited"} /\ jobFunc'[u] \in {"none", "search"}
               /\ ~exit'[u] => (jobFunc'[u] # "none" <=> pc'[u] = "parked" /\ searching'[u])
    <3>1. CASE u = t
      <4>1. f # "none"
        BY <1>4 DEF Plain
      <4> QED BY <1>0, <1>1, <1>4, <1>6, <1>7, <1>9, <3>1, <4>1
    <3>2. CASE u # t
      <4>1. /\ searching'[u] = searching[u] /\ jobFunc'[u] = jobFunc[u] /\ prog'[u] = prog[u]
            /\ UNCHANGED <<pc, cv, exit>>
        BY <1>0, <1>1, <1>9, <3>2
      <4> QED BY <4>1 DEF ThreadsOK
    <3> QED BY <3>1, <3>2
  <2> QED BY <2>1 DEF ThreadsOK
<1>13. PoolOK(b)'
  <2>1. ASSUME NEW u \in Workers
        PROVE  /\ u \in b.alive <=> pc'[u] # "absent"
               /\ u \in b.leaving <=> exit'[u] /\ pc'[u] # "absent"
    BY <1>0, <1>8, <2>1 DEF PoolOK
  <2>2. ASSUME NEW u \in Workers, u \in b.made
        PROVE  worker'[u] \/ Post(u, "construct")'
    <3>1. "construct" \in Plain
      BY DEF Plain
    <3>2. u \in a.made \/ (u = t /\ f = "construct" /\ t \notin a.leaving)
      BY <1>3, <1>4, <2>2 DEF Telling, AfterJob, View
    <3> QED BY <1>0, <1>6, <1>10, <2>2, <3>1, <3>2 DEF PoolOK
  <2>3. ASSUME NEW u \in Workers, NEW k \in Plain, Post(u, k)'
        PROVE  u \in b.owed
    <3>1. k # "search"
      BY DEF Plain
    <3>2. CASE u = t
      <4>1. t \notin a.leaving /\ f # "search"
        BY <1>10, <2>3, <3>1, <3>2
      <4> QED BY <1>3, <3>2, <4>1 DEF Telling, AfterJob, View
    <3>3. CASE u # t
      <4>1. u \in a.owed
        BY <1>10, <2>3, <3>3 DEF PoolOK
      <4> QED BY <1>3, <4>1 DEF Telling, AfterJob, View
    <3> QED BY <3>2, <3>3
  <2> QED BY <1>0, <1>7, <1>8, <2>1, <2>2, <2>3 DEF PoolOK
<1>14. WaitersOK(b, m)'
  <2>1. \A u \in Workers : UCI \notin cv[u]
    <3>1. SUFFICES ASSUME NEW u \in Workers, UCI \in cv[u] \ {u}
                   PROVE  FALSE
      BY <1>1
    <3>2. Target(UCI) = u
      BY <3>1, OneBlocked
    <3> QED BY <1>0, <1>a, <3>1, <3>2
  <2>2. \A u \in Workers : \A c \in cv[u] \ {u} : prog'[c] = prog[c]
    BY <1>1, <2>1, OneBlocked
  <2>3. \A u \in Workers : searching[u] => searching'[u]
    BY <1>9
  <2>4. \A u \in Workers : u # t => ~(pc[u] = "parked" /\ u \in cv[u] /\ searching[u])
    <3>1. \A u \in Workers : u # 0
      BY DEF Workers
    <3> QED BY <1>3, <1>5, <3>1 DEF WaitersOK
  <2> QED BY <1>0, <1>8, <1>9, <2>2, <2>3, <2>4 DEF WaitersOK, AtOp, Target
<1>15. UNCHANGED <<rootList, rootDepth, setupStates, states, posList, nextList, limits, request, goes, bestmoves>>
  BY <1>0 DEF goVars, listVars, sessVars
<1>16. \A u \in Workers : Ready(u)' <=> Ready(u)
  BY <1>15 DEF Ready
<1>17. m.phase = "end" => m.out = {} /\ (prog'[Main] = <<>> \/ \E k \in Plain : prog'[Main] = Op(k))
  BY <1>1 DEF SearchOK
<1>18. \A u \in Workers \ {Main} : prog'[u] = <<>> \/ \E j \in Plain \cup {"iterate", "depth"} : prog'[u] = Op(j)
  BY <1>1 DEF SearchOK
<1>19. \A u \in Workers : u \notin m.out
  BY <1>5
<1>20. \A u \in Workers \ {Main} : ~Post(u, "search") /\ prog[u] # Op("iterate") /\ prog[u] # Op("depth")
  BY <1>19 DEF SearchOK
<1>21. \A u \in Workers : AtOp(u, "iterate")' = AtOp(u, "iterate") /\ AtOp(u, "depth")' = AtOp(u, "depth")
  BY <1>1 DEF AtOp
<1>22. CASE t \notin a.leaving /\ f = "search"
  <2>1. /\ t = Main /\ a.leaving = {} /\ a.owed = {} /\ a.go = 2 /\ a.n # 0
        /\ a.alive = 1 .. a.n /\ a.made = 1 .. a.n /\ a.setup = 1 .. a.n
    BY <1>3, <1>22 DEF MayRun
  <2>2. b.owed = {} /\ b.setup = {} /\ ~b.free /\ b.go = 0
    BY <1>3, <1>22, <2>1 DEF Telling, AfterJob, View
  <2>3. Busy(m)'
    BY <1>0, <1>7, <1>9, <1>22, <2>1 DEF Busy
  <2>4. \A u \in 1 .. size : Ready(u) /\ u \in Workers
    <3>1. \A u \in Workers : ~Post(u, "setup")
      BY <2>1 DEF PoolOK, Plain
    <3>2. \A u \in 1 .. size : u \in a.setup /\ u \in Workers
      BY <1>7, <2>1, ViewFields
    <3> QED BY <3>1, <3>2 DEF ListsOK
  <2>5. Main \in 1 .. size
    BY <1>4, <1>7, <2>1
  <2>6. SearchOK(b, m)'
    <3>1. ASSUME NEW u \in Workers \ {Main}
          PROVE  /\ searching'[u] /\ ~exit'[u] => u \in b.owed \cup m.out
                 /\ ~Post(u, "search")' /\ prog'[u] # Op("iterate") /\ prog'[u] # Op("depth")
      <4>1. u # t /\ prog'[u] = prog[u] /\ searching'[u] = searching[u] /\ exit'[u] = exit[u]
        BY <1>0, <1>1, <1>9, <2>1
      <4>2. searching[u] /\ ~exit[u] => u \in a.owed \cup m.out
        BY DEF SearchOK
      <4> QED BY <1>10, <1>20, <2>1, <2>2, <4>1, <4>2
    <3>2. m.n = size'
      BY <1>0 DEF SearchOK
    <3> QED BY <1>5, <1>17, <1>18, <2>2, <3>1, <3>2 DEF SearchOK
  <2>7. ListsOK(b, m)'
    <3>1. setupStates # 0
      BY <2>1 DEF ListsOK
    <3>2. \A u \in 1 .. size : rootList[u] = setupStates
      BY <2>4 DEF Ready
    <3>3. limits = request
      BY <2>4, <2>5 DEF Ready
    <3>4. size' = size
      BY <1>0
    <3> QED BY <1>15, <2>2, <3>1, <3>2, <3>3, <3>4 DEF ListsOK
  <2>8. DepthsOK(m)'
    <3>1. \A u \in 1 .. size : rootDepth[u] < MaxPly
      BY <2>4, PlyAssumption DEF Ready
    <3>2. \A u \in Workers \ {Main} : jobFunc'[u] = jobFunc[u]
      BY <1>9, <2>1
    <3>3. size' = size /\ exit' = exit
      BY <1>0
    <3> QED BY <1>15, <1>21, <2>4, <2>5, <3>1, <3>2, <3>3 DEF DepthsOK
  <2>9. CountOK(b, m)'
    <3>1. a.go > 0 /\ ~(b.go > 0) /\ goes \in Nat /\ bestmoves \in Nat
      BY <2>1, <2>2, BoundsAssumption DEF TypesOK, EngineTypeOK
    <3>2. goes = bestmoves + 1 + 0
      BY <1>5, <3>1 DEF CountOK, One
    <3>3. goes' = bestmoves' + 0 + 1
      BY <1>15, <3>1, <3>2
    <3> QED BY <2>3, <3>1, <3>3 DEF CountOK, One
  <2>10. ProgOK(b)'
    BY <1>1, <1>2 DEF ProgOK
  <2> QED BY <1>11, <1>12, <1>13, <1>14, <2>6, <2>7, <2>8, <2>9, <2>10
<1>23. CASE ~(t \notin a.leaving /\ f = "search")
  <2>1. b.free = a.free /\ b.go = a.go /\ a.owed \subseteq b.owed
        /\ (t \notin a.leaving => t \in b.owed)
        /\ b.setup = (IF t \notin a.leaving /\ f = "setup" THEN a.setup \cup {t} ELSE a.setup)
    BY <1>3, <1>23 DEF Telling, AfterJob, View
  <2>2. ~Busy(m)'
    <3>1. ~(jobFunc'[Main] = "search" /\ ~exit'[Main])
      <4>1. CASE t = Main
        BY <1>0, <1>7, <1>9, <1>23, <4>1
      <4>2. CASE t # Main
        BY <1>0, <1>1, <1>5, <1>9, <4>2 DEF Busy
      <4> QED BY <4>1, <4>2
    <3> QED BY <1>5, <3>1 DEF Busy
  <2>3. \A u \in Workers : searching'[u] /\ ~exit'[u] => (searching[u] /\ ~exit[u]) \/ u \in b.owed
    BY <1>0, <1>7, <1>9, <2>1
  <2>4. \A u \in Workers : Post(u, "search")' => Post(u, "search")
    BY <1>10, <1>23
  <2>6. SearchOK(b, m)'
    <3>1. ASSUME NEW u \in Workers \ {Main}
          PROVE  /\ searching'[u] /\ ~exit'[u] => u \in b.owed \cup m.out
                 /\ ~Post(u, "search")' /\ prog'[u] # Op("iterate") /\ prog'[u] # Op("depth")
      <4>1. searching[u] /\ ~exit[u] => u \in a.owed \cup m.out
        BY DEF SearchOK
      <4> QED BY <1>1, <1>20, <2>1, <2>3, <2>4, <4>1
    <3>2. m.n = size'
      BY <1>0 DEF SearchOK
    <3>3. searching'[Main] /\ ~exit'[Main] => Main \in b.owed \/ ~b.free
      BY <1>1, <2>1, <2>3 DEF SearchOK
    <3> QED BY <1>5, <1>17, <1>18, <2>2, <3>1, <3>2, <3>3 DEF SearchOK
  <2>7. ListsOK(b, m)'
    <3>1. a.setup \subseteq Workers
      BY ViewFields
    <3>2. ASSUME NEW u \in b.setup
          PROVE  Post(u, "setup")' \/ Ready(u)'
      <4>0. "setup" \in Plain \cup {"search"}
        BY DEF Plain
      <4>1. CASE u = t /\ t \notin a.leaving /\ f = "setup"
        BY <1>10, <4>0, <4>1
      <4>2. CASE u \in a.setup
        <5>1. Post(u, "setup") \/ Ready(u)
          BY <4>2 DEF ListsOK
        <5>2. u = t => ~Post(u, "setup")
          BY <1>6, <4>0
        <5> QED BY <1>10, <1>16, <3>1, <4>2, <5>1, <5>2
      <4> QED BY <2>1, <3>2, <4>1, <4>2
    <3> QED BY <1>15, <2>1, <2>2, <3>2 DEF ListsOK
  <2>8. DepthsOK(m)'
    <3>1. \A u \in Workers : jobFunc'[u] = "search" /\ ~exit'[u] => jobFunc[u] = "search" /\ ~exit[u]
      BY <1>0, <1>7, <1>9, <1>23
    <3> QED BY <1>1, <1>5, <1>15, <1>21, <2>2, <3>1 DEF DepthsOK, Busy
  <2>9. CountOK(b, m)'
    BY <1>5, <1>15, <2>1, <2>2 DEF CountOK, One
  <2>10. ProgOK(b)'
    BY <1>1, <1>2 DEF ProgOK
  <2> QED BY <1>11, <1>12, <1>13, <1>14, <2>6, <2>7, <2>8, <2>9, <2>10
<1> QED BY <1>22, <1>23

LEMMA MainRunSafe ==
  ASSUME NEW a \in Views, NEW m \in Hunts, Safe(a, m), RunCustomJob(Main)
  PROVE  \E h \in Hunts : Safe(a, h)'
<1> USE DEF Safe
<1> DEFINE op == Head(prog[Main])
<1>a. PICK t : t = Target(Main)
  OBVIOUS
<1>b. PICK f : f = op[3]
  OBVIOUS
<1>0. /\ AtOp(Main, "run") /\ "run" \notin Plain /\ Main \notin cv[t] /\ ~searching[t]
      /\ jobFunc' = [jobFunc EXCEPT ![t] = f] /\ searching' = [searching EXCEPT ![t] = TRUE]
      /\ Pop(Main) /\ UNCHANGED <<pc, exit, worker, cv, size, flagVars, goVars, listVars, sessVars>>
      /\ uci' = uci
      /\ jobFunc \in [Workers -> {"none", "construct", "clear", "zero", "setup", "search"}]
      /\ searching \in [Workers -> BOOLEAN]
  BY <1>a, <1>b DEF RunCustomJob, sessVars, TypesOK, EngineTypeOK, Plain
<1>1. /\ op[1] = "run" /\ op[2] = t /\ m.phase # "end" /\ ~a.free /\ HMay(m, op) /\ HAfter(m, op) \in Hunts
      /\ HAfter(m, op).n = m.n /\ HLeads(prog'[Main], HAfter(m, op))
      /\ prog' \in [Actors -> Seq(Operations)] /\ Main \in Workers /\ Main \in Actors
      /\ \A u \in Actors \ {Main} : prog'[u] = prog[u]
      /\ \A u \in Workers \ {Main} : prog'[u] = prog[u] /\ u \in Actors
      /\ ProgOK(a)' /\ pc[Main] = "running" /\ jobFunc[Main] = "none" /\ ~exit[Main] /\ searching[Main]
  BY <1>0, <1>a, MainPops
<1>2. PICK h \in Hunts : h = HAfter(m, op)
  BY <1>1
<1>3. /\ h.n = m.n /\ h.told = t /\ h.out = m.out \cup {t} /\ h.phase = "start" /\ m.phase = "start" /\ m.told = 0
      /\ t \in (2 .. m.n) \ m.out /\ f = "search"
  <2>1. h = Hunt(m.n, t, m.out \cup {t}, m.phase) /\ m.phase = "start" /\ m.told = 0 /\ t \in (2 .. m.n) \ m.out /\ f = "search"
    BY <1>1, <1>2, <1>b DEF HAfter, HMay
  <2> QED BY <2>1 DEF Hunt
<1>t. t \in Workers \ {Main} /\ t \in 1 .. size
  BY <1>3, HuntFields, ThreadsAssumption DEF Workers, Main, SearchOK
<1> HIDE DEF op
<1>4. /\ prog[t] = <<>> /\ pc[t] \in {"absent", "parked"} /\ cv[t] \subseteq {t}
      /\ (\A k \in Plain \cup {"search"} : ~Post(t, k))
  BY <1>0, <1>t, NotSearching
<1>5. pc[t] = "parked" /\ ~exit[t] /\ a.setup = {} /\ a.owed = {}
  <2>1. a.leaving = {} /\ a.alive = 1 .. a.n /\ a.n = size /\ a.setup = {} /\ a.owed = {}
    BY <1>1, ViewFields DEF Coherent, PoolOK
  <2> QED BY <1>t, <1>4, <2>1 DEF PoolOK
<1>6. Busy(m) /\ Busy(h)'
  BY <1>1, <1>3 DEF Busy
<1>7. jobFunc'[t] = "search" /\ searching'[t] /\ \A u \in Workers \ {t} : jobFunc'[u] = jobFunc[u] /\ searching'[u] = searching[u]
  BY <1>0, <1>3, <1>t
<1>8. \A u \in Workers : \A k \in Plain : Post(u, k)' <=> Post(u, k)
  <2>1. \A u \in Workers \ {Main, t} : \A k \in Plain : Post(u, k)' <=> Post(u, k)
    BY <1>0, <1>1, <1>7 DEF Post
  <2>2. \A k \in Plain : prog[Main] # Op(k) /\ prog'[Main] # Op(k)
    BY <1>1, NoPlain DEF SearchOK
  <2>3. \A k \in Plain : Post(Main, k)' <=> Post(Main, k)
    BY <1>0, <1>1, <1>t, <1>7, <2>2 DEF Post
  <2>4. \A k \in Plain : ~Post(t, k)'
    BY <1>1, <1>t, <1>4, <1>7, OpIs DEF Post, Plain
  <2> QED BY <1>4, <2>1, <2>3, <2>4
<1>9. TypesOK'
  <2>1. jobFunc' \in [Workers -> {"none", "construct", "clear", "zero", "setup", "search"}] /\ searching' \in [Workers -> BOOLEAN]
    BY <1>0, <1>3
  <2> QED BY <1>0, <1>1, <2>1 DEF TypesOK, EngineTypeOK, flagVars, goVars, listVars, sessVars
<1>10. ThreadsOK'
  <2>1. ASSUME NEW u \in Workers
        PROVE  /\ pc'[u] = "absent" => ~searching'[u]
               /\ pc'[u] \in {"top", "running", "exited"} => searching'[u]
               /\ u \in cv'[u] => pc'[u] = "parked"
               /\ prog'[u] # <<>> => pc'[u] = "running"
               /\ pc'[u] = "exited" => exit'[u]
               /\ exit'[u] => pc'[u] \in {"absent", "parked", "exited"} /\ jobFunc'[u] \in {"none", "search"}
               /\ ~exit'[u] => (jobFunc'[u] # "none" <=> pc'[u] = "parked" /\ searching'[u])
    <3>1. CASE u = t
      BY <1>0, <1>1, <1>t, <1>4, <1>5, <1>7, <3>1
    <3>2. CASE u # t
      BY <1>0, <1>1, <1>7, <3>2 DEF ThreadsOK
    <3> QED BY <3>1, <3>2
  <2> QED BY <2>1 DEF ThreadsOK
<1>11. PoolOK(a)'
  <2>1. "construct" \in Plain
    BY DEF Plain
  <2> QED BY <1>0, <1>8, <2>1 DEF PoolOK
<1>12. SearchOK(a, h)'
  <2>1. h.n = size' /\ h.phase # "end" /\ HLeads(prog'[Main], h) /\ ~a.free
    BY <1>0, <1>1, <1>2, <1>3 DEF SearchOK
  <2>2. ASSUME NEW u \in Workers \ {Main}
        PROVE  /\ searching'[u] /\ ~exit'[u] => u \in a.owed \cup h.out
               /\ Post(u, "search")' \/ prog'[u] = Op("iterate") \/ prog'[u] = Op("depth") => u \in h.out
               /\ prog'[u] = <<>> \/ \E j \in Plain \cup {"iterate", "depth"} : prog'[u] = Op(j)
    <3>1. CASE u = t
      BY <1>1, <1>3, <1>4, <3>1
    <3>2. CASE u # t
      <4>1. searching'[u] = searching[u] /\ exit'[u] = exit[u] /\ prog'[u] = prog[u] /\ Post(u, "search")' = Post(u, "search")
        BY <1>0, <1>1, <1>7, <3>2 DEF Post
      <4> QED BY <1>3, <4>1 DEF SearchOK
    <3> QED BY <3>1, <3>2
  <2> QED BY <2>1, <2>2 DEF SearchOK
<1>13. WaitersOK(a, h)'
  <2>1. \A u \in Workers : Main \notin cv[u]
    <3>1. SUFFICES ASSUME NEW u \in Workers, Main \in cv[u]
                   PROVE  FALSE
      OBVIOUS
    <3>2. u # Main
      BY <1>1, <3>1 DEF ThreadsOK
    <3>3. Target(Main) = u
      BY <3>1, <3>2, OneBlocked
    <3> QED BY <1>0, <1>a, <3>1, <3>3
  <2>2. \A u \in Workers : \A c \in cv[u] \ {u} : prog'[c] = prog[c]
    BY <1>1, <2>1, OneBlocked
  <2>3. \A u \in Workers : u # t => searching'[u] = searching[u] /\ u # 0
    BY <1>7 DEF Workers
  <2> QED BY <1>0, <1>3, <1>7, <2>2, <2>3 DEF WaitersOK, AtOp, Target
<1>14. ListsOK(a, h)' /\ DepthsOK(h)' /\ CountOK(a, h)'
  <2>2. ListsOK(a, h)'
    BY <1>0, <1>5, <1>6 DEF ListsOK, goVars, listVars
  <2>3. DepthsOK(h)'
    <3>1. UNCHANGED <<exit, size, rootDepth>>
      BY <1>0 DEF goVars
    <3>2. \A u \in 1 .. size : u \in Workers
      BY ThreadsAssumption DEF TypesOK, EngineTypeOK, Workers
    <3>3. \A u \in (1 .. size) \ m.out : rootDepth[u] < MaxPly
      BY <1>3 DEF DepthsOK
    <3>4. Main \in (1 .. size) \ m.out
      BY <1>3, HuntFields DEF SearchOK, Main
    <3>5. \A u \in Workers \ {Main} : AtOp(u, "iterate")' = AtOp(u, "iterate") /\ AtOp(u, "depth")' = AtOp(u, "depth")
      BY <1>1 DEF AtOp
    <3>6. rootDepth[t] < MaxPly
      BY <1>3, <1>t, <3>3
    <3> QED BY <1>3, <1>7, <3>1, <3>2, <3>3, <3>4, <3>5, <3>6 DEF DepthsOK
  <2>4. CountOK(a, h)'
    BY <1>0, <1>6 DEF CountOK, One, sessVars
  <2> QED BY <2>2, <2>3, <2>4
<1> QED BY <1>1, <1>2, <1>9, <1>10, <1>11, <1>12, <1>13, <1>14

LEMMA SpawnSafe ==
  ASSUME NEW a \in Views, NEW m \in Hunts, Safe(a, m), SpawnThread
  PROVE  \E b \in Views, h \in Hunts : Safe(b, h)'
<1> USE DEF Safe
<1> DEFINE op == Head(prog[UCI])
<1>a. PICK t : t = Target(UCI)
  OBVIOUS
<1>0. /\ AtOp(UCI, "spawn") /\ Pop(UCI) /\ uci' = uci
      /\ pc' = [pc EXCEPT ![t] = "top"] /\ searching' = [searching EXCEPT ![t] = TRUE]
      /\ exit' = [exit EXCEPT ![t] = FALSE] /\ jobFunc' = [jobFunc EXCEPT ![t] = "none"] /\ size' = t
      /\ UNCHANGED <<worker, cv, flagVars, goVars, listVars, sessVars>>
  BY <1>a DEF SpawnThread, sessVars
<1>1. /\ op[1] = "spawn" /\ op[2] = t /\ May(a, op) /\ After(a, op) \in Views
      /\ Leads(prog'[UCI], After(a, op), uci' = "loop")
      /\ prog' \in [Actors -> Seq(Operations)] /\ UCI \in Actors
      /\ \A u \in Actors \ {UCI} : prog'[u] = prog[u]
      /\ \A u \in Workers : prog'[u] = prog[u] /\ u \in Actors /\ u # UCI
      /\ Main \in Workers
  BY <1>0, <1>a, UciPops
<1>2. PICK b \in Views : b = After(a, op)
  BY <1>1
<1>3. /\ a.told = 0 /\ a.free /\ a.leaving = {} /\ a.go = 0 /\ a.alive = 1 .. a.n /\ t = a.n + 1 /\ t \in Workers
      /\ b.n = t /\ b.alive = a.alive \cup {t} /\ b.made = a.made /\ b.leaving = {} /\ b.owed = a.owed \cup {t}
      /\ b.setup = a.setup /\ b.told = 0 /\ b.free /\ b.go = 0
  <2>1. /\ a.told = 0 /\ a.free /\ a.leaving = {} /\ a.go = 0 /\ a.alive = 1 .. a.n /\ t = a.n + 1 /\ t \in Workers
    BY <1>1 DEF May
  <2>2. b = View(t, a.alive \cup {t}, a.made, a.leaving, a.owed \cup {t}, a.setup, a.told, a.free, a.go)
    BY <1>1, <1>2 DEF After
  <2> QED BY <2>1, <2>2 DEF View
<1> HIDE DEF op
<1>4. a.setup = {} /\ t \notin a.alive /\ t \notin a.made
  BY <1>3, ViewFields DEF Coherent
<1>5. ~Busy(m) /\ m.phase = "end" /\ m.out = {} /\ m.told = 0
  BY <1>3, NoSearch
<1>6. PICK h \in Hunts : h = Ended(t)
  <2>1. t \in 0 .. MaxThreads /\ 0 \in 0 .. MaxThreads /\ "end" \in Phases /\ {} \in SUBSET (2 .. t)
    BY <1>3, ThreadsAssumption DEF Workers, Phases
  <2> DEFINE s == "end"
             q == {}
  <2>2. Ended(t) = Hunt(t, 0, q, s)
    BY DEF Ended
  <2>3. q \in SUBSET (2 .. t) /\ s \in Phases
    BY <2>1
  <2> HIDE DEF s, q
  <2> QED BY <2>1, <2>2, <2>3, HuntTypes
<1>7. h.n = t /\ h.told = 0 /\ h.out = {} /\ h.phase = "end"
  BY <1>6 DEF Ended, Hunt
<1>8. pc[t] = "absent" /\ ~searching[t] /\ prog[t] = <<>> /\ cv[t] = {}
  <2>1. pc[t] = "absent" /\ ~searching[t] /\ t \notin cv[t]
    BY <1>3, <1>4 DEF PoolOK, ThreadsOK
  <2> QED BY <1>3, <2>1, NotSearching
<1>9. /\ pc \in [Workers -> {"absent", "top", "parked", "running", "exited"}]
      /\ searching \in [Workers -> BOOLEAN] /\ exit \in [Workers -> BOOLEAN]
      /\ jobFunc \in [Workers -> {"none", "construct", "clear", "zero", "setup", "search"}]
  BY DEF TypesOK, EngineTypeOK
<1>10. /\ pc'[t] = "top" /\ searching'[t] /\ ~exit'[t] /\ jobFunc'[t] = "none" /\ prog'[t] = <<>> /\ cv'[t] = {}
       /\ \A u \in Workers : u # t => /\ pc'[u] = pc[u] /\ searching'[u] = searching[u] /\ exit'[u] = exit[u]
                                      /\ jobFunc'[u] = jobFunc[u] /\ prog'[u] = prog[u] /\ cv'[u] = cv[u]
  BY <1>0, <1>1, <1>3, <1>8, <1>9
<1>11. \A k \in Plain \cup {"search"} : /\ \A u \in Workers : u # t => (Post(u, k)' <=> Post(u, k))
                                        /\ ~Post(t, k)'
  BY <1>10, OpIs DEF Post, Plain
<1>12. ~Busy(h)'
  BY <1>1, <1>5, <1>7, <1>10 DEF Busy
<1>13. TypesOK'
  <2>1. size' \in 0 .. MaxThreads
    BY <1>0, <1>3, ThreadsAssumption DEF Workers
  <2> QED BY <1>0, <1>1, <1>9, <2>1 DEF TypesOK, EngineTypeOK, flagVars, goVars, listVars, sessVars
<1>14. ThreadsOK'
  BY <1>10 DEF ThreadsOK
<1>15. PoolOK(b)'
  <2>1. "construct" \in Plain
    BY DEF Plain
  <2>2. worker' = worker
    BY <1>0
  <2> QED BY <1>0, <1>3, <1>4, <1>10, <1>11, <2>1, <2>2 DEF PoolOK
<1>16. SearchOK(b, h)'
  <2>1. ASSUME NEW u \in Workers \ {Main}
        PROVE  /\ searching'[u] /\ ~exit'[u] => u \in b.owed \cup h.out
               /\ ~Post(u, "search")' /\ prog'[u] # Op("iterate") /\ prog'[u] # Op("depth")
               /\ prog'[u] = <<>> \/ \E j \in Plain \cup {"iterate", "depth"} : prog'[u] = Op(j)
    <3>1. CASE u = t
      BY <1>3, <1>10, <1>11, <3>1, OpIs
    <3>2. CASE u # t
      BY <1>3, <1>5, <1>10, <1>11, <3>2 DEF SearchOK
    <3> QED BY <3>1, <3>2
  <2>2. prog'[Main] = <<>> \/ \E k \in Plain : prog'[Main] = Op(k)
    BY <1>1, <1>5 DEF SearchOK
  <2>3. searching'[Main] /\ ~exit'[Main] => Main \in b.owed
    BY <1>1, <1>3, <1>10 DEF SearchOK
  <2> QED BY <1>0, <1>7, <1>12, <2>1, <2>2, <2>3 DEF SearchOK
<1>17. WaitersOK(b, h)'
  <2>1. \A u \in Workers : UCI \notin cv[u]
    <3>1. SUFFICES ASSUME NEW u \in Workers, UCI \in cv[u] \ {u}
                   PROVE  FALSE
      BY <1>1
    <3>2. AtOp(UCI, "run") \/ AtOp(UCI, "wait")
      BY <3>1, OneBlocked
    <3> QED BY <1>0, <3>2 DEF AtOp
  <2>2. \A u \in Workers : \A c \in cv[u] \ {u} : prog'[c] = prog[c]
    BY <1>1, <2>1, OneBlocked
  <2> QED BY <1>3, <1>5, <1>7, <1>10, <2>2 DEF WaitersOK, AtOp, Target
<1>18. ListsOK(b, h)' /\ DepthsOK(h)' /\ CountOK(b, h)'
  <2>1. UNCHANGED <<rootList, rootDepth, setupStates, states, posList, nextList, limits, request, goes, bestmoves>>
    BY <1>0 DEF goVars, listVars, sessVars
  <2>2. ListsOK(b, h)'
    BY <1>3, <1>4, <1>12, <2>1 DEF ListsOK
  <2>3. DepthsOK(h)'
    BY <1>7, <1>10, <1>12, <2>1 DEF DepthsOK, AtOp, Busy
  <2>4. CountOK(b, h)'
    BY <1>3, <1>5, <1>12, <2>1 DEF CountOK, One
  <2> QED BY <2>2, <2>3, <2>4
<1>19. ProgOK(b)'
  BY <1>1, <1>2 DEF ProgOK
<1> QED BY <1>13, <1>14, <1>15, <1>16, <1>17, <1>18, <1>19

LEMMA SetExitSafe ==
  ASSUME NEW a \in Views, NEW m \in Hunts, Safe(a, m), SetExit
  PROVE  \E b \in Views : Safe(b, m)'
<1> USE DEF Safe
<1> DEFINE op == Head(prog[UCI])
<1>a. PICK t : t = Target(UCI)
  OBVIOUS
<1>0. /\ AtOp(UCI, "exit") /\ Pop(UCI) /\ uci' = uci /\ exit' = [exit EXCEPT ![t] = TRUE]
      /\ UNCHANGED <<pc, searching, jobFunc, worker, cv, size, flagVars, goVars, listVars, sessVars>>
      /\ exit \in [Workers -> BOOLEAN]
  BY <1>a DEF SetExit, sessVars, TypesOK, EngineTypeOK
<1>1. /\ op[1] = "exit" /\ op[2] = t /\ May(a, op) /\ After(a, op) \in Views
      /\ Leads(prog'[UCI], After(a, op), uci' = "loop")
      /\ prog' \in [Actors -> Seq(Operations)] /\ UCI \in Actors
      /\ \A u \in Actors \ {UCI} : prog'[u] = prog[u]
      /\ \A u \in Workers : prog'[u] = prog[u] /\ u \in Actors /\ u # UCI
      /\ Main \in Workers
  BY <1>0, <1>a, UciPops
<1>2. PICK b \in Views : b = After(a, op)
  BY <1>1
<1>3. /\ a.told = 0 /\ a.free /\ a.leaving = {} /\ a.go = 0 /\ t \in (a.alive \cap a.made) \ a.owed
      /\ b.n = a.n /\ b.alive = a.alive /\ b.made = a.made /\ b.leaving = {t} /\ b.owed = a.owed
      /\ b.setup = a.setup /\ b.told = 0 /\ b.free /\ b.go = 0
  <2>1. /\ a.told = 0 /\ a.free /\ a.leaving = {} /\ a.go = 0 /\ t \in (a.alive \cap a.made) \ a.owed
    BY <1>1 DEF May
  <2>2. b = View(a.n, a.alive, a.made, {t}, a.owed, a.setup, a.told, a.free, a.go)
    BY <1>1, <1>2 DEF After
  <2> QED BY <2>1, <2>2 DEF View
<1> HIDE DEF op
<1>4. t \in Workers /\ a.setup = {}
  BY <1>3, ViewFields DEF Coherent
<1>5. ~Busy(m) /\ m.phase = "end" /\ m.out = {} /\ m.told = 0
  BY <1>3, NoSearch
<1>6. ~exit[t] /\ ~searching[t]
  <2>1. ~exit[t]
    BY <1>3, <1>4 DEF PoolOK
  <2> QED BY <1>3, <1>4, <1>5, <2>1 DEF SearchOK
<1>7. /\ prog[t] = <<>> /\ pc[t] = "parked" /\ jobFunc[t] = "none"
      /\ (\A k \in Plain \cup {"search"} : ~Post(t, k))
  <2>1. pc[t] # "absent"
    BY <1>3, <1>4 DEF PoolOK
  <2> QED BY <1>4, <1>6, <2>1, NotSearching
<1>8. exit'[t] /\ \A u \in Workers : u # t => exit'[u] = exit[u]
  BY <1>0, <1>4
<1>9. \A u \in Workers : \A k \in Plain \cup {"search"} : Post(u, k)' <=> Post(u, k)
  <2>1. \A k \in Plain \cup {"search"} : ~Post(t, k)'
    BY <1>0, <1>1, <1>4, <1>7, <1>8, OpIs DEF Post, Plain
  <2>2. \A u \in Workers : u # t => \A k : Post(u, k)' <=> Post(u, k)
    BY <1>0, <1>1, <1>8 DEF Post
  <2> QED BY <1>7, <2>1, <2>2
<1>10. ~Busy(m)'
  BY <1>0, <1>1, <1>5, <1>8 DEF Busy
<1>11. TypesOK'
  BY <1>0, <1>1 DEF TypesOK, EngineTypeOK, flagVars, goVars, listVars, sessVars
<1>12. ThreadsOK'
  BY <1>0, <1>1, <1>7, <1>8 DEF ThreadsOK
<1>13. PoolOK(b)'
  <2>1. "construct" \in Plain
    BY DEF Plain
  <2>2. UNCHANGED <<pc, worker, size>>
    BY <1>0
  <2> QED BY <1>3, <1>7, <1>8, <1>9, <2>1, <2>2 DEF PoolOK
<1>14. SearchOK(b, m)'
  <2>1. ASSUME NEW u \in Workers \ {Main}
        PROVE  /\ searching'[u] /\ ~exit'[u] => u \in b.owed \cup m.out
               /\ Post(u, "search")' \/ prog'[u] = Op("iterate") \/ prog'[u] = Op("depth") => u \in m.out
               /\ prog'[u] = <<>> \/ \E j \in Plain \cup {"iterate", "depth"} : prog'[u] = Op(j)
    <3>1. searching'[u] = searching[u] /\ prog'[u] = prog[u] /\ (exit[u] => exit'[u]) /\ Post(u, "search")' = Post(u, "search")
      BY <1>0, <1>1, <1>8, <1>9 DEF Post
    <3> QED BY <1>3, <3>1 DEF SearchOK
  <2>2. searching'[Main] /\ ~exit'[Main] => Main \in b.owed
    BY <1>0, <1>1, <1>3, <1>8 DEF SearchOK
  <2>3. prog'[Main] = prog[Main] /\ size' = size
    BY <1>0, <1>1
  <2> QED BY <1>5, <1>10, <2>1, <2>2, <2>3 DEF SearchOK
<1>15. WaitersOK(b, m)'
  <2>1. \A u \in Workers : UCI \notin cv[u]
    <3>1. SUFFICES ASSUME NEW u \in Workers, UCI \in cv[u] \ {u}
                   PROVE  FALSE
      BY <1>1
    <3>2. AtOp(UCI, "run") \/ AtOp(UCI, "wait")
      BY <3>1, OneBlocked
    <3> QED BY <1>0, <3>2 DEF AtOp
  <2>2. \A u \in Workers : \A c \in cv[u] \ {u} : prog'[c] = prog[c]
    BY <1>1, <2>1, OneBlocked
  <2> QED BY <1>0, <1>3, <2>2 DEF WaitersOK, AtOp, Target
<1>16. ListsOK(b, m)' /\ DepthsOK(m)' /\ CountOK(b, m)'
  <2>1. UNCHANGED <<rootList, rootDepth, setupStates, states, posList, nextList, limits, request, goes, bestmoves, jobFunc>>
    BY <1>0 DEF goVars, listVars, sessVars
  <2>2. ListsOK(b, m)'
    BY <1>3, <1>4, <1>10, <2>1 DEF ListsOK
  <2>3. DepthsOK(m)'
    BY <1>1, <1>5, <1>8, <1>10, <2>1 DEF DepthsOK, AtOp, Busy
  <2>4. CountOK(b, m)'
    BY <1>3, <1>5, <1>10, <2>1 DEF CountOK, One
  <2> QED BY <2>2, <2>3, <2>4
<1>17. ProgOK(b)'
  BY <1>1, <1>2 DEF ProgOK
<1> QED BY <1>11, <1>12, <1>13, <1>14, <1>15, <1>16, <1>17

LEMMA JoinSafe ==
  ASSUME NEW a \in Views, NEW m \in Hunts, Safe(a, m), Join
  PROVE  \E b \in Views, h \in Hunts : Safe(b, h)'
<1> USE DEF Safe
<1> DEFINE op == Head(prog[UCI])
<1>a. PICK t : t = Target(UCI)
  OBVIOUS
<1>0. /\ AtOp(UCI, "join") /\ Pop(UCI) /\ uci' = uci /\ pc[t] = "exited"
      /\ pc' = [pc EXCEPT ![t] = "absent"] /\ searching' = [searching EXCEPT ![t] = FALSE]
      /\ worker' = [worker EXCEPT ![t] = FALSE] /\ size' = IF t = size THEN 0 ELSE size
      /\ UNCHANGED <<exit, jobFunc, cv, flagVars, goVars, listVars, sessVars>>
  BY <1>a DEF Join, sessVars
<1>1. /\ op[1] = "join" /\ op[2] = t /\ May(a, op) /\ After(a, op) \in Views
      /\ Leads(prog'[UCI], After(a, op), uci' = "loop")
      /\ prog' \in [Actors -> Seq(Operations)] /\ UCI \in Actors
      /\ \A u \in Actors \ {UCI} : prog'[u] = prog[u]
      /\ \A u \in Workers : prog'[u] = prog[u] /\ u \in Actors /\ u # UCI
      /\ Main \in Workers
  BY <1>0, <1>a, UciPops
<1>2. PICK b \in Views : b = After(a, op)
  BY <1>1
<1>3. /\ a.told = 0 /\ a.free /\ t \in a.leaving \ a.owed /\ a.go = 0 /\ a.n = size
      /\ b.n = size' /\ b.alive = a.alive \ {t} /\ b.made = a.made \ {t} /\ b.leaving = a.leaving \ {t} /\ b.owed = a.owed
      /\ b.setup = a.setup /\ b.told = 0 /\ b.free /\ b.go = 0
  <2>1. /\ a.told = 0 /\ a.free /\ t \in a.leaving \ a.owed /\ a.go = 0 /\ a.n = size
    BY <1>1 DEF May, PoolOK
  <2>2. b = View(IF t = a.n THEN 0 ELSE a.n, a.alive \ {t}, a.made \ {t}, a.leaving \ {t},
                 a.owed, a.setup, a.told, a.free, a.go)
    BY <1>1, <1>2 DEF After
  <2> QED BY <1>0, <2>1, <2>2 DEF View
<1> HIDE DEF op
<1>4. t \in Workers /\ a.setup = {}
  BY <1>3, ViewFields DEF Coherent
<1>5. ~Busy(m) /\ m.phase = "end" /\ m.out = {} /\ m.told = 0
  BY <1>3, NoSearch
<1>6. size' \in 0 .. MaxThreads
  BY <1>0, ThreadsAssumption DEF TypesOK, EngineTypeOK
<1>7. PICK h \in Hunts : h = Ended(size')
  <2>1. 0 \in 0 .. MaxThreads /\ "end" \in Phases /\ {} \in SUBSET (2 .. size')
    BY ThreadsAssumption DEF Phases
  <2> DEFINE s == "end"
             q == {}
             n == size'
  <2>2. Ended(n) = Hunt(n, 0, q, s)
    BY DEF Ended
  <2>3. q \in SUBSET (2 .. n) /\ s \in Phases /\ n \in 0 .. MaxThreads
    BY <1>6, <2>1
  <2> HIDE DEF s, q, n
  <2>4. Ended(n) \in Hunts
    BY <2>1, <2>2, <2>3, HuntTypes
  <2> QED BY <2>4 DEF n
<1>8. h.n = size' /\ h.told = 0 /\ h.out = {} /\ h.phase = "end"
  BY <1>7 DEF Ended, Hunt
<1>9. \A u \in Workers : UCI \notin cv[u]
  <2>1. SUFFICES ASSUME NEW u \in Workers, UCI \in cv[u] \ {u}
                 PROVE  FALSE
    BY <1>1
  <2>2. AtOp(UCI, "run") \/ AtOp(UCI, "wait")
    BY <2>1, OneBlocked
  <2> QED BY <1>0, <2>2 DEF AtOp
<1>10. exit[t] /\ prog[t] = <<>> /\ cv[t] = {}
  <2>1. exit[t] /\ prog[t] = <<>> /\ t \notin cv[t]
    BY <1>0, <1>4 DEF ThreadsOK
  <2>2. SUFFICES ASSUME NEW c \in cv[t] \ {t}
                 PROVE  FALSE
    BY <2>1
  <2>3. c = Main /\ (AtOp(c, "run") \/ AtOp(c, "wait")) /\ c \in Actors
    BY <1>4, <1>9, <2>2, OneBlocked
  <2>4. Main \in Actors /\ (AtOp(Main, "run") \/ AtOp(Main, "wait"))
    BY <2>3
  <2>5. ~a.free
    BY <2>4, Acting
  <2> QED BY <1>3, <2>5
<1>11. /\ pc \in [Workers -> {"absent", "top", "parked", "running", "exited"}]
       /\ searching \in [Workers -> BOOLEAN] /\ worker \in [Workers -> BOOLEAN]
  BY DEF TypesOK, EngineTypeOK
<1>12. /\ pc'[t] = "absent" /\ ~searching'[t] /\ ~worker'[t]
       /\ \A u \in Workers : u # t => pc'[u] = pc[u] /\ searching'[u] = searching[u] /\ worker'[u] = worker[u]
       /\ \A u \in Workers : prog'[u] = prog[u] /\ exit'[u] = exit[u] /\ jobFunc'[u] = jobFunc[u] /\ cv'[u] = cv[u]
  BY <1>0, <1>1, <1>4, <1>11
<1>13. \A u \in Workers : \A k : Post(u, k)' <=> Post(u, k)
  BY <1>12 DEF Post
<1>14. ~Busy(h)'
  BY <1>1, <1>5, <1>8, <1>12 DEF Busy
<1>15. TypesOK'
  <2>1. /\ pc' \in [Workers -> {"absent", "top", "parked", "running", "exited"}]
        /\ searching' \in [Workers -> BOOLEAN] /\ worker' \in [Workers -> BOOLEAN]
    BY <1>0, <1>11
  <2>2. UNCHANGED <<exit, jobFunc, cv, flagVars, goVars, listVars, sessVars>>
    BY <1>0
  <2> QED BY <1>1, <1>6, <2>1, <2>2 DEF TypesOK, EngineTypeOK, flagVars, goVars, listVars, sessVars
<1>16. ThreadsOK'
  BY <1>10, <1>12 DEF ThreadsOK
<1>17. PoolOK(b)'
  <2>1. "construct" \in Plain
    BY DEF Plain
  <2> QED BY <1>3, <1>12, <1>13, <2>1 DEF PoolOK
<1>18. SearchOK(b, h)'
  <2>1. ASSUME NEW u \in Workers \ {Main}
        PROVE  /\ searching'[u] /\ ~exit'[u] => u \in b.owed \cup h.out
               /\ ~Post(u, "search")' /\ prog'[u] # Op("iterate") /\ prog'[u] # Op("depth")
               /\ prog'[u] = <<>> \/ \E j \in Plain \cup {"iterate", "depth"} : prog'[u] = Op(j)
    BY <1>3, <1>5, <1>12, <1>13 DEF SearchOK
  <2>2. prog'[Main] = <<>> \/ \E k \in Plain : prog'[Main] = Op(k)
    BY <1>1, <1>5 DEF SearchOK
  <2>3. searching'[Main] /\ ~exit'[Main] => Main \in b.owed
    BY <1>1, <1>3, <1>12 DEF SearchOK
  <2> QED BY <1>8, <1>14, <2>1, <2>2, <2>3 DEF SearchOK
<1>19. WaitersOK(b, h)'
  <2>1. \A u \in Workers : \A c \in cv[u] \ {u} : prog'[c] = prog[c]
    BY <1>1, <1>9, OneBlocked
  <2> QED BY <1>3, <1>5, <1>8, <1>10, <1>12, <2>1 DEF WaitersOK, AtOp, Target
<1>20. ListsOK(b, h)' /\ DepthsOK(h)' /\ CountOK(b, h)'
  <2>1. UNCHANGED <<rootList, rootDepth, setupStates, states, posList, nextList, limits, request, goes, bestmoves>>
    BY <1>0 DEF goVars, listVars, sessVars
  <2>2. ListsOK(b, h)'
    BY <1>3, <1>4, <1>14, <2>1 DEF ListsOK
  <2>3. DepthsOK(h)'
    BY <1>8, <1>12, <1>14, <2>1 DEF DepthsOK, AtOp, Busy
  <2>4. CountOK(b, h)'
    BY <1>3, <1>5, <1>14, <2>1 DEF CountOK, One
  <2> QED BY <2>2, <2>3, <2>4
<1>21. ProgOK(b)'
  BY <1>1, <1>2 DEF ProgOK
<1> QED BY <1>15, <1>16, <1>17, <1>18, <1>19, <1>20, <1>21

LEMMA ResetSafe ==
  ASSUME NEW a \in Views, NEW m \in Hunts, Safe(a, m), ResetSearch
  PROVE  \E b \in Views : Safe(b, m)'
<1> USE DEF Safe
<1> DEFINE op == Head(prog[UCI])
<1>0. /\ AtOp(UCI, "reset") /\ Pop(UCI) /\ uci' = uci
      /\ UNCHANGED <<idleVars, request, limits, rootDepth, completedDepth, posList, rootList, nextList, sessVars>>
  BY DEF ResetSearch, sessVars
<1>1. /\ op[1] = "reset" /\ May(a, op) /\ After(a, op) \in Views
      /\ Leads(prog'[UCI], After(a, op), uci' = "loop")
      /\ prog' \in [Actors -> Seq(Operations)] /\ UCI \in Actors
      /\ \A u \in Actors \ {UCI} : prog'[u] = prog[u]
      /\ \A u \in Workers : prog'[u] = prog[u] /\ u \in Actors /\ u # UCI
      /\ Main \in Workers
  BY <1>0, UciPops
<1>2. PICK b \in Views : b = After(a, op)
  BY <1>1
<1>3. /\ a.told = 0 /\ a.free /\ a.leaving = {} /\ a.go = 1 /\ a.owed = {}
      /\ b.n = a.n /\ b.alive = a.alive /\ b.made = a.made /\ b.leaving = a.leaving /\ b.owed = a.owed
      /\ b.setup = {} /\ b.told = 0 /\ b.free /\ b.go = 2
  <2>1. /\ a.told = 0 /\ a.free /\ a.leaving = {} /\ a.go = 1 /\ a.owed = {}
    BY <1>1 DEF May
  <2>2. b = View(a.n, a.alive, a.made, a.leaving, a.owed, {}, a.told, a.free, 2)
    BY <1>1, <1>2 DEF After
  <2> QED BY <2>1, <2>2 DEF View
<1> HIDE DEF op
<1>5. ~Busy(m) /\ m.phase = "end" /\ m.out = {} /\ m.told = 0
  BY <1>3, NoSearch
<1>6. UNCHANGED idleVars /\ UNCHANGED <<pc, searching, exit, jobFunc, worker, cv, size>>
  BY <1>0 DEF idleVars
<1>7. \A u \in Workers : \A k : Post(u, k)' <=> Post(u, k)
  BY <1>1, <1>6 DEF Post
<1>8. ~Busy(m)'
  BY <1>5, <1>6 DEF Busy
<1>9. TypesOK'
  <2>1. stop' \in BOOLEAN /\ abortedSearch' \in BOOLEAN /\ stopOnPonderhit' \in BOOLEAN /\ ponder' \in BOOLEAN /\ noMoves' \in BOOLEAN
    BY DEF ResetSearch, TypesOK, EngineTypeOK, Limits
  <2> QED BY <1>0, <1>1, <1>6, <2>1 DEF TypesOK, EngineTypeOK, sessVars
<1>10. ThreadsOK'
  BY <1>1, <1>6 DEF ThreadsOK
<1>11. PoolOK(b)'
  <2>1. "construct" \in Plain
    BY DEF Plain
  <2> QED BY <1>3, <1>6, <1>7, <2>1 DEF PoolOK
<1>12. SearchOK(b, m)'
  <2>1. ASSUME NEW u \in Workers \ {Main}
        PROVE  /\ searching'[u] /\ ~exit'[u] => u \in b.owed \cup m.out
               /\ Post(u, "search")' \/ prog'[u] = Op("iterate") \/ prog'[u] = Op("depth") => u \in m.out
               /\ prog'[u] = <<>> \/ \E j \in Plain \cup {"iterate", "depth"} : prog'[u] = Op(j)
    <3>1. prog'[u] = prog[u] /\ Post(u, "search")' = Post(u, "search")
      BY <1>1, <1>6 DEF Post
    <3> QED BY <1>3, <1>6, <3>1 DEF SearchOK
  <2>2. prog'[Main] = prog[Main]
    BY <1>1
  <2> QED BY <1>3, <1>5, <1>6, <1>8, <2>1, <2>2 DEF SearchOK
<1>13. WaitersOK(b, m)'
  <2>1. \A u \in Workers : UCI \notin cv[u]
    <3>1. SUFFICES ASSUME NEW u \in Workers, UCI \in cv[u] \ {u}
                   PROVE  FALSE
      BY <1>1
    <3>2. AtOp(UCI, "run") \/ AtOp(UCI, "wait")
      BY <3>1, OneBlocked
    <3> QED BY <1>0, <3>2 DEF AtOp
  <2>2. \A u \in Workers : \A c \in cv[u] \ {u} : prog'[c] = prog[c]
    BY <1>1, <2>1, OneBlocked
  <2> QED BY <1>3, <1>6, <2>2 DEF WaitersOK, AtOp, Target
<1>14. ListsOK(b, m)'
  <2>1. /\ states # 0 => setupStates' = states /\ states' = 0
        /\ states = 0 => setupStates' = setupStates /\ states' = states
        /\ UNCHANGED <<rootList, posList, nextList>>
    BY <1>0 DEF ResetSearch
  <2>2. posList' = setupStates' /\ setupStates' # 0 /\ states' = 0 /\ setupStates' \in Nat
    BY <2>1 DEF ListsOK
  <2>3. /\ nextList' \in Nat \ {0} /\ rootList' \in [Workers -> Nat]
    BY <2>1 DEF ListsOK
  <2> QED BY <1>3, <1>8, <2>2, <2>3 DEF ListsOK
<1>15. DepthsOK(m)' /\ CountOK(b, m)'
  <2>1. rootDepth' = rootDepth /\ goes' = goes /\ bestmoves' = bestmoves
    BY <1>0 DEF sessVars
  <2>2. DepthsOK(m)'
    BY <1>1, <1>6, <2>1 DEF DepthsOK, AtOp
  <2>3. CountOK(b, m)'
    BY <1>3, <1>5, <1>8, <2>1 DEF CountOK, One
  <2> QED BY <2>2, <2>3
<1>16. ProgOK(b)'
  BY <1>1, <1>2 DEF ProgOK
<1> QED BY <1>9, <1>10, <1>11, <1>12, <1>13, <1>14, <1>15, <1>16

\* A thread comes to the end of a job that is not the search.
LEMMA PlainEnds ==
  ASSUME NEW a \in Views, NEW m \in Hunts, Safe(a, m), NEW t \in Workers, NEW k \in Plain, AtOp(t, k), Pop(t)
  PROVE  /\ prog[t] = Op(k) /\ prog' = [prog EXCEPT ![t] = <<>>] /\ prog'[t] = <<>>
         /\ \A u \in Actors : u # t => prog'[u] = prog[u]
         /\ prog' \in [Actors -> Seq(Operations)] /\ t \in a.owed /\ a.free
         /\ pc[t] = "running" /\ jobFunc[t] = "none" /\ ~exit[t] /\ searching[t]
         /\ \A j : ~AtOp(t, j)'
<1>1. t \in Actors /\ prog \in [Actors -> Seq(Operations)] /\ Main \in Workers /\ prog[t] # <<>> /\ Head(prog[t])[1] = k
  BY ThreadsAssumption DEF Actors, Workers, Main, Safe, TypesOK, AtOp
<1>2. prog[t] = Op(k)
  <2>1. CASE t = Main
    <3>1. \/ \E j \in Plain : prog[Main] = Op(j)
          \/ Head(prog[Main])[1] \notin Plain
      BY <1>1, <2>1, MainActs DEF Safe
    <3>2. \A j : prog[Main] = Op(j) => Head(prog[Main])[1] = j
      BY OpIs
    <3> QED BY <1>1, <2>1, <3>1, <3>2
  <2>2. CASE t # Main
    <3>1. \E j \in Plain \cup {"iterate", "depth"} : prog[t] = Op(j)
      BY <1>1, <2>2 DEF Safe, SearchOK
    <3>2. \A j : prog[t] = Op(j) => Head(prog[t])[1] = j
      BY OpIs
    <3> QED BY <1>1, <3>1, <3>2
  <2> QED BY <2>1, <2>2
<1>3. prog' = [prog EXCEPT ![t] = <<>>]
  <2>1. prog' = [prog EXCEPT ![t] = Tail(prog[t])]
    BY <1>1 DEF Pop
  <2>2. Tail(prog[t]) = <<>>
    BY <1>2, OpIs
  <2> QED BY <2>1, <2>2
<1>4. <<>> \in Seq(Operations)
  OBVIOUS
<1>5. t \in a.owed
  BY <1>2 DEF Safe, PoolOK, Post
<1>6. a.free
  BY <1>5, ViewFields DEF Coherent
<1>7. pc[t] = "running" /\ jobFunc[t] = "none" /\ ~exit[t] /\ searching[t]
  BY <1>1 DEF Safe, ThreadsOK
<1>8. prog'[t] = <<>> /\ prog' \in [Actors -> Seq(Operations)] /\ \A u \in Actors : u # t => prog'[u] = prog[u]
  BY <1>1, <1>3, <1>4
<1> QED BY <1>2, <1>3, <1>5, <1>6, <1>7, <1>8 DEF AtOp

\* Such a job: PlainJob or SetupJob.
LEMMA JobSafe ==
  ASSUME NEW a \in Views, NEW m \in Hunts, Safe(a, m), NEW t \in Workers, NEW k \in Plain, AtOp(t, k), Pop(t),
         UNCHANGED <<pc, searching, exit, jobFunc, cv, size, states, setupStates, posList, nextList, sessVars>>,
         EngineTypeOK',
         worker' = [worker EXCEPT ![t] = @ \/ k = "construct"],
         \A u \in Workers : u # t => rootList'[u] = rootList[u] /\ rootDepth'[u] = rootDepth[u],
         rootList' \in [Workers -> Nat],
         t = Main \/ limits' = limits, request' = request,
         rootDepth'[t] < MaxPly \/ rootDepth'[t] = rootDepth[t],
         IF k = "setup" THEN Ready(t)' ELSE Ready(t)' = Ready(t)
  PROVE  Safe(a, m)'
<1> USE DEF Safe
<1>1. /\ prog[t] = Op(k) /\ prog' = [prog EXCEPT ![t] = <<>>] /\ prog'[t] = <<>>
      /\ \A u \in Actors : u # t => prog'[u] = prog[u]
      /\ prog' \in [Actors -> Seq(Operations)] /\ t \in a.owed /\ a.free
      /\ pc[t] = "running" /\ jobFunc[t] = "none" /\ ~exit[t] /\ searching[t]
      /\ \A j : ~AtOp(t, j)'
  BY PlainEnds
<1>2. ~Busy(m) /\ m.phase = "end" /\ m.out = {} /\ m.told = 0
  BY <1>1, NoSearch
<1>3. UNCHANGED <<pc, searching, exit, jobFunc, cv, size, states, setupStates, posList, nextList>> /\ UNCHANGED <<uci, goes, bestmoves>>
  BY DEF sessVars
<1>4. ~Busy(m)'
  BY <1>2, <1>3 DEF Busy
<1>5. \A u \in Workers : u \in Actors /\ UCI # u /\ UCI \in Actors /\ Main \in Workers
  BY ThreadsAssumption DEF Actors, Workers, UCI, Main
<1>6. /\ \A j : ~Post(t, j)' \/ j = "none"
      /\ \A u \in Workers : u # t => \A j : Post(u, j)' <=> Post(u, j)
  <2>1. \A j : Op(j) # <<>>
    BY OpIs
  <2> QED BY <1>1, <1>3, <1>5, <2>1 DEF Post
<1>7. TypesOK' /\ ThreadsOK'
  BY <1>1, <1>3, <1>5 DEF TypesOK, ThreadsOK
<1>8. PoolOK(a)'
  <2>1. ASSUME NEW u \in Workers, u \in a.made
        PROVE  worker'[u] \/ Post(u, "construct")'
    <3>1. worker[u] \/ Post(u, "construct")
      BY <2>1 DEF PoolOK
    <3>2. CASE u = t
      <4>1. Post(t, "construct") => k = "construct"
        BY <1>1, OpIs DEF Post
      <4>2. worker \in [Workers -> BOOLEAN]
        BY DEF TypesOK, EngineTypeOK
      <4> QED BY <3>1, <3>2, <4>1, <4>2
    <3>3. CASE u # t
      <4>1. worker \in [Workers -> BOOLEAN]
        BY DEF TypesOK, EngineTypeOK
      <4>2. worker'[u] = worker[u]
        BY <3>3, <4>1
      <4> QED BY <1>6, <3>1, <3>3, <4>2
    <3> QED BY <3>2, <3>3
  <2>2. ASSUME NEW u \in Workers, NEW j \in Plain, Post(u, j)'
        PROVE  u \in a.owed
    <3>1. j # "none"
      BY DEF Plain
    <3> QED BY <1>6, <2>2, <3>1 DEF PoolOK
  <2> QED BY <1>3, <2>1, <2>2 DEF PoolOK
<1>9. SearchOK(a, m)'
  <2>1. ASSUME NEW u \in Workers \ {Main}
        PROVE  /\ searching'[u] /\ ~exit'[u] => u \in a.owed \cup m.out
               /\ Post(u, "search")' \/ prog'[u] = Op("iterate") \/ prog'[u] = Op("depth") => u \in m.out
               /\ prog'[u] = <<>> \/ \E j \in Plain \cup {"iterate", "depth"} : prog'[u] = Op(j)
    <3>1. CASE u = t
      <4>1. \A j : Op(j) # <<>>
        BY OpIs
      <4> QED BY <1>1, <1>6, <3>1, <4>1
    <3>2. CASE u # t
      <4>1. prog'[u] = prog[u]
        BY <1>1, <1>5, <3>2
      <4> QED BY <1>3, <1>6, <3>2, <4>1 DEF SearchOK
    <3> QED BY <3>1, <3>2
  <2>2. prog'[Main] = <<>> \/ \E j \in Plain : prog'[Main] = Op(j)
    <3>1. CASE t = Main
      BY <1>1, <3>1
    <3>2. CASE t # Main
      BY <1>1, <1>2, <1>5, <3>2 DEF SearchOK
    <3> QED BY <3>1, <3>2
  <2> QED BY <1>2, <1>3, <1>4, <2>1, <2>2 DEF SearchOK
<1>10. WaitersOK(a, m)'
  <2>1. \A u \in Workers : \A c \in cv[u] \ {u} : prog'[c] = prog[c]
    <3>1. SUFFICES ASSUME NEW u \in Workers, t \in cv[u] \ {u}
                   PROVE  FALSE
      BY <1>1, OneBlocked
    <3>2. AtOp(t, "run") \/ AtOp(t, "wait")
      BY <3>1, OneBlocked
    <3> QED BY <3>2 DEF AtOp, Plain
  <2> QED BY <1>3, <2>1 DEF WaitersOK, AtOp, Target
<1>11. ListsOK(a, m)'
  <2>1. ASSUME NEW u \in a.setup
        PROVE  Post(u, "setup")' \/ Ready(u)'
    <3>0. u \in Workers /\ "setup" # "none"
      BY <2>1, ViewFields
    <3>1. Post(u, "setup") \/ Ready(u)
      BY <2>1 DEF ListsOK
    <3>2. CASE u = t
      <4>1. k # "setup" => ~Post(t, "setup")
        BY <1>1, OpIs DEF Post
      <4> QED BY <3>1, <3>2, <4>1
    <3>3. CASE u # t
      <4>1. u = Main => t # Main
        BY <3>3
      <4> QED BY <1>3, <1>6, <3>0, <3>1, <3>3, <4>1 DEF Ready
    <3> QED BY <3>2, <3>3
  <2> QED BY <1>2, <1>3, <1>4, <2>1 DEF ListsOK
<1>12. DepthsOK(m)' /\ CountOK(a, m)' /\ ProgOK(a)'
  <2>1. DepthsOK(m)'
    <3>1. \A u \in Workers : u # t => (AtOp(u, "iterate")' <=> AtOp(u, "iterate")) /\ (AtOp(u, "depth")' <=> AtOp(u, "depth"))
      BY <1>1, <1>5 DEF AtOp
    <3>2. \A u \in Workers : (jobFunc'[u] = "search" /\ ~exit'[u]) \/ AtOp(u, "iterate")' \/ AtOp(u, "depth")' =>
             u # t /\ rootDepth[u] < MaxPly
      BY <1>1, <1>3, <3>1 DEF DepthsOK
    <3> QED BY <1>2, <1>4, <3>2 DEF DepthsOK, Busy
  <2>2. CountOK(a, m)'
    BY <1>2, <1>3, <1>4 DEF CountOK, One
  <2>3. prog'[UCI] = prog[UCI]
    BY <1>1, <1>5
  <2> QED BY <1>3, <2>1, <2>2, <2>3 DEF ProgOK
<1> QED BY <1>7, <1>8, <1>9, <1>10, <1>11, <1>12

LEMMA PlainJobSafe ==
  ASSUME NEW a \in Views, NEW m \in Hunts, Safe(a, m), NEW t \in Workers, PlainJob(t)
  PROVE  Safe(a, m)'
<1>1. PICK k \in Plain : AtOp(t, k) /\ k # "setup"
  BY DEF PlainJob, Plain
<1>2. /\ Pop(t) /\ UNCHANGED <<pc, searching, exit, jobFunc, cv, size, flagVars, goVars, listVars, sessVars>>
      /\ worker' = [worker EXCEPT ![t] = @ \/ k = "construct"]
  <2>1. AtOp(t, "construct") <=> k = "construct"
    BY <1>1 DEF AtOp
  <2> QED BY <2>1 DEF PlainJob
<1>3. UNCHANGED <<pc, searching, exit, jobFunc, cv, size, states, setupStates, posList, nextList, sessVars>>
      /\ UNCHANGED <<rootList, rootDepth, limits, request>>
  BY <1>2 DEF goVars, listVars
<1>4. EngineTypeOK'
  BY <1>2 DEF Safe, TypesOK, EngineTypeOK, flagVars, goVars, listVars, sessVars
<1>5. Ready(t)' = Ready(t) /\ rootList' \in [Workers -> Nat]
  BY <1>3 DEF Ready, Safe, ListsOK
<1> QED BY <1>1, <1>2, <1>3, <1>4, <1>5, JobSafe

LEMMA SetupJobSafe ==
  ASSUME NEW a \in Views, NEW m \in Hunts, Safe(a, m), NEW t \in Workers, SetupJob(t)
  PROVE  Safe(a, m)'
<1> DEFINE k == "setup"
<1>1. k \in Plain /\ AtOp(t, k) /\ Pop(t)
  BY DEF SetupJob, Plain
<1>2. /\ UNCHANGED <<pc, searching, exit, jobFunc, cv, size, states, setupStates, posList, nextList, sessVars>>
      /\ UNCHANGED <<worker, request, noMoves, flagVars>>
      /\ limits' = IF t = Main THEN request ELSE limits
      /\ rootDepth' = [rootDepth EXCEPT ![t] = 0]
      /\ completedDepth' = [completedDepth EXCEPT ![t] = 0]
      /\ rootList' = [rootList EXCEPT ![t] = setupStates]
  BY DEF SetupJob, idleVars
<1>3. /\ rootList \in [Workers -> Nat] /\ setupStates \in Nat /\ rootDepth \in [Workers -> 0 .. MaxPly]
      /\ worker \in [Workers -> BOOLEAN] /\ completedDepth \in [Workers -> 0 .. MaxPly]
  BY DEF Safe, ListsOK, TypesOK, EngineTypeOK
<1>4. EngineTypeOK'
  <2>1. rootDepth' \in [Workers -> 0 .. MaxPly] /\ completedDepth' \in [Workers -> 0 .. MaxPly] /\ limits' \in Limits
    BY <1>2, <1>3, PlyAssumption DEF Safe, TypesOK, EngineTypeOK
  <2> QED BY <1>2, <2>1 DEF Safe, TypesOK, EngineTypeOK, flagVars, sessVars
<1>5. /\ rootList' \in [Workers -> Nat]
      /\ \A u \in Workers : u # t => rootList'[u] = rootList[u] /\ rootDepth'[u] = rootDepth[u]
      /\ rootDepth'[t] = 0 /\ rootList'[t] = setupStates'
  BY <1>2, <1>3
<1>6. worker' = [worker EXCEPT ![t] = @ \/ k = "construct"]
  BY <1>2, <1>3
<1>7. Ready(t)'
  BY <1>2, <1>5 DEF Ready
<1>8. rootDepth'[t] < MaxPly /\ (t = Main \/ limits' = limits) /\ request' = request
  BY <1>2, <1>5, PlyAssumption
<1>9. IF k = "setup" THEN Ready(t)' ELSE Ready(t)' = Ready(t)
  BY <1>7
<1> HIDE DEF k
<1> QED BY <1>1, <1>2, <1>4, <1>5, <1>6, <1>8, <1>9, JobSafe

\* The main thread goes on in its search: from its iterations, the busy wait, the stop, to the answer.
LEMMA MainGoesOn ==
  ASSUME NEW a \in Views, NEW m \in Hunts, Safe(a, m), NEW k \in {"iterate", "hold", "raise", "bestmove"},
         AtOp(Main, k), Pop(Main),
         UNCHANGED <<idleVars, request, limits, noMoves, listVars, uci, goes>>,
         k # "bestmove" => EngineTypeOK',
         k = "bestmove" => UNCHANGED <<flagVars, completedDepth, others, released>>,
         bestmoves' = bestmoves + (IF k = "bestmove" THEN 1 ELSE 0),
         \A u \in Workers \ {Main} : rootDepth'[u] = rootDepth[u],
         rootDepth' \in [Workers -> 0 .. MaxPly]
  PROVE  \E h \in Hunts : Safe(a, h)'
<1> USE DEF Safe
<1> DEFINE op == Head(prog[Main])
<1>0. k \notin Plain /\ k \notin {"run", "wait", "notify", "depth"}
  BY DEF Plain
<1>1. /\ op[1] = k /\ m.phase # "end" /\ ~a.free /\ HMay(m, op) /\ HAfter(m, op) \in Hunts
      /\ HAfter(m, op).n = m.n /\ HLeads(prog'[Main], HAfter(m, op))
      /\ prog' \in [Actors -> Seq(Operations)] /\ Main \in Workers /\ Main \in Actors
      /\ \A u \in Actors \ {Main} : prog'[u] = prog[u]
      /\ \A u \in Workers \ {Main} : prog'[u] = prog[u] /\ u \in Actors
      /\ ProgOK(a)' /\ pc[Main] = "running" /\ jobFunc[Main] = "none" /\ ~exit[Main] /\ searching[Main]
  BY <1>0, MainPops
<1>2. PICK h \in Hunts : h = HAfter(m, op)
  BY <1>1
<1>3. /\ h.n = m.n /\ h.told = 0 /\ h.out = m.out /\ h.phase # "start"
      /\ h.phase = "end" <=> k = "bestmove"
      /\ h.phase = "end" => h.out = {}
      /\ m.told = 0
  <2>1. m.told = 0
    BY <1>1, HuntFields DEF HMay
  <2>2. CASE k = "bestmove"
    <3>1. h = Hunt(m.n, 0, {}, "end") /\ m.out = {}
      BY <1>1, <1>2, <2>2 DEF HAfter, HMay, Ended
    <3> QED BY <2>1, <2>2, <3>1 DEF Hunt
  <2>3. CASE k = "iterate"
    <3>1. h = Hunt(m.n, 0, m.out, "hold")
      BY <1>1, <1>2, <2>3 DEF HAfter
    <3> QED BY <2>1, <2>3, <3>1 DEF Hunt
  <2>4. CASE k = "hold"
    <3>1. h = Hunt(m.n, 0, m.out, "raise")
      BY <1>1, <1>2, <2>4 DEF HAfter
    <3> QED BY <2>1, <2>4, <3>1 DEF Hunt
  <2>5. CASE k = "raise"
    <3>1. h = Hunt(m.n, 0, m.out, "wait")
      BY <1>1, <1>2, <2>5 DEF HAfter
    <3> QED BY <2>1, <2>5, <3>1 DEF Hunt
  <2> QED BY <2>2, <2>3, <2>4, <2>5
<1> HIDE DEF op
<1>4. UNCHANGED <<pc, searching, exit, jobFunc, worker, cv, size>>
      /\ UNCHANGED <<states, setupStates, posList, rootList, nextList>>
  BY DEF idleVars, listVars
<1>5. Busy(m) /\ (Busy(h)' <=> k # "bestmove")
  BY <1>1, <1>3, <1>4 DEF Busy
<1>6. prog'[Main] = <<>> <=> k = "bestmove"
  <2>1. prog'[Main] = <<>> => h = Ended(h.n)
    BY <1>1, <1>2, HLeadsOn
  <2>2. h.phase = "end" /\ prog'[Main] # <<>> => FALSE
    <3>1. h.phase = "end" /\ prog'[Main] # <<>> => HMay(h, Head(prog'[Main]))
      BY <1>1, <1>2, HLeadsOn
    <3> QED BY <3>1 DEF HMay
  <2> QED BY <1>3, <2>1, <2>2 DEF Ended, Hunt
<1>7. \A u \in Workers : \A j \in Plain : Post(u, j)' <=> Post(u, j)
  <2>1. \A u \in Workers \ {Main} : \A j : Post(u, j)' <=> Post(u, j)
    BY <1>1, <1>4 DEF Post
  <2>2. \A j \in Plain : prog[Main] # Op(j) /\ prog'[Main] # Op(j)
    BY <1>1, NoPlain DEF SearchOK
  <2> QED BY <1>1, <1>4, <2>1, <2>2 DEF Post
<1>8. goes \in Nat /\ bestmoves \in Nat /\ goes \in 0 .. MaxGo /\ goes = bestmoves + One(a.go > 0) + 1
  BY <1>5, BoundsAssumption DEF TypesOK, EngineTypeOK, CountOK, One
<1>9. TypesOK'
  <2>1. EngineTypeOK'
    <3>1. CASE k # "bestmove"
      BY <3>1
    <3>2. CASE k = "bestmove"
      <4>1. bestmoves' = bestmoves + 1 /\ goes' = goes
        BY <3>2
      <4>2. bestmoves' \in 0 .. goes'
        BY <1>8, <4>1 DEF One
      <4> QED BY <1>4, <3>2, <4>2 DEF TypesOK, EngineTypeOK, flagVars
    <3> QED BY <3>1, <3>2
  <2> QED BY <1>1, <2>1 DEF TypesOK
<1>10. ThreadsOK'
  BY <1>1, <1>4 DEF ThreadsOK
<1>11. PoolOK(a)'
  <2>1. "construct" \in Plain
    BY DEF Plain
  <2> QED BY <1>4, <1>7, <2>1 DEF PoolOK
<1>12. SearchOK(a, h)'
  <2>1. ASSUME NEW u \in Workers \ {Main}
        PROVE  /\ searching'[u] /\ ~exit'[u] => u \in a.owed \cup h.out
               /\ Post(u, "search")' \/ prog'[u] = Op("iterate") \/ prog'[u] = Op("depth") => u \in h.out
               /\ prog'[u] = <<>> \/ \E j \in Plain \cup {"iterate", "depth"} : prog'[u] = Op(j)
    <3>1. prog'[u] = prog[u] /\ Post(u, "search")' = Post(u, "search")
      BY <1>1, <1>4 DEF Post
    <3> QED BY <1>3, <1>4, <3>1 DEF SearchOK
  <2>2. HLeads(prog'[Main], h) /\ ~a.free /\ h.n = size'
    BY <1>1, <1>2, <1>3, <1>4 DEF SearchOK
  <2> QED BY <1>3, <1>6, <2>1, <2>2 DEF SearchOK
<1>13. WaitersOK(a, h)'
  <2>1. \A u \in Workers : Main \notin cv[u]
    <3>1. SUFFICES ASSUME NEW u \in Workers, Main \in cv[u]
                   PROVE  FALSE
      OBVIOUS
    <3>2. u # Main
      BY <1>1, <3>1 DEF ThreadsOK
    <3>3. AtOp(Main, "run") \/ AtOp(Main, "wait")
      BY <3>1, <3>2, OneBlocked
    <3> QED BY <1>0, <3>3 DEF AtOp
  <2>2. \A u \in Workers : \A c \in cv[u] \ {u} : prog'[c] = prog[c]
    BY <1>1, <2>1, OneBlocked
  <2> QED BY <1>3, <1>4, <2>2 DEF WaitersOK, AtOp, Target
<1>14. ListsOK(a, h)' /\ DepthsOK(h)' /\ CountOK(a, h)'
  <2>1. a.setup = {} /\ limits' = limits /\ request' = request
    BY <1>1, ViewFields DEF Coherent
  <2>2. ListsOK(a, h)'
    BY <1>4, <1>5, <2>1 DEF ListsOK
  <2>3. DepthsOK(h)'
    <3>1. AtOp(Main, "iterate")' \/ AtOp(Main, "depth")' => FALSE
      <4>1. prog'[Main] # <<>> => HMay(h, Head(prog'[Main]))
        BY <1>1, <1>2, HLeadsOn
      <4>2. AtOp(Main, "iterate")' \/ AtOp(Main, "depth")' => h.phase = "start"
        BY <4>1 DEF AtOp, HMay
      <4> QED BY <1>3, <4>2
    <3>2. \A u \in Workers \ {Main} : /\ AtOp(u, "iterate")' = AtOp(u, "iterate") /\ AtOp(u, "depth")' = AtOp(u, "depth")
                                      /\ jobFunc'[u] = jobFunc[u] /\ exit'[u] = exit[u] /\ rootDepth'[u] = rootDepth[u]
      BY <1>1, <1>4 DEF AtOp
    <3>3. jobFunc'[Main] = "none"
      BY <1>1, <1>4
    <3> QED BY <1>3, <3>1, <3>2, <3>3 DEF DepthsOK
  <2>4. CountOK(a, h)'
    BY <1>5, <1>8 DEF CountOK, One
  <2> QED BY <2>2, <2>3, <2>4
<1> QED BY <1>1, <1>2, <1>9, <1>10, <1>11, <1>12, <1>13, <1>14

\* A thread goes from one part of an iteration to the next.
LEMMA IterationSafe ==
  ASSUME NEW a \in Views, NEW m \in Hunts, Safe(a, m), NEW t \in Workers,
         NEW k \in {"iterate", "depth"}, NEW j \in {"iterate", "depth"},
         AtOp(t, k), prog' = [prog EXCEPT ![t] = Op(j) \o Tail(@)],
         UNCHANGED <<idleVars, request, limits, noMoves, listVars, sessVars>>, EngineTypeOK',
         rootDepth'[t] < MaxPly, \A u \in Workers \ {t} : rootDepth'[u] = rootDepth[u]
  PROVE  Safe(a, m)'
<1> USE DEF Safe
<1>0. t \in Actors /\ UCI \in Actors /\ UCI # t /\ Main \in Workers /\ j \in Kinds /\ k \notin Plain /\ j \notin Plain
  BY ThreadsAssumption DEF Workers, Actors, UCI, Main, Kinds, SearchKinds, Plain
<1>1. prog[t] # <<>> /\ Head(prog[t])[1] = k /\ prog \in [Actors -> Seq(Operations)] /\ Tail(prog[t]) \in Seq(Operations)
  <2>1. prog[t] # <<>> /\ Head(prog[t])[1] = k /\ prog \in [Actors -> Seq(Operations)]
    BY DEF AtOp, TypesOK
  <2>2. prog[t] \in Seq(Operations)
    BY <1>0, <2>1
  <2> QED BY <2>1, <2>2
<1>2. /\ Op(j) \o Tail(prog[t]) \in Seq(Operations) /\ Op(j) \o Tail(prog[t]) # <<>>
      /\ Head(Op(j) \o Tail(prog[t]))[1] = j /\ Tail(Op(j) \o Tail(prog[t])) = Tail(prog[t])
  BY <1>0, <1>1, OpIs
<1>3. /\ prog'[t] = Op(j) \o Tail(prog[t]) /\ prog' \in [Actors -> Seq(Operations)]
      /\ \A u \in Actors : u # t => prog'[u] = prog[u]
  BY <1>0, <1>1, <1>2
<1>4. /\ UNCHANGED <<pc, searching, exit, jobFunc, worker, cv, size>>
      /\ UNCHANGED <<states, setupStates, posList, rootList, nextList>> /\ UNCHANGED <<uci, goes, bestmoves>>
  BY DEF idleVars, listVars, sessVars
<1>5. pc[t] = "running" /\ jobFunc[t] = "none" /\ ~exit[t] /\ searching[t]
  BY <1>1 DEF ThreadsOK
<1>6. \A u \in Workers : u \in Actors /\ (u # t => prog'[u] = prog[u])
  BY <1>3 DEF Actors
<1>7. t # Main => prog[t] = Op(k) /\ prog'[t] = Op(j)
  <2>1. ASSUME t # Main
        PROVE  prog[t] = Op(k) /\ prog'[t] = Op(j)
    <3>1. PICK i \in Plain \cup {"iterate", "depth"} : prog[t] = Op(i)
      BY <1>1, <2>1 DEF SearchOK
    <3>2. i = k /\ Tail(prog[t]) = <<>>
      BY <1>1, <3>1, OpIs
    <3>3. Op(j) \in Seq(Operations)
      BY <1>0, OpIs
    <3>4. Op(j) \o <<>> = Op(j)
      BY <3>3
    <3> QED BY <1>3, <3>1, <3>2, <3>4
  <2> QED BY <2>1
<1>8. t = Main => m.phase = "start" /\ m.told = 0 /\ HLeads(prog'[Main], m)
  <2>1. ASSUME t = Main
        PROVE  m.phase = "start" /\ m.told = 0 /\ HLeads(prog'[Main], m)
    <3> DEFINE op == Head(prog[Main])
               nx == <<j, 0, "">>
    <3>1. /\ m.phase # "end" /\ HMay(m, op) /\ HLeads(Tail(prog[Main]), HAfter(m, op)) /\ op[1] = k
      BY <1>0, <1>1, <2>1, MainActs
    <3>2. m.phase = "start" /\ m.told = 0 /\ HAfter(m, op) = Hunt(m.n, 0, m.out, "hold")
      BY <3>1 DEF HMay, HAfter
    <3>3. nx[1] = j /\ nx \in Operations
      BY <1>0, OpTypes DEF Kinds
    <3> HIDE DEF nx
    <3>4. HMay(m, nx) /\ HAfter(m, nx) = HAfter(m, op)
      BY <3>2, <3>3 DEF HMay, HAfter
    <3>5. HLeads(<<nx>> \o Tail(prog[Main]), m)
      BY <3>1, <3>3, <3>4, HLeadsFrom
    <3>6. <<nx>> = Op(j)
      BY DEF nx, Op
    <3> QED BY <1>3, <2>1, <3>2, <3>5, <3>6
  <2> QED BY <2>1
<1>9. t = Main => \A i \in Plain : prog[t] # Op(i) /\ prog'[t] # Op(i)
  BY <1>1, <1>2, <1>3, <1>0, OpIs
<1>10. \A u \in Workers : \A i \in Plain : Post(u, i)' <=> Post(u, i)
  <2>1. \A i \in Plain : prog[t] # Op(i) /\ prog'[t] # Op(i)
    BY <1>0, <1>1, <1>2, <1>3, OpIs
  <2> QED BY <1>4, <1>6, <2>1 DEF Post
<1>11. Busy(m)' = Busy(m)
  BY <1>4 DEF Busy
<1>12. TypesOK' /\ ThreadsOK'
  <2>1. ThreadsOK'
    BY <1>4, <1>5, <1>6 DEF ThreadsOK
  <2> QED BY <1>3, <2>1 DEF TypesOK
<1>13. PoolOK(a)'
  <2>1. "construct" \in Plain
    BY DEF Plain
  <2> QED BY <1>4, <1>10, <2>1 DEF PoolOK
<1>14. SearchOK(a, m)'
  <2>1. ASSUME NEW u \in Workers \ {Main}
        PROVE  /\ searching'[u] /\ ~exit'[u] => u \in a.owed \cup m.out
               /\ Post(u, "search")' \/ prog'[u] = Op("iterate") \/ prog'[u] = Op("depth") => u \in m.out
               /\ prog'[u] = <<>> \/ \E i \in Plain \cup {"iterate", "depth"} : prog'[u] = Op(i)
    <3>1. CASE u = t
      <4>1. t # Main /\ t \in m.out
        BY <1>7, <2>1, <3>1 DEF SearchOK
      <4> QED BY <1>7, <3>1, <4>1
    <3>2. CASE u # t
      <4>1. prog'[u] = prog[u] /\ Post(u, "search")' = Post(u, "search")
        BY <1>4, <1>6, <3>2 DEF Post
      <4> QED BY <1>4, <4>1 DEF SearchOK
    <3> QED BY <3>1, <3>2
  <2>2. /\ m.phase = "end" => m.out = {} /\ (prog'[Main] = <<>> \/ \E i \in Plain : prog'[Main] = Op(i))
        /\ m.phase # "end" => HLeads(prog'[Main], m)
    <3>1. CASE t = Main
      BY <1>8, <3>1
    <3>2. CASE t # Main
      BY <1>0, <1>6, <3>2 DEF SearchOK
    <3> QED BY <3>1, <3>2
  <2> QED BY <1>4, <1>11, <2>1, <2>2 DEF SearchOK
<1>15. WaitersOK(a, m)'
  <2>1. \A u \in Workers : \A c \in cv[u] \ {u} : prog'[c] = prog[c]
    <3>1. SUFFICES ASSUME NEW u \in Workers, t \in cv[u] \ {u}
                   PROVE  FALSE
      BY <1>3, OneBlocked
    <3>2. AtOp(t, "run") \/ AtOp(t, "wait")
      BY <3>1, OneBlocked
    <3> QED BY <1>1, <3>2 DEF AtOp
  <2> QED BY <1>4, <2>1 DEF WaitersOK, AtOp, Target
<1>16. ListsOK(a, m)'
  <2>1. Busy(m)
    <3>1. CASE t = Main
      BY <1>8, <3>1 DEF Busy
    <3>2. CASE t # Main
      <4>1. t \in m.out
        BY <1>7, <3>2 DEF SearchOK
      <4> QED BY <4>1 DEF SearchOK, Busy
    <3> QED BY <3>1, <3>2
  <2>2. a.setup = {} /\ limits' = limits /\ request' = request
    BY <2>1, ViewFields DEF Coherent, SearchOK
  <2> QED BY <1>4, <1>11, <2>2 DEF ListsOK
<1>17. DepthsOK(m)'
  <2>1. \A u \in Workers : u # t => (AtOp(u, "iterate")' <=> AtOp(u, "iterate")) /\ (AtOp(u, "depth")' <=> AtOp(u, "depth"))
    BY <1>6 DEF AtOp
  <2>2. \A u \in 1 .. size : u \in Workers
    BY ThreadsAssumption DEF TypesOK, EngineTypeOK, Workers
  <2>3. \A u \in Workers : (jobFunc'[u] = "search" /\ ~exit'[u]) \/ AtOp(u, "iterate")' \/ AtOp(u, "depth")' =>
           rootDepth'[u] < MaxPly
    BY <1>4, <2>1 DEF DepthsOK
  <2>4. (jobFunc[Main] = "search" /\ ~exit[Main]) \/ m.phase = "start" =>
          \A u \in (1 .. size) \ m.out : rootDepth'[u] < MaxPly
    BY <2>2 DEF DepthsOK
  <2> QED BY <1>4, <2>3, <2>4 DEF DepthsOK
<1>18. CountOK(a, m)' /\ ProgOK(a)'
  <2>1. prog'[UCI] = prog[UCI]
    BY <1>0, <1>3
  <2> QED BY <1>4, <1>11, <2>1 DEF CountOK, ProgOK
<1> QED BY <1>12, <1>13, <1>14, <1>15, <1>16, <1>17, <1>18

\* A thread other than the main one is done with its search.
LEMMA OtherEnds ==
  ASSUME NEW a \in Views, NEW m \in Hunts, Safe(a, m), NEW t \in Workers \ {Main},
         AtOp(t, "iterate"), Pop(t),
         UNCHANGED <<idleVars, request, limits, noMoves, listVars, sessVars>>, EngineTypeOK',
         \A u \in Workers \ {t} : rootDepth'[u] = rootDepth[u]
  PROVE  Safe(a, m)'
<1> USE DEF Safe
<1>0. t \in Actors /\ UCI \in Actors /\ UCI # t /\ Main \in Workers /\ Main # t
  BY ThreadsAssumption DEF Workers, Actors, UCI, Main
<1>1. prog[t] = Op("iterate") /\ prog \in [Actors -> Seq(Operations)]
  <2>1. prog[t] # <<>> /\ Head(prog[t])[1] = "iterate" /\ prog \in [Actors -> Seq(Operations)]
    BY DEF AtOp, TypesOK
  <2>2. PICK i \in Plain \cup {"iterate", "depth"} : prog[t] = Op(i)
    BY <2>1 DEF SearchOK
  <2> QED BY <2>1, <2>2, OpIs
<1>2. prog' = [prog EXCEPT ![t] = <<>>]
  <2>1. Tail(prog[t]) = <<>>
    BY <1>1, OpIs
  <2>2. prog' = [prog EXCEPT ![t] = Tail(prog[t])]
    BY <1>0, <1>1 DEF Pop
  <2> QED BY <2>1, <2>2
<1>3. /\ prog'[t] = <<>> /\ prog' \in [Actors -> Seq(Operations)]
      /\ \A u \in Actors : u # t => prog'[u] = prog[u]
  <2>1. <<>> \in Seq(Operations)
    OBVIOUS
  <2> QED BY <1>0, <1>1, <1>2, <2>1
<1>4. /\ UNCHANGED <<pc, searching, exit, jobFunc, worker, cv, size>>
      /\ UNCHANGED <<states, setupStates, posList, rootList, nextList>> /\ UNCHANGED <<uci, goes, bestmoves>>
  BY DEF idleVars, listVars, sessVars
<1>5. pc[t] = "running" /\ jobFunc[t] = "none" /\ ~exit[t] /\ searching[t]
  BY <1>0, <1>1, OpIs DEF ThreadsOK
<1>6. \A u \in Workers : u \in Actors /\ (u # t => prog'[u] = prog[u])
  BY <1>3 DEF Actors
<1>7. t \in m.out
  BY <1>1 DEF SearchOK
<1>8. \A u \in Workers : \A i \in Plain \cup {"search"} : Post(u, i)' <=> Post(u, i)
  <2>1. \A i \in Plain \cup {"search"} : prog[t] # Op(i) /\ prog'[t] # Op(i)
    BY <1>1, <1>3, OpIs DEF Plain
  <2> QED BY <1>4, <1>6, <2>1 DEF Post
<1>9. Busy(m)' = Busy(m)
  BY <1>4 DEF Busy
<1>10. TypesOK' /\ ThreadsOK'
  <2>1. ThreadsOK'
    BY <1>3, <1>4, <1>6 DEF ThreadsOK
  <2> QED BY <1>3, <2>1 DEF TypesOK
<1>11. PoolOK(a)'
  <2>1. "construct" \in Plain
    BY DEF Plain
  <2> QED BY <1>4, <1>8, <2>1 DEF PoolOK
<1>12. SearchOK(a, m)'
  <2>1. ASSUME NEW u \in Workers \ {Main}
        PROVE  /\ searching'[u] /\ ~exit'[u] => u \in a.owed \cup m.out
               /\ Post(u, "search")' \/ prog'[u] = Op("iterate") \/ prog'[u] = Op("depth") => u \in m.out
               /\ prog'[u] = <<>> \/ \E i \in Plain \cup {"iterate", "depth"} : prog'[u] = Op(i)
    <3>1. CASE u = t
      BY <1>3, <1>7, <3>1
    <3>2. CASE u # t
      BY <1>4, <1>6, <1>8, <3>2 DEF SearchOK
    <3> QED BY <3>1, <3>2
  <2>2. prog'[Main] = prog[Main]
    BY <1>0, <1>6
  <2> QED BY <1>4, <1>9, <2>1, <2>2 DEF SearchOK
<1>13. WaitersOK(a, m)'
  <2>1. \A u \in Workers : \A c \in cv[u] \ {u} : prog'[c] = prog[c]
    <3>1. SUFFICES ASSUME NEW u \in Workers, t \in cv[u] \ {u}
                   PROVE  FALSE
      BY <1>3, OneBlocked
    <3>2. AtOp(t, "run") \/ AtOp(t, "wait")
      BY <3>1, OneBlocked
    <3> QED BY <3>2 DEF AtOp
  <2> QED BY <1>4, <2>1 DEF WaitersOK, AtOp, Target
<1>14. ListsOK(a, m)'
  <2>1. Busy(m)
    BY <1>7 DEF SearchOK, Busy
  <2>2. a.setup = {} /\ limits' = limits /\ request' = request
    BY <2>1, ViewFields DEF Coherent, SearchOK
  <2> QED BY <1>4, <1>9, <2>2 DEF ListsOK
<1>15. DepthsOK(m)'
  <2>1. \A u \in Workers : u # t => (AtOp(u, "iterate")' <=> AtOp(u, "iterate")) /\ (AtOp(u, "depth")' <=> AtOp(u, "depth"))
    BY <1>6 DEF AtOp
  <2>2. \A u \in 1 .. size : u \in Workers
    BY ThreadsAssumption DEF TypesOK, EngineTypeOK, Workers
  <2>3. \A u \in Workers : (jobFunc'[u] = "search" /\ ~exit'[u]) \/ AtOp(u, "iterate")' \/ AtOp(u, "depth")' =>
           rootDepth'[u] < MaxPly
    BY <1>3, <1>4, <1>5, <2>1 DEF DepthsOK, AtOp
  <2>4. (jobFunc[Main] = "search" /\ ~exit[Main]) \/ m.phase = "start" =>
          \A u \in (1 .. size) \ m.out : rootDepth'[u] < MaxPly
    BY <1>7, <2>2 DEF DepthsOK
  <2> QED BY <1>4, <2>3, <2>4 DEF DepthsOK
<1>16. CountOK(a, m)' /\ ProgOK(a)'
  <2>1. prog'[UCI] = prog[UCI]
    BY <1>0, <1>3
  <2> QED BY <1>4, <1>9, <2>1 DEF CountOK, ProgOK
<1> QED BY <1>10, <1>11, <1>12, <1>13, <1>14, <1>15, <1>16

LEMMA DeepenSafe ==
  ASSUME NEW a \in Views, NEW m \in Hunts, Safe(a, m), NEW t \in Workers, Deepen(t)
  PROVE  \E h \in Hunts : Safe(a, h)'
<1>1. /\ AtOp(t, "iterate") /\ rootDepth' = [rootDepth EXCEPT ![t] = @ + 1]
      /\ prog' = [prog EXCEPT ![t] = IF MayDeepen(t) THEN Op("depth") \o Tail(@) ELSE Tail(@)]
      /\ UNCHANGED <<idleVars, request, limits, noMoves, listVars, sessVars>>
      /\ UNCHANGED <<flagVars, completedDepth, uci, goes, bestmoves>>
  BY DEF Deepen, sessVars
<1>2. rootDepth \in [Workers -> 0 .. MaxPly] /\ rootDepth[t] < MaxPly /\ prog \in [Actors -> Seq(Operations)]
  BY <1>1 DEF Safe, TypesOK, EngineTypeOK, DepthsOK
<1>3. rootDepth'[t] = rootDepth[t] + 1 /\ rootDepth' \in [Workers -> 0 .. MaxPly]
      /\ \A u \in Workers \ {t} : rootDepth'[u] = rootDepth[u]
  BY <1>1, <1>2, PlyAssumption
<1>4. EngineTypeOK'
  BY <1>1, <1>3 DEF Safe, TypesOK, EngineTypeOK, idleVars, flagVars, sessVars
<1>5. CASE MayDeepen(t)
  <2>1. rootDepth'[t] < MaxPly
    BY <1>3, <1>5 DEF MayDeepen
  <2>2. prog' = [prog EXCEPT ![t] = Op("depth") \o Tail(@)]
    BY <1>1, <1>5
  <2>3. "iterate" \in {"iterate", "depth"} /\ "depth" \in {"iterate", "depth"}
    OBVIOUS
  <2>4. Safe(a, m)'
    BY <1>1, <1>3, <1>4, <2>1, <2>2, <2>3, IterationSafe
  <2> QED BY <2>4
<1>6. CASE ~MayDeepen(t)
  <2>1. Pop(t)
    BY <1>1, <1>6 DEF Pop
  <2>2. CASE t = Main
    <3> DEFINE k == "iterate"
    <3>1. /\ k \in {"iterate", "hold", "raise", "bestmove"} /\ k # "bestmove" /\ AtOp(Main, k) /\ Pop(Main)
          /\ bestmoves' = bestmoves + (IF k = "bestmove" THEN 1 ELSE 0)
      BY <1>1, <2>1, <2>2, BoundsAssumption DEF Safe, TypesOK, EngineTypeOK
    <3> HIDE DEF k
    <3> QED BY <1>1, <1>3, <1>4, <2>2, <3>1, MainGoesOn
  <2>3. CASE t # Main
    <3>1. Safe(a, m)'
      BY <1>1, <1>3, <1>4, <2>1, <2>3, OtherEnds
    <3> QED BY <3>1
  <2> QED BY <2>2, <2>3
<1> QED BY <1>5, <1>6

LEMMA EndIterationSafe ==
  ASSUME NEW a \in Views, NEW m \in Hunts, Safe(a, m), NEW t \in Workers, EndIteration(t)
  PROVE  Safe(a, m)'
<1>1. /\ AtOp(t, "depth") /\ prog' = [prog EXCEPT ![t] = Op("iterate") \o Tail(@)]
      /\ UNCHANGED <<idleVars, request, limits, noMoves, listVars, sessVars>>
      /\ UNCHANGED <<abortedSearch, ponder, rootDepth>>
  BY DEF EndIteration
<1>2. rootDepth \in [Workers -> 0 .. MaxPly] /\ rootDepth[t] < MaxPly /\ completedDepth \in [Workers -> 0 .. MaxPly]
      /\ stop \in BOOLEAN /\ stopOnPonderhit \in BOOLEAN
  BY <1>1 DEF Safe, TypesOK, EngineTypeOK, DepthsOK
<1>3. completedDepth' \in [Workers -> 0 .. MaxPly] /\ stop' \in BOOLEAN /\ stopOnPonderhit' \in BOOLEAN
  BY <1>2 DEF EndIteration
<1>4. EngineTypeOK'
  BY <1>1, <1>3 DEF Safe, TypesOK, EngineTypeOK, idleVars, sessVars
<1>5. "iterate" \in {"iterate", "depth"} /\ "depth" \in {"iterate", "depth"}
  OBVIOUS
<1>6. rootDepth'[t] < MaxPly /\ \A u \in Workers \ {t} : rootDepth'[u] = rootDepth[u]
  BY <1>1, <1>2
<1> QED BY <1>1, <1>4, <1>5, <1>6, IterationSafe

\* The main thread: Hold, RaiseStop and BestMove.
LEMMA MainStepSafe ==
  ASSUME NEW a \in Views, NEW m \in Hunts, Safe(a, m), MainStep
  PROVE  \E h \in Hunts : Safe(a, h)'
<1>1. PICK k \in {"hold", "raise", "bestmove"} :
        /\ AtOp(Main, k) /\ Pop(Main) /\ (k = "bestmove" <=> BestMove) /\ (k = "hold" <=> Hold) /\ (k = "raise" <=> RaiseStop)
  <2>1. CASE Hold
    BY <2>1 DEF Hold, RaiseStop, BestMove, AtOp
  <2>2. CASE RaiseStop
    BY <2>2 DEF Hold, RaiseStop, BestMove, AtOp
  <2>3. CASE BestMove
    BY <2>3 DEF Hold, RaiseStop, BestMove, AtOp
  <2> QED BY <2>1, <2>2, <2>3 DEF MainStep
<1>2. /\ UNCHANGED <<idleVars, request, limits, noMoves, listVars, uci, goes>>
      /\ UNCHANGED <<rootDepth, abortedSearch, stopOnPonderhit, ponder, completedDepth, others, released>>
      /\ k = "bestmove" => UNCHANGED <<flagVars, completedDepth, others, released>>
      /\ stop' \in {stop, TRUE} /\ (k = "bestmove" => bestmoves' = bestmoves + 1) /\ (k # "bestmove" => bestmoves' = bestmoves)
  <2>1. CASE k = "bestmove"
    BY <1>1, <2>1 DEF BestMove, goVars, flagVars
  <2>2. CASE k = "hold"
    BY <1>1, <2>2 DEF Hold, goVars, flagVars, sessVars
  <2>3. CASE k = "raise"
    BY <1>1, <2>3 DEF RaiseStop, goVars, sessVars
  <2> QED BY <2>1, <2>2, <2>3
<1>3. k # "bestmove" => EngineTypeOK'
  BY <1>2 DEF Safe, TypesOK, EngineTypeOK, idleVars
<1>4. rootDepth' \in [Workers -> 0 .. MaxPly] /\ \A u \in Workers \ {Main} : rootDepth'[u] = rootDepth[u]
  BY <1>2 DEF Safe, TypesOK, EngineTypeOK
<1>5. bestmoves' = bestmoves + (IF k = "bestmove" THEN 1 ELSE 0)
  BY <1>2, BoundsAssumption DEF Safe, TypesOK, EngineTypeOK
<1>6. k \in {"iterate", "hold", "raise", "bestmove"}
  OBVIOUS
<1> QED BY <1>1, <1>2, <1>3, <1>4, <1>5, <1>6, MainGoesOn

\* Steps that change flags only, or the lists that no search reads.
LEMMA QuietSafe ==
  ASSUME NEW a \in Views, NEW m \in Hunts, Safe(a, m),
         UNCHANGED <<idleVars, prog, rootDepth, goes, bestmoves, uci>>, EngineTypeOK', ListsOK(a, m)'
  PROVE  Safe(a, m)'
<1> USE DEF Safe
<1>1. UNCHANGED <<pc, searching, exit, jobFunc, worker, cv, size>> /\ prog' = prog /\ uci' = uci
  BY DEF idleVars
<1>2. TypesOK' /\ ThreadsOK' /\ PoolOK(a)'
  BY <1>1 DEF TypesOK, ThreadsOK, PoolOK, Post
<1>3. SearchOK(a, m)' /\ WaitersOK(a, m)'
  BY <1>1 DEF SearchOK, Post, Busy, WaitersOK, AtOp, Target
<1>4. DepthsOK(m)' /\ CountOK(a, m)' /\ ProgOK(a)'
  BY <1>1 DEF DepthsOK, AtOp, CountOK, Busy, ProgOK
<1> QED BY <1>2, <1>3, <1>4

LEMMA FlagsSafe ==
  ASSUME NEW a \in Views, NEW m \in Hunts, Safe(a, m), CheckTime \/ FailLow \/ CmdStop \/ CmdPonderhit
  PROVE  Safe(a, m)'
<1>1. /\ UNCHANGED <<idleVars, prog, goVars, listVars, uci, goes, bestmoves, others>>
      /\ stop' \in {stop, TRUE} /\ abortedSearch' \in {abortedSearch, TRUE}
      /\ stopOnPonderhit' \in {stopOnPonderhit, FALSE} /\ ponder' \in {ponder, FALSE} /\ released' \in BOOLEAN
  <2>1. released \in BOOLEAN
    BY DEF Safe, TypesOK, EngineTypeOK
  <2>2. CASE CheckTime \/ FailLow \/ CmdStop
    BY <2>1, <2>2 DEF CheckTime, FailLow, CmdStop, sessVars
  <2>3. CASE CmdPonderhit
    <3>1. released' \in BOOLEAN
      BY <2>3 DEF CmdPonderhit
    <3> QED BY <2>3, <3>1 DEF CmdPonderhit
  <2> QED BY <2>2, <2>3
<1>2. EngineTypeOK'
  <2>1. stop \in BOOLEAN /\ abortedSearch \in BOOLEAN /\ stopOnPonderhit \in BOOLEAN /\ ponder \in BOOLEAN
    BY DEF Safe, TypesOK, EngineTypeOK
  <2>2. stop' \in BOOLEAN /\ abortedSearch' \in BOOLEAN /\ stopOnPonderhit' \in BOOLEAN /\ ponder' \in BOOLEAN
    BY <1>1, <2>1
  <2> QED BY <1>1, <2>2 DEF Safe, TypesOK, EngineTypeOK, idleVars, goVars
<1>3. ListsOK(a, m)'
  BY <1>1 DEF Safe, ListsOK, Ready, Post, Busy, idleVars, goVars, listVars
<1>4. rootDepth' = rootDepth
  BY <1>1 DEF goVars
<1> QED BY <1>1, <1>2, <1>3, <1>4, QuietSafe

LEMMA PositionSafe ==
  ASSUME NEW a \in Views, NEW m \in Hunts, Safe(a, m), CmdPosition
  PROVE  Safe(a, m)'
<1>1. /\ UNCHANGED <<idleVars, prog, flagVars, goVars, setupStates, rootList, uci, goes, bestmoves, released>>
      /\ states' = nextList /\ posList' = nextList /\ nextList' = nextList + 1 /\ others' = others + 1 /\ others < MaxOther
  BY DEF CmdPosition
<1>2. EngineTypeOK'
  BY <1>1, BoundsAssumption DEF Safe, TypesOK, EngineTypeOK, idleVars, flagVars, goVars
<1>3. ListsOK(a, m)'
  BY <1>1 DEF Safe, ListsOK, Ready, Post, Busy, idleVars, goVars
<1>4. rootDepth' = rootDepth
  BY <1>1 DEF goVars
<1> QED BY <1>1, <1>2, <1>3, <1>4, QuietSafe

\* A command that gives the UCI thread a program: b is what it then knows of the pool.
LEMMA CommandSafe ==
  ASSUME NEW a \in Views, NEW m \in Hunts, Safe(a, m), Reading, NEW p, NEW b \in Views,
         AtRest(a, TRUE) => Leads(p, b, uci' = "loop"),
         b.n = a.n, b.alive = a.alive, b.made = a.made, b.leaving = a.leaving, b.owed = a.owed, b.setup = {},
         b.told = 0, b.free = a.free, b.go \in {0, 1}, b.go = 0 => request' = request,
         prog' = [prog EXCEPT ![UCI] = p],
         UNCHANGED <<idleVars, limits, rootDepth, listVars, bestmoves>>, EngineTypeOK', goes' = goes + b.go
  PROVE  Safe(b, m)'
<1> USE DEF Safe
<1>0. /\ UNCHANGED <<pc, searching, exit, jobFunc, worker, cv, size>>
      /\ UNCHANGED <<states, setupStates, posList, rootList, nextList>>
  BY DEF idleVars, listVars
<1>1. AtRest(a, TRUE)
  BY LeadsOn DEF Reading, ProgOK
<1>2. a.told = 0 /\ a.go = 0 /\ a.owed = {} /\ a.leaving = {} /\ a.setup = {}
  BY <1>1, ViewFields DEF AtRest, Coherent
<1>3. Leads(p, b, uci' = "loop") /\ p \in Seq(Operations)
  BY <1>1 DEF Leads
<1>4. /\ prog' \in [Actors -> Seq(Operations)] /\ prog'[UCI] = p /\ \A u \in Actors : u # UCI => prog'[u] = prog[u]
  <2>1. UCI \in Actors /\ prog \in [Actors -> Seq(Operations)]
    BY DEF Actors, TypesOK
  <2> QED BY <1>3, <2>1
<1>5. Main \in Workers /\ \A u \in Workers : u # UCI /\ prog'[u] = prog[u]
  BY <1>4, ThreadsAssumption DEF Actors, Workers, UCI, Main
<1>6. \A u \in Workers : \A k : Post(u, k)' <=> Post(u, k)
  BY <1>0, <1>5 DEF Post
<1>7. Busy(m)' = Busy(m)
  BY <1>0 DEF Busy
<1>8. TypesOK' /\ ThreadsOK'
  BY <1>0, <1>4, <1>5 DEF TypesOK, ThreadsOK
<1>9. PoolOK(b)'
  BY <1>0, <1>6 DEF PoolOK
<1>10. SearchOK(b, m)'
  <2>1. ASSUME NEW u \in Workers \ {Main}
        PROVE  /\ searching'[u] /\ ~exit'[u] => u \in b.owed \cup m.out
               /\ Post(u, "search")' \/ prog'[u] = Op("iterate") \/ prog'[u] = Op("depth") => u \in m.out
               /\ prog'[u] = <<>> \/ \E k \in Plain \cup {"iterate", "depth"} : prog'[u] = Op(k)
    <3>1. prog'[u] = prog[u] /\ Post(u, "search")' = Post(u, "search")
      BY <1>0, <1>5 DEF Post
    <3> QED BY <1>0, <3>1 DEF SearchOK
  <2> QED BY <1>0, <1>5, <1>7, <2>1 DEF SearchOK
<1>11. WaitersOK(b, m)'
  <2>1. \A u \in Workers : \A c \in cv[u] \ {u} : prog'[c] = prog[c]
    <3>1. SUFFICES ASSUME NEW u \in Workers, UCI \in cv[u] \ {u}
                   PROVE  FALSE
      BY <1>4, OneBlocked
    <3>2. AtOp(UCI, "run") \/ AtOp(UCI, "wait")
      BY <3>1, OneBlocked
    <3> QED BY <3>2 DEF AtOp, Reading
  <2> QED BY <1>0, <1>2, <2>1 DEF WaitersOK, AtOp, Target
<1>12. ListsOK(b, m)'
  BY <1>0, <1>2, <1>7 DEF ListsOK
<1>13. DepthsOK(m)' /\ CountOK(b, m)'
  <2>1. DepthsOK(m)'
    BY <1>0, <1>5 DEF DepthsOK, AtOp
  <2>2. goes \in Nat /\ bestmoves \in Nat /\ goes = bestmoves + One(Busy(m))
    BY <1>2, BoundsAssumption DEF CountOK, One, TypesOK, EngineTypeOK
  <2>3. One(b.go > 0) = b.go
    BY DEF One
  <2>4. CountOK(b, m)'
    BY <1>7, <2>2, <2>3 DEF CountOK, One
  <2> QED BY <2>1, <2>4
<1>14. ProgOK(b)'
  BY <1>3, <1>4 DEF ProgOK
<1> QED BY <1>8, <1>9, <1>10, <1>11, <1>12, <1>13, <1>14

LEMMA GoSafe ==
  ASSUME NEW a \in Views, NEW m \in Hunts, Safe(a, m), NEW l \in LimitSet, CmdGo(l)
  PROVE  \E b \in Views : Safe(b, m)'
<1>1. /\ Reading /\ goes < MaxGo /\ request' = l /\ prog' = [prog EXCEPT ![UCI] = StartThinking(size)]
      /\ goes' = goes + 1 /\ released' = FALSE /\ uci' = "loop" /\ uci = "loop"
      /\ UNCHANGED <<idleVars, limits, rootDepth, listVars, bestmoves>>
      /\ UNCHANGED <<flagVars, noMoves, completedDepth, others>>
  BY DEF CmdGo, Reading
<1>2. AtRest(a, TRUE)
  BY <1>1, LeadsOn DEF Reading, Safe, ProgOK
<1>3. a.n = size /\ Leads(StartThinking(size), Pool(a.n, {}, {}, a.free, 1), TRUE)
  BY <1>2, CommandLeads DEF Safe, PoolOK
<1>4. PICK b \in Views : b = Pool(a.n, {}, {}, a.free, 1)
  BY <1>3 DEF Leads
<1>5. /\ b.n = a.n /\ b.alive = a.alive /\ b.made = a.made /\ b.leaving = a.leaving /\ b.owed = a.owed /\ b.setup = {}
      /\ b.told = 0 /\ b.free = a.free /\ b.go = 1
  BY <1>2, <1>4 DEF Pool, View, AtRest
<1>6. EngineTypeOK'
  <2>1. l \in Limits
    BY LimitsAssumption
  <2>2. goes' \in 0 .. MaxGo /\ bestmoves' \in 0 .. goes'
    BY <1>1, BoundsAssumption DEF Safe, TypesOK, EngineTypeOK
  <2> QED BY <1>1, <2>1, <2>2 DEF Safe, TypesOK, EngineTypeOK, idleVars, flagVars
<1>7. Leads(StartThinking(size), b, uci' = "loop")
  <2>1. (uci' = "loop") = TRUE
    BY <1>1
  <2> QED BY <1>3, <1>4, <2>1
<1>8. Safe(b, m)'
  <2> DEFINE p == StartThinking(size)
  <2>1. b.go \in {0, 1} /\ (b.go = 0 => request' = request) /\ goes' = goes + b.go
    BY <1>1, <1>5
  <2>2. prog' = [prog EXCEPT ![UCI] = p]
    BY <1>1
  <2>3. AtRest(a, TRUE) => Leads(p, b, uci' = "loop")
    BY <1>7
  <2> HIDE DEF p
  <2> QED BY <1>1, <1>5, <1>6, <2>1, <2>2, <2>3, CommandSafe
<1> QED BY <1>8

LEMMA RestSafe ==
  ASSUME NEW a \in Views, NEW m \in Hunts, Safe(a, m), Reading, NEW p,
         AtRest(a, TRUE) => Leads(p, a, uci' = "loop"), prog' = [prog EXCEPT ![UCI] = p],
         UNCHANGED <<idleVars, goVars, listVars, goes, bestmoves>>, EngineTypeOK'
  PROVE  Safe(a, m)'
<1>1. AtRest(a, TRUE)
  BY LeadsOn DEF Reading, Safe, ProgOK
<1>2. a.told = 0 /\ a.go = 0 /\ a.setup = {}
  BY <1>1, ViewFields DEF AtRest, Coherent
<1>3. goes' = goes + a.go /\ a.go \in {0, 1} /\ request' = request
      /\ UNCHANGED <<idleVars, limits, rootDepth, listVars, bestmoves>>
  BY <1>2, BoundsAssumption DEF goVars, Safe, TypesOK, EngineTypeOK
<1> QED BY <1>2, <1>3, CommandSafe

\* The commands that wait for the search and rebuild a part of the engine.
LEMMA BlockingSafe ==
  ASSUME NEW a \in Views, NEW m \in Hunts, Safe(a, m),
         CmdNewGame \/ (\E n \in Workers : CmdThreads(n)) \/ CmdNumaPolicy \/ CmdHash \/ CmdEvalFile
  PROVE  Safe(a, m)'
<1> DEFINE Programs == {SearchClear(size), WaitFor(Main) \o SetTTSize(size), WaitFor(Main) \o PoolClear(size)}
                         \cup {WaitFor(Main) \o ResizeThreads(size, n) : n \in Workers \cup {size}}
<1>1. PICK p \in Programs : Blocking(p)
  BY DEF CmdNewGame, CmdThreads, CmdNumaPolicy, CmdHash, CmdEvalFile
<1>2. /\ Reading /\ others < MaxOther /\ others' = others + 1 /\ prog' = [prog EXCEPT ![UCI] = p] /\ uci' = "loop"
      /\ UNCHANGED <<idleVars, flagVars, goVars, listVars, goes, bestmoves, released>> /\ uci' = uci
  BY <1>1 DEF Blocking, Reading
<1>3. EngineTypeOK'
  BY <1>2, BoundsAssumption DEF Safe, TypesOK, EngineTypeOK, idleVars, flagVars, goVars
<1>4. ASSUME AtRest(a, TRUE)
      PROVE  Leads(p, a, uci' = "loop")
  <2>1. a.n = size /\ size \in 1 .. MaxThreads /\ size \in Workers
    BY <1>4, CommandLeads DEF Safe, PoolOK, Workers
  <2>2. /\ Leads(SearchClear(size), a, TRUE) /\ Leads(WaitFor(Main) \o SetTTSize(size), a, TRUE)
        /\ Leads(WaitFor(Main) \o PoolClear(size), a, TRUE)
        /\ \A n \in Workers : Leads(WaitFor(Main) \o ResizeThreads(size, n), a, TRUE)
    BY <1>4, <2>1, CommandLeads
  <2>3. Leads(p, a, TRUE)
    BY <2>1, <2>2
  <2>4. (uci' = "loop") = TRUE
    BY <1>2
  <2> QED BY <2>3, <2>4
<1> HIDE DEF Programs
<1>5. UNCHANGED <<idleVars, goVars, listVars, goes, bestmoves>>
  BY <1>2
<1> QED BY <1>2, <1>3, <1>4, <1>5, RestSafe

LEMMA QuitSafe ==
  ASSUME NEW a \in Views, NEW m \in Hunts, Safe(a, m), CmdQuit
  PROVE  Safe(a, m)'
<1> DEFINE p == TearDown(size)
<1>1. /\ Reading /\ stop' = TRUE /\ released' = TRUE /\ uci' = "quit" /\ prog' = [prog EXCEPT ![UCI] = p]
      /\ UNCHANGED <<idleVars, goVars, listVars, goes, bestmoves>>
      /\ UNCHANGED <<abortedSearch, stopOnPonderhit, ponder, others>>
  BY DEF CmdQuit
<1>2. EngineTypeOK'
  BY <1>1 DEF Safe, TypesOK, EngineTypeOK, idleVars, goVars
<1>3. ASSUME AtRest(a, TRUE)
      PROVE  Leads(p, a, uci' = "loop")
  <2>1. Leads(p, a, FALSE)
    BY <1>3, CommandLeads DEF Safe, PoolOK
  <2>2. (uci' = "loop") = FALSE
    BY <1>1
  <2> HIDE DEF p
  <2> QED BY <2>1, <2>2
<1> HIDE DEF p
<1> QED BY <1>1, <1>2, <1>3, RestSafe

LEMMA ExitSafe ==
  ASSUME NEW a \in Views, NEW m \in Hunts, Safe(a, m), Exit
  PROVE  Safe(a, m)'
<1> USE DEF Safe
<1>1. /\ uci = "quit" /\ uci' = "done" /\ UNCHANGED <<idleVars, prog, flagVars, goVars, listVars, goes, bestmoves, others, released>>
      /\ UNCHANGED <<pc, searching, exit, jobFunc, worker, cv, size>>
  BY DEF Exit, idleVars
<1>2. EngineTypeOK'
  BY <1>1 DEF TypesOK, EngineTypeOK, flagVars, goVars
<1>3. TypesOK' /\ ThreadsOK' /\ PoolOK(a)'
  BY <1>1, <1>2 DEF TypesOK, ThreadsOK, PoolOK, Post
<1>4. SearchOK(a, m)' /\ WaitersOK(a, m)'
  BY <1>1 DEF SearchOK, Post, Busy, WaitersOK, AtOp, Target
<1>5. ListsOK(a, m)' /\ DepthsOK(m)' /\ CountOK(a, m)'
  BY <1>1 DEF ListsOK, Ready, Post, DepthsOK, AtOp, CountOK, Busy, goVars, listVars
<1>6. ProgOK(a)'
  <2>1. (uci = "loop") = (uci' = "loop")
    BY <1>1
  <2> QED BY <1>1, <2>1 DEF ProgOK
<1> QED BY <1>2, <1>3, <1>4, <1>5, <1>6

LEMMA StutterSafe ==
  ASSUME NEW a \in Views, NEW m \in Hunts, Safe(a, m), UNCHANGED vars
  PROVE  Safe(a, m)'
<1> USE DEF Safe
<1>1. /\ UNCHANGED <<idleVars, prog, flagVars, goVars, listVars, sessVars>>
      /\ UNCHANGED <<pc, searching, exit, jobFunc, worker, cv, size>>
  BY DEF vars, idleVars
<1>2. EngineTypeOK' /\ ListsOK(a, m)'
  BY <1>1 DEF TypesOK, EngineTypeOK, ListsOK, Ready, Post, Busy, flagVars, goVars, listVars, sessVars
<1>3. UNCHANGED <<rootDepth, goes, bestmoves, uci>>
  BY <1>1 DEF goVars, sessVars
<1> QED BY <1>1, <1>2, <1>3, QuietSafe

\* At the start the UCI thread builds the pool; nobody else exists.
LEMMA SafeInit ==
  ASSUME Init
  PROVE  SafeInv
<1> DEFINE a == Left(1, 0)
           p == ResizeThreads(0, 1)
           h == Ended(0)
<1>1. a \in Views /\ Leads(p, a, TRUE) /\ p \in Seq(Operations)
  BY StartLeads DEF Leads
<1>2. /\ pc = [t \in Workers |-> "absent"] /\ searching = [t \in Workers |-> FALSE] /\ exit = [t \in Workers |-> FALSE]
      /\ jobFunc = [t \in Workers |-> "none"] /\ worker = [t \in Workers |-> FALSE] /\ cv = [t \in Workers |-> {}]
      /\ size = 0 /\ prog = [c \in Actors |-> IF c = UCI THEN p ELSE <<>>]
      /\ states = 1 /\ setupStates = 0 /\ posList = 1 /\ nextList = 2 /\ rootList = [t \in Workers |-> 0]
      /\ uci = "loop" /\ goes = 0 /\ bestmoves = 0 /\ rootDepth = [t \in Workers |-> 0]
  BY DEF Init
<1>3. a.n = 0 /\ a.alive = {} /\ a.made = {} /\ a.leaving = {} /\ a.owed = {} /\ a.setup = {} /\ a.told = 0
      /\ a.free /\ a.go = 0
  BY DEF Left, View
<1>4. h \in Hunts /\ h.n = 0 /\ h.told = 0 /\ h.out = {} /\ h.phase = "end"
  <2> DEFINE s == "end"
             q == {}
  <2>1. 0 \in 0 .. MaxThreads /\ s \in Phases /\ q \in SUBSET (2 .. 0) /\ h = Hunt(0, 0, q, s)
    BY ThreadsAssumption DEF Phases, Ended
  <2>2. q = {} /\ s = "end"
    OBVIOUS
  <2> HIDE DEF s, q, h
  <2> QED BY <2>1, <2>2, HuntTypes
<1> HIDE DEF a, p, h
<1>5. /\ prog[UCI] = p /\ prog \in [Actors -> Seq(Operations)] /\ UCI \in Actors /\ Main \in Workers
      /\ \A t \in Workers : prog[t] = <<>> /\ t # 0
  <2>1. <<>> \in Seq(Operations) /\ UCI \in Actors /\ Main \in Workers /\ \A t \in Workers : t \in Actors /\ t # UCI /\ t # 0
    BY ThreadsAssumption DEF Actors, Workers, UCI, Main
  <2> QED BY <1>1, <1>2, <2>1
<1>6. \A t \in Workers : /\ pc[t] = "absent" /\ ~searching[t] /\ ~exit[t] /\ jobFunc[t] = "none" /\ ~worker[t]
                         /\ cv[t] = {} /\ rootDepth[t] = 0
  BY <1>2
<1>7. \A t \in Workers : /\ \A k : prog[t] # Op(k) /\ ~AtOp(t, k)
                         /\ \A k \in Plain \cup {"search"} : ~Post(t, k)
  BY <1>5, <1>6, OpIs DEF AtOp, Post, Plain
<1>8. ~Busy(h)
  BY <1>4, <1>5, <1>6 DEF Busy
<1>9. TypesOK
  <2>1. EngineTypeOK
    <3>1. request \in Limits /\ limits \in Limits
      BY DEF Init, Limits
    <3>2. /\ stop \in BOOLEAN /\ abortedSearch \in BOOLEAN /\ stopOnPonderhit \in BOOLEAN /\ ponder \in BOOLEAN
          /\ noMoves \in BOOLEAN /\ released \in BOOLEAN
      BY DEF Init
    <3>4. others = 0
      BY DEF Init
    <3>5. others \in 0 .. MaxOther /\ goes \in 0 .. MaxGo /\ bestmoves \in 0 .. goes /\ size \in 0 .. MaxThreads
      BY <1>2, <3>4, BoundsAssumption, ThreadsAssumption
    <3>3. rootDepth \in [Workers -> 0 .. MaxPly] /\ completedDepth \in [Workers -> 0 .. MaxPly]
      BY PlyAssumption DEF Init
    <3> QED BY <1>2, <3>1, <3>2, <3>3, <3>5 DEF EngineTypeOK
  <2> QED BY <1>5, <2>1 DEF TypesOK
<1>10. ThreadsOK
  BY <1>5, <1>6 DEF ThreadsOK
<1>11. PoolOK(a)
  BY <1>2, <1>3, <1>6, <1>7 DEF PoolOK
<1>12. SearchOK(a, h)
  BY <1>2, <1>3, <1>4, <1>5, <1>6, <1>7, <1>8 DEF SearchOK
<1>13. WaitersOK(a, h)
  BY <1>6 DEF WaitersOK
<1>14. ListsOK(a, h)
  BY <1>2, <1>3, <1>8 DEF ListsOK
<1>15. DepthsOK(h)
  BY <1>4, <1>5, <1>6, <1>7 DEF DepthsOK
<1>16. CountOK(a, h)
  BY <1>2, <1>3, <1>8 DEF CountOK, One
<1>17. ProgOK(a)
  <2>1. (uci = "loop") = TRUE
    BY <1>2
  <2> QED BY <1>1, <1>5, <2>1 DEF ProgOK
<1> QED BY <1>1, <1>4, <1>9, <1>10, <1>11, <1>12, <1>13, <1>14, <1>15, <1>16, <1>17 DEF SafeInv, Safe

\* Every step of the program keeps the invariant.
LEMMA SafeNext ==
  ASSUME SafeInv, [Next]_vars
  PROVE  SafeInv'
<1>1. PICK a \in Views, m \in Hunts : Safe(a, m)
  BY DEF SafeInv
<1>2. (\E b \in Views, h \in Hunts : Safe(b, h)') => SafeInv'
  BY DEF SafeInv
<1>3. SUFFICES \E b \in Views, h \in Hunts : Safe(b, h)'
  BY <1>2
<1>4. ASSUME NEW c \in Actors, ActorStep(c)
      PROVE  \E b \in Views, h \in Hunts : Safe(b, h)'
  <2>1. CASE Block(c)
    BY <1>1, <1>4, <2>1, BlockSafe
  <2>2. c = UCI \/ c = Main \/ Block(c)
    BY <1>1, <1>4, Acting DEF ActorStep, WaitForSearchFinished, RunCustomJob, NotifyJob
  <2>3. CASE c = UCI /\ ~Block(c)
    BY <1>1, <1>4, <2>3, UciWaitSafe, UciRunSafe, UciNotifySafe DEF ActorStep
  <2>4. CASE c = Main /\ ~Block(c)
    BY <1>1, <1>4, <2>4, MainWaitSafe, MainRunSafe, MainNotifySafe DEF ActorStep
  <2> QED BY <2>1, <2>2, <2>3, <2>4
<1>5. ASSUME NEW t \in Workers, ThreadStep(t) \/ EndIteration(t)
      PROVE  \E b \in Views, h \in Hunts : Safe(b, h)'
  <2>1. CASE IdleTop(t)
    BY <1>1, <2>1, IdleTopSafe
  <2>2. CASE Wake(t)
    <3>1. CASE t = Main /\ searching[t] /\ ~exit[t] /\ jobFunc[t] = "search"
      BY <1>1, <2>2, <3>1, WakeMainSafe
    <3>2. CASE ~(t = Main /\ searching[t] /\ ~exit[t] /\ jobFunc[t] = "search")
      BY <1>1, <2>2, <3>2, WakeSafe
    <3> QED BY <3>1, <3>2
  <2>3. CASE JobEnd(t)
    BY <1>1, <2>3, JobEndSafe
  <2>4. CASE PlainJob(t)
    BY <1>1, <2>4, PlainJobSafe
  <2>5. CASE SetupJob(t)
    BY <1>1, <2>5, SetupJobSafe
  <2>6. CASE Deepen(t)
    BY <1>1, <2>6, DeepenSafe
  <2>7. CASE EndIteration(t)
    BY <1>1, <2>7, EndIterationSafe
  <2> QED BY <1>5, <2>1, <2>2, <2>3, <2>4, <2>5, <2>6, <2>7 DEF ThreadStep
<1>6. ASSUME UciStep
      PROVE  \E b \in Views, h \in Hunts : Safe(b, h)'
  BY <1>1, <1>6, SpawnSafe, SetExitSafe, JoinSafe, ResetSafe, ExitSafe DEF UciStep
<1>7. ASSUME MainStep \/ CheckTime \/ FailLow
      PROVE  \E b \in Views, h \in Hunts : Safe(b, h)'
  BY <1>1, <1>7, MainStepSafe, FlagsSafe
<1>8. ASSUME Command
      PROVE  \E b \in Views, h \in Hunts : Safe(b, h)'
  BY <1>1, <1>8, GoSafe, FlagsSafe, BlockingSafe, PositionSafe, QuitSafe DEF Command
<1>9. ASSUME Done \/ UNCHANGED vars
      PROVE  \E b \in Views, h \in Hunts : Safe(b, h)'
  BY <1>1, <1>9, StutterSafe DEF Done
<1> QED BY <1>4, <1>5, <1>6, <1>7, <1>8, <1>9 DEF Next

-----------------------------------------------------------------------------
(* What the invariant says *)

\* In every state there is a view of the pool, and one of the search, that the programs follow.
THEOREM ProgramsFollowed == Spec => []SafeInv
<1>1. Init => SafeInv
  BY SafeInit
<1>2. SafeInv /\ [Next]_vars => SafeInv'
  BY SafeNext
<1> QED BY <1>1, <1>2, PTL DEF Spec

LEMMA WakeupsFollow ==
  ASSUME SafeInv
  PROVE  WakeupsArrive
<1>0. PICK a \in Views, m \in Hunts : Safe(a, m)
  BY DEF SafeInv
<1> SUFFICES ASSUME NEW t \in Workers
             PROVE  /\ pc[t] = "parked" /\ t \in cv[t] /\ searching[t] =>
                         \E c \in Actors : AtOp(c, "notify") /\ Target(c) = t
                    /\ \A b, c \in cv[t] \ {t} : b = c /\ searching[t]
  BY DEF WakeupsArrive
<1>1. t # 0 /\ UCI \in Actors /\ Main \in Actors
  BY ThreadsAssumption DEF Workers, Actors, Main
<1>2. ASSUME a.told = t
      PROVE  AtOp(UCI, "notify") /\ Target(UCI) = t
  <2>1. prog[UCI] # <<>>
    BY <1>0, <1>1, <1>2, LeadsOn DEF Safe, ProgOK, AtRest
  <2>2. May(a, Head(prog[UCI]))
    BY <1>0, <2>1, UciActs DEF Safe
  <2> QED BY <1>1, <1>2, <2>1, <2>2 DEF May, AtOp, Target
<1>3. ASSUME m.told = t
      PROVE  AtOp(Main, "notify") /\ Target(Main) = t
  <2>1. m.phase = "start" /\ HLeads(prog[Main], m)
    BY <1>0, <1>1, <1>3, HuntFields DEF Safe, SearchOK
  <2>2. prog[Main] # <<>>
    BY <2>1, HLeadsOn DEF Ended, Hunt
  <2>3. HMay(m, Head(prog[Main]))
    BY <2>1, <2>2, HLeadsOn
  <2> QED BY <1>1, <1>3, <2>1, <2>2, <2>3 DEF HMay, AtOp, Target
<1>4. pc[t] = "parked" /\ t \in cv[t] /\ searching[t] => a.told = t \/ m.told = t
  BY <1>0 DEF Safe, WaitersOK
<1>5. \A b, c \in cv[t] \ {t} : b = c /\ searching[t]
  BY <1>0, OneBlocked
<1> QED BY <1>1, <1>2, <1>3, <1>4, <1>5

LEMMA DestroyedFollows ==
  ASSUME NEW a \in Views, NEW m \in Hunts, Safe(a, m)
  PROVE  DestroyedWhenIdle
<1> USE DEF Safe
<1>1. ASSUME NEW t, t = Target(UCI), AtOp(UCI, "exit")
      PROVE  ~searching[t] /\ cv[t] \subseteq {t}
  <2>1. May(a, Head(prog[UCI])) /\ Head(prog[UCI])[1] = "exit" /\ Head(prog[UCI])[2] = t
    BY <1>1, UciActs DEF AtOp, Target
  <2>2. a.free /\ a.leaving = {} /\ t \in (a.alive \cap a.made) \ a.owed
    BY <2>1 DEF May
  <2>3. t \in Workers /\ m.out = {} /\ ~exit[t]
    BY <2>2, ViewFields, NoSearch DEF PoolOK
  <2>4. ~searching[t]
    BY <2>2, <2>3 DEF SearchOK
  <2> QED BY <2>3, <2>4, NotSearching
<1>2. ASSUME NEW c \in Actors, AtOp(c, "run"), Head(prog[c])[3] \in {"search", "clear"}
      PROVE  worker[Target(c)]
  <2>1. PICK t : t = Target(c)
    OBVIOUS
  <2>2. t \in Workers /\ (c = UCI \/ c = Main)
    BY <1>2, <2>1, Acting
  <2>3. t \in a.made /\ t \notin a.owed
    <3>1. CASE c = UCI
      <4>1. May(a, Head(prog[UCI])) /\ Head(prog[UCI])[1] = "run" /\ Head(prog[UCI])[2] = t
        BY <1>2, <2>1, <3>1, UciActs DEF AtOp, Target
      <4>2. MayRun(a, t, Head(prog[UCI])[3])
        BY <4>1 DEF May
      <4> QED BY <1>2, <3>1, <4>2 DEF MayRun
    <3>2. CASE c = Main
      <4>1. ~a.free /\ t \in 2 .. m.n
        BY <1>2, <2>1, <3>2, Acting
      <4>2. a.owed = {} /\ a.made = 1 .. a.n /\ a.n = m.n
        BY <4>1, ViewFields DEF Coherent, SearchOK, PoolOK
      <4> QED BY <4>1, <4>2, ViewFields
    <3> QED BY <2>2, <3>1, <3>2
  <2>4. ~Post(t, "construct")
    BY <2>2, <2>3 DEF PoolOK, Plain
  <2> QED BY <2>1, <2>2, <2>3, <2>4 DEF PoolOK
<1> QED BY <1>1, <1>2 DEF DestroyedWhenIdle

LEMMA JobsEndFollows ==
  ASSUME NEW a \in Views, NEW m \in Hunts, Safe(a, m)
  PROVE  JobsEndBeforeTheirCaller
<1> USE DEF Safe
<1> SUFFICES ASSUME Reading, NEW t \in Workers
             PROVE  /\ jobFunc[t] \in {"none", "search"}
                    /\ \A k \in Plain : ~AtOp(t, k)
  BY DEF JobsEndBeforeTheirCaller, Plain
<1>1. AtRest(a, TRUE)
  BY LeadsOn DEF Reading, ProgOK
<1>2. \A k \in Plain : ~Post(t, k)
  BY <1>1 DEF PoolOK, AtRest
<1>3. jobFunc[t] \in {"none", "search"}
  <2>1. jobFunc[t] \in {"none", "search"} \cup Plain
    BY DEF TypesOK, EngineTypeOK, Plain
  <2>2. exit[t] \/ ~exit[t]
    BY DEF TypesOK, EngineTypeOK
  <2> QED BY <1>2, <2>1, <2>2 DEF ThreadsOK, Post
<1>4. ASSUME NEW k \in Plain, AtOp(t, k)
      PROVE  FALSE
  <2>1. prog[t] # <<>> /\ Head(prog[t])[1] = k
    BY <1>4 DEF AtOp
  <2>2. CASE t = Main
    BY <1>2, <1>4, <2>1, <2>2, MainActs DEF Post
  <2>3. CASE t # Main
    <3>1. PICK j \in Plain \cup {"iterate", "depth"} : prog[t] = Op(j)
      BY <2>1, <2>3 DEF SearchOK
    <3>2. j = k
      BY <2>1, <3>1, OpIs
    <3> QED BY <1>2, <1>4, <3>1, <3>2 DEF Post
  <2> QED BY <2>2, <2>3
<1> QED BY <1>3, <1>4

LEMMA StatesFollow ==
  ASSUME NEW a \in Views, NEW m \in Hunts, Safe(a, m)
  PROVE  StateListsAlive /\ AnswerReadsFinishedWorkers
<1> USE DEF Safe
<1>0. {"iterate", "depth", "bestmove"} \cap Plain = {} /\ Main \in Workers
  BY ThreadsAssumption DEF Plain, Main, Workers
<1>1. posList \in {states, setupStates}
  BY DEF ListsOK
<1>2. ASSUME NEW t \in Workers, AtOp(t, "iterate") \/ AtOp(t, "depth") \/ AtOp(t, "bestmove")
      PROVE  Busy(m) /\ t \in 1 .. size
  <2>1. PICK k \in {"iterate", "depth", "bestmove"} : prog[t] # <<>> /\ Head(prog[t])[1] = k
    BY <1>2 DEF AtOp
  <2>2. CASE t = Main
    <3>1. m.phase # "end" /\ ~a.free
      BY <1>0, <2>1, <2>2, MainActs
    <3>2. a.n = size /\ a.n # 0 /\ a.n \in 0 .. MaxThreads
      BY <3>1, ViewFields DEF Coherent, PoolOK
    <3> QED BY <2>2, <3>1, <3>2, ThreadsAssumption DEF Busy, Main
  <2>3. CASE t # Main
    <3>1. PICK j \in Plain \cup {"iterate", "depth"} : prog[t] = Op(j)
      BY <2>1, <2>3 DEF SearchOK
    <3>2. j = k
      BY <2>1, <3>1, OpIs
    <3>3. t \in m.out
      BY <1>0, <2>1, <2>3, <3>1, <3>2 DEF SearchOK
    <3>4. m.phase # "end" /\ t \in 2 .. m.n /\ m.n = size /\ m.n \in 0 .. MaxThreads
      BY <3>3, HuntFields DEF SearchOK
    <3> QED BY <3>4, ThreadsAssumption DEF Busy
  <2> QED BY <2>2, <2>3
<1>3. StateListsAlive
  BY <1>1, <1>2 DEF StateListsAlive, ListsOK
<1>4. ASSUME AtOp(Main, "bestmove"), NEW t \in Workers \ {Main}, t <= size
      PROVE  prog[t] = <<>> /\ ~searching[t] /\ jobFunc[t] = "none"
  <2>1. prog[Main] # <<>> /\ Head(prog[Main])[1] = "bestmove"
    BY <1>4 DEF AtOp
  <2>2. ~a.free /\ HMay(m, Head(prog[Main]))
    BY <1>0, <2>1, MainActs
  <2>3. m.out = {} /\ a.owed = {} /\ a.leaving = {} /\ a.alive = 1 .. a.n /\ a.n = size
    BY <2>1, <2>2, ViewFields DEF HMay, Coherent, PoolOK
  <2>4. t \in a.alive
    BY <1>4, <2>3, ThreadsAssumption DEF Workers, TypesOK, EngineTypeOK
  <2>5. ~exit[t]
    BY <2>3, <2>4 DEF PoolOK
  <2>6. ~searching[t]
    BY <2>3, <2>5 DEF SearchOK
  <2> QED BY <2>5, <2>6, NotSearching
<1> QED BY <1>3, <1>4 DEF AnswerReadsFinishedWorkers

-----------------------------------------------------------------------------
(* The theorems *)

\* No wake-up is lost, with any number of threads: Thread::idle_loop, run_custom_job and
\* wait_for_search_finished share one condition variable per Thread, and notify_one on it wakes
\* the one actor whose predicate became true; a job that is posted is announced.
THEOREM NoWakeupLost == Spec => []WakeupsArrive
<1>1. SafeInv => WakeupsArrive
  BY WakeupsFollow
<1> QED BY <1>1, ProgramsFollowed, PTL

\* Nothing is used after its life: ThreadPool::set, start_thinking and the destructors wait for
\* what they rebuild or free, so threads, jobs, lists of states and results outlive their users.
THEOREM NothingOutlived == Spec => []LifetimesKept
<1>1. SafeInv => LifetimesKept
  <2> SUFFICES ASSUME SafeInv
               PROVE  LifetimesKept
    OBVIOUS
  <2>1. PICK a \in Views, m \in Hunts : Safe(a, m)
    BY DEF SafeInv
  <2>2. EngineTypeOK
    BY <2>1 DEF Safe, TypesOK
  <2> QED BY <2>1, <2>2, DestroyedFollows, JobsEndFollows, StatesFollow DEF LifetimesKept
<1> QED BY <1>1, ProgramsFollowed, PTL

-----------------------------------------------------------------------------
(* The promise to the GUI *)

\* "go" is being executed and the flags of its search are still to be reset.
ResetDue == \E i \in 1 .. Len(prog[UCI]) : prog[UCI][i][1] = "reset"

\* The main thread is past the busy wait of start_searching.
PastHold == AtOp(Main, "raise") \/ AtOp(Main, "wait") \/ AtOp(Main, "bestmove")

\* A "go" that is to be held back carries no limit that would end it earlier: an infinite
\* one has no clock, no nodes and no mate to find, a pondering one no mate.  (check_time
\* and the mate limit of iterative_deepening set threads.stop without a look at infinite.)
OnlyReleaseEnds(l) ==
  /\ l.infinite => ~l.time /\ ~l.budget /\ ~l.mate
  /\ l.ponderMode => ~l.mate

\* Until the GUI releases the last search nothing stops it, once its flags are
\* reset, and the main thread does not get past the busy wait in it.
Kept ==
  /\ OnlyReleaseEnds(request)
  /\ Held /\ goes > bestmoves /\ ~ResetDue => ~stop /\ (request.infinite \/ ponder)
  /\ Held /\ goes = bestmoves + 1 => ~PastHold

LEMMA GoAfter ==
  ASSUME NEW a \in Views, NEW op, May(a, op)
  PROVE  /\ op[1] = "reset" => a.go = 1 /\ After(a, op).go = 2
         /\ op[1] # "reset" => (After(a, op).go = 1 <=> a.go = 1)
<1> DEFINE b == After(a, op)
<1>1. CASE op[1] = "reset"
  <2>1. b.go = 2
    BY <1>1 DEF After, View
  <2> QED BY <1>1, <2>1 DEF May
<1>2. CASE op[1] = "run"
  <2>1. b.go = AfterJob(a, op[2], op[3]).go /\ MayRun(a, op[2], op[3])
    BY <1>2 DEF After, Telling, View, May
  <2>2. CASE op[2] \in a.leaving
    BY <1>2, <2>1, <2>2 DEF AfterJob
  <2>3. CASE op[2] \notin a.leaving /\ op[3] = "search"
    <3>1. a.go = 2
      BY <2>1, <2>3 DEF MayRun
    <3>2. b.go = 0
      BY <2>1, <2>3 DEF AfterJob, View
    <3> QED BY <1>2, <3>1, <3>2
  <2>4. CASE op[2] \notin a.leaving /\ op[3] # "search"
    <3>1. b.go = a.go
      BY <2>1, <2>4 DEF AfterJob, View
    <3> QED BY <1>2, <3>1
  <2> QED BY <2>2, <2>3, <2>4
<1>3. CASE op[1] \in {"notify", "wait", "spawn", "exit", "join"}
  <2>1. b.go = a.go
    BY <1>3 DEF After, Telling, View
  <2> QED BY <1>3, <2>1
<1>4. op[1] \in {"reset", "run", "notify", "wait", "spawn", "exit", "join"}
  BY DEF May
<1> QED BY <1>1, <1>2, <1>3, <1>4

\* A program resets the flags if and only if a "go" is asked for.
LEMMA ResetLeads ==
  ASSUME NEW p, NEW a, NEW open, Leads(p, a, open)
  PROVE  a.go = 1 <=> \E i \in 1 .. Len(p) : p[i][1] = "reset"
<1>1. PICK b \in Views : Runs(Moves, Views, p, a, b) /\ AtRest(b, open)
  BY DEF Leads
<1>2. PICK s \in [0 .. Len(p) -> Views] :
        s[0] = a /\ s[Len(p)] = b /\ \A i \in 1 .. Len(p) : <<s[i - 1], p[i], s[i]>> \in Moves
  BY <1>1 DEF Runs
<1> DEFINE n == Len(p)
<1>3. n \in Nat
  BY DEF Leads
<1> HIDE DEF n
<1>4. ASSUME NEW i \in 1 .. n
      PROVE  /\ p[i][1] = "reset" => s[i - 1].go = 1 /\ s[i].go = 2
             /\ p[i][1] # "reset" => (s[i].go = 1 <=> s[i - 1].go = 1)
  <2>1. s[i - 1] \in Views /\ May(s[i - 1], p[i]) /\ s[i] = After(s[i - 1], p[i])
    BY <1>2, <1>3 DEF Moves, n
  <2> QED BY <2>1, GoAfter
<1>5. s[0].go = a.go /\ s[n].go = 0
  BY <1>1, <1>2 DEF AtRest, n
<1>6. ASSUME a.go = 1, \A i \in 1 .. n : p[i][1] # "reset"
      PROVE  FALSE
  <2> DEFINE G == {i \in 1 .. n + 1 : s[i - 1].go # 1}
  <2>1. n + 1 \in G
    BY <1>3, <1>5
  <2>2. ASSUME NEW i \in 1 .. n, i + 1 \in G
        PROVE  i \in G
    BY <1>3, <1>4, <1>6, <2>2
  <2> HIDE DEF G
  <2>3. 1 \in G
    BY <1>3, <2>1, <2>2, Downward
  <2> QED BY <1>5, <1>6, <2>3 DEF G
<1>7. ASSUME NEW k \in 1 .. n, p[k][1] = "reset"
      PROVE  a.go = 1
  <2> DEFINE G == {i \in 1 .. k : s[i - 1].go = 1}
             j == k - 1
  <2>1. j \in Nat /\ j + 1 \in G
    BY <1>3, <1>4, <1>7
  <2>2. ASSUME NEW i \in 1 .. j, i + 1 \in G
        PROVE  i \in G
    <3>1. i \in 1 .. n /\ i \in 1 .. k /\ s[i].go = 1
      BY <1>3, <2>2
    <3> QED BY <1>4, <3>1
  <2> HIDE DEF G
  <2>3. 1 \in G
    <3>1. 1 .. j + 1 \subseteq G
      <4> HIDE DEF j
      <4> QED BY <2>1, <2>2, Downward
    <3> QED BY <2>1, <3>1
  <2> QED BY <1>5, <2>3 DEF G
<1> QED BY <1>6, <1>7 DEF n

\* How many searches are asked for, and of which of them the flags are reset.
LEMMA CountFacts ==
  ASSUME NEW a \in Views, NEW m \in Hunts, Safe(a, m)
  PROVE  /\ goes \in Nat /\ bestmoves \in Nat /\ request \in Limits /\ released \in BOOLEAN
         /\ stop \in BOOLEAN /\ ponder \in BOOLEAN
         /\ goes \in {bestmoves, bestmoves + 1, bestmoves + 2}
         /\ a.go = 1 <=> ResetDue
         /\ goes = bestmoves => ~Busy(m)
         /\ Busy(m) /\ goes = bestmoves + 1 => a.go = 0
         /\ Busy(m) /\ goes = bestmoves + 2 => a.go # 0
<1>1. /\ goes \in Nat /\ bestmoves \in Nat /\ request \in Limits /\ released \in BOOLEAN
      /\ stop \in BOOLEAN /\ ponder \in BOOLEAN
  BY BoundsAssumption DEF Safe, TypesOK, EngineTypeOK
<1>2. a.go = 1 <=> ResetDue
  BY ResetLeads DEF Safe, ProgOK, ResetDue
<1>3. goes = bestmoves + One(a.go > 0) + One(Busy(m)) /\ a.go \in 0 .. 2
  BY ViewFields DEF Safe, CountOK
<1>4. CASE Busy(m)
  <2>1. One(Busy(m)) = 1
    BY <1>4 DEF One
  <2>2. CASE a.go = 0
    <3>1. One(a.go > 0) = 0
      BY <2>2 DEF One
    <3> QED BY <1>1, <1>2, <1>3, <2>1, <2>2, <3>1
  <2>3. CASE a.go # 0
    <3>1. One(a.go > 0) = 1
      BY <1>3, <2>3 DEF One
    <3> QED BY <1>1, <1>2, <1>3, <2>1, <2>3, <3>1
  <2> QED BY <2>2, <2>3
<1>5. CASE ~Busy(m)
  <2>1. One(Busy(m)) = 0
    BY <1>5 DEF One
  <2>2. One(a.go > 0) \in {0, 1}
    BY DEF One
  <2> QED BY <1>1, <1>2, <1>3, <1>5, <2>1, <2>2
<1> QED BY <1>4, <1>5

\* While the main thread searches, the flags are those of its search or are still to be reset.
LEMMA SearchFacts ==
  ASSUME NEW a \in Views, NEW m \in Hunts, Safe(a, m), NEW k, k \notin Plain, AtOp(Main, k)
  PROVE  /\ Busy(m)
         /\ \/ goes = bestmoves + 1 /\ limits = request /\ ~ResetDue
            \/ goes = bestmoves + 2 /\ ResetDue
<1>1. prog[Main] # <<>> /\ Head(prog[Main])[1] = k
  BY DEF AtOp
<1>2. m.phase # "end" /\ ~a.free
  BY <1>1, MainActs DEF Safe
<1>3. Busy(m) /\ a.go # 2 /\ a.go \in 0 .. 2
  BY <1>2, ViewFields DEF Busy, Coherent
<1>4. a.go = 0 => limits = request
  BY <1>3 DEF Safe, ListsOK
<1> QED BY <1>3, <1>4, CountFacts

LEMMA PastHoldFacts ==
  ASSUME NEW a \in Views, NEW m \in Hunts, Safe(a, m), PastHold
  PROVE  Busy(m) /\ goes # bestmoves
<1>1. PICK k \in {"raise", "wait", "bestmove"} : AtOp(Main, k)
  BY DEF PastHold
<1>2. k \notin Plain
  BY DEF Plain
<1>3. Busy(m)
  BY <1>1, <1>2, SearchFacts
<1> QED BY <1>3, CountFacts

\* The UCI thread reads a command.
LEMMA ReadingFacts ==
  ASSUME NEW a \in Views, NEW m \in Hunts, Safe(a, m), Reading
  PROVE  ~ResetDue /\ goes \in {bestmoves, bestmoves + 1}
<1>1. Len(prog[UCI]) = 0
  BY DEF Reading
<1>2. ~ResetDue
  BY <1>1 DEF ResetDue
<1>3. a.go = 0
  BY LeadsOn DEF Reading, Safe, ProgOK, AtRest
<1>4. goes = bestmoves + One(a.go > 0) + One(Busy(m)) /\ One(a.go > 0) = 0
  BY <1>3 DEF Safe, CountOK, One
<1>5. One(Busy(m)) \in {0, 1} /\ goes \in Nat /\ bestmoves \in Nat
  BY CountFacts DEF One
<1> QED BY <1>2, <1>4, <1>5

\* Steps that leave the flags alone, and neither go past the busy wait nor lose a reset.
LEMMA KeptQuiet ==
  ASSUME Kept, UNCHANGED <<request, released, goes, bestmoves, stop, ponder>>,
         ResetDue => ResetDue', PastHold' => PastHold
  PROVE  Kept'
<1>1. Held' <=> Held
  BY DEF Held, HoldsBack
<1> QED BY <1>1 DEF Kept, OnlyReleaseEnds

\* Only the reset itself takes the reset away, and only the main thread gets past the busy wait.
LEMMA PopFacts ==
  ASSUME NEW a \in Views, NEW m \in Hunts, Safe(a, m), NEW c \in Actors, NEW k, AtOp(c, k), Pop(c)
  PROVE  /\ k # "reset" => (ResetDue => ResetDue')
         /\ c # Main => (PastHold' <=> PastHold)
<1>1. /\ prog \in [Actors -> Seq(Operations)] /\ prog[c] # <<>> /\ Head(prog[c])[1] = k
      /\ prog' = [prog EXCEPT ![c] = Tail(prog[c])] /\ UCI \in Actors /\ Main \in Actors
  BY ThreadsAssumption DEF AtOp, Pop, Safe, TypesOK, Actors, Workers, Main
<1>2. ASSUME c # Main
      PROVE  PastHold' <=> PastHold
  <2>1. prog'[Main] = prog[Main]
    BY <1>1, <1>2
  <2> QED BY <2>1 DEF PastHold, AtOp
<1>3. ASSUME c # UCI
      PROVE  ResetDue' <=> ResetDue
  <2>1. prog'[UCI] = prog[UCI]
    BY <1>1, <1>3
  <2> QED BY <2>1 DEF ResetDue
<1>4. ASSUME c = UCI, k # "reset", ResetDue
      PROVE  ResetDue'
  <2> DEFINE p == prog[UCI]
             q == Tail(p)
  <2>1. p \in Seq(Operations) /\ p # <<>> /\ Head(p)[1] # "reset" /\ prog'[UCI] = q
    BY <1>1, <1>4
  <2>2. PICK i \in 1 .. Len(p) : p[i][1] = "reset"
    BY <1>4 DEF ResetDue
  <2> HIDE DEF p
  <2>3. /\ Len(q) = Len(p) - 1 /\ Len(p) \in Nat \ {0} /\ Head(p) = p[1]
        /\ \A j \in 1 .. Len(p) - 1 : q[j] = p[j + 1]
    BY <2>1, TailFacts
  <2> HIDE DEF q
  <2>4. i # 1
    BY <2>1, <2>2, <2>3
  <2>5. i - 1 \in 1 .. Len(q) /\ q[i - 1] = p[(i - 1) + 1] /\ (i - 1) + 1 = i
    BY <2>2, <2>3, <2>4
  <2>6. q[i - 1][1] = "reset"
    BY <2>2, <2>5
  <2> QED BY <2>1, <2>5, <2>6 DEF ResetDue
<1> QED BY <1>2, <1>3, <1>4

\* Before the busy wait the main thread is not past it after one step.
LEMMA NotYetPast ==
  ASSUME NEW a \in Views, NEW m \in Hunts, Safe(a, m), NEW k \in {"run", "notify", "iterate"},
         AtOp(Main, k), Pop(Main), uci' = uci
  PROVE  ~PastHold'
<1>1. k \notin Plain
  BY DEF Plain
<1> DEFINE op == Head(prog[Main])
           h == HAfter(m, op)
           p == prog'[Main]
<1>2. op[1] = k /\ HMay(m, op) /\ HLeads(p, h) /\ h \in Hunts
  BY <1>1, MainPops
<1>3. h.phase \in {"start", "hold"}
  <2>1. CASE k = "run" \/ k = "notify"
    <3>1. m.phase = "start"
      BY <1>2, <2>1 DEF HMay
    <3>2. h.phase = m.phase
      BY <1>2, <2>1 DEF HAfter, Hunt
    <3> QED BY <3>1, <3>2
  <2>2. CASE k = "iterate"
    BY <1>2, <2>2 DEF HAfter, Hunt
  <2> QED BY <2>1, <2>2
<1> HIDE DEF h, op
<1>4. p # <<>> => HMay(h, Head(p))
  BY <1>2, HLeadsOn
<1>5. p # <<>> => Head(p)[1] \notin {"raise", "wait", "bestmove"}
  BY <1>3, <1>4 DEF HMay
<1> QED BY <1>5 DEF PastHold, AtOp

\* A woken main thread starts before the busy wait.
LEMMA WakeNotPast ==
  ASSUME NEW a \in Views, NEW m \in Hunts, Safe(a, m), NEW t \in Workers, Wake(t)
  PROVE  /\ ResetDue' <=> ResetDue
         /\ PastHold' => PastHold
<1>1. /\ prog \in [Actors -> Seq(Operations)] /\ UCI \in Actors /\ Main \in Actors /\ t \in Actors /\ t # UCI
      /\ UNCHANGED <<searching, exit, worker, size, flagVars, goVars, listVars, sessVars>>
  BY ThreadsAssumption DEF Safe, TypesOK, Actors, Workers, Main, UCI, Wake
<1>2. CASE prog' = prog
  BY <1>2 DEF ResetDue, PastHold, AtOp
<1>3. CASE prog' # prog
  <2>1. prog' = [prog EXCEPT ![t] = JobProgram(t, jobFunc[t])] /\ searching[t] /\ ~exit[t]
    BY <1>3 DEF Wake
  <2>2. prog'[UCI] = prog[UCI]
    BY <1>1, <2>1
  <2>3. CASE t # Main
    <3>1. prog'[Main] = prog[Main]
      BY <1>1, <2>1, <2>3
    <3> QED BY <2>2, <3>1 DEF ResetDue, PastHold, AtOp
  <2>4. CASE t = Main /\ jobFunc[t] # "search"
    <3> DEFINE k == jobFunc[t]
    <3>1. k \notin {"raise", "wait", "bestmove"}
      BY DEF Safe, TypesOK, EngineTypeOK
    <3>2. prog'[Main] = Op(k)
      BY <1>1, <2>1, <2>4 DEF JobProgram
    <3>3. Head(prog'[Main])[1] = k
      BY <3>2, OpIs
    <3>4. ~PastHold'
      BY <3>1, <3>3 DEF PastHold, AtOp
    <3> QED BY <2>2, <3>4 DEF ResetDue
  <2>5. CASE t = Main /\ jobFunc[t] = "search"
    <3> DEFINE p == IF ~noMoves THEN Jobs("search", 2, size) \o Op("iterate") ELSE <<>>
               q == ((p \o Op("hold")) \o Op("raise")) \o Waits(2, size) \o Op("bestmove")
               h == Hunt(size, 0, {}, "start")
    <3>1. size \in 1 .. MaxThreads
      <4>1. ~a.free
        BY <2>1, <2>5 DEF Busy, Safe, SearchOK
      <4>2. a.n = size /\ a.n # 0 /\ a.n \in 0 .. MaxThreads
        BY <4>1, ViewFields DEF Safe, PoolOK, Coherent
      <4> QED BY <4>2, ThreadsAssumption
    <3>2. JobProgram(Main, "search") = q
      BY DEF JobProgram, Jobs, Waits
    <3>3. HLeads(q, h)
      <4>1. (~noMoves) \in BOOLEAN
        OBVIOUS
      <4> QED BY <3>1, <4>1, SearchLeads
    <3>4. h.phase = "start"
      BY DEF Hunt
    <3>5. prog'[Main] = q
      BY <1>1, <2>1, <2>5, <3>2
    <3> HIDE DEF q, h
    <3>6. q # <<>> => Head(q)[1] \notin {"raise", "wait", "bestmove"}
      BY <3>3, <3>4, HLeadsOn DEF HMay
    <3>7. ~PastHold'
      BY <3>5, <3>6 DEF PastHold, AtOp
    <3> QED BY <2>2, <3>7 DEF ResetDue
  <2> QED BY <2>3, <2>4, <2>5
<1> QED BY <1>2, <1>3

\* What actors do to threads.
LEMMA ActorKept ==
  ASSUME NEW a \in Views, NEW m \in Hunts, Safe(a, m), Kept, NEW c \in Actors, ActorStep(c)
  PROVE  Kept'
<1>1. UNCHANGED <<request, released, goes, bestmoves, stop, ponder, uci>>
  BY DEF ActorStep, Block, WaitForSearchFinished, RunCustomJob, NotifyJob, flagVars, goVars, sessVars
<1>2. CASE Block(c)
  BY <1>1, <1>2, KeptQuiet DEF Block, ResetDue, PastHold, AtOp
<1>3. CASE ~Block(c)
  <2>1. PICK k \in {"wait", "run", "notify"} : AtOp(c, k) /\ Pop(c)
    BY <1>3 DEF ActorStep, WaitForSearchFinished, RunCustomJob, NotifyJob
  <2>2. ResetDue => ResetDue'
    BY <2>1, PopFacts
  <2>3. PastHold' => PastHold
    <3>1. CASE c # Main
      BY <2>1, <3>1, PopFacts
    <3>2. CASE c = Main /\ k = "wait"
      BY <2>1, <3>2 DEF PastHold
    <3>3. CASE c = Main /\ k # "wait"
      BY <1>1, <2>1, <3>3, NotYetPast
    <3> QED BY <3>1, <3>2, <3>3
  <2> QED BY <1>1, <2>2, <2>3, KeptQuiet
<1> QED BY <1>2, <1>3

\* What a thread does, but for the end of an iteration.
LEMMA ThreadKept ==
  ASSUME NEW a \in Views, NEW m \in Hunts, Safe(a, m), Kept, NEW t \in Workers, ThreadStep(t)
  PROVE  Kept'
<1>1. UNCHANGED <<request, released, goes, bestmoves, stop, ponder, uci>>
  BY DEF ThreadStep, IdleTop, Wake, JobEnd, PlainJob, SetupJob, Deepen, flagVars, goVars, sessVars
<1>2. t \in Actors /\ t # UCI /\ prog \in [Actors -> Seq(Operations)] /\ UCI \in Actors /\ Main \in Actors
  BY ThreadsAssumption DEF Actors, Workers, UCI, Main, Safe, TypesOK
<1>3. CASE IdleTop(t) \/ JobEnd(t)
  BY <1>1, <1>3, KeptQuiet DEF IdleTop, JobEnd, ResetDue, PastHold, AtOp
<1>4. CASE Wake(t)
  BY <1>1, <1>4, WakeNotPast, KeptQuiet
<1>5. CASE PlainJob(t) \/ SetupJob(t)
  <2>1. PICK k \in Plain : AtOp(t, k) /\ Pop(t)
    BY <1>5 DEF PlainJob, SetupJob, Plain
  <2>2. ResetDue => ResetDue'
    BY <1>2, <2>1, PopFacts DEF Plain
  <2>3. PastHold' => PastHold
    <3>1. CASE t = Main
      <4>1. prog'[Main] = <<>>
        BY <2>1, <3>1, PlainEnds
      <4> QED BY <4>1 DEF PastHold, AtOp
    <3> QED BY <1>2, <2>1, <3>1, PopFacts
  <2> QED BY <1>1, <2>2, <2>3, KeptQuiet
<1>6. CASE Deepen(t)
  <2>1. AtOp(t, "iterate") /\ prog' = [prog EXCEPT ![t] = IF MayDeepen(t) THEN Op("depth") \o Tail(@) ELSE Tail(@)]
    BY <1>6 DEF Deepen
  <2>2. prog'[UCI] = prog[UCI]
    BY <1>2, <2>1
  <2>3. PastHold' => PastHold
    <3>1. CASE t # Main
      <4>1. prog'[Main] = prog[Main]
        BY <1>2, <2>1, <3>1
      <4> QED BY <4>1 DEF PastHold, AtOp
    <3>2. CASE t = Main /\ ~MayDeepen(t)
      <4>1. Pop(Main)
        BY <2>1, <3>2 DEF Pop
      <4> QED BY <1>1, <2>1, <3>2, <4>1, NotYetPast
    <3>3. CASE t = Main /\ MayDeepen(t)
      <4>1. prog'[Main] = Op("depth") \o Tail(prog[Main]) /\ Tail(prog[Main]) \in Seq(Operations)
        BY <1>2, <2>1, <3>3 DEF AtOp
      <4>2. Head(prog'[Main])[1] = "depth"
        <5>1. "depth" \in Kinds
          BY DEF Kinds, SearchKinds
        <5> QED BY <4>1, <5>1, OpIs
      <4> QED BY <4>2 DEF PastHold, AtOp
    <3> QED BY <3>1, <3>2, <3>3
  <2> QED BY <1>1, <2>2, <2>3, KeptQuiet DEF ResetDue
<1> QED BY <1>3, <1>4, <1>5, <1>6 DEF ThreadStep

\* The end of an iteration: a mate or the clock stops no search that is held back.
LEMMA IterationKept ==
  ASSUME NEW a \in Views, NEW m \in Hunts, Safe(a, m), Kept, NEW t \in Workers, EndIteration(t)
  PROVE  Kept'
<1>1. /\ UNCHANGED <<request, released, goes, bestmoves, ponder>> /\ AtOp(t, "depth")
      /\ prog' = [prog EXCEPT ![t] = Op("iterate") \o Tail(@)]
  BY DEF EndIteration, sessVars
<1>2. t \in Actors /\ t # UCI /\ prog \in [Actors -> Seq(Operations)] /\ UCI \in Actors /\ Main \in Actors
  BY ThreadsAssumption DEF Actors, Workers, UCI, Main, Safe, TypesOK
<1>3. ResetDue' <=> ResetDue
  BY <1>1, <1>2 DEF ResetDue
<1>4. PastHold' => PastHold
  <2>1. CASE t # Main
    <3>1. prog'[Main] = prog[Main]
      BY <1>1, <1>2, <2>1
    <3> QED BY <3>1 DEF PastHold, AtOp
  <2>2. CASE t = Main
    <3>1. prog'[Main] = Op("iterate") \o Tail(prog[Main]) /\ Tail(prog[Main]) \in Seq(Operations)
      BY <1>1, <1>2, <2>2 DEF AtOp
    <3>2. "iterate" \in Kinds
      BY DEF Kinds, SearchKinds
    <3>3. Head(prog'[Main])[1] = "iterate"
      BY <3>1, <3>2, OpIs
    <3> QED BY <3>3 DEF PastHold, AtOp
  <2> QED BY <2>1, <2>2
<1>5. Held' <=> Held
  BY <1>1 DEF Held, HoldsBack
<1>6. ASSUME Held, goes > bestmoves, ~ResetDue
      PROVE  ~stop' /\ (request.infinite \/ ponder)
  <2>1. ~stop /\ (request.infinite \/ ponder)
    BY <1>6 DEF Kept
  <2>2. PICK mateFound, timeUp \in BOOLEAN :
          /\ mateFound => t = Main /\ limits.mate
          /\ timeUp => t = Main /\ limits.time
          /\ stop' = (stop \/ mateFound \/ (timeUp /\ ~ponder))
    BY DEF EndIteration
  <2>3. t = Main => limits = request
    <3>1. "depth" \notin Plain
      BY DEF Plain
    <3> QED BY <1>1, <1>6, <3>1, SearchFacts
  <2>4. ~mateFound
    BY <1>6, <2>2, <2>3 DEF Kept, OnlyReleaseEnds, Held, HoldsBack
  <2>5. ~(timeUp /\ ~ponder)
    BY <2>1, <2>2, <2>3 DEF Kept, OnlyReleaseEnds
  <2> QED BY <2>1, <2>2, <2>4, <2>5
<1> QED BY <1>1, <1>3, <1>4, <1>5, <1>6 DEF Kept, OnlyReleaseEnds

\* The clock and the nodes stop no search that is held back; failing low stops none.
LEMMA ClockKept ==
  ASSUME NEW a \in Views, NEW m \in Hunts, Safe(a, m), Kept, CheckTime \/ FailLow
  PROVE  Kept'
<1>1. UNCHANGED <<request, released, goes, bestmoves, ponder, prog>> /\ AtOp(Main, "depth")
  BY DEF CheckTime, FailLow, goVars, sessVars
<1>2. (ResetDue' <=> ResetDue) /\ (PastHold' <=> PastHold)
  BY <1>1 DEF ResetDue, PastHold, AtOp
<1>3. CASE stop' = stop
  BY <1>1, <1>2, <1>3, KeptQuiet
<1>4. CASE stop' # stop
  <2>1. CheckTime
    BY <1>4 DEF FailLow
  <2>2. "depth" \notin Plain
    BY DEF Plain
  <2>3. ResetDue \/ limits = request
    BY <1>1, <2>2, SearchFacts
  <2>4. ~ponder /\ (limits.time \/ limits.budget)
    BY <2>1 DEF CheckTime
  <2>5. Held /\ goes > bestmoves => ResetDue
    BY <2>3, <2>4 DEF Kept, OnlyReleaseEnds
  <2>6. Held' <=> Held
    BY <1>1 DEF Held, HoldsBack
  <2> QED BY <1>1, <1>2, <2>5, <2>6 DEF Kept, OnlyReleaseEnds
<1> QED BY <1>3, <1>4

\* The busy wait lets no search pass that is held back; when it is over the others are stopped.
LEMMA MainKept ==
  ASSUME NEW a \in Views, NEW m \in Hunts, Safe(a, m), Kept, MainStep
  PROVE  Kept'
<1>1. /\ UNCHANGED <<request, released, goes, ponder, uci>> /\ Pop(Main) /\ Main \in Actors
      /\ "raise" \notin Plain /\ "hold" \notin Plain /\ "bestmove" \notin Plain
  BY ThreadsAssumption DEF MainStep, Hold, RaiseStop, BestMove, flagVars, goVars, sessVars, Plain, Actors, Workers, Main
<1>2. Held' <=> Held
  BY <1>1 DEF Held, HoldsBack
<1>3. goes \in Nat /\ bestmoves \in Nat
  BY CountFacts
<1>4. CASE Hold
  <2>1. AtOp(Main, "hold") /\ (stop \/ ~(ponder \/ limits.infinite)) /\ stop' = stop /\ bestmoves' = bestmoves
    BY <1>4 DEF Hold, flagVars, sessVars
  <2>2. ResetDue => ResetDue'
    BY <1>1, <2>1, PopFacts
  <2>3. \/ goes = bestmoves + 1 /\ limits = request /\ ~ResetDue
        \/ goes = bestmoves + 2 /\ ResetDue
    BY <1>1, <2>1, SearchFacts
  <2>4. Held => goes # bestmoves + 1
    BY <1>3, <2>1, <2>3 DEF Kept
  <2> QED BY <1>1, <1>2, <2>1, <2>2, <2>4 DEF Kept, OnlyReleaseEnds
<1>5. CASE RaiseStop
  <2>1. AtOp(Main, "raise") /\ bestmoves' = bestmoves
    BY <1>5 DEF RaiseStop, sessVars
  <2>2. ResetDue => ResetDue'
    BY <1>1, <2>1, PopFacts
  <2>3. PastHold
    BY <2>1 DEF PastHold
  <2>4. \/ goes = bestmoves + 1 /\ limits = request /\ ~ResetDue
        \/ goes = bestmoves + 2 /\ ResetDue
    BY <1>1, <2>1, SearchFacts
  <2>5. Held => goes # bestmoves + 1 /\ ResetDue
    BY <2>3, <2>4 DEF Kept
  <2> QED BY <1>1, <1>2, <2>1, <2>2, <2>5 DEF Kept, OnlyReleaseEnds
<1>6. CASE BestMove
  <2>1. AtOp(Main, "bestmove") /\ bestmoves' = bestmoves + 1 /\ stop' = stop
    BY <1>6 DEF BestMove, flagVars
  <2>2. ResetDue => ResetDue'
    BY <1>1, <2>1, PopFacts
  <2>3. ~PastHold'
    <3> DEFINE op == Head(prog[Main])
               h == HAfter(m, op)
    <3>1. op[1] = "bestmove" /\ HLeads(prog'[Main], h)
      BY <1>1, <2>1, MainPops
    <3>2. h.phase = "end"
      BY <3>1 DEF HAfter, Ended, Hunt
    <3> HIDE DEF h
    <3>3. prog'[Main] = <<>>
      BY <3>1, <3>2, HLeadsOn DEF HMay
    <3> QED BY <3>3 DEF PastHold, AtOp
  <2>4. goes' > bestmoves' => goes > bestmoves
    BY <1>1, <1>3, <2>1
  <2> QED BY <1>1, <1>2, <2>1, <2>2, <2>3, <2>4 DEF Kept, OnlyReleaseEnds
<1> QED BY <1>4, <1>5, <1>6 DEF MainStep

\* The UCI thread builds, resets and ends: a reset withdraws the stop of the search before.
LEMMA UciKept ==
  ASSUME NEW a \in Views, NEW m \in Hunts, Safe(a, m), Kept, UciStep
  PROVE  Kept'
<1>1. UNCHANGED <<request, released, goes, bestmoves>> /\ UCI \in Actors /\ UCI # Main
  BY DEF UciStep, SpawnThread, SetExit, Join, ResetSearch, Exit, goVars, sessVars, Actors, UCI, Main
<1>2. CASE SpawnThread \/ SetExit \/ Join
  <2>1. PICK k \in {"spawn", "exit", "join"} : AtOp(UCI, k) /\ Pop(UCI)
    BY <1>2 DEF SpawnThread, SetExit, Join
  <2>2. UNCHANGED <<stop, ponder>>
    BY <1>2 DEF SpawnThread, SetExit, Join, flagVars
  <2>3. (ResetDue => ResetDue') /\ (PastHold' => PastHold)
    BY <1>1, <2>1, PopFacts
  <2> QED BY <1>1, <2>2, <2>3, KeptQuiet
<1>3. CASE ResetSearch
  <2>1. AtOp(UCI, "reset") /\ Pop(UCI) /\ ~stop' /\ ponder' = request.ponderMode
    BY <1>3 DEF ResetSearch
  <2>2. PastHold' <=> PastHold
    BY <1>1, <2>1, PopFacts
  <2>3. Held' <=> Held
    BY <1>1 DEF Held, HoldsBack
  <2>4. Held => request.infinite \/ ponder'
    BY <2>1 DEF Held, HoldsBack
  <2> QED BY <1>1, <2>1, <2>2, <2>3, <2>4 DEF Kept, OnlyReleaseEnds
<1>4. CASE Exit
  BY <1>1, <1>4, KeptQuiet DEF Exit, flagVars, ResetDue, PastHold, AtOp
<1> QED BY <1>2, <1>3, <1>4 DEF UciStep

\* A command: "go" is followed by a reset, and "stop", "ponderhit" and "quit" release.
LEMMA CommandKept ==
  ASSUME NEW a \in Views, NEW m \in Hunts, Safe(a, m), Kept, Command, \A l \in LimitSet : OnlyReleaseEnds(l)
  PROVE  Kept'
<1>1. /\ prog \in [Actors -> Seq(Operations)] /\ UCI \in Actors /\ Main \in Actors /\ UCI # Main
      /\ goes \in Nat /\ bestmoves \in Nat /\ released \in BOOLEAN /\ request \in Limits
  BY CountFacts, ThreadsAssumption DEF Safe, TypesOK, Actors, Workers, UCI, Main
<1>2. ASSUME NEW l \in LimitSet, CmdGo(l)
      PROVE  Kept'
  <2> DEFINE p == StartThinking(size)
             b == Pool(a.n, {}, {}, a.free, 1)
  <2>1. /\ Reading /\ request' = l /\ goes' = goes + 1 /\ bestmoves' = bestmoves
        /\ prog' = [prog EXCEPT ![UCI] = p]
    BY <1>2 DEF CmdGo
  <2>2. prog'[UCI] = p /\ prog'[Main] = prog[Main]
    BY <1>1, <2>1
  <2>3. Leads(p, b, TRUE) /\ b.go = 1
    <3>1. AtRest(a, TRUE) /\ a.n = size
      BY <2>1, LeadsOn DEF Reading, Safe, ProgOK, PoolOK
    <3>2. Leads(StartThinking(a.n), b, TRUE)
      BY <3>1, CommandLeads
    <3> QED BY <3>1, <3>2 DEF Pool, View
  <2> HIDE DEF p, b
  <2>4. ResetDue'
    <3>1. \E i \in 1 .. Len(p) : p[i][1] = "reset"
      BY <2>3, ResetLeads
    <3> QED BY <2>2, <3>1 DEF ResetDue
  <2>5. goes' = bestmoves' + 1 => ~PastHold'
    <3>1. goes' = bestmoves' + 1 => goes = bestmoves
      BY <1>1, <2>1
    <3>2. PastHold' <=> PastHold
      BY <2>2 DEF PastHold, AtOp
    <3> QED BY <3>1, <3>2, PastHoldFacts
  <2>6. OnlyReleaseEnds(request)'
    BY <2>1 DEF OnlyReleaseEnds
  <2> QED BY <2>4, <2>5, <2>6 DEF Kept
<1>3. CASE CmdStop \/ CmdQuit
  <2>1. released' /\ request' = request
    BY <1>3 DEF CmdStop, CmdQuit, goVars
  <2>2. ~Held'
    BY <2>1 DEF Held
  <2> QED BY <2>1, <2>2 DEF Kept, OnlyReleaseEnds
<1>4. CASE CmdPonderhit
  <2>1. /\ released' = (released \/ ~request.infinite)
        /\ UNCHANGED <<request, goes, bestmoves, stop, prog>>
    BY <1>4 DEF CmdPonderhit, goVars
  <2>2. Held' => Held /\ request.infinite
    BY <2>1 DEF Held, HoldsBack
  <2>3. (ResetDue' <=> ResetDue) /\ (PastHold' <=> PastHold)
    BY <2>1 DEF ResetDue, PastHold, AtOp
  <2> QED BY <2>1, <2>2, <2>3 DEF Kept, OnlyReleaseEnds
<1>5. CASE CmdNewGame \/ (\E n \in Workers : CmdThreads(n)) \/ CmdNumaPolicy \/ CmdHash \/ CmdEvalFile
  <2>1. PICK p : Blocking(p)
    BY <1>5 DEF CmdNewGame, CmdThreads, CmdNumaPolicy, CmdHash, CmdEvalFile
  <2>2. UNCHANGED <<request, released, goes, bestmoves, stop, ponder>> /\ MaySendBlocking
    BY <2>1 DEF Blocking, flagVars, goVars
  <2>3. (Held' <=> Held) /\ (goes > bestmoves => ~Held)
    BY <2>2 DEF Held, HoldsBack, MaySendBlocking, Thinking
  <2>4. goes' = bestmoves' + 1 => goes > bestmoves
    BY <1>1, <2>2
  <2> QED BY <2>2, <2>3, <2>4 DEF Kept, OnlyReleaseEnds
<1>6. CASE CmdPosition
  BY <1>6, KeptQuiet DEF CmdPosition, flagVars, goVars, ResetDue, PastHold, AtOp
<1> QED BY <1>2, <1>3, <1>4, <1>5, <1>6 DEF Command

LEMMA KeptNext ==
  ASSUME SafeInv, Kept, [Next]_vars, \A l \in LimitSet : OnlyReleaseEnds(l)
  PROVE  Kept'
<1>1. PICK a \in Views, m \in Hunts : Safe(a, m)
  BY DEF SafeInv
<1>2. ASSUME NEW c \in Actors, ActorStep(c)
      PROVE  Kept'
  BY <1>1, <1>2, ActorKept
<1>3. ASSUME NEW t \in Workers, ThreadStep(t) \/ EndIteration(t)
      PROVE  Kept'
  BY <1>1, <1>3, ThreadKept, IterationKept
<1>4. CASE UciStep
  BY <1>1, <1>4, UciKept
<1>5. CASE MainStep \/ CheckTime \/ FailLow
  BY <1>1, <1>5, MainKept, ClockKept
<1>6. CASE Command
  BY <1>1, <1>6, CommandKept
<1>7. CASE Done \/ UNCHANGED vars
  BY <1>1, <1>7, KeptQuiet DEF Done, vars, goVars, sessVars, flagVars, ResetDue, PastHold, AtOp
<1> QED BY <1>2, <1>3, <1>4, <1>5, <1>6, <1>7 DEF Next

LEMMA KeptInit ==
  ASSUME Init
  PROVE  Kept
<1>1. request.infinite = FALSE /\ request.ponderMode = FALSE
  BY DEF Init
<1> QED BY <1>1 DEF Kept, OnlyReleaseEnds, Held, HoldsBack

\* Queues of one and of two requests.
LEMMA QueueSteps ==
  ASSUME NEW S, NEW x \in S, NEW y \in S
  PROVE  /\ Append(<<>>, x) = <<x>> /\ Append(<<x>>, y) = <<x, y>>
         /\ DOMAIN <<x>> = {1} /\ <<x>>[1] = x /\ [<<x>> EXCEPT ![1] = y] = <<y>>
         /\ <<x>> # <<>> /\ Head(<<x>>) = x /\ Tail(<<x>>) = <<>>
         /\ <<x, y>> # <<>> /\ Head(<<x, y>>) = x /\ Tail(<<x, y>>) = <<y>>
<1>1. Append(<<>>, x) = <<x>>
  OBVIOUS
<1>2. Append(<<x>>, y) = <<x, y>>
  <2> DEFINE s == <<x>>
  <2>1. s \in Seq(S) /\ s \o <<y>> = <<x, y>>
    BY Cat11
  <2> HIDE DEF s
  <2>2. Append(s, y) = s \o <<y>>
    BY <2>1, AppendIsConcat
  <2> QED BY <2>1, <2>2 DEF s
<1>3. DOMAIN <<x>> = {1} /\ <<x>>[1] = x
  OBVIOUS
<1>4. [<<x>> EXCEPT ![1] = y] = <<y>>
  OBVIOUS
<1>5. <<x>> # <<>> /\ Head(<<x>>) = x /\ Tail(<<x>>) = <<>>
  OBVIOUS
<1>6. <<x, y>> # <<>> /\ Head(<<x, y>>) = x /\ Tail(<<x, y>>) = <<y>>
  OBVIOUS
<1> QED BY <1>1, <1>2, <1>3, <1>4, <1>5, <1>6

\* The queue when g searches were asked for and b answered.
QueueOf(g, b, h) ==
  CASE g = b     -> <<>>
    [] g = b + 1 -> <<h>>
    [] OTHER     -> <<FALSE, h>>

LEMMA QueueIs ==
  ASSUME NEW g \in Nat, NEW b \in Nat, NEW h
  PROVE  /\ g = b => QueueOf(g, b, h) = <<>>
         /\ g = b + 1 => QueueOf(g, b, h) = <<h>>
         /\ g = b + 2 => QueueOf(g, b, h) = <<FALSE, h>>
<1>1. b + 1 # b /\ b + 2 # b /\ b + 2 # b + 1
  OBVIOUS
<1>2. g = b => QueueOf(g, b, h) = <<>>
  BY DEF QueueOf
<1>3. g = b + 1 => QueueOf(g, b, h) = <<h>>
  BY <1>1 DEF QueueOf
<1>4. g = b + 2 => QueueOf(g, b, h) = <<FALSE, h>>
  BY <1>1 DEF QueueOf
<1> QED BY <1>2, <1>3, <1>4

\* Each step answers, asks, releases, or is none that the GUI sees.
LEMMA PromiseSteps ==
  ASSUME SafeInv, Kept, [Next]_vars
  PROVE  [Promise!Next]_queueBar
<1>1. PICK a \in Views, m \in Hunts : Safe(a, m)
  BY DEF SafeInv
<1>2. /\ goes \in Nat /\ bestmoves \in Nat /\ goes \in {bestmoves, bestmoves + 1, bestmoves + 2}
      /\ request \in Limits /\ released \in BOOLEAN
  BY <1>1, CountFacts
<1>3. PICK h \in BOOLEAN : h = Held
  BY DEF Held
<1>4. PICK k \in BOOLEAN : k = Held'
  BY DEF Held
<1>5. /\ goes = bestmoves => queueBar = <<>>
      /\ goes = bestmoves + 1 => queueBar = <<h>>
      /\ goes = bestmoves + 2 => queueBar = <<FALSE, h>>
  <2>1. queueBar = QueueOf(goes, bestmoves, h)
    <3>1. queueBar = QueueOf(goes, bestmoves, Held)
      BY DEF queueBar, QueueOf
    <3> QED BY <1>3, <3>1, Zenon
  <2> QED BY <1>2, <2>1, QueueIs
<1>6. goes' \in Nat /\ bestmoves' \in Nat =>
        /\ goes' = bestmoves' => queueBar' = <<>>
        /\ goes' = bestmoves' + 1 => queueBar' = <<k>>
        /\ goes' = bestmoves' + 2 => queueBar' = <<FALSE, k>>
  <2>1. queueBar' = QueueOf(goes', bestmoves', k)
    <3>1. queueBar' = QueueOf(goes', bestmoves', Held')
      BY DEF queueBar, QueueOf
    <3> QED BY <1>4, <3>1, Zenon
  <2> QED BY <2>1, QueueIs
<1>7. ASSUME UNCHANGED <<goes, bestmoves>>, k = h
      PROVE  queueBar' = queueBar
  BY <1>2, <1>5, <1>6, <1>7
<1>8. CASE UNCHANGED <<request, released, goes, bestmoves>>
  <2>1. k = h
    BY <1>3, <1>4, <1>8 DEF Held, HoldsBack
  <2> QED BY <1>7, <1>8, <2>1
<1>9. ASSUME NEW l \in LimitSet, CmdGo(l)
      PROVE  Promise!Go
  <2>1. Reading /\ MaySendBlocking /\ goes' = goes + 1 /\ bestmoves' = bestmoves
    BY <1>9 DEF CmdGo
  <2>2. CASE goes = bestmoves
    <3>1. queueBar = <<>> /\ queueBar' = <<k>>
      <4>1. goes' = bestmoves' + 1 /\ goes' \in Nat /\ bestmoves' \in Nat
        BY <1>2, <2>1, <2>2
      <4> QED BY <1>5, <1>6, <2>2, <4>1
    <3>2. queueBar' = Append(queueBar, k) /\ \A i \in DOMAIN queueBar : ~queueBar[i]
      BY <3>1, QueueSteps
    <3> QED BY <3>2 DEF Promise!Go
  <2>3. CASE goes = bestmoves + 1
    <3>1. h = FALSE
      BY <1>2, <1>3, <2>1, <2>3 DEF MaySendBlocking, Thinking
    <3>2. queueBar = <<h>> /\ queueBar' = <<h, k>>
      <4>1. goes' = bestmoves' + 2 /\ goes' \in Nat /\ bestmoves' \in Nat
        BY <1>2, <2>1, <2>3
      <4> QED BY <1>5, <1>6, <2>3, <3>1, <4>1
    <3>3. queueBar' = Append(queueBar, k) /\ DOMAIN queueBar = {1} /\ queueBar[1] = h
      BY <3>2, QueueSteps
    <3>4. \A i \in DOMAIN queueBar : ~queueBar[i]
      BY <3>1, <3>3
    <3> QED BY <3>3, <3>4 DEF Promise!Go
  <2> QED BY <1>1, <2>1, <2>2, <2>3, ReadingFacts
<1>10. CASE CmdStop \/ CmdPonderhit \/ CmdQuit
  <2>1. Reading /\ UNCHANGED <<goes, bestmoves>> /\ request' = request
    BY <1>10 DEF CmdStop, CmdPonderhit, CmdQuit, goVars
  <2>2. CASE k = h
    BY <1>7, <2>1, <2>2
  <2>3. CASE goes = bestmoves
    BY <1>2, <1>5, <1>6, <2>1, <2>3
  <2>4. CASE k # h /\ goes = bestmoves + 1
    <3>1. released => released'
      BY <1>10 DEF CmdStop, CmdPonderhit, CmdQuit
    <3>2. h = TRUE /\ k = FALSE
      <4>1. Held' => Held
        BY <2>1, <3>1 DEF Held, HoldsBack
      <4> QED BY <1>3, <1>4, <2>4, <4>1
    <3>3. queueBar = <<h>> /\ queueBar' = <<FALSE>>
      BY <1>2, <1>5, <1>6, <2>1, <2>4, <3>2
    <3>4. queueBar' = [queueBar EXCEPT ![1] = FALSE] /\ 1 \in DOMAIN queueBar /\ queueBar[1] = h
      <4> DEFINE f == FALSE
      <4>1. f \in BOOLEAN /\ queueBar = <<h>> /\ queueBar' = <<f>>
        BY <3>3
      <4> HIDE DEF f
      <4>2. queueBar' = [queueBar EXCEPT ![1] = f] /\ 1 \in DOMAIN queueBar /\ queueBar[1] = h
        BY <4>1, QueueSteps
      <4> QED BY <4>2 DEF f
    <3>5. Promise!Release
      BY <3>2, <3>4 DEF Promise!Release
    <3> QED BY <3>5 DEF Promise!Next
  <2> QED BY <1>1, <2>1, <2>2, <2>3, <2>4, ReadingFacts
<1>11. CASE BestMove
  <2>1. AtOp(Main, "bestmove") /\ bestmoves' = bestmoves + 1 /\ UNCHANGED <<goes, request, released>>
    BY <1>11 DEF BestMove, goVars
  <2>2. PastHold /\ goes # bestmoves
    BY <1>1, <2>1, PastHoldFacts DEF PastHold
  <2>3. k = h
    BY <1>3, <1>4, <2>1 DEF Held, HoldsBack
  <2>4. CASE goes = bestmoves + 1
    <3>1. h = FALSE
      BY <1>3, <2>2, <2>4 DEF Kept
    <3>2. queueBar = <<h>> /\ queueBar' = <<>>
      BY <1>2, <1>5, <1>6, <2>1, <2>4
    <3>3. queueBar # <<>> /\ Head(queueBar) = h /\ queueBar' = Tail(queueBar)
      BY <3>2, QueueSteps
    <3> QED BY <3>1, <3>3 DEF Promise!Answer, Promise!Next
  <2>5. CASE goes = bestmoves + 2
    <3> DEFINE x == FALSE
    <3>1. queueBar = <<x, h>> /\ queueBar' = <<h>>
      <4>1. goes' = bestmoves' + 1 /\ goes' \in Nat /\ bestmoves' \in Nat
        BY <1>2, <2>1, <2>5
      <4> QED BY <1>5, <1>6, <2>3, <2>5, <4>1
    <3>2. x \in BOOLEAN /\ ~x
      OBVIOUS
    <3> HIDE DEF x
    <3>3. queueBar # <<>> /\ Head(queueBar) = x /\ queueBar' = Tail(queueBar)
      BY <3>1, <3>2, QueueSteps
    <3> QED BY <3>2, <3>3 DEF Promise!Answer, Promise!Next
  <2> QED BY <1>2, <2>2, <2>4, <2>5
<1>12. \/ UNCHANGED <<request, released, goes, bestmoves>>
       \/ \E l \in LimitSet : CmdGo(l)
       \/ CmdStop \/ CmdPonderhit \/ CmdQuit
       \/ BestMove
  <2>1. ASSUME NEW c \in Actors, ActorStep(c)
        PROVE  UNCHANGED <<request, released, goes, bestmoves>>
    BY <2>1 DEF ActorStep, Block, WaitForSearchFinished, RunCustomJob, NotifyJob, goVars, sessVars
  <2>2. ASSUME NEW t \in Workers, ThreadStep(t) \/ EndIteration(t)
        PROVE  UNCHANGED <<request, released, goes, bestmoves>>
    BY <2>2 DEF ThreadStep, IdleTop, Wake, JobEnd, PlainJob, SetupJob, Deepen, EndIteration, goVars, sessVars
  <2>3. CASE UciStep
    BY <2>3 DEF UciStep, SpawnThread, SetExit, Join, ResetSearch, Exit, goVars, sessVars
  <2>4. CASE Hold \/ RaiseStop \/ CheckTime \/ FailLow
    BY <2>4 DEF Hold, RaiseStop, CheckTime, FailLow, goVars, sessVars
  <2>5. CASE CmdNewGame \/ (\E n \in Workers : CmdThreads(n)) \/ CmdNumaPolicy \/ CmdHash \/ CmdEvalFile
    BY <2>5 DEF CmdNewGame, CmdThreads, CmdNumaPolicy, CmdHash, CmdEvalFile, Blocking, goVars
  <2>6. CASE CmdPosition \/ Done \/ UNCHANGED vars
    BY <2>6 DEF CmdPosition, Done, vars, goVars, sessVars
  <2> QED BY <2>1, <2>2, <2>3, <2>4, <2>5, <2>6 DEF Next, MainStep, Command
<1> QED BY <1>8, <1>9, <1>10, <1>11, <1>12 DEF Promise!Next

\* Each "go" is answered by one "bestmove", in order, and what is to be held back is not answered
\* before "stop", "ponderhit" or "quit": the threads implement the abstract specification UciPromise,
\* if a search that is to be held back carries no limit of its own that stops it.
THEOREM EngineKeepsPromise ==
  ASSUME \A l \in LimitSet : OnlyReleaseEnds(l)
  PROVE  Spec => KeepsUciPromise
<1>1. Init => SafeInv /\ Kept
  BY SafeInit, KeptInit
<1>2. SafeInv /\ Kept /\ [Next]_vars => (SafeInv /\ Kept)'
  BY SafeNext, KeptNext
<1>3. Init => Promise!Init
  BY DEF Init, Promise!Init, queueBar
<1>4. SafeInv /\ Kept /\ [Next]_vars => [Promise!Next]_queueBar
  BY PromiseSteps
<1> QED BY <1>1, <1>2, <1>3, <1>4, PTL DEF Spec, KeepsUciPromise, Promise!Spec
=============================================================================
