-------------------------- MODULE EngineMemoryProofs --------------------------
(***************************************************************************)
(* What holds of the memory that the threads and processes of an engine    *)
(* share, for any number of threads, nodes, processes and commands: the    *)
(* entries of the shared histories stay in their range; a configuration    *)
(* divides the processors among nodes, and the threads evenly among those; *)
(* a thread that reads the networks finds a right copy, on its own node;   *)
(* and the region that processes share is safe, wherever they crash, are   *)
(* signalled or fail.                                                      *)
(***************************************************************************)
EXTENDS History, NumaReplication, SharedMemory, NumberLemmas, FiniteSetTheorems, TLAPS

-----------------------------------------------------------------------------
(* The histories.                                                          *)

\* What a truncated quotient is.
LEMMA QuotientFacts ==
  ASSUME NEW x \in Nat, NEW D \in Nat, D > 0
  PROVE  /\ x \div D \in Nat
         /\ D * (x \div D) <= x
         /\ x < D * (x \div D) + D
  OBVIOUS

\* Of what pulls an entry back: it is at most the entry, and leaves room for the bonus.
LEMMA PullBounds ==
  ASSUME NEW D \in Nat, D > 0, NEW w \in 0 .. D, NEW m \in 0 .. D
  PROVE  /\ (w * m) \div D \in 0 .. w
         /\ w + m - (w * m) \div D <= D
<1> DEFINE q == (w * m) \div D
<1>1. w * m \in Nat
  OBVIOUS
<1>2. q \in Nat /\ D * q <= w * m /\ w * m < D * q + D
  BY <1>1, QuotientFacts
<1>3. w * m <= w * D
  OBVIOUS
<1>4. q <= w
  <2>1. SUFFICES ASSUME q >= w + 1 PROVE FALSE
    BY <1>2
  <2>2. D * q >= D * (w + 1)
    BY <1>2, <2>1
  <2>3. QED
    BY <1>2, <1>3, <2>2
<1>5. (D - w) * (D - m) >= 0
  OBVIOUS
<1>6. D * (w + m - D) <= w * m
  BY <1>5
<1>7. w + m - D <= q
  <2>1. SUFFICES ASSUME w + m - D >= q + 1 PROVE FALSE
    BY <1>2
  <2>2. D * (w + m - D) >= D * (q + 1)
    BY <1>2, <2>1
  <2>3. QED
    BY <1>2, <1>6, <2>2
<1>8. QED
  BY <1>2, <1>4, <1>7

\* An update of an entry in range leaves it in range, whatever the bonus.
LEMMA UpdatedInRange ==
  ASSUME NEW D \in Nat, D > 0, NEW v \in -D .. D, NEW b \in Int
  PROVE  Updated(v, b, D) \in -D .. D
<1> DEFINE c == Clamp(b, D)
           m == Magnitude(c)
<1>1. c \in -D .. D
  BY DEF Clamp
<1>2. m \in 0 .. D /\ -m <= c /\ c <= m
  BY <1>1 DEF Magnitude
<1>3. Updated(v, b, D) = v + c - Quotient(v * m, D)
  BY DEF Updated
<1> HIDE DEF c, m
<1>4. CASE v >= 0
  <2>1. v * m >= 0
    BY <1>2, <1>4
  <2>2. Quotient(v * m, D) = (v * m) \div D
    BY <2>1 DEF Quotient
  <2>3. (v * m) \div D \in 0 .. v /\ v + m - (v * m) \div D <= D
    BY <1>2, <1>4, PullBounds
  <2>4. QED
    BY <1>1, <1>2, <1>3, <2>2, <2>3
<1>5. CASE v < 0
  <2> DEFINE w == -v
  <2>1. w \in 0 .. D
    BY <1>5
  <2>2. -(v * m) = w * m
    BY <1>2
  <2>3. Quotient(v * m, D) = -((w * m) \div D)
    <3>1. CASE v * m >= 0
      <4>1. m = 0
        BY <1>2, <1>5, <3>1
      <4>2. v * m = 0 /\ w * m = 0
        BY <4>1, <2>1
      <4>3. 0 \div D = 0
        OBVIOUS
      <4>4. QED
        BY <4>2, <4>3 DEF Quotient
    <3>2. CASE ~(v * m >= 0)
      BY <3>2, <2>2 DEF Quotient
    <3>3. QED
      BY <3>1, <3>2
  <2>4. (w * m) \div D \in 0 .. w /\ w + m - (w * m) \div D <= D
    BY <1>2, <2>1, PullBounds
  <2>5. QED
    BY <1>1, <1>2, <1>3, <2>1, <2>3, <2>4
<1>6. QED
  BY <1>4, <1>5

-----------------------------------------------------------------------------
(* The inductive invariant: a value that a thread has read and not yet     *)
(* written back is in the range of its table, too.                         *)

InRange(t) == -Limit[t] .. Limit[t]
EntriesInRange == stats \in [HistTables -> [Entries -> Int]] /\ \A t \in HistTables, k \in Entries : stats[t][k] \in InRange(t)
UpdatesInRange ==
  /\ task \in [ThreadIds -> {"clear", "search", "update"}]
  /\ todo \in [ThreadIds -> SUBSET (HistTables \X Int)]
  /\ update \in [ThreadIds -> [table : HistTables, index : Int, bonus : Int, val : Int]]
  /\ \A i \in ThreadIds : task[i] = "update" => update[i].index \in Entries /\ update[i].val \in InRange(update[i].table)
HistInv == EntriesInRange /\ UpdatesInRange

LEMMA SizeFacts == TableSize \in Nat /\ TableSize > 0 /\ \A key \in Entries : EntryOf(key) \in Entries
<1>1. TableSize \in Nat /\ TableSize > 0
  BY HistoryAssumption DEF TableSize
<1>2. \A key \in Entries : EntryOf(key) \in Entries
  BY <1>1 DEF Entries, EntryOf
<1>3. QED
  BY <1>1, <1>2

\* The parts are integers, whatever their bounds.
LEMMA PartFacts == \A i \in ThreadIds : HistTables \X PartOf(i) \subseteq HistTables \X Int
  BY DEF PartOf

LEMMA HistInitInv == ASSUME HistInit PROVE HistInv
<1>1. EntriesInRange
  <2>1. \A t \in HistTables : 0 \in InRange(t)
    BY HistoryAssumption DEF InRange
  <2>2. QED
    BY <2>1 DEF HistInit, EntriesInRange
<1>2. NoUpdate \in [table : HistTables, index : Int, bonus : Int, val : Int]
  BY HistoryAssumption DEF NoUpdate
<1>3. UpdatesInRange
  BY <1>2, PartFacts DEF HistInit, UpdatesInRange
<1>4. QED
  BY <1>1, <1>3 DEF HistInv

LEMMA HistNextInv == ASSUME HistInv, [HistNext]_histVars PROVE HistInv'
<1>1. CASE StartSearches
  BY <1>1 DEF HistInv, EntriesInRange, UpdatesInRange, StartSearches
<1>2. CASE NewGame
  <2>1. EntriesInRange'
    BY <1>2 DEF HistInv, EntriesInRange, NewGame
  <2>2. UpdatesInRange'
    BY <1>2, PartFacts DEF HistInv, UpdatesInRange, NewGame
  <2>3. QED
    BY <2>1, <2>2 DEF HistInv
<1>3. ASSUME NEW i \in ThreadIds, ClearEntry(i) PROVE HistInv'
  <2>1. PICK x \in todo[i] : /\ stats' = [stats EXCEPT ![x[1]] = [@ EXCEPT ![x[2]] = Fill[x[1]]]]
                            /\ todo' = [todo EXCEPT ![i] = @ \ {x}]
    BY <1>3 DEF ClearEntry
  <2>2. x \in HistTables \X Int
    BY DEF HistInv, UpdatesInRange
  <2>3. Fill[x[1]] \in InRange(x[1]) /\ Fill[x[1]] \in Int
    BY <2>2, HistoryAssumption DEF InRange
  <2>4. EntriesInRange'
    <3>1. stats' \in [HistTables -> [Entries -> Int]]
      BY <2>1, <2>2, <2>3 DEF HistInv, EntriesInRange
    <3>2. ASSUME NEW t \in HistTables, NEW k \in Entries PROVE stats'[t][k] \in InRange(t)
      BY <2>1, <2>2, <2>3 DEF HistInv, EntriesInRange
    <3>3. QED
      BY <3>1, <3>2 DEF EntriesInRange, InRange
  <2>5. UpdatesInRange'
    BY <1>3, <2>1 DEF HistInv, UpdatesInRange, ClearEntry, InRange
  <2>6. QED
    BY <2>4, <2>5 DEF HistInv
<1>4. ASSUME NEW i \in ThreadIds, ReadEntry(i) PROVE HistInv'
  <2>1. PICK t \in HistTables, key \in Entries, b \in Bonuses :
          update' = [update EXCEPT ![i] = [table |-> t, index |-> EntryOf(key), bonus |-> b, val |-> stats[t][EntryOf(key)]]]
    BY <1>4 DEF ReadEntry
  <2>2. EntryOf(key) \in Entries /\ EntryOf(key) \in Int /\ b \in Int
    BY SizeFacts, HistoryAssumption DEF Entries
  <2>3. stats[t][EntryOf(key)] \in InRange(t) /\ stats[t][EntryOf(key)] \in Int
    BY <2>2 DEF HistInv, EntriesInRange
  <2>4. EntriesInRange'
    BY <1>4 DEF HistInv, EntriesInRange, ReadEntry, InRange
  <2>5. UpdatesInRange'
    BY <1>4, <2>1, <2>2, <2>3 DEF HistInv, UpdatesInRange, ReadEntry, InRange
  <2>6. QED
    BY <2>4, <2>5 DEF HistInv
<1>5. ASSUME NEW i \in ThreadIds, WriteEntry(i) PROVE HistInv'
  <2> DEFINE u == update[i]
             D == Limit[u.table]
             w == Updated(u.val, u.bonus, D)
  <2>1. u.table \in HistTables /\ u.index \in Entries /\ u.bonus \in Int /\ u.val \in -D .. D
    BY <1>5 DEF HistInv, UpdatesInRange, WriteEntry, InRange
  <2>2. D \in Nat /\ D > 0
    BY <2>1, HistoryAssumption
  <2>3. w \in -D .. D
    BY <2>1, <2>2, UpdatedInRange
  <2>4. stats' = [stats EXCEPT ![u.table] = [@ EXCEPT ![u.index] = w]]
    BY <1>5 DEF WriteEntry
  <2> HIDE DEF w, D
  <2>5. EntriesInRange'
    <3>1. stats' \in [HistTables -> [Entries -> Int]]
      BY <2>1, <2>2, <2>3, <2>4 DEF HistInv, EntriesInRange
    <3>2. ASSUME NEW t \in HistTables, NEW k \in Entries PROVE stats'[t][k] \in InRange(t)
      <4>1. CASE t = u.table /\ k = u.index
        BY <2>1, <2>3, <2>4, <4>1 DEF HistInv, EntriesInRange, InRange, D
      <4>2. CASE ~(t = u.table /\ k = u.index)
        <5>1. stats'[t][k] = stats[t][k]
          BY <2>1, <2>4, <4>2 DEF HistInv, EntriesInRange
        <5>2. QED
          BY <5>1 DEF HistInv, EntriesInRange
      <4>3. QED
        BY <4>1, <4>2
    <3>3. QED
      BY <3>1, <3>2 DEF EntriesInRange, InRange
  <2>6. UpdatesInRange'
    BY <1>5 DEF HistInv, UpdatesInRange, WriteEntry, InRange
  <2>7. QED
    BY <2>5, <2>6 DEF HistInv
<1>6. CASE UNCHANGED histVars
  BY <1>6 DEF HistInv, EntriesInRange, UpdatesInRange, InRange, histVars
<1>7. QED
  BY <1>1, <1>2, <1>3, <1>4, <1>5, <1>6 DEF HistNext

\* However many threads update the shared histories at once, losing each other's updates,
\* no entry leaves the range of its table: the assert of StatsEntry::operator<<.
THEOREM HistoriesInRange == HistSpec => []HistoryInRange
<1>1. HistInit => HistInv
  BY HistInitInv
<1>2. HistInv /\ [HistNext]_histVars => HistInv'
  BY HistNextInv
<1>3. HistInv => HistoryInRange
  BY DEF HistInv, EntriesInRange, HistoryInRange, InRange
<1>4. QED
  BY <1>1, <1>2, <1>3, PTL DEF HistSpec

-----------------------------------------------------------------------------
(* How threads are divided among nodes.                                    *)

\* A configuration that threads are divided over: a node at least, none of them empty.
Divisible(cfg) ==
  /\ NumNodes(cfg) \in Nat \ {0} /\ DOMAIN cfg.nodes = 1 .. NumNodes(cfg)
  /\ \A n \in DOMAIN cfg.nodes : cfg.nodes[n] # {} /\ IsFiniteSet(cfg.nodes[n])

LEMMA SizesPositive ==
  ASSUME NEW cfg, Divisible(cfg), NEW n \in DOMAIN cfg.nodes
  PROVE  NodeSize(cfg, n) \in Nat /\ NodeSize(cfg, n) > 0
<1>1. IsFiniteSet(cfg.nodes[n]) /\ cfg.nodes[n] # {}
  BY DEF Divisible
<1>2. Cardinality(cfg.nodes[n]) \in Nat
  BY <1>1, FS_CardinalityType
<1>3. Cardinality(cfg.nodes[n]) # 0
  BY <1>1, FS_EmptySet
<1>4. QED
  BY <1>2, <1>3 DEF NodeSize

\* A node is occupied by at most all of the threads.
LEMMA OccupationCounts ==
  ASSUME NEW k \in Nat, NEW ns, DOMAIN ns = 1 .. k, NEW n
  PROVE  Occupation(ns, n) \in Nat /\ IsFiniteSet({t \in DOMAIN ns : ns[t] = n})
<1>1. IsFiniteSet(1 .. k)
  BY FS_Interval
<1>2. {t \in DOMAIN ns : ns[t] = n} \in SUBSET (1 .. k)
  OBVIOUS
<1>3. IsFiniteSet({t \in DOMAIN ns : ns[t] = n})
  BY <1>1, <1>2, FS_Subset
<1>4. QED
  BY <1>3, FS_CardinalityType DEF Occupation

\* One more thread is one more on its node, and none more on another.
LEMMA OccupationGrows ==
  ASSUME NEW k \in Nat, NEW ns, DOMAIN ns = 1 .. k, NEW ms, DOMAIN ms = 1 .. k + 1,
         \A t \in 1 .. k : ms[t] = ns[t], NEW n
  PROVE  Occupation(ms, n) = Occupation(ns, n) + (IF ms[k + 1] = n THEN 1 ELSE 0)
<1> DEFINE A == {t \in DOMAIN ns : ns[t] = n}
           B == {t \in DOMAIN ms : ms[t] = n}
<1>1. IsFiniteSet(A) /\ Occupation(ns, n) = Cardinality(A) /\ Cardinality(A) \in Nat
  BY OccupationCounts DEF Occupation
<1>2. CASE ms[k + 1] = n
  <2>1. B = A \cup {k + 1} /\ k + 1 \notin A
    BY <1>2
  <2> HIDE DEF A, B
  <2>2. Cardinality(A \cup {k + 1}) = Cardinality(A) + 1
    BY <1>1, <2>1, FS_AddElement
  <2>3. Cardinality(B) = Cardinality(A) + 1
    BY <2>1, <2>2
  <2>4. QED
    BY <1>1, <1>2, <2>3 DEF B, Occupation
<1>3. CASE ms[k + 1] # n
  <2>1. B = A
    BY <1>3
  <2>2. Occupation(ms, n) = Cardinality(B)
    BY DEF Occupation
  <2> HIDE DEF A, B
  <2>3. QED
    BY <1>1, <1>3, <2>1, <2>2
<1>4. QED
  BY <1>2, <1>3

\* Fractions are compared by multiplying across, which is an order.
LEMMA FractionsOrdered ==
  ASSUME NEW a \in Nat, NEW b \in Nat, NEW c \in Nat,
         NEW x \in Nat, NEW y \in Nat, NEW z \in Nat, x > 0, y > 0, z > 0
  PROVE  /\ a * y < b * x /\ b * z <= c * y => a * z < c * x
         /\ a * y <= b * x /\ b * z < c * y => a * z < c * x
         /\ a * y <= b * x /\ b * z <= c * y => a * z <= c * x
<1>1. (a * y) * z = (a * z) * y /\ (b * x) * z = (b * z) * x /\ (c * y) * x = (c * x) * y
  OBVIOUS
<1>2. a * y \in Nat /\ b * x \in Nat /\ b * z \in Nat /\ c * y \in Nat /\ a * z \in Nat /\ c * x \in Nat
  OBVIOUS
<1> DEFINE ay == a * y  bx == b * x  bz == b * z  cy == c * y  az == a * z  cx == c * x
<1>3. /\ ay \in Nat /\ bx \in Nat /\ bz \in Nat /\ cy \in Nat /\ az \in Nat /\ cx \in Nat
      /\ ay * z = az * y /\ bx * z = bz * x /\ cy * x = cx * y
  BY <1>1, <1>2
<1> HIDE DEF ay, bx, bz, cy, az, cx
<1>4. /\ ay < bx => ay * z < bx * z
      /\ ay <= bx => ay * z <= bx * z
      /\ bz < cy => bz * x < cy * x
      /\ bz <= cy => bz * x <= cy * x
  BY <1>3
<1>5. /\ az * y < cx * y => az < cx
      /\ az * y <= cx * y => az <= cx
  BY <1>3
<1>6. /\ ay < bx /\ bz <= cy => az < cx
      /\ ay <= bx /\ bz < cy => az < cx
      /\ ay <= bx /\ bz <= cy => az <= cx
  BY <1>3, <1>4, <1>5
<1>7. QED
  BY <1>6 DEF ay, bx, bz, cy, az, cx

\* The first node that one more thread would make the least full exists.
Fuller(cfg, ns, n, m) ==
  (Occupation(ns, n) + 1) * NodeSize(cfg, m) < (Occupation(ns, m) + 1) * NodeSize(cfg, n)
FirstLeast(cfg, ns, k, n) ==
  /\ n \in 1 .. k
  /\ \A m \in 1 .. k : ~Fuller(cfg, ns, m, n)
  /\ \A m \in 1 .. n - 1 : Fuller(cfg, ns, n, m)

LEMMA FullerOrdered ==
  ASSUME NEW cfg, Divisible(cfg), NEW c \in Nat, NEW ns, DOMAIN ns = 1 .. c,
         NEW i \in DOMAIN cfg.nodes, NEW j \in DOMAIN cfg.nodes, NEW k \in DOMAIN cfg.nodes
  PROVE  /\ Fuller(cfg, ns, i, j) /\ ~Fuller(cfg, ns, k, j) => Fuller(cfg, ns, i, k)
         /\ ~Fuller(cfg, ns, j, i) /\ Fuller(cfg, ns, j, k) => Fuller(cfg, ns, i, k)
         /\ ~Fuller(cfg, ns, j, i) /\ ~Fuller(cfg, ns, k, j) => ~Fuller(cfg, ns, k, i)
         /\ ~Fuller(cfg, ns, i, i)
         /\ Fuller(cfg, ns, i, j) => ~Fuller(cfg, ns, j, i)
<1> DEFINE o(n) == Occupation(ns, n) + 1
           s(n) == NodeSize(cfg, n)
<1>1. ASSUME NEW n \in DOMAIN cfg.nodes PROVE o(n) \in Nat /\ s(n) \in Nat /\ s(n) > 0
  <2>1. Occupation(ns, n) \in Nat
    BY OccupationCounts
  <2>2. NodeSize(cfg, n) \in Nat /\ NodeSize(cfg, n) > 0
    BY SizesPositive
  <2> QED BY <2>1, <2>2
<1>2. \A n, m \in DOMAIN cfg.nodes : Fuller(cfg, ns, n, m) <=> o(n) * s(m) < o(m) * s(n)
  BY DEF Fuller
<1> HIDE DEF o, s
<1>3. \A n, m \in DOMAIN cfg.nodes : o(n) * s(m) \in Nat
  BY <1>1
<1>4. ASSUME NEW n \in DOMAIN cfg.nodes, NEW m \in DOMAIN cfg.nodes
      PROVE  ~Fuller(cfg, ns, n, m) <=> o(m) * s(n) <= o(n) * s(m)
  <2> DEFINE x == o(n) * s(m)  y == o(m) * s(n)
  <2>1. x \in Nat /\ y \in Nat /\ (Fuller(cfg, ns, n, m) <=> x < y)
    BY <1>2, <1>3
  <2> HIDE DEF x, y
  <2>2. ~(x < y) <=> y <= x
    BY <2>1
  <2>3. QED
    BY <2>1, <2>2 DEF x, y
<1>5. o(i) * s(j) < o(j) * s(i) /\ o(j) * s(k) <= o(k) * s(j) => o(i) * s(k) < o(k) * s(i)
  BY <1>1, FractionsOrdered
<1>6. o(i) * s(j) <= o(j) * s(i) /\ o(j) * s(k) < o(k) * s(j) => o(i) * s(k) < o(k) * s(i)
  BY <1>1, FractionsOrdered
<1>7. o(i) * s(j) <= o(j) * s(i) /\ o(j) * s(k) <= o(k) * s(j) => o(i) * s(k) <= o(k) * s(i)
  BY <1>1, FractionsOrdered
<1>8. Fuller(cfg, ns, i, j) => ~Fuller(cfg, ns, j, i)
  BY <1>2, <1>3
<1>9. ~Fuller(cfg, ns, i, i)
  BY <1>2, <1>3
<1>10. QED
  BY <1>2, <1>4, <1>5, <1>6, <1>7, <1>8, <1>9

LEMMA FirstLeastExists ==
  ASSUME NEW cfg, Divisible(cfg), NEW c \in Nat, NEW ns, DOMAIN ns = 1 .. c
  PROVE  \E n : FirstLeast(cfg, ns, NumNodes(cfg), n)
<1> DEFINE N == NumNodes(cfg)
           has(k) == \E n : FirstLeast(cfg, ns, k, n)
           Bad == {k \in 1 .. N : ~has(k)}
<1>1. N \in Nat /\ N > 0 /\ DOMAIN cfg.nodes = 1 .. N
  BY DEF Divisible
<1>2. SUFFICES ASSUME ~has(N) PROVE FALSE
  OBVIOUS
<1>3. Bad \subseteq Nat /\ Bad # {}
  BY <1>1, <1>2
<1>4. PICK k \in Bad : \A y \in Bad : k <= y
  <2> HIDE DEF Bad
  <2> QED BY <1>3, LeastNumber
<1>5. k \in 1 .. N /\ k \in Nat /\ ~has(k)
  BY <1>1
<1>6. k # 1
  <2>1. SUFFICES ASSUME k = 1 PROVE FALSE
    OBVIOUS
  <2>2. ~Fuller(cfg, ns, 1, 1)
    BY <1>1, FullerOrdered
  <2>3. FirstLeast(cfg, ns, 1, 1)
    BY <2>2 DEF FirstLeast
  <2>4. QED
    BY <1>5, <2>1, <2>3
<1>7. k - 1 \in 1 .. N /\ has(k - 1)
  <2>1. k - 1 \in 1 .. N /\ ~(k <= k - 1)
    BY <1>1, <1>5, <1>6
  <2>2. QED
    BY <1>4, <2>1
<1>8. PICK b : FirstLeast(cfg, ns, k - 1, b)
  BY <1>7
<1>9. b \in 1 .. k - 1 /\ b \in DOMAIN cfg.nodes /\ k \in DOMAIN cfg.nodes /\ b \in Nat
  BY <1>1, <1>5, <1>8 DEF FirstLeast
<1>10. CASE Fuller(cfg, ns, k, b)
  <2>1. ASSUME NEW m \in 1 .. k PROVE ~Fuller(cfg, ns, m, k)
    <3>1. CASE m = k
      BY <1>9, <3>1, FullerOrdered
    <3>2. CASE m # k
      <4>1. m \in 1 .. k - 1 /\ m \in DOMAIN cfg.nodes
        BY <1>1, <1>5, <3>2
      <4>2. ~Fuller(cfg, ns, m, b)
        BY <4>1, <1>8 DEF FirstLeast
      <4>3. Fuller(cfg, ns, k, m)
        BY <1>9, <1>10, <4>1, <4>2, FullerOrdered
      <4>4. QED
        BY <1>9, <4>1, <4>3, FullerOrdered
    <3>3. QED
      BY <3>1, <3>2
  <2>2. ASSUME NEW m \in 1 .. k - 1 PROVE Fuller(cfg, ns, k, m)
    <3>1. m \in DOMAIN cfg.nodes
      BY <1>1, <1>5
    <3>2. ~Fuller(cfg, ns, m, b)
      BY <1>8 DEF FirstLeast
    <3>3. QED
      BY <1>9, <1>10, <3>1, <3>2, FullerOrdered
  <2>3. FirstLeast(cfg, ns, k, k)
    BY <1>5, <2>1, <2>2 DEF FirstLeast
  <2>4. QED
    BY <1>5, <2>3
<1>11. CASE ~Fuller(cfg, ns, k, b)
  <2>1. \A m \in 1 .. k : ~Fuller(cfg, ns, m, b)
    BY <1>5, <1>8, <1>11 DEF FirstLeast
  <2>2. FirstLeast(cfg, ns, k, b)
    BY <1>5, <1>8, <1>9, <2>1 DEF FirstLeast
  <2>3. QED
    BY <1>5, <2>2
<1>12. QED
  BY <1>10, <1>11

LEMMA BestNodeIsLeast ==
  ASSUME NEW cfg, Divisible(cfg), NEW c \in Nat, NEW ns, DOMAIN ns = 1 .. c
  PROVE  /\ BestNode(cfg, ns) \in DOMAIN cfg.nodes
         /\ \A m \in DOMAIN cfg.nodes : ~Fuller(cfg, ns, m, BestNode(cfg, ns))
<1>1. PICK n : FirstLeast(cfg, ns, NumNodes(cfg), n)
  BY FirstLeastExists
<1>2. DOMAIN cfg.nodes = 1 .. NumNodes(cfg)
  BY DEF Divisible
<1>3. /\ n \in DOMAIN cfg.nodes
      /\ \A m \in DOMAIN cfg.nodes : ~Fuller(cfg, ns, m, n)
      /\ \A m \in 1 .. n - 1 : Fuller(cfg, ns, n, m)
  BY <1>1, <1>2 DEF FirstLeast
<1>4. BestNode(cfg, ns) = CHOOSE x \in DOMAIN cfg.nodes : /\ \A m \in DOMAIN cfg.nodes : ~Fuller(cfg, ns, m, x)
                                                       /\ \A m \in 1 .. x - 1 : Fuller(cfg, ns, x, m)
  BY Zenon DEF BestNode, Fuller
<1>5. QED
  BY <1>3, <1>4, Zenon

LEMMA NextNodeIsLeast ==
  ASSUME NEW cfg, Divisible(cfg), NEW c \in Nat, NEW ns, DOMAIN ns = 1 .. c
  PROVE  /\ NextNode(cfg, ns) \in DOMAIN cfg.nodes
         /\ \A m \in DOMAIN cfg.nodes : ~Fuller(cfg, ns, m, NextNode(cfg, ns))
<1>1. CASE NumNodes(cfg) = 1
  <2>1. NextNode(cfg, ns) = 1 /\ DOMAIN cfg.nodes = {1}
    BY <1>1 DEF NextNode, Divisible
  <2>2. ~Fuller(cfg, ns, 1, 1)
    BY <2>1, FullerOrdered
  <2>3. QED
    BY <2>1, <2>2
<1>2. CASE NumNodes(cfg) # 1
  BY <1>2, BestNodeIsLeast DEF NextNode
<1>3. QED
  BY <1>1, <1>2

Distributes(cfg, c, ns) ==
  /\ ns \in [1 .. c -> DOMAIN cfg.nodes]
  /\ \A t \in 1 .. c : ns[t] = NextNode(cfg, FirstOf(ns, t - 1))

LEMMA DistributionExists ==
  ASSUME NEW cfg, Divisible(cfg), NEW c \in Nat
  PROVE  \E ns : Distributes(cfg, c, ns)
<1> DEFINE has(k) == \E ns : Distributes(cfg, k, ns)
           Bad == {k \in Nat : ~has(k)}
<1>1. SUFFICES ASSUME ~has(c) PROVE FALSE
  OBVIOUS
<1>2. PICK k \in Bad : \A y \in Bad : k <= y
  <2>1. Bad \subseteq Nat /\ Bad # {}
    BY <1>1
  <2> HIDE DEF Bad
  <2> QED BY <2>1, LeastNumber
<1>3. k \in Nat /\ ~has(k)
  OBVIOUS
<1>4. k # 0
  <2>1. SUFFICES ASSUME k = 0 PROVE FALSE
    OBVIOUS
  <2>2. Distributes(cfg, 0, [t \in 1 .. 0 |-> 1])
    BY DEF Distributes
  <2>3. QED
    BY <1>3, <2>1, <2>2
<1>5. k - 1 \in Nat /\ has(k - 1)
  <2>1. k - 1 \in Nat /\ ~(k <= k - 1)
    BY <1>3, <1>4
  <2>2. QED
    BY <1>2, <2>1
<1>6. PICK ns : Distributes(cfg, k - 1, ns)
  BY <1>5
<1> DEFINE ms == [t \in 1 .. k |-> IF t = k THEN NextNode(cfg, ns) ELSE ns[t]]
<1>7. ns \in [1 .. k - 1 -> DOMAIN cfg.nodes] /\ DOMAIN ns = 1 .. k - 1
  BY <1>6 DEF Distributes
<1>8. NextNode(cfg, ns) \in DOMAIN cfg.nodes
  BY <1>5, <1>7, NextNodeIsLeast
<1>9. ms \in [1 .. k -> DOMAIN cfg.nodes]
  BY <1>3, <1>7, <1>8
<1>10. ASSUME NEW t \in 1 .. k PROVE ms[t] = NextNode(cfg, FirstOf(ms, t - 1))
  <2>1. \A s \in 1 .. t - 1 : s \in 1 .. k /\ s # k
    BY <1>3
  <2>2. \A s \in 1 .. t - 1 : ms[s] = ns[s]
    BY <2>1
  <2>3. FirstOf(ms, t - 1) = FirstOf(ns, t - 1)
    <3> HIDE DEF ms
    <3> QED BY <2>2 DEF FirstOf
  <2>4. CASE t = k
    <3>1. FirstOf(ns, k - 1) = ns
      BY <1>7 DEF FirstOf
    <3>2. ms[t] = NextNode(cfg, ns)
      BY <2>4
    <3> HIDE DEF ms
    <3>3. QED
      BY <2>3, <2>4, <3>1, <3>2
  <2>5. CASE t # k
    <3>1. t \in 1 .. k - 1 /\ ms[t] = ns[t]
      BY <1>3, <2>5
    <3>2. ns[t] = NextNode(cfg, FirstOf(ns, t - 1))
      BY <1>6, <3>1 DEF Distributes
    <3> HIDE DEF ms
    <3>3. QED
      BY <2>3, <3>1, <3>2
  <2>6. QED
    BY <2>4, <2>5
<1>11. Distributes(cfg, k, ms)
  <2> HIDE DEF ms
  <2> QED BY <1>9, <1>10 DEF Distributes
<1>12. QED
  BY <1>3, <1>11

LEMMA DistributionDistributes ==
  ASSUME NEW cfg, Divisible(cfg), NEW c \in Nat
  PROVE  Distributes(cfg, c, Distribution(cfg, c))
<1>1. PICK ns : Distributes(cfg, c, ns)
  BY DistributionExists
<1>2. Distribution(cfg, c) = CHOOSE x \in [1 .. c -> DOMAIN cfg.nodes] : \A t \in 1 .. c : x[t] = NextNode(cfg, FirstOf(x, t - 1))
  BY DEF Distribution
<1>3. QED
  BY <1>1, <1>2, Zenon DEF Distributes

\* Threads are spread evenly: no node is so full that moving one of its threads
\* to another would leave that one less full than it was.
Even(cfg, ns) ==
  \A n, m \in DOMAIN cfg.nodes : Occupation(ns, n) * NodeSize(cfg, m) <= (Occupation(ns, m) + 1) * NodeSize(cfg, n)

LEMMA NextKeepsEven ==
  ASSUME NEW cfg, Divisible(cfg), NEW k \in Nat, NEW ns, DOMAIN ns = 1 .. k, NEW ms, DOMAIN ms = 1 .. k + 1,
         \A t \in 1 .. k : ms[t] = ns[t], ms[k + 1] = NextNode(cfg, ns), Even(cfg, ns)
  PROVE  Even(cfg, ms)
<1> DEFINE b == NextNode(cfg, ns)
<1>1. b \in DOMAIN cfg.nodes /\ \A m \in DOMAIN cfg.nodes : ~Fuller(cfg, ns, m, b)
  BY NextNodeIsLeast
<1> HIDE DEF b
<1>2. ms[k + 1] = b
  BY DEF b
<1>3. ASSUME NEW n PROVE Occupation(ms, n) = Occupation(ns, n) + (IF b = n THEN 1 ELSE 0)
  BY <1>2, OccupationGrows
<1> SUFFICES ASSUME NEW n \in DOMAIN cfg.nodes, NEW m \in DOMAIN cfg.nodes
             PROVE  Occupation(ms, n) * NodeSize(cfg, m) <= (Occupation(ms, m) + 1) * NodeSize(cfg, n)
  BY DEF Even
<1>4. Occupation(ns, n) \in Nat /\ Occupation(ns, m) \in Nat
  BY OccupationCounts
<1>5. NodeSize(cfg, n) \in Nat /\ NodeSize(cfg, n) > 0 /\ NodeSize(cfg, m) \in Nat /\ NodeSize(cfg, m) > 0
  BY SizesPositive
<1> DEFINE on == Occupation(ns, n)  om == Occupation(ns, m)  sn == NodeSize(cfg, n)  sm == NodeSize(cfg, m)
<1>6. on * sm <= (om + 1) * sn
  BY DEF Even
<1>7. on \in Nat /\ om \in Nat /\ sn \in Nat /\ sm \in Nat /\ sn > 0 /\ sm > 0
  BY <1>4, <1>5
<1>8. CASE n = b
  <2>1. ~((om + 1) * sn < (on + 1) * sm)
    BY <1>1, <1>8 DEF Fuller
  <2>2. CASE m = b
    <3>1. Occupation(ms, n) = on + 1 /\ Occupation(ms, m) = on + 1 /\ sm = sn
      BY <1>3, <1>8, <2>2
    <3> HIDE DEF on, om, sn, sm
    <3>2. (on + 1) * sn <= (on + 1 + 1) * sn
      BY <1>7
    <3>3. QED
      BY <3>1, <3>2 DEF sn, sm
  <2>3. CASE m # b
    <3>1. Occupation(ms, n) = on + 1 /\ Occupation(ms, m) = om
      BY <1>3, <1>4, <1>8, <2>3
    <3> HIDE DEF on, om, sn, sm
    <3>2. (on + 1) * sm \in Nat /\ (om + 1) * sn \in Nat
      BY <1>7
    <3>3. (on + 1) * sm <= (om + 1) * sn
      BY <2>1, <3>2
    <3>4. QED
      BY <3>1, <3>3 DEF sn, sm
  <2>4. QED
    BY <2>2, <2>3
<1>9. CASE n # b
  <2>1. Occupation(ms, n) = on /\ Occupation(ms, m) \in {om, om + 1}
    BY <1>3, <1>4, <1>9
  <2> HIDE DEF on, om, sn, sm
  <2>2. (om + 1) * sn <= (om + 1 + 1) * sn /\ (om + 1) * sn \in Nat /\ on * sm \in Nat /\ (om + 1 + 1) * sn \in Nat
    BY <1>7
  <2>3. on * sm <= (Occupation(ms, m) + 1) * sn
    BY <1>6, <2>1, <2>2
  <2>4. QED
    BY <2>1, <2>3 DEF sn, sm
<1>10. QED
  BY <1>8, <1>9

\* However many processors the nodes have and however many threads are asked for, the threads
\* are spread evenly over them (distribute_threads_among_numa_nodes).
THEOREM ThreadsSpreadEvenly ==
  ASSUME NEW cfg, Divisible(cfg), NEW c \in Nat
  PROVE  Even(cfg, Distribution(cfg, c))
<1> DEFINE ns == Distribution(cfg, c)
<1>1. Distributes(cfg, c, ns)
  BY DistributionDistributes
<1> HIDE DEF ns
<1>2. ns \in [1 .. c -> DOMAIN cfg.nodes] /\ DOMAIN ns = 1 .. c
  BY <1>1 DEF Distributes
<1> DEFINE Bad == {k \in 0 .. c : ~Even(cfg, FirstOf(ns, k))}
<1>3. SUFFICES Bad = {}
  <2>1. FirstOf(ns, c) = ns
    BY <1>2 DEF FirstOf
  <2>2. c \in 0 .. c
    OBVIOUS
  <2>3. Even(cfg, FirstOf(ns, c))
    BY <1>3, <2>2
  <2>4. QED
    BY <2>1, <2>3 DEF ns
<1>4. SUFFICES ASSUME Bad # {} PROVE FALSE
  OBVIOUS
<1>5. PICK k \in Bad : \A y \in Bad : k <= y
  <2>1. Bad \subseteq Nat
    OBVIOUS
  <2> HIDE DEF Bad
  <2> QED BY <1>4, <2>1, LeastNumber
<1>6. k \in 0 .. c /\ ~Even(cfg, FirstOf(ns, k))
  OBVIOUS
<1>7. CASE k = 0
  <2>1. \A n : Occupation(FirstOf(ns, 0), n) = 0
    <3> SUFFICES ASSUME NEW n PROVE Occupation(FirstOf(ns, 0), n) = 0
      OBVIOUS
    <3>1. {t \in DOMAIN FirstOf(ns, 0) : FirstOf(ns, 0)[t] = n} = {}
      BY DEF FirstOf
    <3>2. QED
      BY <3>1, FS_EmptySet DEF Occupation
  <2>2. ASSUME NEW n \in DOMAIN cfg.nodes, NEW m \in DOMAIN cfg.nodes
        PROVE  0 * NodeSize(cfg, m) <= (0 + 1) * NodeSize(cfg, n)
    BY SizesPositive
  <2>3. Even(cfg, FirstOf(ns, 0))
    BY <2>1, <2>2 DEF Even
  <2>4. QED
    BY <1>6, <1>7, <2>3
<1>8. CASE k # 0
  <2>1. k - 1 \in 0 .. c /\ k - 1 \in Nat /\ ~(k <= k - 1) /\ k \in 1 .. c /\ k - 1 + 1 = k
    BY <1>6, <1>8
  <2>2. Even(cfg, FirstOf(ns, k - 1))
    BY <1>5, <2>1
  <2>3. ns[k] = NextNode(cfg, FirstOf(ns, k - 1))
    BY <1>1, <2>1 DEF Distributes
  <2>4. /\ DOMAIN FirstOf(ns, k - 1) = 1 .. k - 1 /\ DOMAIN FirstOf(ns, k) = 1 .. k
        /\ \A t \in 1 .. k - 1 : FirstOf(ns, k)[t] = FirstOf(ns, k - 1)[t]
        /\ FirstOf(ns, k)[k] = ns[k]
    BY <2>1 DEF FirstOf
  <2>5. Even(cfg, FirstOf(ns, k))
    <3> DEFINE j == k - 1  p == FirstOf(ns, k - 1)  q == FirstOf(ns, k)
    <3>1. j \in Nat /\ DOMAIN p = 1 .. j /\ DOMAIN q = 1 .. j + 1 /\ (\A t \in 1 .. j : q[t] = p[t])
          /\ q[j + 1] = NextNode(cfg, p) /\ Even(cfg, p)
      BY <2>1, <2>2, <2>3, <2>4
    <3> HIDE DEF j, p, q
    <3>2. Even(cfg, q)
      BY <3>1, NextKeepsEven
    <3>3. QED
      BY <3>2 DEF q
  <2>6. QED
    BY <1>6, <2>5
<1>9. QED
  BY <1>7, <1>8

-----------------------------------------------------------------------------
(* Configurations: of the system, in text, and of caches that are bundled. *)

\* A finite set of numbers does not go on for ever.
LEMMA RunsEnd ==
  ASSUME NEW S, IsFiniteSet(S), NEW c \in Int
  PROVE  \E d \in Nat : c + d + 1 \notin S
<1> DEFINE N == Cardinality(S)
<1>1. N \in Nat
  BY FS_CardinalityType
<1> HIDE DEF N
<1>2. SUFFICES ASSUME \A d \in Nat : c + d + 1 \in S PROVE FALSE
  OBVIOUS
<1>3. \A x \in c + 1 .. c + 1 + N : x - c - 1 \in Nat /\ c + (x - c - 1) + 1 = x
  BY <1>1
<1>4. c + 1 .. c + 1 + N \in SUBSET S
  BY <1>2, <1>3
<1>5. Cardinality(c + 1 .. c + 1 + N) <= N
  BY <1>4, FS_Subset DEF N
<1>6. c + 1 \in Int /\ c + 1 + N \in Int /\ ~(c + 1 > c + 1 + N) /\ (c + 1 + N) - (c + 1) + 1 = N + 1
  BY <1>1
<1>7. Cardinality(c + 1 .. c + 1 + N) = N + 1
  BY <1>6, FS_Interval
<1>8. QED
  BY <1>1, <1>5, <1>7

\* The ranges written for a node name its processors, each once.
LEMMA RangesName ==
  ASSUME NEW cpus, cpus \subseteq Nat, IsFiniteSet(cpus)
  PROVE  /\ Indices(Ranges(cpus)) = cpus
         /\ \A r, s \in Ranges(cpus) : r # s => (r[1] .. r[2]) \cap (s[1] .. s[2]) = {}
<1>1. ASSUME NEW r \in Ranges(cpus)
      PROVE  /\ r = <<r[1], r[2]>> /\ r[1] \in Nat /\ r[2] \in Nat /\ r[1] <= r[2] /\ r[1] .. r[2] \subseteq cpus
             /\ r[1] - 1 \notin cpus /\ r[2] + 1 \notin cpus
  <2>1. /\ r \in cpus \X cpus /\ r[1] <= r[2] /\ r[1] .. r[2] \subseteq cpus
        /\ r[1] - 1 \notin cpus /\ r[2] + 1 \notin cpus
    BY DEF Ranges
  <2>2. r = <<r[1], r[2]>> /\ r[1] \in cpus /\ r[2] \in cpus
    BY <2>1
  <2>3. QED
    BY <2>1, <2>2
<1>2. Indices(Ranges(cpus)) \subseteq cpus
  BY <1>1 DEF Indices
<1>3. ASSUME NEW c \in cpus PROVE c \in Indices(Ranges(cpus))
  <2> DEFINE Starts == {a \in Nat : a <= c /\ a .. c \subseteq cpus}
             Stops == {d \in Nat : c + d + 1 \notin cpus}
  <2>1. c \in Starts /\ Starts \subseteq Nat
    BY <1>3
  <2>2. Stops # {} /\ Stops \subseteq Nat
    <3>1. c \in Int
      BY <1>3
    <3>2. \E d \in Nat : c + d + 1 \notin cpus
      BY <3>1, RunsEnd
    <3>3. QED
      BY <3>2
  <2>3. PICK a \in Starts : \A x \in Starts : a <= x
    <3> HIDE DEF Starts
    <3> QED BY <2>1, LeastNumber
  <2>4. PICK d \in Stops : \A x \in Stops : d <= x
    <3> HIDE DEF Stops
    <3> QED BY <2>2, LeastNumber
  <2>5. a \in Nat /\ c \in Nat /\ d \in Nat /\ a <= c /\ a .. c \subseteq cpus /\ c + d + 1 \notin cpus
    BY <1>3
  <2>6. a - 1 \notin cpus
    <3>1. ASSUME a - 1 \in cpus PROVE FALSE
      <4>1. a - 1 \in Nat /\ a - 1 <= c /\ ~(a <= a - 1)
        BY <2>5, <3>1
      <4>2. \A x \in a - 1 .. c : x = a - 1 \/ x \in a .. c
        BY <2>5
      <4>3. a - 1 \in Starts
        BY <2>5, <3>1, <4>1, <4>2
      <4>4. QED
        BY <2>3, <4>1, <4>3
    <3>2. QED
      BY <3>1
  <2>7. ASSUME NEW x \in c .. c + d PROVE x \in cpus
    <3>1. CASE x = c
      BY <3>1
    <3>2. CASE x # c
      <4>1. x - c - 1 \in Nat /\ ~(d <= x - c - 1) /\ c + (x - c - 1) + 1 = x
        BY <2>5, <3>2
      <4>2. x - c - 1 \notin Stops
        <5> HIDE DEF Stops
        <5> QED BY <2>4, <4>1
      <4>3. QED
        BY <4>1, <4>2
    <3>3. QED
      BY <3>1, <3>2
  <2>8. \A x \in a .. c + d : x \in a .. c \/ x \in c .. c + d
    BY <2>5
  <2> DEFINE r == <<a, c + d>>
  <2>9. a \in cpus /\ c + d \in cpus /\ a <= c + d /\ c \in a .. c + d /\ a .. c + d \subseteq cpus
    <3>1. a \in a .. c /\ c + d \in c .. c + d /\ a <= c + d /\ c \in a .. c + d
      BY <2>5
    <3>2. QED
      BY <2>5, <2>7, <2>8, <3>1
  <2>10. r \in Ranges(cpus)
    <3>1. r \in cpus \X cpus /\ r[1] = a /\ r[2] = c + d
      BY <2>9
    <3> HIDE DEF r
    <3>2. QED
      BY <2>5, <2>6, <2>9, <3>1 DEF Ranges
  <2>11. QED
    BY <2>9, <2>10 DEF Indices
<1>4. ASSUME NEW r \in Ranges(cpus), NEW s \in Ranges(cpus), NEW x \in (r[1] .. r[2]) \cap (s[1] .. s[2])
      PROVE  r = s
  <2>1. x \in Int /\ r[1] <= x /\ x <= r[2] /\ s[1] <= x /\ x <= s[2]
    BY <1>1
  <2>2. ~(r[1] < s[1]) /\ ~(s[1] < r[1])
    <3>1. r[1] < s[1] => s[1] - 1 \in r[1] .. r[2]
      BY <1>1, <2>1
    <3>2. s[1] < r[1] => r[1] - 1 \in s[1] .. s[2]
      BY <1>1, <2>1
    <3>3. QED
      BY <1>1, <3>1, <3>2
  <2>3. ~(r[2] < s[2]) /\ ~(s[2] < r[2])
    <3>1. r[2] < s[2] => r[2] + 1 \in s[1] .. s[2]
      BY <1>1, <2>1
    <3>2. s[2] < r[2] => s[2] + 1 \in r[1] .. r[2]
      BY <1>1, <2>1
    <3>3. QED
      BY <1>1, <3>1, <3>2
  <2>4. r[1] = s[1] /\ r[2] = s[2]
    BY <1>1, <2>2, <2>3
  <2>5. QED
    BY <1>1, <2>4
<1>5. QED
  BY <1>2, <1>3, <1>4

\* A finite set in a total order is numbered, each member once.
TotalOn(S, order) ==
  /\ \A x \in S : <<x, x>> \in order
  /\ \A x, y \in S : <<x, y>> \in order \/ <<y, x>> \in order
  /\ \A x, y \in S : <<x, y>> \in order /\ <<y, x>> \in order => x = y
  /\ \A x, y, z \in S : <<x, y>> \in order /\ <<y, z>> \in order => <<x, z>> \in order

LEMMA InOrderNumbers ==
  ASSUME NEW S, IsFiniteSet(S), NEW order, TotalOn(S, order)
  PROVE  /\ Cardinality(S) \in Nat
         /\ InOrder(S, order) \in [1 .. Cardinality(S) -> S]
         /\ \A x \in S : \E k \in 1 .. Cardinality(S) : InOrder(S, order)[k] = x
         /\ \A k, m \in 1 .. Cardinality(S) : InOrder(S, order)[k] = InOrder(S, order)[m] => k = m
<1> DEFINE N == Cardinality(S)
           I == 1 .. N
           UpTo(x) == {y \in S : <<y, x>> \in order}
           place == [x \in S |-> Cardinality(UpTo(x))]
           q == InOrder(S, order)
<1>1. N \in Nat /\ IsFiniteSet(I) /\ Cardinality(I) = N
  <2>1. N \in Nat
    BY FS_CardinalityType
  <2> HIDE DEF N
  <2>2. QED
    BY <2>1, FS_Interval
<1> HIDE DEF N
<1>2. ASSUME NEW x \in S PROVE x \in UpTo(x) /\ IsFiniteSet(UpTo(x)) /\ Cardinality(UpTo(x)) \in I
  <2>1. x \in UpTo(x) /\ UpTo(x) \in SUBSET S
    BY DEF TotalOn
  <2> HIDE DEF UpTo
  <2>2. IsFiniteSet(UpTo(x)) /\ Cardinality(UpTo(x)) <= N
    BY <2>1, FS_Subset DEF N
  <2>3. Cardinality(UpTo(x)) \in Nat /\ Cardinality(UpTo(x)) # 0
    BY <2>1, <2>2, FS_CardinalityType, FS_EmptySet
  <2>4. QED
    BY <1>1, <2>1, <2>2, <2>3
<1>3. ASSUME NEW x \in S, NEW y \in S, <<x, y>> \in order, x # y PROVE Cardinality(UpTo(x)) # Cardinality(UpTo(y))
  <2>1. UpTo(x) \in SUBSET UpTo(y) /\ y \notin UpTo(x)
    BY <1>3 DEF TotalOn
  <2>2. y \in UpTo(y) /\ IsFiniteSet(UpTo(y))
    BY <1>2
  <2> HIDE DEF UpTo
  <2>3. QED
    BY <2>1, <2>2, FS_Subset
<1>4. ASSUME NEW x \in S, NEW y \in S, Cardinality(UpTo(x)) = Cardinality(UpTo(y)) PROVE x = y
  BY <1>3, <1>4 DEF TotalOn
<1>5. place \in Injection(S, I)
  <2>1. \A x \in S : place[x] = Cardinality(UpTo(x))
    OBVIOUS
  <2>2. place \in [S -> I]
    BY <1>2
  <2> HIDE DEF place, UpTo
  <2>3. \A x, y \in S : place[x] = place[y] => x = y
    BY <1>4, <2>1
  <2>4. QED
    BY <2>2, <2>3 DEF Injection, IsInjective
<1>6. place \in Surjection(S, I)
  <2> HIDE DEF place, I
  <2>1. Cardinality(S) = Cardinality(I)
    BY <1>1 DEF N
  <2>2. QED
    BY <1>1, <1>5, <2>1, FS_Injection
<1>7. ASSUME NEW k \in I PROVE \E x \in S : Cardinality(UpTo(x)) = k
  <2>1. \A x \in S : place[x] = Cardinality(UpTo(x))
    OBVIOUS
  <2> HIDE DEF place, UpTo, I
  <2>2. \E x \in S : place[x] = k
    BY <1>6 DEF Surjection
  <2>3. QED
    BY <2>1, <2>2
<1>8. q = [k \in I |-> CHOOSE x \in S : Cardinality(UpTo(x)) = k]
  BY DEF InOrder, N
<1> HIDE DEF q, UpTo
<1>9. ASSUME NEW k \in I PROVE q[k] \in S /\ Cardinality(UpTo(q[k])) = k
  BY <1>7, <1>8
<1>10. q \in [I -> S]
  BY <1>8, <1>9
<1>11. ASSUME NEW x \in S PROVE \E k \in I : q[k] = x
  <2>1. Cardinality(UpTo(x)) \in I
    BY <1>2
  <2>2. QED
    BY <1>4, <1>9, <2>1
<1>12. \A k, m \in I : q[k] = q[m] => k = m
  BY <1>9
<1>13. QED
  BY <1>1, <1>10, <1>11, <1>12 DEF q, N

LEMMA AscendingNumbers ==
  ASSUME NEW S, IsFiniteSet(S), S \subseteq Int
  PROVE  /\ Cardinality(S) \in Nat
         /\ Ascending(S) \in [1 .. Cardinality(S) -> S]
         /\ \A x \in S : \E k \in 1 .. Cardinality(S) : Ascending(S)[k] = x
         /\ \A k, m \in 1 .. Cardinality(S) : Ascending(S)[k] = Ascending(S)[m] => k = m
<1> DEFINE order == {x \in S \X S : x[1] <= x[2]}
<1>1. \A x, y \in S : <<x, y>> \in order <=> x <= y
  OBVIOUS
<1>2. Ascending(S) = InOrder(S, order)
  BY DEF Ascending
<1> HIDE DEF order
<1>3. TotalOn(S, order)
  BY <1>1 DEF TotalOn
<1>4. QED
  BY <1>2, <1>3, InOrderNumbers

\* Nodes of processors: finite sets that share none.
IsNodes(ns) ==
  /\ ns \in Seq(SUBSET Nat) /\ \A n \in DOMAIN ns : IsFiniteSet(ns[n])
  /\ \A n, m \in DOMAIN ns : n # m => ns[n] \cap ns[m] = {}
NoneEmpty(ns) == \A n \in DOMAIN ns : ns[n] # {}
IsConfig(cfg) == cfg \in [nodes : Seq(SUBSET Nat), custom : BOOLEAN] /\ IsNodes(cfg.nodes)

LEMMA InUnion == ASSUME NEW ns, NEW c PROVE c \in UNION Range(ns) <=> \E n \in DOMAIN ns : c \in ns[n]
BY DEF Range

LEMMA NodesFacts ==
  ASSUME NEW ns, IsNodes(ns)
  PROVE  /\ Len(ns) \in Nat /\ DOMAIN ns = 1 .. Len(ns) /\ IsFiniteSet(DOMAIN ns) /\ IsFiniteSet(UNION Range(ns))
         /\ \A n \in DOMAIN ns : ns[n] \subseteq Nat /\ IsFiniteSet(ns[n])
<1>1. Len(ns) \in Nat /\ DOMAIN ns = 1 .. Len(ns)
  BY DEF IsNodes
<1>2. \A n \in DOMAIN ns : ns[n] \subseteq Nat /\ IsFiniteSet(ns[n])
  BY DEF IsNodes
<1>3. IsFiniteSet(DOMAIN ns)
  BY <1>1, FS_Interval
<1>4. ns \in Surjection(DOMAIN ns, Range(ns))
  <2>1. ns = [n \in DOMAIN ns |-> ns[n]]
    BY DEF IsNodes
  <2>2. QED
    BY <2>1 DEF Surjection, Range
<1>5. IsFiniteSet(Range(ns))
  BY <1>3, <1>4, FS_Surjection
<1>6. \A T \in Range(ns) : IsFiniteSet(T)
  BY <1>2 DEF Range
<1>7. IsFiniteSet(UNION Range(ns))
  BY <1>5, <1>6, FS_UNION
<1>8. QED
  BY <1>1, <1>2, <1>3, <1>7

LEMMA RemoveKeeps ==
  ASSUME NEW cfg, IsConfig(cfg)
  PROVE  /\ IsConfig(RemoveEmptyNodes(cfg)) /\ NoneEmpty(RemoveEmptyNodes(cfg).nodes)
         /\ UNION Range(RemoveEmptyNodes(cfg).nodes) = UNION Range(cfg.nodes)
         /\ \A k \in DOMAIN RemoveEmptyNodes(cfg).nodes : \E n \in DOMAIN cfg.nodes : RemoveEmptyNodes(cfg).nodes[k] = cfg.nodes[n]
<1> DEFINE ns == cfg.nodes
           full == {n \in DOMAIN ns : ns[n] # {}}
           kept == Ascending(full)
           N == Cardinality(full)
           out == [k \in DOMAIN kept |-> ns[kept[k]]]
<1>1. /\ Len(ns) \in Nat /\ DOMAIN ns = 1 .. Len(ns) /\ IsFiniteSet(DOMAIN ns)
      /\ \A n \in DOMAIN ns : ns[n] \in SUBSET Nat /\ IsFiniteSet(ns[n])
  BY NodesFacts DEF IsConfig
<1>2. IsFiniteSet(full) /\ full \subseteq Int
  <2>1. full \in SUBSET (DOMAIN ns) /\ full \subseteq Int
    BY <1>1
  <2> HIDE DEF full
  <2>2. QED
    BY <1>1, <2>1, FS_Subset
<1>3. /\ N \in Nat /\ kept \in [1 .. N -> full]
      /\ \A n \in full : \E k \in 1 .. N : kept[k] = n
      /\ \A k, m \in 1 .. N : kept[k] = kept[m] => k = m
  <2> HIDE DEF full
  <2> QED BY <1>2, AscendingNumbers
<1>4. RemoveEmptyNodes(cfg) = [cfg EXCEPT !.nodes = out]
  BY DEF RemoveEmptyNodes
<1> HIDE DEF kept, N
<1>5. DOMAIN kept = 1 .. N /\ DOMAIN out = 1 .. N /\ \A k \in 1 .. N : out[k] = ns[kept[k]] /\ kept[k] \in DOMAIN ns /\ ns[kept[k]] # {}
  BY <1>3
<1> HIDE DEF out
<1>6. out = [k \in 1 .. N |-> ns[kept[k]]]
  BY <1>5 DEF out
<1>7. out \in Seq(SUBSET Nat)
  BY <1>1, <1>3, <1>5, <1>6
<1>8. RemoveEmptyNodes(cfg) \in [nodes : Seq(SUBSET Nat), custom : BOOLEAN] /\ RemoveEmptyNodes(cfg).nodes = out
  BY <1>4, <1>7 DEF IsConfig
<1>9. ASSUME NEW k \in 1 .. N, NEW m \in 1 .. N, k # m PROVE out[k] \cap out[m] = {}
  <2>1. kept[k] # kept[m]
    BY <1>3, <1>9
  <2>2. QED
    BY <1>5, <2>1 DEF IsConfig, IsNodes
<1>10. IsNodes(out) /\ NoneEmpty(out)
  BY <1>1, <1>5, <1>7, <1>9 DEF IsNodes, NoneEmpty
<1>11. UNION Range(out) = UNION Range(ns)
  <2>1. ASSUME NEW c, c \in UNION Range(ns) PROVE c \in UNION Range(out)
    <3>1. PICK n \in DOMAIN ns : c \in ns[n]
      BY <2>1, InUnion
    <3>2. n \in full
      BY <3>1
    <3>3. PICK k \in 1 .. N : kept[k] = n
      BY <1>3, <3>2
    <3>4. QED
      BY <1>5, <3>1, <3>3, InUnion
  <2>2. ASSUME NEW c, c \in UNION Range(out) PROVE c \in UNION Range(ns)
    <3>1. PICK k \in 1 .. N : c \in out[k]
      BY <1>5, <2>2, InUnion
    <3>2. QED
      BY <1>5, <3>1, InUnion
  <2>3. QED
    BY <2>1, <2>2
<1>12. QED
  BY <1>5, <1>8, <1>10, <1>11 DEF IsConfig

LEMMA MaxOfTwo == \A a, b \in Int : Max({a, b}) = IF a >= b THEN a ELSE b
<1>1. ASSUME NEW a \in Int, NEW b \in Int PROVE Max({a, b}) = IF a >= b THEN a ELSE b
  <2> DEFINE m == IF a >= b THEN a ELSE b
  <2>1. m \in {a, b} /\ \A y \in {a, b} : m >= y
    OBVIOUS
  <2>2. \A x \in {a, b} : (\A y \in {a, b} : x >= y) => x = m
    OBVIOUS
  <2> HIDE DEF m
  <2>3. Max({a, b}) = m
    BY <2>1, <2>2 DEF Max
  <2>4. QED
    BY <2>3 DEF m
<1>2. QED
  BY <1>1

\* A processor that the system names goes to its node.
LEMMA AddKeeps ==
  ASSUME NEW cfg, IsConfig(cfg), NEW n \in Nat \ {0}, NEW c \in Nat, ~IsAssigned(cfg, c)
  PROVE  IsConfig(AddCpuToNode(cfg, n, c)) /\ UNION Range(AddCpuToNode(cfg, n, c).nodes) # {}
<1> DEFINE ns == cfg.nodes
           N == Max({n, Len(ns)})
           out == [k \in 1 .. N |-> (IF k \in DOMAIN ns THEN ns[k] ELSE {}) \cup (IF k = n THEN {c} ELSE {})]
<1>1. /\ Len(ns) \in Nat /\ DOMAIN ns = 1 .. Len(ns)
      /\ \A m \in DOMAIN ns : ns[m] \in SUBSET Nat /\ IsFiniteSet(ns[m])
      /\ \A m, k \in DOMAIN ns : m # k => ns[m] \cap ns[k] = {}
  BY NodesFacts DEF IsConfig, IsNodes
<1>2. N \in Nat /\ n \in 1 .. N
  <2>1. N = IF n >= Len(ns) THEN n ELSE Len(ns)
    BY <1>1, MaxOfTwo
  <2>2. QED
    BY <1>1, <2>1
<1>3. AddCpuToNode(cfg, n, c) = [cfg EXCEPT !.nodes = out]
  BY DEF AddCpuToNode
<1> HIDE DEF N
<1>4. DOMAIN out = 1 .. N /\ \A k \in 1 .. N : out[k] = (IF k \in DOMAIN ns THEN ns[k] ELSE {}) \cup (IF k = n THEN {c} ELSE {})
  OBVIOUS
<1>5. ASSUME NEW k \in 1 .. N PROVE out[k] \in SUBSET Nat /\ IsFiniteSet(out[k])
  <2> DEFINE A == IF k \in DOMAIN ns THEN ns[k] ELSE {}  B == IF k = n THEN {c} ELSE {}
  <2>1. A \in SUBSET Nat /\ IsFiniteSet(A) /\ B \in SUBSET Nat /\ IsFiniteSet(B)
    BY <1>1, FS_EmptySet, FS_Singleton
  <2>2. out[k] = A \cup B
    BY <1>4
  <2> HIDE DEF A, B, out
  <2>3. QED
    BY <2>1, <2>2, FS_Union
<1>6. out \in Seq(SUBSET Nat)
  <2>1. out = [k \in 1 .. N |-> out[k]]
    OBVIOUS
  <2> HIDE DEF out
  <2>2. QED
    BY <1>2, <1>5, <2>1
<1>7. \A m \in DOMAIN ns : c \notin ns[m]
  BY DEF IsAssigned
<1>8. ASSUME NEW k \in 1 .. N, NEW m \in 1 .. N, k # m PROVE out[k] \cap out[m] = {}
  BY <1>1, <1>4, <1>7, <1>8
<1>9. c \in UNION Range(out)
  <2>1. c \in out[n] /\ n \in DOMAIN out
    BY <1>2, <1>4
  <2> HIDE DEF out
  <2>2. QED
    BY <2>1, InUnion
<1> HIDE DEF out
<1>10. AddCpuToNode(cfg, n, c) \in [nodes : Seq(SUBSET Nat), custom : BOOLEAN] /\ AddCpuToNode(cfg, n, c).nodes = out
  BY <1>3, <1>6 DEF IsConfig
<1>11. QED
  BY <1>4, <1>5, <1>6, <1>8, <1>9, <1>10 DEF IsConfig, IsNodes

\* Pieces are ordered by node, then by group.
LEMMA PiecesOrdered ==
  ASSUME NEW ns, IsNodes(ns)
  PROVE  /\ IsFiniteSet(Pieces(ns)) /\ Pieces(ns) \subseteq (DOMAIN ns) \X Int
         /\ TotalOn(Pieces(ns), {x \in Pieces(ns) \X Pieces(ns) : Precedes(x[1], x[2])})
<1> DEFINE P == Pieces(ns)
           order == {x \in P \X P : Precedes(x[1], x[2])}
           U == UNION Range(ns)
           f == [c \in U |-> ProcGroup(c)]
           G == {ProcGroup(c) : c \in U}
<1>1. /\ Len(ns) \in Nat /\ DOMAIN ns = 1 .. Len(ns) /\ IsFiniteSet(DOMAIN ns) /\ IsFiniteSet(U)
      /\ \A n \in DOMAIN ns : ns[n] \subseteq Nat
  BY NodesFacts
<1>2. \A c \in Nat : ProcGroup(c) \in Int
  BY NumaBoundsAssumption DEF ProcGroup
<1>3. U \subseteq Nat
  <2>1. \A c \in U : \E n \in DOMAIN ns : c \in ns[n]
    BY InUnion
  <2> HIDE DEF U
  <2>2. QED
    BY <1>1, <2>1
<1>4. G \subseteq Int
  BY <1>2, <1>3
<1>5. IsFiniteSet(G)
  <2>1. f \in Surjection(U, G)
    <3> HIDE DEF U
    <3> QED BY DEF Surjection
  <2> HIDE DEF f, U, G
  <2>2. QED
    BY <1>1, <2>1, FS_Surjection
<1>6. P \subseteq (DOMAIN ns) \X G
  <2>1. ASSUME NEW n \in DOMAIN ns, NEW c \in ns[n] PROVE ProcGroup(c) \in G
    <3>1. c \in U
      BY InUnion
    <3>2. QED
      BY <3>1
  <2> HIDE DEF G
  <2>2. \A x \in P : \E n \in DOMAIN ns : \E c \in ns[n] : x = <<n, ProcGroup(c)>>
    BY DEF Pieces
  <2> HIDE DEF P
  <2>3. \A x \in P : x \in (DOMAIN ns) \X G
    BY <2>1, <2>2
  <2>4. QED
    BY <2>3
<1>7. IsFiniteSet(P)
  <2> DEFINE D == DOMAIN ns
  <2>1. P \in SUBSET (D \X G)
    BY <1>6
  <2>2. IsFiniteSet(D) /\ IsFiniteSet(G)
    BY <1>1, <1>5
  <2> HIDE DEF P, G, D
  <2>3. IsFiniteSet(D \X G)
    BY <2>2, FS_Product
  <2>4. QED
    BY <2>1, <2>3, FS_Subset
<1>8. P \subseteq (DOMAIN ns) \X Int
  <2> HIDE DEF P, G
  <2>1. \A x \in P : x \in (DOMAIN ns) \X Int
    BY <1>4, <1>6
  <2>2. QED
    BY <2>1
<1>9. \A x \in P : x[1] \in Int /\ x[2] \in Int /\ x = <<x[1], x[2]>>
  <2> HIDE DEF P, U, G
  <2>1. \A x \in (DOMAIN ns) \X Int : x[1] \in DOMAIN ns /\ x[2] \in Int /\ x = <<x[1], x[2]>>
    OBVIOUS
  <2>2. \A x \in DOMAIN ns : x \in Int
    BY <1>1
  <2>3. QED
    BY <1>8, <2>1, <2>2
<1>10. \A x, y \in P : <<x, y>> \in order <=> Precedes(x, y)
  <2> HIDE DEF P
  <2> QED OBVIOUS
<1> HIDE DEF order, P
<1>11. \A x, y \in P : Precedes(x, y) \/ Precedes(y, x)
  BY <1>9 DEF Precedes
<1>12. ASSUME NEW x \in P, NEW y \in P, Precedes(x, y), Precedes(y, x) PROVE x = y
  <2>1. x[1] = y[1] /\ x[2] = y[2]
    BY <1>9, <1>12 DEF Precedes
  <2>2. QED
    BY <1>9, <2>1
<1>13. \A x, y, z \in P : Precedes(x, y) /\ Precedes(y, z) => Precedes(x, z)
  BY <1>9 DEF Precedes
<1>14. TotalOn(P, order)
  BY <1>10, <1>11, <1>12, <1>13 DEF TotalOn
<1>15. QED
  BY <1>7, <1>8, <1>14 DEF order, P

LEMMA SplitKeeps ==
  ASSUME NEW cfg, IsConfig(cfg)
  PROVE  /\ IsConfig(SplitByGroup(cfg)) /\ UNION Range(SplitByGroup(cfg).nodes) = UNION Range(cfg.nodes)
         /\ \A k \in DOMAIN SplitByGroup(cfg).nodes : \A c, d \in SplitByGroup(cfg).nodes[k] : ProcGroup(c) = ProcGroup(d)
<1> DEFINE ns == cfg.nodes
           P == Pieces(ns)
           order == {x \in P \X P : Precedes(x[1], x[2])}
           pieces == InOrder(P, order)
           N == Cardinality(P)
           Of(x) == {c \in ns[x[1]] : ProcGroup(c) = x[2]}
           out == [k \in DOMAIN pieces |-> Of(pieces[k])]
<1>1. /\ Len(ns) \in Nat /\ DOMAIN ns = 1 .. Len(ns)
      /\ \A m \in DOMAIN ns : ns[m] \in SUBSET Nat /\ IsFiniteSet(ns[m])
      /\ \A m, k \in DOMAIN ns : m # k => ns[m] \cap ns[k] = {}
  BY NodesFacts DEF IsConfig, IsNodes
<1>2. IsFiniteSet(P) /\ P \subseteq (DOMAIN ns) \X Int /\ TotalOn(P, order)
  BY PiecesOrdered DEF IsConfig
<1>3. SplitByGroup(cfg) = [cfg EXCEPT !.nodes = out]
  BY DEF SplitByGroup
<1>4. /\ N \in Nat /\ pieces \in [1 .. N -> P]
      /\ \A x \in P : \E k \in 1 .. N : pieces[k] = x
      /\ \A k, m \in 1 .. N : pieces[k] = pieces[m] => k = m
  <2> HIDE DEF P, order
  <2> QED BY <1>2, InOrderNumbers
<1>5. \A n \in DOMAIN ns : \A c \in ns[n] : <<n, ProcGroup(c)>> \in P
  BY DEF Pieces
<1> HIDE DEF N, pieces, P
<1>6. DOMAIN out = 1 .. N /\ \A k \in 1 .. N : out[k] = Of(pieces[k]) /\ pieces[k] \in P
  BY <1>4
<1>7. \A x \in P : x[1] \in DOMAIN ns /\ x = <<x[1], x[2]>>
  <2>1. \A x \in (DOMAIN ns) \X Int : x[1] \in DOMAIN ns /\ x = <<x[1], x[2]>>
    OBVIOUS
  <2>2. QED
    BY <1>2, <2>1
<1>8. ASSUME NEW x \in P PROVE Of(x) \in SUBSET Nat /\ IsFiniteSet(Of(x))
  <2>1. Of(x) \in SUBSET ns[x[1]] /\ ns[x[1]] \in SUBSET Nat /\ IsFiniteSet(ns[x[1]])
    BY <1>1, <1>7
  <2> HIDE DEF Of
  <2>2. QED
    BY <2>1, FS_Subset
<1>9. ASSUME NEW x \in P, NEW y \in P, x # y PROVE Of(x) \cap Of(y) = {}
  <2>1. x[1] # y[1] \/ x[2] # y[2]
    BY <1>7, <1>9
  <2>2. x[1] # y[1] => ns[x[1]] \cap ns[y[1]] = {}
    BY <1>1, <1>7
  <2>3. QED
    BY <2>1, <2>2
<1>10. out = [k \in 1 .. N |-> out[k]]
  BY <1>4
<1> HIDE DEF out
<1>11. out \in Seq(SUBSET Nat)
  <2> HIDE DEF Of
  <2>1. \A k \in 1 .. N : out[k] \in SUBSET Nat
    BY <1>6, <1>8
  <2>2. QED
    BY <1>4, <1>10, <2>1
<1>12. IsNodes(out)
  <2> HIDE DEF Of
  <2>1. \A k \in 1 .. N : IsFiniteSet(out[k])
    BY <1>6, <1>8
  <2>2. ASSUME NEW k \in 1 .. N, NEW m \in 1 .. N, k # m PROVE out[k] \cap out[m] = {}
    BY <1>4, <1>6, <1>9, <2>2
  <2>3. QED
    BY <1>6, <1>11, <2>1, <2>2 DEF IsNodes
<1>13. SplitByGroup(cfg) \in [nodes : Seq(SUBSET Nat), custom : BOOLEAN] /\ SplitByGroup(cfg).nodes = out
  BY <1>3, <1>11 DEF IsConfig
<1>14. UNION Range(out) = UNION Range(ns)
  <2>1. ASSUME NEW c, c \in UNION Range(ns) PROVE c \in UNION Range(out)
    <3>1. PICK n \in DOMAIN ns : c \in ns[n]
      BY <2>1, InUnion
    <3>2. PICK k \in 1 .. N : pieces[k] = <<n, ProcGroup(c)>>
      BY <1>4, <1>5, <3>1
    <3>3. c \in out[k]
      BY <1>6, <3>1, <3>2
    <3>4. QED
      BY <1>6, <3>3, InUnion
  <2>2. ASSUME NEW c, c \in UNION Range(out) PROVE c \in UNION Range(ns)
    <3>1. PICK k \in 1 .. N : c \in out[k]
      BY <1>6, <2>2, InUnion
    <3>2. c \in ns[pieces[k][1]] /\ pieces[k][1] \in DOMAIN ns
      BY <1>6, <1>7, <3>1
    <3>3. QED
      BY <3>2, InUnion
  <2>3. QED
    BY <2>1, <2>2
<1>15. \A k \in DOMAIN out : \A c, d \in out[k] : ProcGroup(c) = ProcGroup(d)
  BY <1>6
<1>16. QED
  BY <1>12, <1>13, <1>14, <1>15 DEF IsConfig

\* from_system, of the nodes that the system names.
Divides(cfg, windows, out) ==
  /\ IsConfig(out) /\ NoneEmpty(out.nodes) /\ UNION Range(out.nodes) = UNION Range(cfg.nodes)
  /\ windows => \A n \in DOMAIN out.nodes : \A c, d \in out.nodes[n] : ProcGroup(c) = ProcGroup(d)

LEMMA SystemPartitions ==
  ASSUME NEW cfg, IsConfig(cfg), NEW windows \in BOOLEAN, NEW out,
         out = IF windows THEN RemoveEmptyNodes(SplitByGroup(RemoveEmptyNodes(cfg))) ELSE RemoveEmptyNodes(cfg)
  PROVE  Divides(cfg, windows, out)
<1> DEFINE a == RemoveEmptyNodes(cfg)  b == SplitByGroup(a)  c == RemoveEmptyNodes(b)
<1>1. IsConfig(a) /\ NoneEmpty(a.nodes) /\ UNION Range(a.nodes) = UNION Range(cfg.nodes)
  BY RemoveKeeps
<1> HIDE DEF a
<1>2. /\ IsConfig(b) /\ UNION Range(b.nodes) = UNION Range(a.nodes)
      /\ \A k \in DOMAIN b.nodes : \A x, y \in b.nodes[k] : ProcGroup(x) = ProcGroup(y)
  BY <1>1, SplitKeeps
<1> HIDE DEF b
<1>3. /\ IsConfig(c) /\ NoneEmpty(c.nodes) /\ UNION Range(c.nodes) = UNION Range(b.nodes)
      /\ \A k \in DOMAIN c.nodes : \E n \in DOMAIN b.nodes : c.nodes[k] = b.nodes[n]
  BY <1>2, RemoveKeeps
<1>4. out = IF windows THEN c ELSE a
  BY DEF a, b
<1> HIDE DEF c
<1>5. windows => \A n \in DOMAIN c.nodes : \A x, y \in c.nodes[n] : ProcGroup(x) = ProcGroup(y)
  BY <1>2, <1>3
<1>6. QED
  BY <1>1, <1>2, <1>3, <1>4, <1>5 DEF Divides

\* Two neighbours become one.
LEMMA MergedIs ==
  ASSUME NEW U, NEW ds \in Seq(SUBSET U), NEW j \in 1 .. Len(ds) - 1
  PROVE  /\ Merged(ds, j) \in Seq(SUBSET U) /\ Len(Merged(ds, j)) = Len(ds) - 1
         /\ \A i \in 1 .. Len(ds) - 1 :
              Merged(ds, j)[i] = IF i < j THEN ds[i] ELSE IF i = j THEN ds[j] \cup ds[j + 1] ELSE ds[i + 1]
<1> DEFINE L == Len(ds)
           a == SubSeq(ds, 1, j - 1)
           m == <<ds[j] \cup ds[j + 1]>>
           z == SubSeq(ds, j + 2, L)
<1>1. L \in Nat /\ j \in Int /\ 1 <= j /\ j <= L - 1 /\ ds[j] \in SUBSET U /\ ds[j + 1] \in SUBSET U
  OBVIOUS
<1>2. a \in Seq(SUBSET U) /\ Len(a) = j - 1 /\ \A i \in 1 .. j - 1 : a[i] = ds[i]
  BY <1>1
<1>3. m \in Seq(SUBSET U) /\ Len(m) = 1 /\ m[1] = ds[j] \cup ds[j + 1]
  BY <1>1
<1>4. z \in Seq(SUBSET U) /\ Len(z) = L - j - 1 /\ \A i \in 1 .. L - j - 1 : z[i] = ds[i + j + 1]
  BY <1>1
<1> HIDE DEF a, m, z
<1> DEFINE am == a \o m
<1>5. am \in Seq(SUBSET U) /\ Len(am) = j /\ (\A i \in 1 .. j - 1 : am[i] = ds[i]) /\ am[j] = ds[j] \cup ds[j + 1]
  <2>1. /\ am \in Seq(SUBSET U) /\ Len(am) = (j - 1) + 1
        /\ \A i \in 1 .. j - 1 : am[i] = a[i]
        /\ \A i \in (j - 1) + 1 .. (j - 1) + 1 : am[i] = m[i - (j - 1)]
    <3>1. j - 1 \in Nat /\ 1 \in Nat
      BY <1>1
    <3> DEFINE V == SUBSET U  k == j - 1  n == 1
    <3>2. k \in Nat /\ n \in Nat /\ a \in Seq(V) /\ Len(a) = k /\ m \in Seq(V) /\ Len(m) = n
      BY <1>2, <1>3, <3>1
    <3> HIDE DEF V, k, n
    <3>3. /\ am \in Seq(V) /\ Len(am) = k + n
          /\ \A i \in 1 .. k : am[i] = a[i]
          /\ \A i \in k + 1 .. k + n : am[i] = m[i - k]
      BY <3>2
    <3> HIDE DEF am
    <3>4. QED
      BY <3>3 DEF V, k, n
  <2>2. j \in (j - 1) + 1 .. (j - 1) + 1 /\ j - (j - 1) = 1 /\ (j - 1) + 1 = j
    BY <1>1
  <2> HIDE DEF am
  <2>3. am[j] = m[1]
    BY <2>1, <2>2
  <2>4. QED
    BY <1>2, <1>3, <2>1, <2>2, <2>3
<1> HIDE DEF am
<1> DEFINE q == am \o z
<1>6. q \in Seq(SUBSET U) /\ Len(q) = L - 1 /\ (\A i \in 1 .. j : q[i] = am[i]) /\ \A i \in j + 1 .. L - 1 : q[i] = z[i - j]
  <2>1. j \in Nat /\ L - j - 1 \in Nat /\ j + (L - j - 1) = L - 1
    BY <1>1
  <2>2. /\ q \in Seq(SUBSET U) /\ Len(q) = j + (L - j - 1)
        /\ \A i \in 1 .. j : q[i] = am[i]
        /\ \A i \in j + 1 .. j + (L - j - 1) : q[i] = z[i - j]
    <3> DEFINE V == SUBSET U  k == L - j - 1
    <3>1. j \in Nat /\ k \in Nat /\ am \in Seq(V) /\ Len(am) = j /\ z \in Seq(V) /\ Len(z) = k
      BY <1>4, <1>5, <2>1
    <3> HIDE DEF V, k
    <3>2. /\ q \in Seq(V) /\ Len(q) = j + k
          /\ \A i \in 1 .. j : q[i] = am[i]
          /\ \A i \in j + 1 .. j + k : q[i] = z[i - j]
      BY <3>1
    <3> HIDE DEF q
    <3>3. QED
      BY <3>2 DEF V, k
  <2>3. QED
    BY <2>1, <2>2
<1>7. \A i \in j + 1 .. L - 1 : q[i] = ds[i + 1]
  <2>1. \A i \in j + 1 .. L - 1 : i - j \in 1 .. L - j - 1 /\ (i - j) + j + 1 = i + 1
    BY <1>1
  <2> HIDE DEF q
  <2>2. QED
    BY <1>4, <1>6, <2>1
<1>8. Merged(ds, j) = q
  BY DEF Merged, a, m, z, am
<1> HIDE DEF q
<1>9. ASSUME NEW i \in 1 .. L - 1
      PROVE q[i] = IF i < j THEN ds[i] ELSE IF i = j THEN ds[j] \cup ds[j + 1] ELSE ds[i + 1]
  <2>1. (i < j /\ i \in 1 .. j - 1 /\ i \in 1 .. j) \/ (i = j /\ i \in 1 .. j) \/ (i > j /\ i \in j + 1 .. L - 1)
    BY <1>1
  <2>2. i < j => q[i] = ds[i]
    BY <1>1, <1>5, <1>6
  <2>3. i = j => q[i] = ds[j] \cup ds[j + 1]
    BY <1>1, <1>5, <1>6
  <2>4. i > j => q[i] = ds[i + 1]
    BY <1>1, <1>7
  <2>5. QED
    BY <1>1, <2>1, <2>2, <2>3, <2>4
<1>10. QED
  BY <1>6, <1>8, <1>9

\* Bundles of caches: every processor in one of them, and only a cache exceeds the size alone.
Bundles(caches, size, ds) ==
  /\ ds \in Seq(SUBSET UNION Range(caches))
  /\ \A c \in UNION Range(caches) : \E k \in DOMAIN ds : c \in ds[k]
  /\ \A k \in DOMAIN ds : IsFiniteSet(ds[k]) /\ (Cardinality(ds[k]) <= size \/ ds[k] \in Range(caches))
  /\ \A k, m \in DOMAIN ds : k # m => ds[k] \cap ds[m] = {}
\* No two neighbours fit together.
Settled(ds, size) == \A j \in 1 .. Len(ds) : ~Fits(ds, j, size)

LEMMA MergedKeeps ==
  ASSUME NEW caches, NEW size \in Nat, NEW ds, Bundles(caches, size, ds), NEW j \in Nat \ {0}, Fits(ds, j, size)
  PROVE  Bundles(caches, size, Merged(ds, j)) /\ Len(Merged(ds, j)) = Len(ds) - 1
<1> DEFINE U == UNION Range(caches)
           q == Merged(ds, j)
           L == Len(ds)
<1>1. ds \in Seq(SUBSET U) /\ L \in Nat /\ DOMAIN ds = 1 .. L
  BY DEF Bundles
<1>2. j \in 1 .. L - 1 /\ j \in 1 .. L /\ j + 1 \in 1 .. L
  BY <1>1 DEF Fits
<1>3. /\ q \in Seq(SUBSET U) /\ Len(q) = L - 1
      /\ \A i \in 1 .. L - 1 : q[i] = IF i < j THEN ds[i] ELSE IF i = j THEN ds[j] \cup ds[j + 1] ELSE ds[i + 1]
  <2> HIDE DEF U
  <2> QED BY <1>1, <1>2, MergedIs
<1> HIDE DEF q, U
<1>4. DOMAIN q = 1 .. L - 1
  BY <1>3
<1>5. /\ IsFiniteSet(ds[j] \cup ds[j + 1]) /\ Cardinality(ds[j] \cup ds[j + 1]) <= size
  <2>1. IsFiniteSet(ds[j]) /\ IsFiniteSet(ds[j + 1])
    BY <1>1, <1>2 DEF Bundles
  <2>2. /\ IsFiniteSet(ds[j] \cup ds[j + 1])
        /\ Cardinality(ds[j] \cup ds[j + 1]) = Cardinality(ds[j]) + Cardinality(ds[j + 1]) - Cardinality(ds[j] \cap ds[j + 1])
    BY <2>1, FS_Union
  <2>3. IsFiniteSet(ds[j] \cap ds[j + 1])
    BY <2>1, FS_Intersection
  <2>4. Cardinality(ds[j]) \in Nat /\ Cardinality(ds[j + 1]) \in Nat /\ Cardinality(ds[j] \cap ds[j + 1]) \in Nat
    BY <2>1, <2>3, FS_CardinalityType
  <2>5. Cardinality(ds[j]) + Cardinality(ds[j + 1]) <= size
    BY DEF Fits
  <2>6. QED
    BY <2>2, <2>4, <2>5
<1>6. ASSUME NEW c \in U PROVE \E k \in 1 .. L - 1 : c \in q[k]
  <2>1. PICK k \in 1 .. L : c \in ds[k]
    BY <1>1 DEF Bundles, U
  <2>2. CASE k < j
    <3>1. k \in 1 .. L - 1 /\ q[k] = ds[k]
      BY <1>2, <1>3, <2>2
    <3>2. QED
      BY <2>1, <3>1
  <2>3. CASE k = j \/ k = j + 1
    <3>1. c \in q[j]
      BY <1>2, <1>3, <2>1, <2>3
    <3>2. QED
      BY <1>2, <3>1
  <2>4. CASE k > j + 1
    <3>1. k - 1 \in 1 .. L - 1 /\ ~(k - 1 < j) /\ k - 1 # j /\ (k - 1) + 1 = k
      BY <1>2, <2>4
    <3>2. q[k - 1] = ds[k]
      BY <1>3, <3>1
    <3>3. QED
      BY <2>1, <3>1, <3>2
  <2>5. QED
    BY <1>2, <2>2, <2>3, <2>4
<1>7. ASSUME NEW k \in 1 .. L - 1
      PROVE  IsFiniteSet(q[k]) /\ (Cardinality(q[k]) <= size \/ q[k] \in Range(caches))
  <2>1. k \in 1 .. L /\ k + 1 \in 1 .. L
    OBVIOUS
  <2>2. CASE k = j
    <3>1. q[k] = ds[j] \cup ds[j + 1]
      BY <1>3, <2>2
    <3>2. QED
      BY <1>5, <3>1
  <2>3. CASE k # j
    <3>1. \E i \in 1 .. L : q[k] = ds[i]
      BY <1>3, <2>1, <2>3
    <3>2. QED
      BY <1>1, <3>1 DEF Bundles
  <2>4. QED
    BY <2>2, <2>3
<1>8. ASSUME NEW k \in 1 .. L - 1, NEW m \in 1 .. L - 1, k < m PROVE q[k] \cap q[m] = {}
  <2>1. k \in 1 .. L /\ m \in 1 .. L /\ m + 1 \in 1 .. L /\ k + 1 \in 1 .. L
    BY <1>1
  <2>2. \A x, y \in 1 .. L : x # y => ds[x] \cap ds[y] = {}
    BY <1>1 DEF Bundles
  <2>3. q[k] = (IF k < j THEN ds[k] ELSE IF k = j THEN ds[j] \cup ds[j + 1] ELSE ds[k + 1])
    BY <1>3
  <2>4. q[m] = (IF m < j THEN ds[m] ELSE IF m = j THEN ds[j] \cup ds[j + 1] ELSE ds[m + 1])
    BY <1>3
  <2>5. CASE m < j
    BY <1>2, <1>8, <2>1, <2>2, <2>3, <2>4, <2>5
  <2>6. CASE m = j
    <3>1. q[k] = ds[k] /\ q[m] = ds[j] \cup ds[j + 1] /\ k # j /\ k # j + 1
      BY <1>2, <1>8, <2>3, <2>4, <2>6
    <3>2. QED
      BY <1>2, <2>1, <2>2, <3>1
  <2>7. CASE m > j
    <3>1. q[m] = ds[m + 1]
      BY <1>2, <2>4, <2>7
    <3>2. CASE k = j
      <4>1. q[k] = ds[j] \cup ds[j + 1] /\ m + 1 # j /\ m + 1 # j + 1
        BY <1>2, <2>3, <2>7, <3>2
      <4>2. QED
        BY <1>2, <2>1, <2>2, <3>1, <4>1
    <3>3. CASE k # j
      <4>1. (q[k] = ds[k] /\ k # m + 1) \/ (q[k] = ds[k + 1] /\ k + 1 # m + 1)
        BY <1>2, <1>8, <2>1, <2>3, <3>3
      <4>2. QED
        BY <2>1, <2>2, <3>1, <4>1
    <3>4. QED
      BY <3>2, <3>3
  <2>8. QED
    BY <1>2, <2>5, <2>6, <2>7
<1>9. ASSUME NEW k \in 1 .. L - 1, NEW m \in 1 .. L - 1, k # m PROVE q[k] \cap q[m] = {}
  <2>1. k < m \/ m < k
    BY <1>9
  <2>2. q[k] \cap q[m] = {} \/ q[m] \cap q[k] = {}
    BY <1>8, <2>1
  <2>3. QED
    BY <2>2
<1>10. Bundles(caches, size, q)
  BY <1>3, <1>4, <1>6, <1>7, <1>9 DEF Bundles, U
<1>11. QED
  BY <1>3, <1>10 DEF q

\* A pass keeps the bundles; it changes nothing just when none fit.
LEMMA PassKeeps ==
  ASSUME NEW caches, NEW size \in Nat, NEW ds, Bundles(caches, size, ds)
  PROVE  /\ Bundles(caches, size, MergePass(ds, size))
         /\ MergePass(ds, size) = ds \/ Len(MergePass(ds, size)) < Len(ds)
         /\ MergePass(ds, size) = ds <=> Settled(ds, size)
<1> DEFINE L == Len(ds)
           T == Seq(SUBSET UNION Range(caches))
           F == [y \in (1 .. L) \X T |-> IF Fits(y[2], y[1], size) THEN Merged(y[2], y[1]) ELSE y[2]]
           Good(j, x) == /\ Bundles(caches, size, x)
                         /\ \/ x = ds /\ \A i \in 1 .. j : ~Fits(ds, i, size)
                            \/ Len(x) < L /\ ~Settled(ds, size)
           I == {y \in (0 .. L) \X T : Good(y[1], y[2])}
           steps(g) == g = [j \in 0 .. L |-> IF j = 0 THEN ds
                                             ELSE IF Fits(g[j - 1], j, size) THEN Merged(g[j - 1], j) ELSE g[j - 1]]
<1>1. L \in Nat /\ ds \in T /\ \A x : Bundles(caches, size, x) => x \in T /\ Len(x) \in Nat
  BY DEF Bundles
<1>2. \A x : \A j \in 0 .. L : <<j, x>> \in I <=> Good(j, x)
  <2> HIDE DEF T
  <2>1. \A x : \A j \in 0 .. L : Good(j, x) => x \in T
    BY <1>1
  <2> HIDE DEF Good
  <2>2. QED
    BY <2>1
<1>3. ASSUME NEW j \in 1 .. L, NEW x, Good(j - 1, x)
      PROVE  /\ F[<<j, x>>] = IF Fits(x, j, size) THEN Merged(x, j) ELSE x
             /\ Good(j, F[<<j, x>>])
  <2>1. x \in T /\ Len(x) \in Nat /\ j \in Nat \ {0}
    BY <1>1, <1>3
  <2>2. F[<<j, x>>] = IF Fits(x, j, size) THEN Merged(x, j) ELSE x
    <3> HIDE DEF T
    <3> QED BY <2>1
  <2> HIDE DEF F
  <2>3. CASE Fits(x, j, size)
    <3>1. Bundles(caches, size, Merged(x, j)) /\ Len(Merged(x, j)) = Len(x) - 1
      BY <1>3, <2>1, <2>3, MergedKeeps
    <3>2. Len(x) - 1 < L
      BY <1>1, <1>3, <2>1
    <3>3. ~Settled(ds, size)
      BY <1>3, <2>3 DEF Settled
    <3>4. QED
      BY <2>2, <2>3, <3>1, <3>2, <3>3
  <2>4. CASE ~Fits(x, j, size)
    <3>1. \A i \in 1 .. j : i \in 1 .. j - 1 \/ i = j
      OBVIOUS
    <3>2. Good(j, x)
      BY <1>3, <2>4, <3>1
    <3>3. QED
      BY <2>2, <2>4, <3>2
  <2>5. QED
    BY <2>3, <2>4, <2>2
<1>4. Good(0, ds)
  BY <1>1
<1> HIDE DEF F, Good
<1>5. \E g : Stepwise(0, L, ds, F, g) /\ \A j \in 0 .. L : <<j, g[j]>> \in I
  <2>1. <<0, ds>> \in I /\ 0 \in Int /\ L \in Int /\ 0 <= L
    BY <1>1, <1>2, <1>4
  <2>2. \A j \in 0 + 1 .. L : \A x : <<j - 1, x>> \in I => <<j, F[<<j, x>>]>> \in I
    <3>1. ASSUME NEW j \in 0 + 1 .. L, NEW x, <<j - 1, x>> \in I PROVE <<j, F[<<j, x>>]>> \in I
      <4>1. j \in 1 .. L /\ j - 1 \in 0 .. L /\ j \in 0 .. L
        BY <1>1
      <4>2. Good(j - 1, x)
        BY <1>2, <3>1, <4>1
      <4>3. Good(j, F[<<j, x>>])
        BY <1>3, <4>1, <4>2
      <4> HIDE DEF I
      <4>4. QED
        BY <1>2, <4>1, <4>3
    <3>2. QED
      BY <3>1
  <2> HIDE DEF I, L
  <2>3. QED
    BY <2>1, <2>2, StepsExist
<1>6. ASSUME NEW g, Stepwise(0, L, ds, F, g), \A j \in 0 .. L : <<j, g[j]>> \in I PROVE steps(g)
  <2>1. ASSUME NEW j \in 0 .. L
        PROVE  (IF j = 0 THEN ds ELSE F[<<j, g[j - 1]>>])
                 = IF j = 0 THEN ds ELSE IF Fits(g[j - 1], j, size) THEN Merged(g[j - 1], j) ELSE g[j - 1]
    <3>1. CASE j # 0
      <4>1. j \in 1 .. L /\ j - 1 \in 0 .. L
        BY <3>1
      <4>2. Good(j - 1, g[j - 1])
        BY <1>2, <1>6, <4>1
      <4>3. QED
        BY <1>3, <4>1, <4>2
    <3>2. QED
      BY <3>1
  <2>2. g = [j \in 0 .. L |-> IF j = 0 THEN ds ELSE F[<<j, g[j - 1]>>]]
    BY <1>6 DEF Stepwise
  <2> HIDE DEF I, L
  <2>3. QED
    BY <2>1, <2>2
<1> DEFINE pass == CHOOSE g : steps(g)
<1>7. steps(pass)
  BY <1>5, <1>6
<1>8. MergePass(ds, size) = pass[L]
  BY DEF MergePass
<1>9. ASSUME NEW j \in 0 .. L PROVE Good(j, pass[j])
  <2> DEFINE S == {k \in 0 .. L : Good(k, pass[k])}
  <2> HIDE DEF pass
  <2>1. 0 \in S
    <3>1. pass[0] = ds /\ 0 \in 0 .. L
      BY <1>1, <1>7
    <3>2. QED
      BY <1>4, <3>1
  <2>2. \A k \in 0 + 1 .. L : k - 1 \in S => k \in S
    <3>1. ASSUME NEW k \in 0 + 1 .. L, k - 1 \in S PROVE k \in S
      <4>1. k \in 1 .. L /\ k \in 0 .. L /\ k # 0 /\ Good(k - 1, pass[k - 1])
        BY <1>1, <3>1
      <4>2. pass[k] = IF Fits(pass[k - 1], k, size) THEN Merged(pass[k - 1], k) ELSE pass[k - 1]
        BY <1>7, <4>1
      <4>3. Good(k, pass[k])
        BY <1>3, <4>1, <4>2
      <4>4. QED
        BY <4>1, <4>3
    <3>2. QED
      BY <3>1
  <2>3. 0 \in Int /\ L \in Int
    BY <1>1
  <2>4. \A k \in 0 .. L : k \in S
    <3> HIDE DEF S, L
    <3> QED BY <2>1, <2>2, <2>3, Ascends
  <2>5. QED
    BY <2>4
<1>10. Good(L, pass[L])
  BY <1>1, <1>9
<1> HIDE DEF pass
<1>11. QED
  BY <1>1, <1>8, <1>10 DEF Good, Settled

\* The passes end with bundles of which no neighbours fit together.
LEMMA MergeKeeps ==
  ASSUME NEW caches, NEW size \in Nat, Bundles(caches, size, caches)
  PROVE  Bundles(caches, size, MergeDomains(caches, size)) /\ Settled(MergeDomains(caches, size), size)
<1> DEFINE L == Len(caches)
           T == Seq(SUBSET UNION Range(caches))
           F == [y \in (1 .. L) \X T |-> MergePass(y[2], size)]
           Good(n, x) == Bundles(caches, size, x) /\ (Len(x) <= L - n \/ Settled(x, size))
           I == {y \in (0 .. L) \X T : Good(y[1], y[2])}
           steps(g) == g = [n \in 0 .. L |-> IF n = 0 THEN caches ELSE MergePass(g[n - 1], size)]
<1>1. L \in Nat /\ caches \in T /\ \A x : Bundles(caches, size, x) => x \in T /\ Len(x) \in Nat
  BY DEF Bundles
<1>2. \A x : \A n \in 0 .. L : <<n, x>> \in I <=> Good(n, x)
  <2> HIDE DEF T
  <2>1. \A x : \A n \in 0 .. L : Good(n, x) => x \in T
    BY <1>1
  <2> HIDE DEF Good
  <2>2. QED
    BY <2>1
<1>3. ASSUME NEW n \in 1 .. L, NEW x, Good(n - 1, x)
      PROVE  F[<<n, x>>] = MergePass(x, size) /\ Good(n, F[<<n, x>>])
  <2>1. x \in T /\ Len(x) \in Nat
    BY <1>1, <1>3
  <2>2. F[<<n, x>>] = MergePass(x, size)
    <3> HIDE DEF T
    <3> QED BY <2>1
  <2> HIDE DEF F
  <2>3. /\ Bundles(caches, size, MergePass(x, size))
        /\ MergePass(x, size) = x \/ Len(MergePass(x, size)) < Len(x)
        /\ MergePass(x, size) = x <=> Settled(x, size)
    BY <1>3, PassKeeps
  <2>4. Len(MergePass(x, size)) \in Nat
    BY <1>1, <2>3
  <2>5. Len(MergePass(x, size)) <= L - n \/ Settled(MergePass(x, size), size)
    <3>1. CASE Settled(x, size)
      BY <2>3, <3>1
    <3>2. CASE ~Settled(x, size)
      BY <1>1, <1>3, <2>1, <2>3, <2>4, <3>2
    <3>3. QED
      BY <3>1, <3>2
  <2>6. QED
    BY <2>2, <2>3, <2>5
<1>4. Good(0, caches)
  BY <1>1
<1> HIDE DEF F, Good
<1>5. \E g : Stepwise(0, L, caches, F, g) /\ \A n \in 0 .. L : <<n, g[n]>> \in I
  <2>1. <<0, caches>> \in I /\ 0 \in Int /\ L \in Int /\ 0 <= L
    BY <1>1, <1>2, <1>4
  <2>2. \A n \in 0 + 1 .. L : \A x : <<n - 1, x>> \in I => <<n, F[<<n, x>>]>> \in I
    <3>1. ASSUME NEW n \in 0 + 1 .. L, NEW x, <<n - 1, x>> \in I PROVE <<n, F[<<n, x>>]>> \in I
      <4>1. n \in 1 .. L /\ n - 1 \in 0 .. L /\ n \in 0 .. L
        BY <1>1
      <4>2. Good(n - 1, x)
        BY <1>2, <3>1, <4>1
      <4>3. Good(n, F[<<n, x>>])
        BY <1>3, <4>1, <4>2
      <4> HIDE DEF I
      <4>4. QED
        BY <1>2, <4>1, <4>3
    <3>2. QED
      BY <3>1
  <2> HIDE DEF I, L
  <2>3. QED
    BY <2>1, <2>2, StepsExist
<1>6. ASSUME NEW g, Stepwise(0, L, caches, F, g), \A n \in 0 .. L : <<n, g[n]>> \in I PROVE steps(g)
  <2>1. ASSUME NEW n \in 0 .. L
        PROVE  (IF n = 0 THEN caches ELSE F[<<n, g[n - 1]>>]) = IF n = 0 THEN caches ELSE MergePass(g[n - 1], size)
    <3>1. CASE n # 0
      <4>1. n \in 1 .. L /\ n - 1 \in 0 .. L
        BY <3>1
      <4>2. Good(n - 1, g[n - 1])
        BY <1>2, <1>6, <4>1
      <4>3. QED
        BY <1>3, <4>1, <4>2
    <3>2. QED
      BY <3>1
  <2>2. g = [n \in 0 .. L |-> IF n = 0 THEN caches ELSE F[<<n, g[n - 1]>>]]
    BY <1>6 DEF Stepwise
  <2> HIDE DEF I, L
  <2>3. QED
    BY <2>1, <2>2
<1> DEFINE passes == CHOOSE g : steps(g)
<1>7. steps(passes)
  BY <1>5, <1>6
<1>8. MergeDomains(caches, size) = passes[L]
  BY DEF MergeDomains
<1>9. ASSUME NEW n \in 0 .. L PROVE Good(n, passes[n])
  <2> DEFINE S == {k \in 0 .. L : Good(k, passes[k])}
  <2> HIDE DEF passes
  <2>1. 0 \in S
    <3>1. passes[0] = caches /\ 0 \in 0 .. L
      BY <1>1, <1>7
    <3>2. QED
      BY <1>4, <3>1
  <2>2. \A k \in 0 + 1 .. L : k - 1 \in S => k \in S
    <3>1. ASSUME NEW k \in 0 + 1 .. L, k - 1 \in S PROVE k \in S
      <4>1. k \in 1 .. L /\ k \in 0 .. L /\ k # 0 /\ Good(k - 1, passes[k - 1])
        BY <1>1, <3>1
      <4>2. passes[k] = MergePass(passes[k - 1], size)
        BY <1>7, <4>1
      <4>3. Good(k, passes[k])
        BY <1>3, <4>1, <4>2
      <4>4. QED
        BY <4>1, <4>3
    <3>2. QED
      BY <3>1
  <2>3. 0 \in Int /\ L \in Int
    BY <1>1
  <2>4. \A k \in 0 .. L : k \in S
    <3> HIDE DEF S, L
    <3> QED BY <2>1, <2>2, <2>3, Ascends
  <2>5. QED
    BY <2>4
<1>10. Good(L, passes[L])
  BY <1>1, <1>9
<1> HIDE DEF passes
<1>11. Bundles(caches, size, passes[L]) /\ (Len(passes[L]) <= 0 \/ Settled(passes[L], size))
  BY <1>1, <1>10 DEF Good
<1>12. Len(passes[L]) <= 0 => Settled(passes[L], size)
  <2>1. Len(passes[L]) \in Nat
    BY <1>1, <1>11
  <2>2. QED
    BY <2>1 DEF Settled
<1>13. QED
  BY <1>8, <1>11, <1>12

\* The processors of one cache, and of a list.
LEMMA FinitePieces == ASSUME NEW k, NEW b \in Int PROVE IsFiniteSet(1 .. b) /\ IsFiniteSet({k} \X (1 .. b))
<1>1. IsFiniteSet(1 .. b)
  BY FS_Interval
<1>2. IsFiniteSet({k})
  BY FS_Singleton
<1>3. QED
  BY <1>1, <1>2, FS_Product

\* from_string, of a text that is accepted.
NamesNodes(lists, ns) ==
  /\ Len(ns) = Cardinality({k \in DOMAIN lists : lists[k] # <<>>})
  /\ \A n, m \in DOMAIN ns : ns[n] # {} /\ (n # m => ns[n] \cap ns[m] = {})
  /\ Cardinality(UNION Range(ns)) = Cardinality(Places(lists))

LEMMA StringsNameNodes ==
  ASSUME NEW S, IsFiniteSet(S), NEW lists \in Seq(Seq(S)), ~NamedTwice(lists), NEW ns, ns = FromString(lists).nodes
  PROVE  NamesNodes(lists, ns)
<1> DEFINE I == {k \in DOMAIN lists : lists[k] # <<>>}
           named == Ascending(I)
           N == Cardinality(I)
           P == Places(lists)
           U == UNION Range(ns)
           f == [x \in P |-> lists[x[1]][x[2]]]
<1>1. /\ Len(lists) \in Nat /\ DOMAIN lists = 1 .. Len(lists)
      /\ \A k \in DOMAIN lists : lists[k] \in Seq(S)
  OBVIOUS
<1>2. IsFiniteSet(I) /\ I \subseteq Int
  <2>1. I \in SUBSET (1 .. Len(lists)) /\ I \subseteq Int
    BY <1>1
  <2>2. IsFiniteSet(1 .. Len(lists))
    BY <1>1, FS_Interval
  <2> HIDE DEF I
  <2>3. QED
    BY <2>1, <2>2, FS_Subset
<1>3. /\ N \in Nat /\ named \in [1 .. N -> I]
      /\ \A n \in I : \E k \in 1 .. N : named[k] = n
      /\ \A k, m \in 1 .. N : named[k] = named[m] => k = m
  <2> HIDE DEF I
  <2> QED BY <1>2, AscendingNumbers
<1>4. ns = [k \in DOMAIN named |-> Range(lists[named[k]])]
  BY DEF FromString
<1> HIDE DEF named, N
<1>5. DOMAIN ns = 1 .. N /\ \A k \in 1 .. N : ns[k] = Range(lists[named[k]]) /\ named[k] \in I
  BY <1>3, <1>4
<1>6. ns = [k \in 1 .. N |-> Range(lists[named[k]])]
  BY <1>4, <1>5
<1>7. Len(ns) = N
  BY <1>3, <1>6
<1>8. \A x : x \in P <=> \E n \in DOMAIN lists : \E i \in DOMAIN lists[n] : x = <<n, i>>
  BY DEF Places
<1>9. \A x, y \in P : lists[x[1]][x[2]] = lists[y[1]][y[2]] => x = y
  BY DEF NamedTwice
<1> HIDE DEF P
<1>10. \A n \in DOMAIN lists : \A i \in DOMAIN lists[n] : n \in I /\ lists[n][i] \in S
  <2>1. ASSUME NEW n \in DOMAIN lists, NEW i \in DOMAIN lists[n] PROVE n \in I /\ lists[n][i] \in S
    <3>1. lists[n] \in Seq(S)
      BY <1>1
    <3>2. lists[n] # <<>>
      BY <3>1
    <3>3. QED
      BY <3>1, <3>2
  <2>2. QED
    BY <2>1
<1>11. ASSUME NEW k \in 1 .. N PROVE ns[k] # {}
  <2>1. named[k] \in DOMAIN lists /\ lists[named[k]] # <<>> /\ lists[named[k]] \in Seq(S)
    BY <1>1, <1>5
  <2> DEFINE list == lists[named[k]]
  <2>2. 1 \in DOMAIN list
    BY <2>1
  <2>3. ns[k] = Range(list)
    BY <1>5
  <2> HIDE DEF list
  <2>4. list[1] \in Range(list)
    BY <2>2 DEF Range
  <2>5. QED
    BY <2>3, <2>4
<1>12. ASSUME NEW k \in 1 .. N, NEW c PROVE c \in ns[k] <=> \E i \in DOMAIN lists[named[k]] : c = lists[named[k]][i]
  BY <1>5 DEF Range
<1>13. ASSUME NEW k \in 1 .. N, NEW m \in 1 .. N, NEW c \in ns[k] \cap ns[m] PROVE k = m
  <2>1. PICK i \in DOMAIN lists[named[k]] : c = lists[named[k]][i]
    BY <1>12
  <2>2. PICK j \in DOMAIN lists[named[m]] : c = lists[named[m]][j]
    BY <1>12
  <2> DEFINE x == <<named[k], i>>  y == <<named[m], j>>
  <2>3. x \in P /\ y \in P
    BY <1>5, <1>8
  <2>4. x = y
    BY <1>9, <2>1, <2>2, <2>3
  <2>5. QED
    BY <1>3, <2>4
<1>14. Cardinality(U) = Cardinality(P)
  <2>1. U \in SUBSET S
    <3>1. ASSUME NEW c \in U PROVE c \in S
      <4>1. PICK k \in 1 .. N : c \in ns[k]
        BY <1>5, InUnion
      <4>2. QED
        BY <1>5, <1>10, <1>12, <4>1
    <3> HIDE DEF U
    <3>2. QED
      BY <3>1
  <2>2. \A x \in P : f[x] = lists[x[1]][x[2]]
    OBVIOUS
  <2>3. ASSUME NEW x \in P PROVE f[x] \in U
    <3>1. PICK n \in DOMAIN lists : \E i \in DOMAIN lists[n] : x = <<n, i>>
      BY <1>8
    <3> PICK i \in DOMAIN lists[n] : x = <<n, i>>
      BY <3>1
    <3>2. PICK k \in 1 .. N : named[k] = n
      BY <1>3, <1>10
    <3>3. f[x] \in ns[k]
      BY <1>12, <2>2, <3>1, <3>2
    <3>4. QED
      BY <1>5, <3>3, InUnion
  <2>4. ASSUME NEW c \in U PROVE \E x \in P : f[x] = c
    <3>1. PICK k \in 1 .. N : c \in ns[k]
      BY <1>5, InUnion
    <3>2. PICK i \in DOMAIN lists[named[k]] : c = lists[named[k]][i]
      BY <1>12, <3>1
    <3>3. <<named[k], i>> \in P
      BY <1>5, <1>8
    <3>4. f[<<named[k], i>>] = c
      BY <2>2, <3>2, <3>3
    <3>5. QED
      BY <3>3, <3>4
  <2>5. DOMAIN f = P
    OBVIOUS
  <2>6. f = [x \in P |-> f[x]]
    OBVIOUS
  <2> HIDE DEF f, U
  <2>7. f \in [P -> U]
    BY <2>3, <2>6
  <2>8. f \in Surjection(P, U)
    BY <2>4, <2>7 DEF Surjection
  <2>9. \A x, y \in P : f[x] = f[y] => x = y
    BY <1>9, <2>2
  <2>10. f \in Injection(P, U)
    BY <2>7, <2>9 DEF Injection, IsInjective
  <2>11. IsFiniteSet(U)
    BY <2>1, FS_Subset
  <2>12. QED
    BY <2>8, <2>10, <2>11, FS_Injection
<1>15. \A n, m \in DOMAIN ns : ns[n] # {} /\ (n # m => ns[n] \cap ns[m] = {})
  BY <1>5, <1>11, <1>13
<1>16. QED
  BY <1>7, <1>14, <1>15 DEF N, P, NamesNodes

-----------------------------------------------------------------------------
(* One input after the other.                                              *)

NumaInv ==
  /\ numaIn.kind \in {"none", "system", "config", "string", "threads", "domains"}
  /\ numaIn.kind \in {"none", "system", "config"} => IsConfig(numaOut)
  /\ numaIn.kind \in {"system", "config"} => UNION Range(numaOut.nodes) # {}
  /\ numaIn.kind = "config" => NoneEmpty(numaOut.nodes)
  /\ ConfigPartitions /\ StringNamesNodes /\ DistributionIsFair /\ BundlesFit

LEMMA NumaInitInv == NumaInit => NumaInv
<1>1. ASSUME NumaInit PROVE NumaInv
  <2>1. numaIn.kind = "none" /\ numaOut = [nodes |-> <<>>, custom |-> FALSE]
    BY <1>1 DEF NumaInit, NoInput, EmptyConfig
  <2>2. IsConfig(numaOut)
    BY <2>1 DEF IsConfig, IsNodes
  <2>3. QED
    BY <2>1, <2>2 DEF NumaInv, ConfigPartitions, StringNamesNodes, DistributionIsFair, BundlesFit
<1>2. QED
  BY <1>1

LEMMA AddSystemCpuInv == ASSUME NumaInv, AddSystemCpu PROVE NumaInv'
<1>1. PICK c \in Cpus, n \in 1 .. 3 : ~IsAssigned(numaOut, c) /\ numaOut' = AddCpuToNode(numaOut, n, c)
  BY DEF AddSystemCpu
<1>2. IsConfig(numaOut) /\ c \in Nat /\ n \in Nat \ {0}
  BY CpusAssumption DEF NumaInv, AddSystemCpu
<1>3. IsConfig(numaOut') /\ UNION Range(numaOut'.nodes) # {}
  BY <1>1, <1>2, AddKeeps
<1>4. numaIn'.kind = "system"
  BY DEF AddSystemCpu
<1>5. QED
  BY <1>3, <1>4 DEF NumaInv, ConfigPartitions, StringNamesNodes, DistributionIsFair, BundlesFit, IsConfig, IsNodes

LEMMA FinishSystemInv == ASSUME NumaInv, NEW windows \in BOOLEAN, FinishSystem(windows) PROVE NumaInv'
<1>1. IsConfig(numaOut) /\ UNION Range(numaOut.nodes) # {}
  BY DEF NumaInv, FinishSystem
<1>2. numaOut' = IF windows THEN RemoveEmptyNodes(SplitByGroup(RemoveEmptyNodes(numaOut))) ELSE RemoveEmptyNodes(numaOut)
  BY DEF FinishSystem
<1> DEFINE out == numaOut'
<1>3. Divides(numaOut, windows, out)
  <2>1. out = IF windows THEN RemoveEmptyNodes(SplitByGroup(RemoveEmptyNodes(numaOut))) ELSE RemoveEmptyNodes(numaOut)
    BY <1>2
  <2> HIDE DEF out
  <2>2. QED
    BY <1>1, <2>1, SystemPartitions
<1>4. numaIn'.kind = "config" /\ numaIn'.from = numaOut /\ numaIn'.windows = windows
  BY DEF FinishSystem
<1>5. ConfigPartitions'
  BY <1>3, <1>4 DEF Divides, ConfigPartitions, IsConfig, IsNodes, NoneEmpty
<1>6. QED
  BY <1>1, <1>3, <1>4, <1>5 DEF Divides, NumaInv, StringNamesNodes, DistributionIsFair, BundlesFit, IsConfig, IsNodes, NoneEmpty

LEMMA ParseStringInv ==
  ASSUME NumaInv, NEW lists \in SeqOf(SeqOf(1 .. 3, 2), 3), ParseString(lists)
  PROVE  NumaInv'
<1>1. lists \in Seq(Seq(1 .. 3))
  <2>1. ASSUME NEW s \in SeqOf(1 .. 3, 2) PROVE s \in Seq(1 .. 3)
    <3>1. PICK m \in 0 .. 2 : s \in [1 .. m -> 1 .. 3]
      BY DEF SeqOf
    <3>2. QED
      BY <3>1
  <2>2. PICK m \in 0 .. 3 : lists \in [1 .. m -> SeqOf(1 .. 3, 2)]
    BY DEF SeqOf
  <2>3. QED
    BY <2>1, <2>2
<1>2. numaIn'.kind = "string" /\ numaIn'.lists = lists /\ numaOut' = FromString(lists)
  BY DEF ParseString
<1>3. ASSUME numaOut' # Refused
      PROVE  LET ns == numaOut'.nodes
             IN  /\ Len(ns) = Cardinality({k \in DOMAIN lists : lists[k] # <<>>})
                 /\ \A n, m \in DOMAIN ns : ns[n] # {} /\ (n # m => ns[n] \cap ns[m] = {})
                 /\ Cardinality(UNION Range(ns)) = Cardinality(Places(lists))
  <2>1. ~NamedTwice(lists)
    BY <1>2, <1>3 DEF FromString
  <2>2. IsFiniteSet(1 .. 3)
    BY 3 \in Int, FinitePieces
  <2> DEFINE ns == numaOut'.nodes
  <2>3. ns = FromString(lists).nodes
    BY <1>2
  <2> HIDE DEF ns
  <2>4. NamesNodes(lists, ns)
    BY <1>1, <2>1, <2>2, <2>3, StringsNameNodes
  <2>5. QED
    BY <2>4 DEF ns, NamesNodes
<1>4. StringNamesNodes'
  BY <1>2, <1>3 DEF StringNamesNodes, Refused
<1>5. QED
  BY <1>2, <1>4 DEF NumaInv, ConfigPartitions, DistributionIsFair, BundlesFit

LEMMA DistributeThreadsInv ==
  ASSUME NumaInv, NEW numThreads \in 1 .. MaxThreads, DistributeThreads(numThreads)
  PROVE  NumaInv'
<1> DEFINE ns == Distribution(numaOut, numThreads)
<1>1. IsConfig(numaOut) /\ UNION Range(numaOut.nodes) # {} /\ NoneEmpty(numaOut.nodes) /\ numThreads \in Nat
  BY NumaBoundsAssumption DEF NumaInv, DistributeThreads
<1>2. Divisible(numaOut)
  <2>1. Len(numaOut.nodes) \in Nat /\ DOMAIN numaOut.nodes = 1 .. Len(numaOut.nodes)
        /\ \A n \in DOMAIN numaOut.nodes : IsFiniteSet(numaOut.nodes[n])
    BY <1>1, NodesFacts DEF IsConfig
  <2>2. \E n \in DOMAIN numaOut.nodes : TRUE
    BY <1>1, InUnion
  <2>3. QED
    BY <1>1, <2>1, <2>2 DEF Divisible, NoneEmpty, NumNodes
<1>3. Even(numaOut, ns) /\ ns \in [1 .. numThreads -> DOMAIN numaOut.nodes]
  BY <1>1, <1>2, ThreadsSpreadEvenly, DistributionDistributes DEF Distributes
<1>4. Len(ns) = numThreads
  <2> HIDE DEF ns
  <2>1. ns = [t \in 1 .. numThreads |-> ns[t]]
    BY <1>3
  <2>2. QED
    BY <1>1, <2>1
<1>5. /\ numaIn'.kind = "threads" /\ numaIn'.cfg = numaOut /\ numaIn'.count = numThreads
      /\ numaOut'.nodes = ns
  BY <1>1 DEF DistributeThreads, IsConfig
<1> HIDE DEF ns
<1>6. DistributionIsFair'
  BY <1>3, <1>4, <1>5 DEF DistributionIsFair, Even, Occupation, NodeSize
<1>7. QED
  BY <1>5, <1>6 DEF NumaInv, ConfigPartitions, StringNamesNodes, BundlesFit

LEMMA BundleDomainsInv ==
  ASSUME NumaInv, NEW n \in Nat, NEW sizes \in [1 .. n -> 1 .. 3], NEW bundleSize \in 0 .. 6, BundleDomains(sizes, bundleSize)
  PROVE  NumaInv'
<1> DEFINE ds == [k \in DOMAIN sizes |-> {k} \X (1 .. sizes[k])]
           U == UNION Range(ds)
           out == MergeDomains(ds, bundleSize)
<1>1. DOMAIN ds = 1 .. n /\ \A k \in 1 .. n : ds[k] = {k} \X (1 .. sizes[k]) /\ sizes[k] \in Int
  OBVIOUS
<1>2. /\ numaIn'.kind = "domains" /\ numaIn'.ds = ds /\ numaIn'.bundle = bundleSize
      /\ numaOut'.nodes = out
  BY DEF BundleDomains
<1> HIDE DEF ds
<1>3. Bundles(ds, bundleSize, ds)
  <2>1. \A k \in 1 .. n : ds[k] \in Range(ds) /\ ds[k] \in SUBSET U
    BY <1>1 DEF Range
  <2>2. ds \in Seq(SUBSET U)
    <3>1. ds = [k \in 1 .. n |-> ds[k]]
      BY <1>1 DEF ds
    <3> HIDE DEF U
    <3>2. QED
      BY <2>1, <3>1
  <2>3. ASSUME NEW k \in 1 .. n PROVE IsFiniteSet(ds[k])
    <3>1. sizes[k] \in Int
      BY <1>1
    <3>2. IsFiniteSet({k} \X (1 .. sizes[k]))
      BY <3>1, FinitePieces
    <3>3. QED
      BY <1>1, <3>2
  <2>4. ASSUME NEW k \in 1 .. n, NEW m \in 1 .. n, k # m PROVE ds[k] \cap ds[m] = {}
    BY <1>1, <2>4
  <2>5. \A c \in U : \E k \in DOMAIN ds : c \in ds[k]
    BY InUnion
  <2>6. QED
    BY <1>1, <2>1, <2>2, <2>3, <2>4, <2>5 DEF Bundles
<1>4. Bundles(ds, bundleSize, out) /\ Settled(out, bundleSize)
  BY <1>3, MergeKeeps
<1> HIDE DEF out
<1>5. UNION Range(out) = UNION Range(ds)
  <2>1. \A k \in DOMAIN out : out[k] \subseteq U
    BY <1>4 DEF Bundles
  <2> HIDE DEF U
  <2>2. \A c \in U : c \in UNION Range(out)
    BY <1>4, InUnion DEF Bundles, U
  <2>3. \A c \in UNION Range(out) : c \in U
    BY <2>1, InUnion
  <2>4. QED
    BY <2>2, <2>3 DEF U
<1>6. \A k \in 1 .. Len(out) - 1 : Cardinality(out[k]) + Cardinality(out[k + 1]) > bundleSize
  <2>1. ASSUME NEW k \in 1 .. Len(out) - 1 PROVE Cardinality(out[k]) + Cardinality(out[k + 1]) > bundleSize
    <3>1. Len(out) \in Nat /\ k \in 1 .. Len(out) /\ k < Len(out) /\ k \in DOMAIN out /\ k + 1 \in DOMAIN out
      BY <1>4 DEF Bundles
    <3>2. ~(Cardinality(out[k]) + Cardinality(out[k + 1]) <= bundleSize)
      BY <1>4, <3>1 DEF Settled, Fits
    <3>3. IsFiniteSet(out[k]) /\ IsFiniteSet(out[k + 1])
      BY <1>4, <3>1 DEF Bundles
    <3>4. Cardinality(out[k]) \in Nat /\ Cardinality(out[k + 1]) \in Nat
      BY <3>3, FS_CardinalityType
    <3>5. QED
      BY <3>2, <3>4
  <2>2. QED
    BY <2>1
<1>7. BundlesFit'
  BY <1>2, <1>4, <1>5, <1>6 DEF BundlesFit, Bundles
<1>8. QED
  BY <1>2, <1>7 DEF NumaInv, ConfigPartitions, StringNamesNodes, DistributionIsFair

LEMMA NumaNextInv == NumaInv /\ [NumaNext]_numaVars => NumaInv'
<1>1. SUFFICES ASSUME NumaInv, [NumaNext]_numaVars PROVE NumaInv'
  OBVIOUS
<1>2. CASE AddSystemCpu
  BY <1>1, <1>2, AddSystemCpuInv
<1>3. CASE \E windows \in BOOLEAN : FinishSystem(windows)
  BY <1>1, <1>3, FinishSystemInv
<1>4. CASE \E numThreads \in 1 .. MaxThreads : DistributeThreads(numThreads)
  BY <1>1, <1>4, DistributeThreadsInv
<1>5. CASE \E k \in 1 .. MaxDomains : \E sizes \in [1 .. k -> 1 .. 3], bundleSize \in 0 .. 6 : BundleDomains(sizes, bundleSize)
  <2>1. PICK k \in 1 .. MaxDomains : \E sizes \in [1 .. k -> 1 .. 3], bundleSize \in 0 .. 6 : BundleDomains(sizes, bundleSize)
    BY <1>5
  <2>2. k \in Nat
    BY NumaBoundsAssumption
  <2>3. QED
    BY <1>1, <2>1, <2>2, BundleDomainsInv
<1>6. CASE \E lists \in SeqOf(SeqOf(1 .. 3, 2), 3) : ParseString(lists)
  BY <1>1, <1>6, ParseStringInv
<1>7. CASE UNCHANGED numaVars
  BY <1>1, <1>7 DEF numaVars, NumaInv, ConfigPartitions, StringNamesNodes, DistributionIsFair, BundlesFit
<1>8. QED
  BY <1>1, <1>2, <1>3, <1>4, <1>5, <1>6, <1>7 DEF NumaNext

LEMMA InvConfigRight == NumaInv => ConfigRight
<1>1. ASSUME NumaInv, numaIn.kind = "config", NEW n \in DOMAIN numaOut.nodes
      PROVE  numaOut.nodes[n] \subseteq Nat /\ IsFiniteSet(numaOut.nodes[n])
  <2>1. IsNodes(numaOut.nodes)
    BY <1>1 DEF NumaInv, IsConfig
  <2>2. QED
    BY <2>1, NodesFacts
<1>2. NumaInv => TextNamesConfig
  BY <1>1, RangesName DEF TextNamesConfig
<1>3. QED
  BY <1>2 DEF NumaInv, ConfigRight

\* Whatever processors, nodes, groups, caches and threads there are: what is made of the system
\* and of the user's text divides the processors among nodes, none empty; the text written for a
\* configuration names each of its processors once; threads are spread evenly; and caches are
\* bundled until no neighbours would fit together (numa.h, NumaConfig).
THEOREM ConfigsAreRight == NumaSpec => []ConfigRight
<1>1. NumaInit => NumaInv
  BY NumaInitInv
<1>2. NumaInv /\ [NumaNext]_numaVars => NumaInv'
  BY NumaNextInv
<1>3. NumaInv => ConfigRight
  BY InvConfigRight
<1>4. QED
  BY <1>1, <1>2, <1>3, PTL DEF NumaSpec

-----------------------------------------------------------------------------
(* The inductive invariant of the copies: they are those of the            *)
(* configuration in force, each made at most once; the threads are the     *)
(* first of those that the options ask for; whoever holds the lock is the  *)
(* one thread between the lock and its release.                            *)

Copies(cfg) == IF RequiresMemoryReplication(cfg) THEN NumNodes(cfg) ELSE 1
WorkerStates == {"look", "lock", "recheck", "build", "done"}
Phases == {"create", "threads", "clear", "search", "idle"}

CopiesKnown ==
  /\ config \in Configs /\ policy \in Policies /\ requested \in 1 .. MaxThreads
  /\ version \in Nat \ {0} /\ exported \in BOOLEAN /\ numaOps \in 0 .. MaxNumaOps
  /\ instances \in [1 .. Copies(config) -> {Absent, version}] /\ instances[1] = version
  /\ builds = Built(instances)

ThreadsPlaced ==
  /\ tokens \in Seq(Nat) /\ Len(tokens) <= requested
  /\ \A t \in 1 .. Len(tokens) : tokens[t] = NodesOfThreads[t]
  /\ slices \in Seq([idx : Nat, total : Nat]) /\ Len(slices) = Len(tokens)
  /\ wpc \in Seq(WorkerStates) /\ Len(wpc) = Len(tokens)

SlicesCounted ==
  /\ \A n \in 1 .. Copies(config) : {slices[t].idx : t \in {u \in Workers : tokens[u] = n}} = 0 .. Occupation(tokens, n) - 1
  /\ \A t \in Workers : slices[t].total = Occupation(NodesOfThreads, tokens[t])

PhasesKept ==
  /\ upc \in Phases
  /\ upc = "create" => tokens = <<>>
  /\ upc # "create" => histories = [n \in Range(NodesOfThreads) |-> Occupation(NodesOfThreads, n)]
  /\ upc \in {"clear", "search", "idle"} => Len(tokens) = requested
  /\ upc \notin {"clear", "search"} => \A t \in Workers : wpc[t] = "done"

LockKept ==
  /\ holder \in Workers \cup {NoHolder}
  /\ \A t \in Workers : wpc[t] \in {"recheck", "build"} <=> holder = t
  /\ \A t \in Workers : wpc[t] = "build" => instances[tokens[t]] = Absent

CopiesReady == upc \in {"search", "idle"} /\ ~exported => \A t \in Workers : instances[tokens[t]] # Absent

RepInv == CopiesKnown /\ ThreadsPlaced /\ SlicesCounted /\ PhasesKept /\ LockKept /\ CopiesReady

-----------------------------------------------------------------------------
LEMMA ConfigsDivisible ==
  ASSUME NEW cfg \in Configs
  PROVE  /\ Divisible(cfg) /\ Copies(cfg) \in Nat \ {0}
         /\ NumNodes(cfg) <= Copies(cfg)
<1>1. Divisible(cfg)
  BY ConfigsAssumption DEF Divisible
<1>2. QED
  BY <1>1 DEF Divisible, Copies, RequiresMemoryReplication

LEMMA FirstConfigKnown == FirstConfig \in Configs /\ ~RequiresMemoryReplication(FirstConfig)
  BY ConfigsAssumption DEF FirstConfig

LEMMA PreparedCopies ==
  ASSUME NEW cfg \in Configs, NEW v \in Nat
  PROVE  Prepare(cfg, v) \in [1 .. Copies(cfg) -> {Absent, v}] /\ Prepare(cfg, v)[1] = v
<1>1. Copies(cfg) \in Nat /\ 1 \in 1 .. Copies(cfg)
  BY ConfigsDivisible
<1>2. Prepare(cfg, v) = [n \in 1 .. Copies(cfg) |-> IF n = 1 THEN v ELSE Absent]
  BY DEF Prepare, Copies
<1>3. QED
  BY <1>1, <1>2

\* Every thread has a node that there is a copy for.
LEMMA NodesHaveCopies ==
  ASSUME CopiesKnown
  PROVE  NodesOfThreads \in [1 .. requested -> 1 .. Copies(config)]
<1>1. config \in Configs /\ requested \in Nat
  BY NumaBoundsAssumption DEF CopiesKnown
<1>2. Divisible(config) /\ NumNodes(config) <= Copies(config) /\ Copies(config) \in Nat \ {0} /\ NumNodes(config) \in Nat
  BY <1>1, ConfigsDivisible DEF Divisible
<1>3. Distributes(config, requested, Distribution(config, requested))
  BY <1>1, <1>2, DistributionDistributes
<1>4. Distribution(config, requested) \in [1 .. requested -> 1 .. NumNodes(config)]
  BY <1>2, <1>3 DEF Distributes, Divisible
<1>5. CASE Binds
  <2>1. NodesOfThreads = Distribution(config, requested)
    BY <1>5 DEF NodesOfThreads
  <2> QED BY <1>2, <1>4, <2>1
<1>6. CASE ~Binds
  <2>1. NodesOfThreads = [t \in 1 .. requested |-> 1]
    BY <1>6 DEF NodesOfThreads
  <2> QED BY <1>2, <2>1
<1>7. QED
  BY <1>5, <1>6

LEMMA NodesUnchanged == config' = config /\ policy' = policy /\ requested' = requested => NodesOfThreads' = NodesOfThreads
  BY DEF NodesOfThreads, Binds

LEMMA TokensKnown ==
  ASSUME CopiesKnown, ThreadsPlaced
  PROVE  /\ Workers = 1 .. Len(tokens) /\ Len(tokens) \in Nat
         /\ \A t \in Workers : tokens[t] \in 1 .. Copies(config) /\ tokens[t] \in Nat /\ t \in 1 .. requested
         /\ 1 .. Copies(config) = DOMAIN instances
<1>1. Workers = 1 .. Len(tokens) /\ Len(tokens) \in Nat
  BY DEF ThreadsPlaced, Workers
<1>2. ASSUME NEW t \in Workers PROVE tokens[t] \in 1 .. Copies(config) /\ tokens[t] \in Nat /\ t \in 1 .. requested
  <2>1. t \in 1 .. requested /\ tokens[t] = NodesOfThreads[t] /\ tokens[t] \in Nat
    BY <1>1 DEF ThreadsPlaced, CopiesKnown
  <2>2. QED
    BY <2>1, NodesHaveCopies
<1>3. QED
  BY <1>1, <1>2 DEF CopiesKnown

\* What every worker being somewhere else at once amounts to.
LEMMA WorkersAll ==
  ASSUME CopiesKnown, ThreadsPlaced, NEW w \in WorkerStates
  PROVE  [t \in Workers |-> w] \in Seq(WorkerStates) /\ Len([t \in Workers |-> w]) = Len(tokens)
<1>1. Workers = 1 .. Len(tokens) /\ Len(tokens) \in Nat
  BY TokensKnown
<1> HIDE DEF Workers
<1>2. [t \in Workers |-> w] = [t \in 1 .. Len(tokens) |-> w]
  BY <1>1
<1>3. QED
  BY <1>1, <1>2

-----------------------------------------------------------------------------
LEMMA RepInitInv == ASSUME RepInit PROVE RepInv
<1>1. CopiesKnown
  <2>1. FirstConfig \in Configs
    BY FirstConfigKnown
  <2>2. Prepare(FirstConfig, 1) \in [1 .. Copies(FirstConfig) -> {Absent, 1}] /\ Prepare(FirstConfig, 1)[1] = 1
    BY <2>1, PreparedCopies
  <2>3. "none" \in Policies /\ 1 \in 1 .. MaxThreads /\ 0 \in 0 .. MaxNumaOps
    BY CommandsAssumption, NumaBoundsAssumption
  <2>4. /\ config = FirstConfig /\ policy = "none" /\ requested = 1 /\ version = 1 /\ instances = Prepare(FirstConfig, 1)
        /\ builds = Built(instances) /\ exported = FALSE /\ numaOps = 0
    BY DEF RepInit
  <2>5. instances \in [1 .. Copies(config) -> {Absent, version}] /\ instances[1] = version
    BY <2>2, <2>4
  <2>6. exported \in BOOLEAN
    BY <2>4
  <2>7. version \in Nat \ {0} /\ requested \in 1 .. MaxThreads /\ numaOps \in 0 .. MaxNumaOps
    BY <2>3, <2>4
  <2>8. config \in Configs /\ policy \in Policies
    BY <2>1, <2>3, <2>4
  <2>9. QED
    BY <2>4, <2>5, <2>6, <2>7, <2>8 DEF CopiesKnown
<1>2. ThreadsPlaced
  BY <1>1, NumaBoundsAssumption DEF RepInit, ThreadsPlaced, CopiesKnown
<1>3. SlicesCounted
  <2> SUFFICES ASSUME NEW n \in 1 .. Copies(config) PROVE 0 .. Occupation(tokens, n) - 1 = {}
    BY DEF RepInit, SlicesCounted, Workers
  <2>1. {t \in DOMAIN tokens : tokens[t] = n} = {}
    BY DEF RepInit
  <2>2. Occupation(tokens, n) = 0
    BY <2>1, FS_EmptySet DEF Occupation
  <2>3. QED
    BY <2>2
<1>4. PhasesKept
  BY DEF RepInit, PhasesKept, Phases, Workers
<1>5. LockKept
  BY DEF RepInit, LockKept, Workers
<1>6. CopiesReady
  BY DEF RepInit, CopiesReady, Workers
<1>7. QED
  BY <1>1, <1>2, <1>3, <1>4, <1>5, <1>6 DEF RepInv

-----------------------------------------------------------------------------
(* The commands.                                                           *)

LEMMA CommandCounts == ASSUME CopiesKnown, Command PROVE numaOps' \in 0 .. MaxNumaOps /\ upc = "idle"
  BY NumaBoundsAssumption, CommandsAssumption DEF CopiesKnown, Command

\* The threads are gone, and with them all that is said of them.
LEMMA NoThreads ==
  ASSUME DestroyThreads, requested' \in Nat, UNCHANGED holder, holder = NoHolder
  PROVE  ThreadsPlaced' /\ SlicesCounted' /\ PhasesKept' /\ LockKept' /\ CopiesReady'
<1>1. tokens' = <<>> /\ slices' = <<>> /\ wpc' = <<>> /\ upc' = "create" /\ Workers' = {}
  BY DEF DestroyThreads, Workers
<1>2. ThreadsPlaced'
  BY <1>1 DEF ThreadsPlaced
<1>3. SlicesCounted'
  <2> SUFFICES ASSUME NEW n PROVE Occupation(<<>>, n) = 0
    BY <1>1 DEF SlicesCounted
  <2>1. {t \in DOMAIN <<>> : <<>>[t] = n} = {}
    OBVIOUS
  <2>2. QED
    BY <2>1, FS_EmptySet DEF Occupation
<1>4. PhasesKept'
  BY <1>1 DEF PhasesKept, Phases
<1>5. LockKept'
  BY <1>1 DEF LockKept
<1>6. CopiesReady'
  BY <1>1 DEF CopiesReady
<1>7. QED
  BY <1>2, <1>3, <1>4, <1>5, <1>6

\* While the engine is idle nobody has the lock.
LEMMA QuietHasNoHolder ==
  ASSUME RepInv, upc \notin {"clear", "search"}
  PROVE  holder = NoHolder
  BY DEF RepInv, PhasesKept, LockKept

LEMMA SetNumaPolicyInv ==
  ASSUME RepInv, NEW cfg \in Configs, NEW p \in Policies, SetNumaPolicy(cfg, p)
  PROVE  RepInv'
<1>1. Command /\ config' = cfg /\ policy' = p /\ Replicate(cfg, instances[1]) /\ DestroyThreads
      /\ UNCHANGED <<requested, version, histories, holder, exported>>
  BY DEF SetNumaPolicy
<1>2. CopiesKnown /\ numaOps' \in 0 .. MaxNumaOps /\ upc = "idle"
  BY <1>1, CommandCounts DEF RepInv
<1>3. CopiesKnown'
  <2>1. version \in Nat /\ version \in Nat \ {0} /\ instances[1] = version
    BY <1>2 DEF CopiesKnown
  <2>2. instances' = Prepare(cfg, version) /\ builds' = Built(instances')
    BY <1>1, <2>1 DEF Replicate
  <2>3. instances' \in [1 .. Copies(cfg) -> {Absent, version}] /\ instances'[1] = version
    BY <2>1, <2>2, PreparedCopies
  <2>4. exported \in BOOLEAN /\ requested \in 1 .. MaxThreads
    BY <1>2 DEF CopiesKnown
  <2>5. builds' = Built(instances)'
    BY <2>2 DEF Built
  <2>6. QED
    BY <1>1, <1>2, <2>1, <2>3, <2>4, <2>5 DEF CopiesKnown
<1>4. holder = NoHolder
  BY <1>2, QuietHasNoHolder
<1>5. requested' \in Nat
  BY <1>3, NumaBoundsAssumption DEF CopiesKnown
<1>6. QED
  BY <1>1, <1>3, <1>4, <1>5, NoThreads DEF RepInv

LEMMA SetThreadsInv ==
  ASSUME RepInv, NEW k \in 1 .. MaxThreads, SetThreads(k)
  PROVE  RepInv'
<1>1. Command /\ requested' = k /\ DestroyThreads
      /\ UNCHANGED <<config, policy, instances, version, histories, holder, builds, exported>>
  BY DEF SetThreads
<1>2. CopiesKnown /\ numaOps' \in 0 .. MaxNumaOps /\ upc = "idle"
  BY <1>1, CommandCounts DEF RepInv
<1>3. CopiesKnown'
  BY <1>1, <1>2 DEF CopiesKnown, Built
<1>4. holder = NoHolder
  BY <1>2, QuietHasNoHolder
<1>5. requested' \in Nat
  BY <1>3, NumaBoundsAssumption DEF CopiesKnown
<1>6. QED
  BY <1>1, <1>3, <1>4, <1>5, NoThreads DEF RepInv

LEMMA MakeHistoriesInv == ASSUME RepInv, MakeHistories PROVE RepInv'
<1>1. /\ upc = "create" /\ tokens = <<>> /\ upc' = "threads"
      /\ histories' = [n \in Range(NodesOfThreads) |-> Occupation(NodesOfThreads, n)]
      /\ UNCHANGED <<config, policy, requested, instances, version, tokens, slices, wpc, holder, builds,
                     exported, numaOps>>
  BY DEF MakeHistories
<1>2. NodesOfThreads' = NodesOfThreads
  BY <1>1, NodesUnchanged
<1>3. CopiesKnown'
  BY <1>1 DEF RepInv, CopiesKnown, Built
<1>4. ThreadsPlaced'
  BY <1>1, <1>2 DEF RepInv, ThreadsPlaced
<1>5. SlicesCounted'
  BY <1>1, <1>2 DEF RepInv, SlicesCounted, Workers
<1>6. PhasesKept'
  <2>1. upc' \in Phases /\ upc' \notin {"clear", "search"} /\ Workers' = {}
    BY <1>1 DEF Phases, Workers
  <2>2. histories' = [n \in Range(NodesOfThreads)' |-> Occupation(NodesOfThreads', n)]
    BY <1>1, <1>2 DEF Range
  <2>3. QED
    BY <1>1, <2>1, <2>2 DEF PhasesKept
<1>7. LockKept'
  BY <1>1 DEF RepInv, LockKept, Workers
<1>8. CopiesReady'
  BY <1>1 DEF CopiesReady
<1>9. QED
  BY <1>3, <1>4, <1>5, <1>6, <1>7, <1>8 DEF RepInv

LEMMA SaveNetworkInv == ASSUME RepInv, SaveNetwork PROVE RepInv'
<1>1. Command /\ Replicate(config, instances[1]) /\ exported' = TRUE
      /\ UNCHANGED <<config, policy, requested, version, tokens, slices, histories, upc, wpc, holder>>
  BY DEF SaveNetwork
<1>2. CopiesKnown /\ numaOps' \in 0 .. MaxNumaOps /\ upc = "idle"
  BY <1>1, CommandCounts DEF RepInv
<1>3. NodesOfThreads' = NodesOfThreads
  BY <1>1, NodesUnchanged
<1>4. CopiesKnown'
  <2>1. version \in Nat /\ version \in Nat \ {0} /\ instances[1] = version /\ config \in Configs
    BY <1>2 DEF CopiesKnown
  <2>2. instances' = Prepare(config, version) /\ builds' = Built(instances')
    BY <1>1, <2>1 DEF Replicate
  <2>3. instances' \in [1 .. Copies(config) -> {Absent, version}] /\ instances'[1] = version
    BY <2>1, <2>2, PreparedCopies
  <2>4. exported' \in BOOLEAN
    BY <1>1
  <2>5. builds' = Built(instances)'
    BY <2>2 DEF Built
  <2>6. QED
    BY <1>1, <1>2, <2>1, <2>3, <2>4, <2>5 DEF CopiesKnown
<1>5. ThreadsPlaced'
  BY <1>1, <1>3 DEF RepInv, ThreadsPlaced
<1>6. SlicesCounted'
  BY <1>1, <1>3 DEF RepInv, SlicesCounted, Workers
<1>7. PhasesKept'
  BY <1>1, <1>2, <1>3 DEF RepInv, PhasesKept, Workers
<1>8. LockKept'
  BY <1>1, <1>2 DEF RepInv, LockKept, PhasesKept, Workers
<1>9. CopiesReady'
  BY <1>1 DEF CopiesReady
<1>10. QED
  BY <1>4, <1>5, <1>6, <1>7, <1>8, <1>9 DEF RepInv

-----------------------------------------------------------------------------
(* All workers are sent to look at their networks.                         *)

LEMMA AllLookInv ==
  ASSUME RepInv, upc \notin {"clear", "search"}, AllLook, Len(tokens) = requested, upc # "create",
         CopiesKnown', upc' \in {"clear", "search"},
         UNCHANGED <<config, policy, requested, tokens, slices, histories, holder>>
  PROVE  ThreadsPlaced' /\ SlicesCounted' /\ PhasesKept' /\ LockKept'
<1>1. NodesOfThreads' = NodesOfThreads
  BY NodesUnchanged
<1>2. CopiesKnown /\ ThreadsPlaced
  BY DEF RepInv
<1>3. wpc' \in Seq(WorkerStates) /\ Len(wpc') = Len(tokens)
  BY <1>2, WorkersAll DEF WorkerStates, AllLook
<1>4. Workers' = Workers /\ \A t \in Workers : wpc'[t] = "look"
  BY DEF Workers, AllLook
<1>5. holder = NoHolder /\ holder \notin Workers
  <2>1. Workers = 1 .. Len(tokens)
    BY <1>2, TokensKnown
  <2>2. QED
    BY <2>1, QuietHasNoHolder DEF NoHolder
<1>6. ThreadsPlaced'
  BY <1>1, <1>2, <1>3 DEF ThreadsPlaced
<1>7. SlicesCounted'
  BY <1>1, <1>4 DEF RepInv, SlicesCounted
<1>8. PhasesKept'
  BY <1>1 DEF RepInv, PhasesKept, Phases
<1>9. LockKept'
  BY <1>4, <1>5 DEF LockKept
<1>10. QED
  BY <1>6, <1>7, <1>8, <1>9

LEMMA ClearPoolInv == ASSUME RepInv, ClearPool PROVE RepInv'
<1>1. upc = "threads" /\ Len(tokens) = requested /\ upc' = "clear" /\ AllLook
      /\ UNCHANGED <<config, policy, requested, instances, version, tokens, slices, histories, holder,
                     builds, exported, numaOps>>
  BY DEF ClearPool
<1>2. CopiesKnown'
  BY <1>1 DEF RepInv, CopiesKnown, Built
<1>3. CopiesReady'
  BY <1>1 DEF CopiesReady
<1>4. QED
  BY <1>1, <1>2, <1>3, AllLookInv DEF RepInv

LEMMA LoadNetworkInv == ASSUME RepInv, LoadNetwork PROVE RepInv'
<1>1. Command /\ version' = version + 1 /\ Replicate(config, version + 1) /\ upc' = "clear" /\ AllLook
      /\ UNCHANGED <<config, policy, requested, tokens, slices, histories, holder, exported>>
  BY DEF LoadNetwork
<1>2. CopiesKnown /\ numaOps' \in 0 .. MaxNumaOps /\ upc = "idle"
  BY <1>1, CommandCounts DEF RepInv
<1>3. CopiesKnown'
  <2>1. version' \in Nat /\ version' \in Nat \ {0} /\ config \in Configs
    BY <1>1, <1>2 DEF CopiesKnown
  <2>2. instances' = Prepare(config, version') /\ builds' = Built(instances')
    BY <1>1 DEF Replicate
  <2>3. instances' \in [1 .. Copies(config) -> {Absent, version'}] /\ instances'[1] = version'
    BY <2>1, <2>2, PreparedCopies
  <2>4. exported' \in BOOLEAN /\ requested' \in 1 .. MaxThreads /\ policy' \in Policies
    BY <1>1, <1>2 DEF CopiesKnown
  <2>5. builds' = Built(instances)'
    BY <2>2 DEF Built
  <2>6. QED
    BY <1>1, <1>2, <2>1, <2>3, <2>4, <2>5 DEF CopiesKnown
<1>4. CopiesReady'
  BY <1>1 DEF CopiesReady
<1>5. Len(tokens) = requested
  BY <1>2 DEF RepInv, PhasesKept
<1>6. QED
  BY <1>1, <1>2, <1>3, <1>4, <1>5, AllLookInv DEF RepInv

LEMMA GoInv == ASSUME RepInv, Go PROVE RepInv'
<1>1. Command /\ upc' = "search" /\ AllLook
      /\ UNCHANGED <<config, policy, requested, instances, version, tokens, slices, histories, holder,
                     builds, exported>>
  BY DEF Go
<1>2. CopiesKnown /\ numaOps' \in 0 .. MaxNumaOps /\ upc = "idle"
  BY <1>1, CommandCounts DEF RepInv
<1>3. CopiesKnown'
  BY <1>1, <1>2 DEF CopiesKnown, Built
<1>4. CopiesReady'
  BY <1>1, <1>2 DEF RepInv, CopiesReady, Workers
<1>5. Len(tokens) = requested
  BY <1>2 DEF RepInv, PhasesKept
<1>6. QED
  BY <1>1, <1>2, <1>3, <1>4, <1>5, AllLookInv DEF RepInv

-----------------------------------------------------------------------------
(* A thread is created.                                                    *)

LEMMA CreateThreadInv == ASSUME RepInv, CreateThread PROVE RepInv'
<1> DEFINE c == Len(tokens)
           t == c + 1
           n == NodesOfThreads[t]
           total == Occupation(NodesOfThreads, n)
           idx == Occupation(tokens, n)
<1>1. /\ upc = "threads" /\ c < requested
      /\ tokens' = Append(tokens, n)
      /\ slices' = Append(slices, [idx |-> idx, total |-> total])
      /\ wpc' = Append(wpc, "done")
      /\ instances' = [instances EXCEPT ![n] = IF @ = Absent THEN instances[1] ELSE @]
      /\ builds' = [builds EXCEPT ![n] = IF instances[n] = Absent THEN @ + 1 ELSE @]
      /\ UNCHANGED <<config, policy, requested, version, histories, upc, holder, exported, numaOps>>
  BY DEF CreateThread
<1>2. CopiesKnown /\ ThreadsPlaced
  BY DEF RepInv
<1>3. NodesOfThreads' = NodesOfThreads
  BY <1>1, NodesUnchanged
<1>4. /\ Workers = 1 .. c /\ c \in Nat /\ requested \in Nat /\ t \in 1 .. requested
  BY <1>1, <1>2, TokensKnown, NumaBoundsAssumption DEF CopiesKnown
<1>5. n \in 1 .. Copies(config) /\ n \in Nat
  BY <1>2, <1>4, NodesHaveCopies
<1>6. DOMAIN tokens = 1 .. c /\ DOMAIN NodesOfThreads = 1 .. requested
  BY <1>2, <1>4, NodesHaveCopies DEF ThreadsPlaced
<1>7. total \in Nat /\ idx \in Nat
  BY <1>4, <1>6, OccupationCounts
<1> HIDE DEF n, idx, total
<1>8. /\ tokens' \in Seq(Nat) /\ Len(tokens') = c + 1 /\ tokens'[t] = n
      /\ \A u \in 1 .. c : tokens'[u] = tokens[u]
  BY <1>1, <1>2, <1>5 DEF ThreadsPlaced
<1>9. /\ slices' \in Seq([idx : Nat, total : Nat]) /\ Len(slices') = c + 1
      /\ slices'[t] = [idx |-> idx, total |-> total]
      /\ \A u \in 1 .. c : slices'[u] = slices[u]
  BY <1>1, <1>2, <1>7 DEF ThreadsPlaced
<1>10. /\ wpc' \in Seq(WorkerStates) /\ Len(wpc') = c + 1 /\ wpc'[t] = "done"
       /\ \A u \in 1 .. c : wpc'[u] = wpc[u]
  BY <1>1, <1>2 DEF ThreadsPlaced, WorkerStates
<1>11. Workers' = 1 .. t /\ DOMAIN tokens' = 1 .. t
  BY <1>4, <1>8 DEF Workers
<1>12. CopiesKnown'
  <2>1. instances \in [1 .. Copies(config) -> {Absent, version}] /\ instances[1] = version /\ builds = Built(instances)
    BY <1>2 DEF CopiesKnown
  <2>2. instances' \in [1 .. Copies(config) -> {Absent, version}] /\ instances'[1] = version
    BY <1>1, <1>5, <2>1
  <2>3. version # Absent
    BY <1>2 DEF CopiesKnown, Absent
  <2>4. \A m \in 1 .. Copies(config) : builds'[m] = IF instances'[m] = Absent THEN 0 ELSE 1
    BY <1>1, <1>5, <2>1, <2>3 DEF Built
  <2>5. builds' = Built(instances)'
    BY <1>1, <2>1, <2>2, <2>4 DEF Built
  <2>6. exported \in BOOLEAN
    BY <1>2 DEF CopiesKnown
  <2>7. QED
    BY <1>1, <1>2, <2>2, <2>5, <2>6 DEF CopiesKnown
<1>13. ThreadsPlaced'
  <2>1. \A u \in 1 .. t : tokens'[u] = NodesOfThreads[u]
    <3>1. \A u \in 1 .. c : tokens'[u] = NodesOfThreads[u]
      BY <1>2, <1>8 DEF ThreadsPlaced
    <3>2. tokens'[t] = NodesOfThreads[t]
      BY <1>8 DEF n
    <3>3. \A u \in 1 .. t : u \in 1 .. c \/ u = t
      BY <1>4
    <3>4. QED
      BY <3>1, <3>2, <3>3
  <2>2. t <= requested
    BY <1>4
  <2>3. QED
    BY <1>1, <1>3, <1>8, <1>9, <1>10, <2>1, <2>2 DEF ThreadsPlaced
<1>14. SlicesCounted'
  <2>1. ASSUME NEW m \in 1 .. Copies(config)
        PROVE  {slices'[u].idx : u \in {x \in Workers' : tokens'[x] = m}} = 0 .. Occupation(tokens', m) - 1
    <3>1. Occupation(tokens', m) = Occupation(tokens, m) + (IF n = m THEN 1 ELSE 0)
      BY <1>4, <1>6, <1>8, <1>11, OccupationGrows
    <3>2. {slices[u].idx : u \in {x \in Workers : tokens[x] = m}} = 0 .. Occupation(tokens, m) - 1
      BY DEF RepInv, SlicesCounted
    <3>3. Occupation(tokens, m) \in Nat
      BY <1>4, <1>6, OccupationCounts
    <3>4. CASE n = m
      <4>1. {x \in Workers' : tokens'[x] = m} = {x \in Workers : tokens[x] = m} \cup {t}
        BY <1>4, <1>8, <1>11, <3>4
      <4>2. \A u \in {x \in Workers : tokens[x] = m} : slices'[u].idx = slices[u].idx
        BY <1>4, <1>9
      <4>3. slices'[t].idx = Occupation(tokens, m)
        BY <1>9, <3>4 DEF idx
      <4>4. {slices'[u].idx : u \in {x \in Workers' : tokens'[x] = m}}
              = {slices[u].idx : u \in {x \in Workers : tokens[x] = m}} \cup {Occupation(tokens, m)}
        BY <4>1, <4>2, <4>3
      <4>5. (0 .. Occupation(tokens, m) - 1) \cup {Occupation(tokens, m)} = 0 .. Occupation(tokens', m) - 1
        BY <3>1, <3>3, <3>4
      <4>6. QED
        BY <3>2, <4>4, <4>5
    <3>5. CASE n # m
      <4>1. {x \in Workers' : tokens'[x] = m} = {x \in Workers : tokens[x] = m}
        BY <1>4, <1>8, <1>11, <3>5
      <4>2. \A u \in {x \in Workers : tokens[x] = m} : slices'[u].idx = slices[u].idx
        BY <1>4, <1>9
      <4>3. QED
        BY <3>1, <3>2, <3>3, <3>5, <4>1, <4>2
    <3>6. QED
      BY <3>4, <3>5
  <2>2. ASSUME NEW u \in Workers' PROVE slices'[u].total = Occupation(NodesOfThreads, tokens'[u])
    <3>1. CASE u = t
      BY <1>8, <1>9, <3>1 DEF total
    <3>2. CASE u # t
      <4>1. u \in 1 .. c
        BY <1>4, <1>11, <3>2
      <4>2. QED
        BY <1>4, <1>8, <1>9, <4>1 DEF RepInv, SlicesCounted
    <3>3. QED
      BY <3>1, <3>2
  <2>3. QED
    BY <1>1, <1>3, <2>1, <2>2 DEF SlicesCounted, Copies
<1>15. PhasesKept'
  <2>1. ASSUME NEW u \in Workers' PROVE wpc'[u] = "done"
    BY <1>1, <1>4, <1>10, <1>11 DEF RepInv, PhasesKept
  <2>2. QED
    BY <1>1, <1>3, <2>1 DEF RepInv, PhasesKept, Range
<1>16. LockKept'
  <2>1. holder = NoHolder
    BY <1>1, QuietHasNoHolder
  <2>2. ASSUME NEW u \in Workers' PROVE wpc'[u] = "done" /\ u # NoHolder
    BY <1>1, <1>4, <1>10, <1>11 DEF RepInv, PhasesKept, NoHolder
  <2>3. QED
    BY <1>1, <2>1, <2>2 DEF LockKept
<1>17. CopiesReady'
  BY <1>1 DEF CopiesReady
<1>18. QED
  BY <1>12, <1>13, <1>14, <1>15, <1>16, <1>17 DEF RepInv

-----------------------------------------------------------------------------
(* The steps of a worker.                                                  *)

\* A worker that goes on: what holds of the others holds still.
LEMMA WorkerMoves ==
  ASSUME RepInv, NEW t \in Workers, upc \in {"clear", "search"}, NEW w \in WorkerStates, wpc' = [wpc EXCEPT ![t] = w],
         UNCHANGED <<config, policy, requested, tokens, slices, histories, upc>>
  PROVE  ThreadsPlaced' /\ SlicesCounted' /\ PhasesKept'
<1>1. NodesOfThreads' = NodesOfThreads /\ Workers' = Workers
  BY NodesUnchanged DEF Workers
<1>2. wpc' \in Seq(WorkerStates) /\ Len(wpc') = Len(wpc)
  <2> DEFINE k == Len(wpc)
  <2>1. wpc \in Seq(WorkerStates)
    BY DEF RepInv, ThreadsPlaced
  <2>2. k \in Nat /\ wpc \in [1 .. k -> WorkerStates]
    BY <2>1
  <2> HIDE DEF k
  <2>3. wpc' \in [1 .. k -> WorkerStates]
    BY <2>2
  <2>4. QED
    BY <2>2, <2>3 DEF k
<1>3. ThreadsPlaced'
  BY <1>1, <1>2 DEF RepInv, ThreadsPlaced
<1>4. SlicesCounted'
  BY <1>1 DEF RepInv, SlicesCounted
<1>5. PhasesKept'
  BY <1>1 DEF RepInv, PhasesKept
<1>6. QED
  BY <1>3, <1>4, <1>5

LEMMA WorkerAt ==
  ASSUME RepInv, NEW t \in Workers, wpc[t] # "done"
  PROVE  /\ upc \in {"clear", "search"} /\ DOMAIN wpc = Workers /\ Workers = 1 .. Len(tokens) /\ Len(tokens) \in Nat
         /\ \A u \in Workers : u # NoHolder /\ tokens[u] \in DOMAIN instances
<1>1. CopiesKnown /\ ThreadsPlaced
  BY DEF RepInv
<1>2. Workers = 1 .. Len(tokens) /\ Len(tokens) \in Nat /\ \A u \in Workers : tokens[u] \in DOMAIN instances
  BY <1>1, TokensKnown
<1>3. upc \in {"clear", "search"}
  BY DEF RepInv, PhasesKept
<1>4. DOMAIN wpc = Workers
  BY <1>1, <1>2 DEF ThreadsPlaced
<1>5. QED
  BY <1>2, <1>3, <1>4 DEF NoHolder

LEMMA LookInv == ASSUME RepInv, NEW t \in Workers, Look(t) PROVE RepInv'
<1> DEFINE w == IF instances[tokens[t]] # Absent THEN "done" ELSE "lock"
<1>1. wpc[t] = "look" /\ wpc' = [wpc EXCEPT ![t] = w]
      /\ UNCHANGED <<config, policy, requested, instances, version, tokens, slices, histories, upc,
                     holder, builds, exported, numaOps>>
  BY DEF Look
<1>2. w \in WorkerStates /\ w \notin {"recheck", "build"}
  BY DEF WorkerStates
<1> HIDE DEF w
<1>3. upc \in {"clear", "search"} /\ DOMAIN wpc = Workers
  BY <1>1, WorkerAt
<1>4. ThreadsPlaced' /\ SlicesCounted' /\ PhasesKept'
  BY <1>1, <1>2, <1>3, WorkerMoves
<1>5. CopiesKnown'
  BY <1>1 DEF RepInv, CopiesKnown, Built
<1>6. LockKept'
  <2>1. Workers' = Workers
    BY <1>1 DEF Workers
  <2>2. \A u \in Workers : wpc'[u] = IF u = t THEN w ELSE wpc[u]
    BY <1>1, <1>3
  <2>3. QED
    BY <1>1, <1>2, <2>1, <2>2 DEF RepInv, LockKept
<1>7. CopiesReady'
  BY <1>1 DEF RepInv, CopiesReady, Workers
<1>8. QED
  BY <1>4, <1>5, <1>6, <1>7 DEF RepInv

LEMMA LockInv == ASSUME RepInv, NEW t \in Workers, Lock(t) PROVE RepInv'
<1>1. wpc[t] = "lock" /\ holder = NoHolder /\ holder' = t /\ wpc' = [wpc EXCEPT ![t] = "recheck"]
      /\ UNCHANGED <<config, policy, requested, instances, version, tokens, slices, histories, upc,
                     builds, exported, numaOps>>
  BY DEF Lock
<1>2. upc \in {"clear", "search"} /\ DOMAIN wpc = Workers /\ \A u \in Workers : u # NoHolder
  BY <1>1, WorkerAt
<1>3. ThreadsPlaced' /\ SlicesCounted' /\ PhasesKept'
  BY <1>1, <1>2, WorkerMoves DEF WorkerStates
<1>4. CopiesKnown'
  BY <1>1 DEF RepInv, CopiesKnown, Built
<1>5. LockKept'
  <2>1. Workers' = Workers
    BY <1>1 DEF Workers
  <2>2. \A u \in Workers : wpc'[u] = IF u = t THEN "recheck" ELSE wpc[u]
    BY <1>1, <1>2
  <2>3. QED
    BY <1>1, <1>2, <2>1, <2>2 DEF RepInv, LockKept
<1>6. CopiesReady'
  BY <1>1 DEF RepInv, CopiesReady, Workers
<1>7. QED
  BY <1>3, <1>4, <1>5, <1>6 DEF RepInv

LEMMA RecheckInv == ASSUME RepInv, NEW t \in Workers, Recheck(t) PROVE RepInv'
<1> DEFINE w == IF instances[tokens[t]] # Absent THEN "done" ELSE "build"
<1>1. wpc[t] = "recheck" /\ wpc' = [wpc EXCEPT ![t] = w] /\ holder' = (IF w = "done" THEN NoHolder ELSE holder)
      /\ UNCHANGED <<config, policy, requested, instances, version, tokens, slices, histories, upc,
                     builds, exported, numaOps>>
  BY DEF Recheck
<1>2. w \in {"done", "build"} /\ w \in WorkerStates /\ (w = "build" => instances[tokens[t]] = Absent)
  BY DEF WorkerStates
<1> HIDE DEF w
<1>3. upc \in {"clear", "search"} /\ DOMAIN wpc = Workers /\ \A u \in Workers : u # NoHolder
  BY <1>1, WorkerAt
<1>4. ThreadsPlaced' /\ SlicesCounted' /\ PhasesKept'
  BY <1>1, <1>2, <1>3, WorkerMoves
<1>5. CopiesKnown'
  BY <1>1 DEF RepInv, CopiesKnown, Built
<1>6. LockKept'
  <2>1. Workers' = Workers
    BY <1>1 DEF Workers
  <2>2. \A u \in Workers : wpc'[u] = IF u = t THEN w ELSE wpc[u]
    BY <1>1, <1>3
  <2>3. holder = t
    BY <1>1 DEF RepInv, LockKept
  <2>4. QED
    BY <1>1, <1>2, <1>3, <2>1, <2>2, <2>3 DEF RepInv, LockKept
<1>7. CopiesReady'
  BY <1>1 DEF RepInv, CopiesReady, Workers
<1>8. QED
  BY <1>4, <1>5, <1>6, <1>7 DEF RepInv

LEMMA BuildInv == ASSUME RepInv, NEW t \in Workers, Build(t) PROVE RepInv'
<1> DEFINE n == tokens[t]
<1>1. wpc[t] = "build" /\ holder' = NoHolder /\ wpc' = [wpc EXCEPT ![t] = "done"]
      /\ instances' = [instances EXCEPT ![n] = instances[1]]
      /\ builds' = [builds EXCEPT ![n] = @ + 1]
      /\ UNCHANGED <<config, policy, requested, version, tokens, slices, histories, upc, exported, numaOps>>
  BY DEF Build
<1>2. upc \in {"clear", "search"} /\ DOMAIN wpc = Workers /\ \A u \in Workers : u # NoHolder /\ tokens[u] \in DOMAIN instances
  BY <1>1, WorkerAt
<1>3. ThreadsPlaced' /\ SlicesCounted' /\ PhasesKept'
  BY <1>1, <1>2, WorkerMoves DEF WorkerStates
<1>4. CopiesKnown
  BY DEF RepInv
<1>5. instances[n] = Absent /\ holder = t
  BY <1>1 DEF RepInv, LockKept
<1> HIDE DEF n
<1>6. n \in DOMAIN instances
  BY <1>2 DEF n
<1>7. version # Absent /\ instances \in [1 .. Copies(config) -> {Absent, version}] /\ instances[1] = version /\ builds = Built(instances)
  BY <1>4 DEF CopiesKnown, Absent
<1>8. instances' \in [1 .. Copies(config) -> {Absent, version}] /\ instances'[1] = version
      /\ \A m \in 1 .. Copies(config) : instances[m] # Absent => instances'[m] # Absent
  BY <1>1, <1>6, <1>7
<1>9. CopiesKnown'
  <2>1. \A m \in 1 .. Copies(config) : builds'[m] = IF instances'[m] = Absent THEN 0 ELSE 1
    BY <1>1, <1>5, <1>6, <1>7 DEF Built
  <2>2. builds' = Built(instances)'
    BY <1>1, <1>7, <1>8, <2>1 DEF Built
  <2>3. exported \in BOOLEAN
    BY <1>4 DEF CopiesKnown
  <2>4. QED
    BY <1>1, <1>4, <1>8, <2>2, <2>3 DEF CopiesKnown
<1>10. LockKept'
  <2>1. Workers' = Workers
    BY <1>1 DEF Workers
  <2>2. \A u \in Workers : wpc'[u] = IF u = t THEN "done" ELSE wpc[u]
    BY <1>1, <1>2
  <2>3. \A u \in Workers : wpc'[u] \notin {"recheck", "build"}
    BY <1>5, <2>2 DEF RepInv, LockKept
  <2>4. QED
    BY <1>1, <1>2, <2>1, <2>3 DEF LockKept
<1>11. CopiesReady'
  BY <1>1, <1>2, <1>7, <1>8 DEF RepInv, CopiesReady, Workers
<1>12. QED
  BY <1>3, <1>9, <1>10, <1>11 DEF RepInv

-----------------------------------------------------------------------------
(* The ends.                                                               *)

LEMMA EndClearInv == ASSUME RepInv, EndClear PROVE RepInv'
<1> DEFINE missing == {n \in Range(tokens) : instances[n] = Absent}
<1>1. /\ upc = "clear" /\ (\A t \in Workers : wpc[t] = "done") /\ upc' = "idle" /\ exported' = FALSE
      /\ instances' = [n \in DOMAIN instances |-> IF n \in missing THEN instances[1] ELSE instances[n]]
      /\ builds' = [n \in DOMAIN builds |-> IF n \in missing THEN builds[n] + 1 ELSE builds[n]]
      /\ UNCHANGED <<config, policy, requested, version, tokens, slices, histories, wpc, holder, numaOps>>
  BY DEF EndClear
<1>2. CopiesKnown /\ ThreadsPlaced
  BY DEF RepInv
<1>3. version # Absent /\ instances \in [1 .. Copies(config) -> {Absent, version}] /\ instances[1] = version /\ builds = Built(instances)
  BY <1>2 DEF CopiesKnown, Absent
<1>4. \A n \in missing : instances[n] = Absent
  OBVIOUS
<1>5. \A t \in Workers : instances[tokens[t]] = Absent => tokens[t] \in missing
  BY DEF Range, Workers
<1> HIDE DEF missing
<1>6. NodesOfThreads' = NodesOfThreads /\ Workers' = Workers
  BY <1>1, NodesUnchanged DEF Workers
<1>7. instances' \in [1 .. Copies(config) -> {Absent, version}] /\ instances'[1] = version
  <2>1. 1 \in 1 .. Copies(config)
    BY <1>2, ConfigsDivisible DEF CopiesKnown
  <2>2. DOMAIN instances = 1 .. Copies(config)
    BY <1>3
  <2>3. \A m \in 1 .. Copies(config) : instances'[m] \in {Absent, version}
    BY <1>1, <1>3, <2>2
  <2>4. QED
    BY <1>1, <1>3, <2>1, <2>2, <2>3
<1>8. CopiesKnown'
  <2>1. \A m \in 1 .. Copies(config) : builds'[m] = IF instances'[m] = Absent THEN 0 ELSE 1
    BY <1>1, <1>3, <1>4 DEF Built
  <2>2. builds' = Built(instances)'
    BY <1>1, <1>3, <1>7, <2>1 DEF Built
  <2>3. exported' \in BOOLEAN
    BY <1>1
  <2>4. QED
    BY <1>1, <1>2, <1>7, <2>2, <2>3 DEF CopiesKnown
<1>9. ThreadsPlaced'
  BY <1>1, <1>2, <1>6 DEF ThreadsPlaced
<1>10. SlicesCounted'
  BY <1>1, <1>6 DEF RepInv, SlicesCounted
<1>11. PhasesKept'
  BY <1>1, <1>6 DEF RepInv, PhasesKept, Phases
<1>12. LockKept'
  BY <1>1, <1>6 DEF RepInv, LockKept
<1>13. CopiesReady'
  <2>1. ASSUME NEW t \in Workers PROVE instances'[tokens[t]] # Absent
    <3>1. tokens[t] \in 1 .. Copies(config) /\ tokens[t] \in DOMAIN instances
      BY <1>2, <1>3, TokensKnown
    <3>2. QED
      BY <1>1, <1>3, <1>5, <3>1
  <2>2. QED
    BY <1>1, <1>6, <2>1 DEF CopiesReady
<1>14. QED
  BY <1>8, <1>9, <1>10, <1>11, <1>12, <1>13 DEF RepInv

LEMMA EndSearchInv == ASSUME RepInv, EndSearch PROVE RepInv'
<1>1. /\ upc = "search" /\ (\A t \in Workers : wpc[t] = "done") /\ upc' = "idle"
      /\ UNCHANGED <<config, policy, requested, instances, version, tokens, slices, histories, wpc,
                     holder, builds, exported, numaOps>>
  BY DEF EndSearch
<1>2. NodesOfThreads' = NodesOfThreads /\ Workers' = Workers
  BY <1>1, NodesUnchanged DEF Workers
<1>3. CopiesKnown'
  BY <1>1 DEF RepInv, CopiesKnown, Built
<1>4. ThreadsPlaced' /\ SlicesCounted'
  BY <1>1, <1>2 DEF RepInv, ThreadsPlaced, SlicesCounted
<1>5. PhasesKept'
  BY <1>1, <1>2 DEF RepInv, PhasesKept, Phases
<1>6. LockKept' /\ CopiesReady'
  BY <1>1, <1>2 DEF RepInv, LockKept, CopiesReady
<1>7. QED
  BY <1>3, <1>4, <1>5, <1>6 DEF RepInv

-----------------------------------------------------------------------------
LEMMA RepNextInv == ASSUME RepInv, [RepNext]_repVars PROVE RepInv'
<1>1. CASE UNCHANGED repVars
  <2>1. NodesOfThreads' = NodesOfThreads /\ Workers' = Workers
    BY <1>1, NodesUnchanged DEF repVars, Workers
  <2>2. CopiesKnown'
    BY <1>1 DEF RepInv, CopiesKnown, Built, repVars
  <2>3. ThreadsPlaced' /\ SlicesCounted'
    BY <1>1, <2>1 DEF RepInv, ThreadsPlaced, SlicesCounted, repVars
  <2>4. PhasesKept'
    BY <1>1, <2>1 DEF RepInv, PhasesKept, repVars
  <2>5. LockKept' /\ CopiesReady'
    BY <1>1, <2>1 DEF RepInv, LockKept, CopiesReady, repVars
  <2>6. QED
    BY <2>2, <2>3, <2>4, <2>5 DEF RepInv
<1>2. ASSUME NEW t \in Workers, Look(t) \/ Lock(t) \/ Recheck(t) \/ Build(t) PROVE RepInv'
  BY <1>2, LookInv, LockInv, RecheckInv, BuildInv
<1>3. QED
  BY <1>1, <1>2, SetNumaPolicyInv, SetThreadsInv, MakeHistoriesInv, CreateThreadInv, ClearPoolInv, LoadNetworkInv,
     SaveNetworkInv, GoInv, EndClearInv, EndSearchInv DEF RepNext

-----------------------------------------------------------------------------
(* What the invariant gives.                                               *)

LEMMA InvCopiesRight == ASSUME RepInv PROVE CopiesRight
<1>1. CopiesKnown /\ ThreadsPlaced
  BY DEF RepInv
<1>2. Workers = 1 .. Len(tokens) /\ Len(tokens) \in Nat
      /\ (\A t \in Workers : tokens[t] \in 1 .. Copies(config) /\ t \in 1 .. requested)
      /\ 1 .. Copies(config) = DOMAIN instances
  BY <1>1, TokensKnown
<1>3. version \in Nat /\ version # Absent /\ Copies(config) \in Nat
  BY <1>1, ConfigsDivisible DEF CopiesKnown, Absent
<1>4. RepTypeOK
  <2>1. instances \in Seq(0 .. version)
    <3>1. \A n \in 1 .. Copies(config) : instances[n] \in 0 .. version
      BY <1>1, <1>3 DEF CopiesKnown, Absent
    <3>2. QED
      BY <1>1, <1>2, <1>3, <3>1 DEF CopiesKnown
  <2>2. builds \in Seq(Nat)
    <3>1. builds \in [1 .. Copies(config) -> Nat]
      BY <1>1, <1>2 DEF CopiesKnown, Built
    <3>2. QED
      BY <1>3, <3>1
  <2>3. DOMAIN slices = Workers /\ DOMAIN wpc = Workers /\ tokens \in Seq(Nat)
    BY <1>1, <1>2 DEF ThreadsPlaced
  <2>4. \A t \in Workers : wpc[t] \in {"look", "lock", "recheck", "build", "done"}
    BY <1>1, <1>2 DEF ThreadsPlaced, WorkerStates
  <2>5. QED
    BY <1>1, <2>1, <2>2, <2>3, <2>4 DEF RepInv, RepTypeOK, CopiesKnown, PhasesKept, Phases, LockKept
<1>5. TokensInRange
  <2> SUFFICES ASSUME NEW t \in Workers PROVE tokens[t] \in DOMAIN instances /\ tokens[t] \in DOMAIN histories
    BY DEF TokensInRange
  <2>1. tokens[t] \in DOMAIN instances
    BY <1>2
  <2>2. upc # "create"
    BY <1>2 DEF RepInv, PhasesKept
  <2>3. t \in DOMAIN NodesOfThreads /\ tokens[t] = NodesOfThreads[t]
    BY <1>1, <1>2, NodesHaveCopies DEF ThreadsPlaced
  <2>4. DOMAIN histories = Range(NodesOfThreads)
    BY <2>2 DEF RepInv, PhasesKept
  <2>5. QED
    BY <2>1, <2>3, <2>4 DEF Range
<1>6. CopiesAgree
  BY <1>1 DEF CopiesKnown, CopiesAgree
<1>7. CopiesMadeOnce
  BY <1>1 DEF CopiesKnown, Built, CopiesMadeOnce
<1>8. SlicesCoverHistory
  <2> SUFFICES ASSUME upc \in {"clear", "search", "idle"}, NEW n \in DOMAIN histories
               PROVE  LET ts == {t \in Workers : tokens[t] = n} IN
                      /\ {slices[t].idx : t \in ts} = 0 .. histories[n] - 1
                      /\ \A t \in ts : slices[t].total = histories[n]
    BY DEF SlicesCoverHistory
  <2>1. n \in Range(NodesOfThreads) /\ histories[n] = Occupation(NodesOfThreads, n) /\ Len(tokens) = requested
    BY DEF RepInv, PhasesKept
  <2>2. n \in 1 .. Copies(config)
    BY <1>1, <2>1, NodesHaveCopies DEF Range
  <2>3. tokens = NodesOfThreads
    <3>1. DOMAIN NodesOfThreads = 1 .. requested /\ NodesOfThreads = [t \in 1 .. requested |-> NodesOfThreads[t]]
      BY <1>1, NodesHaveCopies
    <3>2. tokens = [t \in 1 .. requested |-> tokens[t]]
      BY <1>1, <2>1 DEF ThreadsPlaced
    <3>3. QED
      BY <1>1, <2>1, <3>1, <3>2 DEF ThreadsPlaced
  <2>4. \A t \in {u \in Workers : tokens[u] = n} : slices[t].total = histories[n]
    BY <2>1 DEF RepInv, SlicesCounted
  <2>5. {slices[t].idx : t \in {u \in Workers : tokens[u] = n}} = 0 .. histories[n] - 1
    BY <2>1, <2>2, <2>3 DEF RepInv, SlicesCounted
  <2>6. QED
    BY <2>4, <2>5
<1>9. ReadyForSearch
  BY DEF RepInv, CopiesReady, ReadyForSearch
<1>10. QED
  BY <1>4, <1>5, <1>6, <1>7, <1>8, <1>9 DEF CopiesRight

\* After every sequence of commands, whichever worker makes a copy that is missing: every
\* thread has a copy of the network in force, made once, and its own slice of the history of its
\* node (thread.cpp, ThreadPool::set; numa.h, LazyNumaReplicatedSystemWide).
THEOREM CopiesAreRight == RepSpec => []CopiesRight
<1>1. RepInit => RepInv
  BY RepInitInv
<1>2. RepInv /\ [RepNext]_repVars => RepInv'
  BY RepNextInv
<1>3. RepInv => CopiesRight
  BY InvCopiesRight
<1>4. QED
  BY <1>1, <1>2, <1>3, PTL DEF RepSpec

-----------------------------------------------------------------------------
(* The shared region.  The lock of its file makes filling a region         *)
(* exclusive; content only moves forward under its creator; a process that *)
(* uses the region alone has its sentinel from before it unlocks until it  *)
(* holds the lock again, so that whoever decides under the lock to remove  *)
(* the name sees it.  Somebody is always left to remove the name.          *)

Locked == {"size", "write", "publish", "check", "mutex", "sentinel", "finish", "cmutex", "drop", "scan", "unlink"}
Marked == {"finish", "register", "open", "cflock", "cmutex", "drop"}
Filling == {"flock", "size", "write", "publish", "mutex", "sentinel"}

\* What the place of an object in open and close says of its fields.
FieldsOf(i) ==
  /\ shmpc[i] \in {"idle", "create", "existing", "local"} => fd[i] = NoRegion /\ mapped[i] = NoRegion
  /\ shmpc[i] = "gone" => fd[i] = NoRegion /\ mapped[i] \in Regions
  /\ shmpc[i] \in {"flock", "size", "write", "check"} => fd[i] \in Regions /\ mapped[i] = NoRegion
  /\ shmpc[i] \in {"publish", "mutex", "sentinel", "finish", "register", "open"} \cup Closing => fd[i] \in Regions /\ mapped[i] = fd[i]
  /\ shmpc[i] \in {"size", "write", "publish"} => created[i]
  /\ shmpc[i] \in {"existing", "check"} => ~created[i]
  /\ remove[i] # "no" => shmpc[i] = "unlink"
  /\ shmpc[i] # "idle" => process[ProcessOf[i]] # "dead"
FieldsInv == \A i \in Instances : FieldsOf(i)

LocksInv ==
  \A i \in Instances, r \in Regions : flocked[r] = i <=> fd[i] = r /\ shmpc[i] \in Locked

\* What the creator of a region has made of it.
Progress(pc) ==
  CASE pc \in {"flock", "size"} -> "new" [] pc = "write" -> "sized" [] pc = "publish" -> "written" [] OTHER -> "ready"
ContentInv ==
  /\ \A i \in Instances : mapped[i] \in Regions /\ shmpc[i] # "publish" => content[mapped[i]] = "ready"
  /\ \A i \in Instances : created[i] /\ fd[i] \in Regions => content[fd[i]] = Progress(shmpc[i])
  /\ \A i, j \in Instances : created[i] /\ created[j] /\ fd[i] \in Regions /\ fd[i] = fd[j] => i = j
\* Until its creator has finished a region, nobody else has mapped it.
FillingInv ==
  \A i, j \in Instances : created[i] /\ shmpc[i] \in Filling /\ i # j => mapped[j] # fd[i]

\* A process that uses the region alone has its sentinel; a sentinel has a
\* process that uses the region; who is about to unlink is not wrong about it.
Alone(j) == OfProcess(ProcessOf[j]) = {j}
MarksInv ==
  /\ \A j \in Instances : shmpc[j] \in Marked /\ Alone(j) => ProcessOf[j] \in sentinels
  /\ ~unclean => \A p \in sentinels : \E i \in Instances : ProcessOf[i] = p /\ shmpc[i] \in Marked
  /\ \A i, j \in Instances :
       shmpc[i] = "unlink" /\ remove[i] = "unused" /\ ProcessOf[j] # ProcessOf[i] /\ Alone(j)
         => ~ (shmpc[j] \in {"register", "open", "cflock", "cmutex", "drop"} /\ mapped[j] = fd[i])

\* An object that will remove the name, or leave it to another one that will.
Responsible(i) ==
  \/ shmpc[i] \in Marked \cup {"scan"}
  \/ shmpc[i] = "unlink" /\ remove[i] # "no"
  \/ shmpc[i] \in Opening \ {"create", "existing"} /\ created[i]
LeftInv == ~unclean /\ region # NoRegion => \E i \in Instances : Responsible(i)

ShmInv == ShmTypeOK /\ FieldsInv /\ LocksInv /\ ContentInv /\ FillingInv /\ MarksInv /\ LeftInv

-----------------------------------------------------------------------------
LEMMA InvMakesSafe == ShmInv => RegionsSafe
<1> SUFFICES ASSUME ShmInv PROVE RegionsSafe
  OBVIOUS
<1>1. ShmTypeOK
  BY DEF ShmInv
<1>2. ReadersSeeNetwork
  <2> SUFFICES ASSUME NEW i \in Instances, InUse(i) PROVE mapped[i] # NoRegion /\ content[mapped[i]] = "ready"
    BY DEF ReadersSeeNetwork
  <2>1. shmpc[i] \in {"open", "gone"} \cup Closing
    BY DEF InUse
  <2>2. mapped[i] \in Regions /\ shmpc[i] # "publish"
    BY <2>1 DEF ShmInv, FieldsInv, FieldsOf, Closing
  <2> QED BY <2>2, RegionAssumption DEF ShmInv, ContentInv
<1>3. OneFillsRegion
  <2>1. (Opening \ {"create", "existing", "flock", "register"}) \cup (Closing \ {"cflock"}) = Locked
    BY DEF Opening, Closing, Locked
  <2>2. ASSUME NEW i \in Instances, NEW j \in Instances, i # j, fd[i] # NoRegion, fd[i] = fd[j]
        PROVE  ~ (shmpc[i] \in Locked /\ shmpc[j] \in Locked)
    <3>1. fd[i] \in Regions
      BY <2>2, <1>1 DEF ShmTypeOK
    <3> QED BY <3>1, <2>2 DEF ShmInv, LocksInv
  <2>3. ASSUME NEW i \in Instances, mapped[i] # NoRegion, ~created[i] PROVE content[mapped[i]] = "ready"
    <3>1. mapped[i] \in Regions /\ shmpc[i] # "publish"
      BY <2>3, <1>1 DEF ShmTypeOK, ShmInv, FieldsInv, FieldsOf
    <3> QED BY <3>1 DEF ShmInv, ContentInv
  <2> QED BY <2>1, <2>2, <2>3 DEF OneFillsRegion
<1>4. LockedUnlinkIsSafe
  <2> SUFFICES ASSUME NEW i \in Instances, NEW j \in Instances, MayUnlink(i), ProcessOf[j] # ProcessOf[i], Alone(j),
                      shmpc[j] \in {"register", "open", "cflock", "cmutex", "drop"}, mapped[j] = fd[i]
               PROVE  FALSE
    BY DEF LockedUnlinkIsSafe, Alone
  <2>1. CASE shmpc[i] = "unlink" /\ remove[i] = "unused"
    BY <2>1 DEF ShmInv, MarksInv
  <2>2. CASE shmpc[i] \in {"size", "write", "publish", "mutex", "sentinel"} /\ created[i]
    <3>1. shmpc[i] \in Filling
      BY <2>2 DEF Filling
    <3> QED BY <2>2, <3>1 DEF ShmInv, FillingInv
  <2>3. CASE shmpc[i] = "check" /\ content[fd[i]] # "ready"
    <3>1. mapped[j] \in Regions
      BY DEF ShmInv, FieldsInv, FieldsOf, Closing
    <3> QED BY <2>3, <3>1 DEF ShmInv, ContentInv
  <2> QED BY <2>1, <2>2, <2>3 DEF MayUnlink, At
<1>5. NothingLeftBehind
  <2> SUFFICES ASSUME ~unclean, \A i \in Instances : shmpc[i] \in {"idle", "local"}
               PROVE  region = NoRegion /\ sentinels = {}
    BY DEF NothingLeftBehind
  <2>1. \A i \in Instances : ~Responsible(i) /\ shmpc[i] \notin Marked
    BY DEF Responsible, Marked, Opening
  <2> QED BY <2>1 DEF ShmInv, LeftInv, MarksInv
<1> QED BY <1>1, <1>2, <1>3, <1>4, <1>5 DEF RegionsSafe

LEMMA ShmInitially == ShmInit => ShmInv
<1> SUFFICES ASSUME ShmInit PROVE ShmInv
  OBVIOUS
<1> USE DEF ShmInit
<1>1. ShmTypeOK
  <2>1. 0 \in 0 .. MaxOpens /\ 0 \in 0 .. MaxCrashes /\ 0 \in 0 .. MaxFaults
    BY ShmBoundsAssumption
  <2>2. "new" \in {"new", "sized", "written", "ready"} /\ "alive" \in {"alive", "signalled", "dead"}
    OBVIOUS
  <2> QED BY <2>1, <2>2 DEF ShmTypeOK
<1>2. FieldsInv
  BY DEF FieldsInv, FieldsOf, Closing
<1>3. LocksInv
  BY RegionAssumption DEF LocksInv, Locked
<1>4. ContentInv /\ FillingInv
  BY RegionAssumption DEF ContentInv, FillingInv, Filling
<1>5. MarksInv /\ LeftInv
  BY DEF MarksInv, LeftInv, Marked
<1> QED BY <1>1, <1>2, <1>3, <1>4, <1>5 DEF ShmInv

LEMMA StartKeeps == ASSUME ShmInv, NEW i \in Instances, Start(i) PROVE ShmInv'
<1> USE ProcessOfAssumption, RegionAssumption DEF ShmInv
<1>1. ShmTypeOK'
  BY ShmBoundsAssumption DEF Start, Step, ShmTypeOK, Opening
<1>2. FieldsInv'
  BY DEF Start, At, Step, FieldsInv, FieldsOf, Closing
<1>3. LocksInv'
  BY DEF Start, At, Step, FieldsInv, FieldsOf, LocksInv
<1>4. ContentInv'
  BY DEF Start, At, Step, FieldsInv, FieldsOf, ContentInv
<1>5. MarksInv'
  BY DEF Start, At, Step, MarksInv, Marked
<1>6. LeftInv'
  BY DEF Start, At, Step, LeftInv, Responsible, Marked, Opening
<1>7. FillingInv'
  BY DEF Start, At, Step, ShmTypeOK, FieldsInv, FieldsOf, FillingInv, Filling
<1> QED BY <1>1, <1>2, <1>3, <1>4, <1>5, <1>6, <1>7

LEMMA CreateKeeps == ASSUME ShmInv, NEW i \in Instances, Create(i) PROVE ShmInv'
<1> USE RegionAssumption DEF ShmInv
<1>a. ShmTypeOK /\ shmpc[i] = "create" /\ fd[i] = NoRegion /\ mapped[i] = NoRegion /\ remove[i] = "no"
  BY DEF Create, At, FieldsInv, FieldsOf
<1>b. UNCHANGED <<flocked, sentinels, process, mapped, retried, skip_unmap, remove, opens, crashes, faults, unclean>>
  BY DEF Create
<1>1. ASSUME region = NoRegion, NEW r \in Regions, Unused(r), region' = r, fd' = [fd EXCEPT ![i] = r],
             content' = [content EXCEPT ![r] = "new"], mutexed' = [mutexed EXCEPT ![r] = "free"],
             created' = [created EXCEPT ![i] = TRUE], shmpc' = [shmpc EXCEPT ![i] = "flock"]
      PROVE  ShmInv'
  <2>1. ShmTypeOK'
    BY <1>1, <1>a, <1>b DEF ShmTypeOK, Opening
  <2>2. FieldsInv'
    BY <1>1, <1>a, <1>b, ProcessOfAssumption DEF FieldsInv, FieldsOf, Closing, ShmTypeOK
  <2>3. LocksInv'
    BY <1>1, <1>a, <1>b DEF LocksInv, Locked, ShmTypeOK, FieldsInv, FieldsOf, Unused
  <2>4. ContentInv'
    BY <1>1, <1>a, <1>b DEF ContentInv, Progress, ShmTypeOK, Unused
  <2>5. MarksInv'
    BY <1>1, <1>a, <1>b DEF MarksInv, Marked, ShmTypeOK, Unused
  <2>6. LeftInv'
    BY <1>1, <1>a, <1>b DEF LeftInv, Responsible, Opening, ShmTypeOK
  <2>7. FillingInv'
    BY <1>1, <1>a, <1>b DEF FillingInv, Filling, ShmTypeOK, Unused
  <2> QED BY <2>1, <2>2, <2>3, <2>4, <2>5, <2>6, <2>7
<1>2. CASE region # NoRegion /\ created' = [created EXCEPT ![i] = FALSE] /\ shmpc' = [shmpc EXCEPT ![i] = "existing"]
           /\ UNCHANGED <<region, fd, content, mutexed>>
  <2>1. ShmTypeOK'
    BY <1>2, <1>a, <1>b DEF ShmTypeOK, Opening
  <2>2. FieldsInv'
    BY <1>2, <1>a, <1>b, ProcessOfAssumption DEF FieldsInv, FieldsOf, Closing, ShmTypeOK
  <2>3. LocksInv'
    BY <1>2, <1>a, <1>b DEF LocksInv, Locked, ShmTypeOK
  <2>4. ContentInv'
    BY <1>2, <1>a, <1>b DEF ContentInv, Progress, ShmTypeOK
  <2>5. MarksInv'
    BY <1>2, <1>a, <1>b DEF MarksInv, Marked, ShmTypeOK
  <2>6. LeftInv'
    BY <1>2, <1>a, <1>b DEF LeftInv, Responsible, Marked, Opening, ShmTypeOK
  <2>7. FillingInv'
    BY <1>2, <1>a, <1>b DEF FillingInv, Filling, ShmTypeOK
  <2> QED BY <2>1, <2>2, <2>3, <2>4, <2>5, <2>6, <2>7
<1>3. CASE region = NoRegion /\ \E x \in Regions : Unused(x)
  <2> DEFINE r == CHOOSE x \in Regions : Unused(x)
  <2>1. r \in Regions /\ Unused(r)
    BY <1>3
  <2>2. /\ region' = r /\ fd' = [fd EXCEPT ![i] = r] /\ content' = [content EXCEPT ![r] = "new"]
        /\ mutexed' = [mutexed EXCEPT ![r] = "free"] /\ created' = [created EXCEPT ![i] = TRUE]
        /\ shmpc' = [shmpc EXCEPT ![i] = "flock"]
    BY <1>3 DEF Create, Step
  <2> HIDE DEF r
  <2> QED BY <2>1, <2>2, <1>3, <1>1
<1> QED BY <1>2, <1>3 DEF Create, Step

LEMMA OpenExistingKeeps == ASSUME ShmInv, NEW i \in Instances, OpenExisting(i) PROVE ShmInv'
<1> USE ProcessOfAssumption, RegionAssumption DEF ShmInv
<1>1. ShmTypeOK'
  BY ShmBoundsAssumption DEF OpenExisting, Step, ShmTypeOK, Opening
<1>2. FieldsInv'
  <2> SUFFICES ASSUME NEW k \in Instances PROVE FieldsOf(k)'
    BY DEF FieldsInv
  <2>1. FieldsOf(k) /\ FieldsOf(i)
    BY DEF FieldsInv
  <2>2. CASE k = i
    BY <2>1, <2>2 DEF OpenExisting, At, Step, ShmTypeOK, FieldsOf, Closing
  <2>3. CASE k # i
    BY <2>1, <2>3 DEF OpenExisting, At, Step, ShmTypeOK, FieldsOf, Closing
  <2> QED BY <2>2, <2>3
<1>3. LocksInv'
  BY DEF OpenExisting, At, Step, LocksInv, Locked
<1>4. ContentInv'
  BY DEF OpenExisting, At, Step, FieldsInv, FieldsOf, ContentInv
<1>5. MarksInv'
  BY DEF OpenExisting, At, Step, MarksInv, Marked
<1>6. LeftInv'
  BY DEF OpenExisting, At, Step, LeftInv, Responsible, Marked
<1>7. FillingInv'
  BY DEF OpenExisting, At, Step, ShmTypeOK, FieldsInv, FieldsOf, FillingInv, Filling
<1> QED BY <1>1, <1>2, <1>3, <1>4, <1>5, <1>6, <1>7

LEMMA LockFileKeeps == ASSUME ShmInv, NEW i \in Instances, LockFile(i) PROVE ShmInv'
<1> USE ProcessOfAssumption, RegionAssumption DEF ShmInv
<1>a. ShmTypeOK /\ fd[i] \in Regions /\ flocked[fd[i]] = NoRegion /\ flocked' = [flocked EXCEPT ![fd[i]] = i]
  BY DEF LockFile, FieldsInv, FieldsOf, Closing
<1>b. UNCHANGED <<region, content, mutexed, sentinels, process, fd, mapped, created, retried,
                  skip_unmap, remove, opens, crashes, faults, unclean>>
  BY DEF LockFile
<1>c. PICK pc : /\ shmpc' = [shmpc EXCEPT ![i] = pc]
                /\ \/ shmpc[i] = "cflock" /\ pc = "cmutex"
                   \/ shmpc[i] = "flock" /\ created[i] /\ pc = "size"
                   \/ shmpc[i] = "flock" /\ ~created[i] /\ pc = "check"
  <2>1. CASE shmpc[i] = "cflock"
    <3>1. shmpc' = [shmpc EXCEPT ![i] = "cmutex"]
      BY <2>1 DEF LockFile, Step, At
    <3> QED BY <2>1, <3>1
  <2>2. CASE shmpc[i] = "flock" /\ created[i]
    <3>1. shmpc' = [shmpc EXCEPT ![i] = "size"]
      BY <2>2 DEF LockFile, Step, At
    <3> QED BY <2>2, <3>1
  <2>3. CASE shmpc[i] = "flock" /\ ~created[i]
    <3>1. shmpc' = [shmpc EXCEPT ![i] = "check"]
      BY <2>3 DEF LockFile, Step, At
    <3> QED BY <2>3, <3>1
  <2> QED BY <2>1, <2>2, <2>3 DEF LockFile
<1>1. ShmTypeOK'
  BY <1>a, <1>b, <1>c DEF ShmTypeOK, Opening, Closing
<1>2. FieldsInv'
  BY <1>a, <1>b, <1>c DEF FieldsInv, FieldsOf, Closing, ShmTypeOK
<1>3. LocksInv'
  BY <1>a, <1>b, <1>c DEF LocksInv, Locked, ShmTypeOK
<1>4. ContentInv'
  BY <1>a, <1>b, <1>c DEF ContentInv, Progress, ShmTypeOK
<1>5. MarksInv'
  BY <1>a, <1>b, <1>c DEF MarksInv, Marked, ShmTypeOK
<1>6. LeftInv'
  BY <1>a, <1>b, <1>c DEF LeftInv, Responsible, Marked, Opening, ShmTypeOK
<1>7. FillingInv'
  BY <1>a, <1>b, <1>c DEF FillingInv, Filling, ShmTypeOK
<1> QED BY <1>1, <1>2, <1>3, <1>4, <1>5, <1>6, <1>7

LEMMA FaultKeeps == ASSUME ShmInv, NEW i \in Instances, Fault(i) PROVE ShmInv'
<1> USE ProcessOfAssumption, RegionAssumption DEF ShmInv
<1>1. ShmTypeOK'
  BY ShmBoundsAssumption DEF Fault, Step, GiveUp, ShmTypeOK, FieldsInv, FieldsOf, Opening
<1>2. FieldsInv'
  BY DEF Fault, Step, GiveUp, ShmTypeOK, FieldsInv, FieldsOf, Closing
<1>3. LocksInv'
  BY DEF Fault, Step, GiveUp, ShmTypeOK, LocksInv, Locked
<1>4. ContentInv'
  BY DEF Fault, Step, GiveUp, ShmTypeOK, ContentInv
<1>5. MarksInv'
  BY SMTT(30) DEF Fault, At, Step, GiveUp, ShmTypeOK, FieldsInv, FieldsOf, LocksInv, Locked, MarksInv, Marked, Alone, Closing, OfProcess, Alive
<1>6. LeftInv'
  BY DEF Fault, Step, GiveUp, LeftInv, Responsible, Marked
<1>7. FillingInv'
  BY DEF Fault, At, Step, GiveUp, ShmTypeOK, FieldsInv, FieldsOf, FillingInv, Filling
<1> QED BY <1>1, <1>2, <1>3, <1>4, <1>5, <1>6, <1>7

LEMMA NoFileLockKeeps == ASSUME ShmInv, NEW i \in Instances, NoFileLock(i) PROVE ShmInv'
<1> USE ProcessOfAssumption, RegionAssumption DEF ShmInv
<1>1. ShmTypeOK'
  BY ShmBoundsAssumption DEF NoFileLock, At, Step, ShmTypeOK, Opening
<1>2. FieldsInv'
  BY DEF NoFileLock, At, Step, ShmTypeOK, FieldsInv, FieldsOf, Closing
<1>3. LocksInv'
  BY DEF NoFileLock, At, Step, ShmTypeOK, FieldsInv, FieldsOf, Closing, LocksInv, Locked
<1>4. ContentInv'
  BY DEF NoFileLock, At, Step, ShmTypeOK, ContentInv, Progress
<1>5. MarksInv'
  BY DEF NoFileLock, At, Step, ShmTypeOK, MarksInv, Marked, Alone, OfProcess
<1>6. LeftInv'
  BY DEF NoFileLock, At, Step, ShmTypeOK, LeftInv, Responsible, Marked, Opening
<1>7. FillingInv'
  BY DEF NoFileLock, At, Step, ShmTypeOK, FieldsInv, FieldsOf, Closing, FillingInv, Filling
<1> QED BY <1>1, <1>2, <1>3, <1>4, <1>5, <1>6, <1>7

LEMMA SetupNewRegionKeeps == ASSUME ShmInv, NEW i \in Instances, SetupNewRegion(i) PROVE ShmInv'
<1> USE ProcessOfAssumption, RegionAssumption DEF ShmInv
<1>1. ShmTypeOK'
  BY ShmBoundsAssumption DEF SetupNewRegion, Step, ShmTypeOK, Opening
<1>2. FieldsInv'
  <2> SUFFICES ASSUME NEW k \in Instances PROVE FieldsOf(k)'
    BY DEF FieldsInv
  <2>1. FieldsOf(k) /\ FieldsOf(i)
    BY DEF FieldsInv
  <2>2. CASE k = i
    BY <2>1, <2>2 DEF SetupNewRegion, At, Step, ShmTypeOK, FieldsOf, Closing
  <2>3. CASE k # i
    BY <2>1, <2>3 DEF SetupNewRegion, At, Step, ShmTypeOK, FieldsOf, Closing
  <2> QED BY <2>2, <2>3
<1>3. LocksInv'
  BY DEF SetupNewRegion, At, Step, ShmTypeOK, LocksInv, Locked
<1>4. ContentInv'
  BY DEF SetupNewRegion, At, Step, ShmTypeOK, FieldsInv, FieldsOf, ContentInv, Progress
<1>5. MarksInv'
  BY DEF SetupNewRegion, At, Step, ShmTypeOK, MarksInv, Marked
<1>6. LeftInv'
  BY DEF SetupNewRegion, At, Step, ShmTypeOK, FieldsInv, FieldsOf, LeftInv, Responsible, Opening
<1>7. FillingInv'
  BY DEF SetupNewRegion, At, Step, ContentInv, ShmTypeOK, FieldsInv, FieldsOf, FillingInv, Filling
<1> QED BY <1>1, <1>2, <1>3, <1>4, <1>5, <1>6, <1>7

LEMMA SetupExistingRegionKeeps == ASSUME ShmInv, NEW i \in Instances, SetupExistingRegion(i) PROVE ShmInv'
<1> USE ProcessOfAssumption, RegionAssumption DEF ShmInv
<1>1. ShmTypeOK'
  <2>1. CASE content[fd[i]] = "ready"
    BY <2>1 DEF SetupExistingRegion, Step, ShmTypeOK, Opening
  <2>2. CASE content[fd[i]] # "ready"
    <3>1. GiveUp(i, TRUE, TRUE) /\ faults' = faults
      BY <2>2 DEF SetupExistingRegion
    <3>2. retried' \in [Instances -> BOOLEAN]
      BY <3>1 DEF GiveUp, ShmTypeOK
    <3>3. shmpc' \in [Instances -> Opening \cup Closing \cup {"idle", "open", "local", "gone"}]
      BY <3>1 DEF GiveUp, Step, ShmTypeOK, Opening
    <3>4. flocked' \in [Regions -> Instances \cup {NoRegion}] /\ mutexed' \in [Regions -> Instances \cup {"free", "dead"}]
      BY <3>1 DEF GiveUp, ShmTypeOK
    <3>5. region' \in Regions \cup {NoRegion} /\ fd' \in [Instances -> Regions \cup {NoRegion}]
          /\ mapped' \in [Instances -> Regions \cup {NoRegion}]
      BY <3>1 DEF GiveUp, ShmTypeOK
    <3>6. UNCHANGED <<content, sentinels, process, created, skip_unmap, remove, opens, crashes, unclean>>
      BY <3>1 DEF GiveUp
    <3> QED BY <3>1, <3>2, <3>3, <3>4, <3>5, <3>6 DEF ShmTypeOK
  <2> QED BY <2>1, <2>2
<1>2. FieldsInv'
  <2> SUFFICES ASSUME NEW k \in Instances PROVE FieldsOf(k)'
    BY DEF FieldsInv
  <2>1. FieldsOf(k) /\ FieldsOf(i)
    BY DEF FieldsInv
  <2>2. CASE k = i
    BY <2>1, <2>2 DEF SetupExistingRegion, At, Step, GiveUp, ShmTypeOK, FieldsOf, Closing
  <2>3. CASE k # i
    BY <2>1, <2>3 DEF SetupExistingRegion, At, Step, GiveUp, ShmTypeOK, FieldsOf, Closing
  <2> QED BY <2>2, <2>3
<1>3. LocksInv'
  BY DEF SetupExistingRegion, At, Step, GiveUp, ShmTypeOK, LocksInv, Locked
<1>4. ContentInv'
  BY DEF SetupExistingRegion, At, Step, GiveUp, ShmTypeOK, FieldsInv, FieldsOf, ContentInv
<1>5. MarksInv'
  BY SMTT(30) DEF SetupExistingRegion, At, Step, GiveUp, ShmTypeOK, FieldsInv, FieldsOf, LocksInv, Locked, MarksInv, Marked, Alone, Closing, OfProcess, Alive
<1>6. LeftInv'
  BY DEF SetupExistingRegion, At, Step, GiveUp, ShmTypeOK, FieldsInv, FieldsOf, LeftInv, Responsible, Marked
<1>7. FillingInv'
  BY DEF SetupExistingRegion, At, Step, GiveUp, LocksInv, Locked, ContentInv, Progress, ShmTypeOK, FieldsInv, FieldsOf, FillingInv, Filling
<1> QED BY <1>1, <1>2, <1>3, <1>4, <1>5, <1>6, <1>7

LEMMA LockSharedMutexKeeps == ASSUME ShmInv, NEW i \in Instances, LockSharedMutex(i) PROVE ShmInv'
<1> USE ProcessOfAssumption, RegionAssumption DEF ShmInv
<1>1. ShmTypeOK'
  BY ShmBoundsAssumption DEF LockSharedMutex, Step, ShmTypeOK, FieldsInv, FieldsOf, Opening, Closing
<1>2. FieldsInv'
  BY DEF LockSharedMutex, Step, FieldsInv, FieldsOf, Closing
<1>3. LocksInv'
  BY DEF LockSharedMutex, Step, LocksInv, Locked
<1>4. ContentInv'
  BY DEF LockSharedMutex, Step, ContentInv, Progress
<1>5. MarksInv'
  BY DEF LockSharedMutex, At, Step, MarksInv, Marked
<1>6. LeftInv'
  BY DEF LockSharedMutex, At, Step, LeftInv, Responsible, Marked, Opening
<1>7. FillingInv'
  BY DEF LockSharedMutex, At, Step, ShmTypeOK, FieldsInv, FieldsOf, FillingInv, Filling
<1> QED BY <1>1, <1>2, <1>3, <1>4, <1>5, <1>6, <1>7

LEMMA CreateSentinelFileKeeps == ASSUME ShmInv, NEW i \in Instances, CreateSentinelFile(i) PROVE ShmInv'
<1> USE ProcessOfAssumption, RegionAssumption DEF ShmInv
<1>1. ShmTypeOK'
  BY ShmBoundsAssumption DEF CreateSentinelFile, Step, ShmTypeOK, Opening
<1>2. FieldsInv'
  BY DEF CreateSentinelFile, At, Step, ShmTypeOK, FieldsInv, FieldsOf
<1>3. LocksInv'
  BY DEF CreateSentinelFile, At, Step, ShmTypeOK, LocksInv, Locked
<1>4. ContentInv'
  BY DEF CreateSentinelFile, At, Step, ShmTypeOK, ContentInv, Progress
<1>5. MarksInv'
  BY DEF CreateSentinelFile, At, Step, ShmTypeOK, MarksInv, Marked, Alone, OfProcess
<1>6. LeftInv'
  BY DEF CreateSentinelFile, Step, ShmTypeOK, LeftInv, Responsible, Marked
<1>7. FillingInv'
  BY DEF CreateSentinelFile, At, Step, ShmTypeOK, FieldsInv, FieldsOf, FillingInv, Filling
<1> QED BY <1>1, <1>2, <1>3, <1>4, <1>5, <1>6, <1>7

LEMMA FinishKeeps == ASSUME ShmInv, NEW i \in Instances, Finish(i) PROVE ShmInv'
<1> USE ProcessOfAssumption, RegionAssumption DEF ShmInv
<1>1. ShmTypeOK'
  BY ShmBoundsAssumption DEF Finish, At, Step, ShmTypeOK, FieldsInv, FieldsOf, Opening
<1>2. FieldsInv'
  BY DEF Finish, At, Step, FieldsInv, FieldsOf
<1>3. LocksInv'
  BY DEF Finish, At, Step, ShmTypeOK, LocksInv, Locked
<1>4. ContentInv'
  BY DEF Finish, At, Step, ContentInv, Progress
<1>5. MarksInv'
  BY DEF Finish, At, Step, FieldsInv, FieldsOf, LocksInv, Locked, MarksInv, Marked
<1>6. LeftInv'
  BY DEF Finish, Step, LeftInv, Responsible, Marked
<1>7. FillingInv'
  BY DEF Finish, At, Step, ShmTypeOK, FieldsInv, FieldsOf, FillingInv, Filling
<1> QED BY <1>1, <1>2, <1>3, <1>4, <1>5, <1>6, <1>7

LEMMA RegisterKeeps == ASSUME ShmInv, NEW i \in Instances, Register(i) PROVE ShmInv'
<1> USE ProcessOfAssumption, RegionAssumption DEF ShmInv
<1>1. ShmTypeOK'
  BY ShmBoundsAssumption DEF Register, At, Step, ShmTypeOK
<1>2. FieldsInv'
  BY DEF Register, At, Step, ShmTypeOK, FieldsInv, FieldsOf, Closing
<1>3. LocksInv'
  BY DEF Register, At, Step, ShmTypeOK, FieldsInv, FieldsOf, Closing, LocksInv, Locked
<1>4. ContentInv'
  BY DEF Register, At, Step, ShmTypeOK, ContentInv, Progress
<1>5. MarksInv'
  BY DEF Register, At, Step, ShmTypeOK, MarksInv, Marked, Alone, OfProcess
<1>6. LeftInv'
  BY DEF Register, At, Step, ShmTypeOK, LeftInv, Responsible, Marked, Opening
<1>7. FillingInv'
  BY DEF Register, At, Step, ShmTypeOK, FieldsInv, FieldsOf, Closing, FillingInv, Filling
<1> QED BY <1>1, <1>2, <1>3, <1>4, <1>5, <1>6, <1>7

LEMMA CloseKeeps == ASSUME ShmInv, NEW i \in Instances, Close(i) PROVE ShmInv'
<1> USE ProcessOfAssumption, RegionAssumption DEF ShmInv
<1>1. ShmTypeOK'
  BY ShmBoundsAssumption DEF Close, Step, ShmTypeOK, Closing
<1>2. FieldsInv'
  BY DEF Close, At, Step, ShmTypeOK, FieldsInv, FieldsOf, Closing
<1>3. LocksInv'
  BY DEF Close, At, Step, ShmTypeOK, LocksInv, Locked
<1>4. ContentInv'
  BY DEF Close, At, Step, ShmTypeOK, ContentInv, Progress
<1>5. MarksInv'
  BY DEF Close, At, Step, ShmTypeOK, MarksInv, Marked
<1>6. LeftInv'
  BY DEF Close, At, Step, ShmTypeOK, LeftInv, Responsible, Marked, Opening
<1>7. FillingInv'
  BY DEF Close, At, Step, ShmTypeOK, FieldsInv, FieldsOf, FillingInv, Filling
<1> QED BY <1>1, <1>2, <1>3, <1>4, <1>5, <1>6, <1>7

LEMMA RemoveSentinelFileKeeps == ASSUME ShmInv, NEW i \in Instances, RemoveSentinelFile(i) PROVE ShmInv'
<1> USE ProcessOfAssumption, RegionAssumption DEF ShmInv
<1>1. ShmTypeOK'
  BY ShmBoundsAssumption DEF RemoveSentinelFile, Step, ShmTypeOK, Closing
<1>2. FieldsInv'
  BY DEF RemoveSentinelFile, At, Step, FieldsInv, FieldsOf, Closing
<1>3. LocksInv'
  BY DEF RemoveSentinelFile, At, Step, LocksInv, Locked
<1>4. ContentInv'
  BY DEF RemoveSentinelFile, At, Step, ContentInv, Progress
<1>5. MarksInv'
  BY DEF RemoveSentinelFile, Step, ShmTypeOK, MarksInv, Marked, Alone, OfProcess
<1>6. LeftInv'
  BY DEF RemoveSentinelFile, Step, LeftInv, Responsible
<1>7. FillingInv'
  BY DEF RemoveSentinelFile, At, Step, ShmTypeOK, FieldsInv, FieldsOf, FillingInv, Filling
<1> QED BY <1>1, <1>2, <1>3, <1>4, <1>5, <1>6, <1>7

LEMMA ScanSentinelsKeeps == ASSUME ShmInv, NEW i \in Instances, ScanSentinels(i) PROVE ShmInv'
<1> USE ProcessOfAssumption, RegionAssumption DEF ShmInv
<1>1. ShmTypeOK'
  BY ShmBoundsAssumption DEF ScanSentinels, At, Step, ShmTypeOK, FieldsInv, FieldsOf, Closing
<1>2. FieldsInv'
  BY DEF ScanSentinels, At, Step, ShmTypeOK, FieldsInv, FieldsOf, Closing
<1>3. LocksInv'
  BY DEF ScanSentinels, At, Step, LocksInv, Locked
<1>4. ContentInv'
  BY DEF ScanSentinels, At, Step, ContentInv, Progress
<1>5. MarksInv'
  BY DEF ScanSentinels, At, Step, ShmTypeOK, FieldsInv, FieldsOf, MarksInv, Marked, Alive
<1>6. LeftInv'
  <2>1. CASE remove'[i] # "no"
    BY <2>1 DEF ScanSentinels, Step, LeftInv, Responsible, ShmTypeOK
  <2>2. CASE remove'[i] = "no" /\ ~unclean /\ region # NoRegion
    <3>1. PICK p \in sentinels : Alive(p)
      BY <2>2 DEF ScanSentinels, ShmTypeOK
    <3>2. PICK k \in Instances : ProcessOf[k] = p /\ shmpc[k] \in Marked
      BY <2>2, <3>1 DEF MarksInv
    <3>3. shmpc'[k] = shmpc[k]
      BY <3>2 DEF ScanSentinels, At, Step, Marked, ShmTypeOK
    <3> QED BY <3>2, <3>3 DEF LeftInv, Responsible
  <2> QED BY <2>1, <2>2 DEF ScanSentinels, LeftInv
<1>7. FillingInv'
  BY DEF ScanSentinels, At, Step, ShmTypeOK, FieldsInv, FieldsOf, FillingInv, Filling
<1> QED BY <1>1, <1>2, <1>3, <1>4, <1>5, <1>6, <1>7

LEMMA UnlinkKeeps == ASSUME ShmInv, NEW i \in Instances, Unlink(i) PROVE ShmInv'
<1> USE ProcessOfAssumption, RegionAssumption DEF ShmInv
<1>1. ShmTypeOK'
  BY ShmBoundsAssumption DEF Unlink, Leave, At, Step, ShmTypeOK, FieldsInv, FieldsOf, Opening
<1>2. FieldsInv'
  <2> SUFFICES ASSUME NEW k \in Instances PROVE FieldsOf(k)'
    BY DEF FieldsInv
  <2>1. FieldsOf(k) /\ FieldsOf(i)
    BY DEF FieldsInv
  <2>2. CASE k = i
    BY <2>1, <2>2 DEF Unlink, Leave, At, Step, Unmaps, ShmTypeOK, FieldsOf, Closing
  <2>3. CASE k # i
    BY <2>1, <2>3 DEF Unlink, Leave, At, Step, Unmaps, ShmTypeOK, FieldsOf, Closing
  <2> QED BY <2>2, <2>3
<1>3. LocksInv'
  BY DEF Unlink, Leave, At, Step, ShmTypeOK, LocksInv, Locked
<1>4. ContentInv'
  BY DEF Unlink, Leave, At, Step, ShmTypeOK, ContentInv
<1>5. MarksInv'
  <2> DEFINE pc == IF skip_unmap[i] THEN "gone" ELSE "idle"
  <2>1. shmpc[i] = "unlink" /\ shmpc' = [shmpc EXCEPT ![i] = pc] /\ pc \notin Marked \cup {"unlink"}
    BY DEF Unlink, Leave, At, Step, Marked
  <2>2. \A k \in Instances : k # i => fd'[k] = fd[k] /\ mapped'[k] = mapped[k] /\ remove'[k] = remove[k] /\ shmpc'[k] = shmpc[k]
    BY <2>1 DEF Unlink, Leave, ShmTypeOK
  <2>3. shmpc'[i] = pc /\ UNCHANGED <<sentinels, unclean>>
    BY <2>1 DEF Unlink, Leave, ShmTypeOK
  <2> HIDE DEF pc
  <2> QED BY <2>1, <2>2, <2>3 DEF MarksInv, Marked
<1>6. LeftInv'
  BY DEF Unlink, Leave, At, Step, LeftInv, Responsible, Marked, Opening
<1>7. FillingInv'
  BY DEF Unlink, At, Step, Leave, Unmaps, Closing, ShmTypeOK, FieldsInv, FieldsOf, FillingInv, Filling
<1> QED BY <1>1, <1>2, <1>3, <1>4, <1>5, <1>6, <1>7

LEMMA NoCloseLockKeeps == ASSUME ShmInv, NEW i \in Instances, NoCloseLock(i) PROVE ShmInv'
<1> USE ProcessOfAssumption, RegionAssumption DEF ShmInv
<1>1. ShmTypeOK'
  BY ShmBoundsAssumption DEF NoCloseLock, At, Step, ShmTypeOK, Leave, FieldsInv, FieldsOf, Closing
<1>2. FieldsInv'
  BY DEF NoCloseLock, At, Step, ShmTypeOK, FieldsInv, FieldsOf, Closing, Leave, Unmaps
<1>3. LocksInv'
  BY DEF NoCloseLock, At, Step, ShmTypeOK, FieldsInv, FieldsOf, Closing, LocksInv, Locked, Leave, Unmaps
<1>4. ContentInv'
  BY DEF NoCloseLock, At, Step, ShmTypeOK, ContentInv, Progress, Leave, Unmaps
<1>5. MarksInv'
  BY DEF NoCloseLock, At, Step, ShmTypeOK, MarksInv, Marked, Alone, OfProcess, Leave, Unmaps
<1>6. LeftInv'
  BY DEF NoCloseLock, At, Step, ShmTypeOK, LeftInv, Responsible, Marked, Opening, Leave, Unmaps
<1>7. FillingInv'
  BY DEF NoCloseLock, At, Step, ShmTypeOK, FieldsInv, FieldsOf, Closing, FillingInv, Filling, Leave, Unmaps
<1> QED BY <1>1, <1>2, <1>3, <1>4, <1>5, <1>6, <1>7

LEMMA SignalKeeps == ASSUME ShmInv, NEW p \in Processes, Signal(p) PROVE ShmInv'
<1> USE ProcessOfAssumption, RegionAssumption DEF ShmInv
<1>1. ShmTypeOK'
  BY ShmBoundsAssumption DEF Signal, ShmTypeOK
<1>2. FieldsInv'
  BY DEF Signal, FieldsInv, FieldsOf
<1>3. LocksInv'
  BY DEF Signal, LocksInv
<1>4. ContentInv'
  BY DEF Signal, ContentInv
<1>5. MarksInv'
  BY DEF Signal, MarksInv
<1>6. LeftInv'
  BY DEF Signal, LeftInv, Responsible
<1>7. FillingInv'
  BY DEF Signal, At, Step, ShmTypeOK, FieldsInv, FieldsOf, FillingInv, Filling
<1> QED BY <1>1, <1>2, <1>3, <1>4, <1>5, <1>6, <1>7

LEMMA DieOfSignalKeeps == ASSUME ShmInv, NEW p \in Processes, DieOfSignal(p) PROVE ShmInv'
<1> USE ProcessOfAssumption, RegionAssumption DEF ShmInv
<1>1. ShmTypeOK'
  BY ShmBoundsAssumption DEF DieOfSignal, Die, ShmTypeOK
<1>2. FieldsInv'
  <2>1. \A k \in OfProcess(p) : /\ k \in Instances => /\ shmpc'[k] = "idle" /\ fd'[k] = NoRegion /\ mapped'[k] = NoRegion
                                                    /\ remove'[k] = "no"
    BY DEF DieOfSignal, Die
  <2>2. \A k \in Instances \ OfProcess(p) : /\ shmpc'[k] = shmpc[k] /\ fd'[k] = fd[k] /\ mapped'[k] = mapped[k]
                                          /\ remove'[k] = remove[k]
                                          /\ process'[ProcessOf[k]] = process[ProcessOf[k]]
    BY DEF DieOfSignal, Die, OfProcess, ShmTypeOK
  <2>3. UNCHANGED created
    BY DEF DieOfSignal, Die
  <2> SUFFICES ASSUME NEW k \in Instances PROVE FieldsOf(k)'
    BY DEF FieldsInv
  <2>4. CASE k \in OfProcess(p)
    BY <2>1, <2>3, <2>4 DEF FieldsOf, Closing
  <2>5. CASE k \notin OfProcess(p)
    BY <2>2, <2>3, <2>5 DEF FieldsInv, FieldsOf
  <2> QED BY <2>4, <2>5
<1>3. LocksInv'
  BY DEF DieOfSignal, Die, LocksInv
<1>4. ContentInv'
  BY DEF DieOfSignal, Die, ContentInv
<1>5. MarksInv'
  <2>1. \A k \in Instances : \/ shmpc'[k] = "idle" /\ k \in OfProcess(p)
                             \/ /\ shmpc'[k] = shmpc[k] /\ fd'[k] = fd[k] /\ mapped'[k] = mapped[k] /\ remove'[k] = remove[k]
                                /\ k \notin OfProcess(p)
    BY DEF DieOfSignal, Die
  <2>2. sentinels' = sentinels /\ (~unclean' => ~unclean /\ ProcessQuiet(p) /\ \A k \in OfProcess(p) : shmpc[k] # "open")
    BY DEF DieOfSignal, Die, At
  <2>3. ~unclean' => \A k \in OfProcess(p) : shmpc[k] \notin Marked
    BY <2>2 DEF ProcessQuiet, Marked, Opening, Closing
  <2>4. \A j \in Instances : shmpc'[j] \in Marked /\ Alone(j) => ProcessOf[j] \in sentinels'
    BY <2>1, <2>2 DEF MarksInv, Marked
  <2>5. ~unclean' => \A q \in sentinels' : \E k \in Instances : ProcessOf[k] = q /\ shmpc'[k] \in Marked
    BY <2>1, <2>2, <2>3 DEF MarksInv
  <2>6. \A k, j \in Instances :
          shmpc'[k] = "unlink" /\ remove'[k] = "unused" /\ ProcessOf[j] # ProcessOf[k] /\ Alone(j)
            => ~ (shmpc'[j] \in {"register", "open", "cflock", "cmutex", "drop"} /\ mapped'[j] = fd'[k])
    BY <2>1 DEF MarksInv
  <2> QED BY <2>4, <2>5, <2>6 DEF MarksInv
<1>6. LeftInv'
  BY DEF DieOfSignal, Die, ShmTypeOK, LeftInv, Responsible, Marked, Opening, Closing, ProcessQuiet, At, Handled
<1>7. FillingInv'
  BY DEF DieOfSignal, At, Step, Die, OfProcess, ShmTypeOK, FieldsInv, FieldsOf, FillingInv, Filling
<1> QED BY <1>1, <1>2, <1>3, <1>4, <1>5, <1>6, <1>7

LEMMA CrashKeeps == ASSUME ShmInv, NEW p \in Processes, Crash(p) PROVE ShmInv'
<1> USE ProcessOfAssumption, RegionAssumption DEF ShmInv
<1>1. ShmTypeOK'
  BY ShmBoundsAssumption DEF Crash, Die, ShmTypeOK
<1>2. FieldsInv'
  <2>1. \A k \in OfProcess(p) : /\ k \in Instances => /\ shmpc'[k] = "idle" /\ fd'[k] = NoRegion /\ mapped'[k] = NoRegion
                                                    /\ remove'[k] = "no"
    BY DEF Crash, Die
  <2>2. \A k \in Instances \ OfProcess(p) : /\ shmpc'[k] = shmpc[k] /\ fd'[k] = fd[k] /\ mapped'[k] = mapped[k]
                                          /\ remove'[k] = remove[k]
                                          /\ process'[ProcessOf[k]] = process[ProcessOf[k]]
    BY DEF Crash, Die, OfProcess, ShmTypeOK
  <2>3. UNCHANGED created
    BY DEF Crash, Die
  <2> SUFFICES ASSUME NEW k \in Instances PROVE FieldsOf(k)'
    BY DEF FieldsInv
  <2>4. CASE k \in OfProcess(p)
    BY <2>1, <2>3, <2>4 DEF FieldsOf, Closing
  <2>5. CASE k \notin OfProcess(p)
    BY <2>2, <2>3, <2>5 DEF FieldsInv, FieldsOf
  <2> QED BY <2>4, <2>5
<1>3. LocksInv'
  BY DEF Crash, Die, LocksInv
<1>4. ContentInv'
  BY DEF Crash, Die, ContentInv
<1>5. MarksInv'
  BY SMTT(30) DEF Crash, At, Step, Die, ShmTypeOK, FieldsInv, FieldsOf, LocksInv, Locked, MarksInv, Marked, Alone, Closing, OfProcess, Alive
<1>6. LeftInv'
  BY DEF Crash, LeftInv
<1>7. FillingInv'
  BY DEF Crash, At, Step, Die, OfProcess, ShmTypeOK, FieldsInv, FieldsOf, FillingInv, Filling
<1> QED BY <1>1, <1>2, <1>3, <1>4, <1>5, <1>6, <1>7

LEMMA RestartKeeps == ASSUME ShmInv, NEW p \in Processes, Restart(p) PROVE ShmInv'
<1> USE ProcessOfAssumption, RegionAssumption DEF ShmInv
<1>1. ShmTypeOK'
  BY ShmBoundsAssumption DEF Restart, ShmTypeOK
<1>2. FieldsInv'
  BY DEF Restart, FieldsInv, FieldsOf
<1>3. LocksInv'
  BY DEF Restart, LocksInv
<1>4. ContentInv'
  BY DEF Restart, ContentInv
<1>5. MarksInv'
  BY DEF Restart, MarksInv
<1>6. LeftInv'
  BY DEF Restart, LeftInv, Responsible
<1>7. FillingInv'
  BY DEF Restart, At, Step, ShmTypeOK, FieldsInv, FieldsOf, FillingInv, Filling
<1> QED BY <1>1, <1>2, <1>3, <1>4, <1>5, <1>6, <1>7
LEMMA ShmStepKeeps == ShmInv /\ [ShmNext]_shmVars => ShmInv'
<1> SUFFICES ASSUME ShmInv, [ShmNext]_shmVars PROVE ShmInv'
  OBVIOUS
<1>1. CASE UNCHANGED shmVars
  <2>1. ShmTypeOK' /\ FieldsInv' /\ LocksInv'
    BY <1>1 DEF shmVars, ShmInv, ShmTypeOK, FieldsInv, FieldsOf, LocksInv
  <2>2. ContentInv' /\ FillingInv' /\ MarksInv' /\ LeftInv'
    BY <1>1 DEF shmVars, ShmInv, ContentInv, FillingInv, MarksInv, LeftInv, Responsible
  <2> QED BY <2>1, <2>2 DEF ShmInv
<1>2. ASSUME NEW i \in Instances, Start(i) \/ LockFile(i) \/ Fault(i) \/ NoFileLock(i) \/ NoCloseLock(i) \/ Close(i) PROVE ShmInv'
  BY <1>2, StartKeeps, LockFileKeeps, FaultKeeps, NoFileLockKeeps, NoCloseLockKeeps, CloseKeeps
<1>3. ASSUME NEW i \in Instances, Proceed(i) PROVE ShmInv'
  BY <1>3, CreateKeeps, OpenExistingKeeps, SetupNewRegionKeeps, SetupExistingRegionKeeps, LockSharedMutexKeeps,
     CreateSentinelFileKeeps, FinishKeeps, RegisterKeeps, RemoveSentinelFileKeeps, ScanSentinelsKeeps, UnlinkKeeps DEF Proceed
<1>4. ASSUME NEW p \in Processes, Signal(p) \/ DieOfSignal(p) \/ Crash(p) \/ Restart(p) PROVE ShmInv'
  BY <1>4, SignalKeeps, DieOfSignalKeeps, CrashKeeps, RestartKeeps
<1> QED BY <1>1, <1>2, <1>3, <1>4 DEF ShmNext

\* For any number of objects and processes, wherever they are signalled, killed or refused a
\* call of the system: readers of the shared region (SharedMemory::open and close_impl) find the
\* network in it, one process fills it, no other process uses a region when the call that has
\* locked it takes its name, and the name goes with its last user unless one died in a call.
THEOREM RegionsAreSafe == ShmSpec => []RegionsSafe
<1>1. ShmSpec => []ShmInv
  BY ShmInitially, ShmStepKeeps, PTL DEF ShmSpec
<1> QED BY <1>1, InvMakesSafe, PTL
=============================================================================
