----------------------------- MODULE PickProofs -----------------------------
(***************************************************************************)
(* The picker gives each move once and in order, for any lists of moves    *)
(* with any values, any hash move and depth, whenever quiet moves are      *)
(* skipped.                                                                *)
(*                                                                         *)
(* A stage says how far the array has been gone through and which moves    *)
(* are held where; from this follows what is still to come (Todo). A call  *)
(* gives one move of it that precedes all the others (Gives), and falls    *)
(* through to the next stage only when it leaves nothing behind. The       *)
(* partial insertion sort and the setting aside of bad captures are loops, *)
(* of which every step keeps that the array holds the same moves.          *)
(***************************************************************************)
EXTENDS MovePick, NumberLemmas, FiniteSetTheorems, TLAPS

\* Of finite sets of the same size an injection is a surjection.
LEMMA InjectionsCover ==
  ASSUME NEW a \in Int, NEW b \in Int, NEW f \in [a .. b -> a .. b],
         \A i, j \in a .. b : f[i] = f[j] => i = j
  PROVE  \A m \in a .. b : \E i \in a .. b : f[i] = m
<1>1. IsFiniteSet(a .. b)
  BY FS_Interval
<1>2. f \in Injection(a .. b, a .. b)
  BY DEF Injection, IsInjective
<1>3. f \in Surjection(a .. b, a .. b)
  BY <1>1, <1>2, FS_Injection
<1>4. QED
  BY <1>3 DEF Surjection

-----------------------------------------------------------------------------
(* partial_insertion_sort *)

Distinct(L, s) == \A i, j \in 1 .. L : s[i] = s[j] => i = j

\* After p steps: the front is sorted, and what was left behind it is below the limit.
SortedHalf(S, L, value, limit, p, x) ==
  /\ x \in [moves : [1 .. L -> S], sortedEnd : Int] /\ Distinct(L, x.moves)
  /\ 1 <= x.sortedEnd /\ x.sortedEnd <= p /\ p <= L
  /\ \A i, j \in 1 .. x.sortedEnd : i < j => value[x.moves[i]] >= value[x.moves[j]]
  /\ \A i \in x.sortedEnd + 1 .. p : value[x.moves[i]] < limit

\* The place of the move that is put in.
LEMMA PlaceExists ==
  ASSUME NEW S, NEW value, \A m \in S : value[m] \in Int, NEW end \in Int, end >= 1, NEW L \in Int, end <= L,
         NEW s \in [1 .. L -> S], NEW tmp \in S
  PROVE  \E q \in 1 .. end : /\ \A k \in q .. end - 1 : value[s[k]] < value[tmp]
                             /\ q = 1 \/ value[s[q - 1]] >= value[tmp]
<1> DEFINE fits(i) == \A k \in i .. end - 1 : value[s[k]] < value[tmp]
           Q == {i \in 1 .. end : fits(i)}
<1>1. end \in Q /\ Q \subseteq Nat
  OBVIOUS
<1>2. PICK q \in Q : \A i \in Q : q <= i
  <2> HIDE DEF Q
  <2> QED BY <1>1, LeastNumber
<1>3. q \in 1 .. end /\ fits(q)
  OBVIOUS
<1>4. ASSUME q # 1 PROVE value[s[q - 1]] >= value[tmp]
  <2>1. q - 1 \in 1 .. end /\ ~(q <= q - 1) /\ q - 1 \in 1 .. L
    BY <1>3, <1>4
  <2>2. ~fits(q - 1)
    BY <1>2, <2>1
  <2>3. PICK k \in q - 1 .. end - 1 : ~(value[s[k]] < value[tmp])
    BY <2>2
  <2>4. k = q - 1
    <3>1. k \in q .. end - 1 \/ k = q - 1
      BY <1>3
    <3>2. QED
      BY <1>3, <2>3, <3>1
  <2>5. value[s[q - 1]] \in Int /\ value[tmp] \in Int
    BY <2>1
  <2>6. QED
    BY <2>3, <2>4, <2>5
<1>5. QED
  BY <1>3, <1>4

LEMMA InsertKeeps ==
  ASSUME NEW S, NEW L \in Nat, NEW value, \A m \in S : value[m] \in Int, NEW limit \in Int,
         NEW p \in 2 .. L, NEW x, SortedHalf(S, L, value, limit, p - 1, x)
  PROVE  SortedHalf(S, L, value, limit, p, Insert(x, p, value, limit))
<1> DEFINE a == x.moves  e == x.sortedEnd  tmp == a[p]  end == e + 1
           s == [a EXCEPT ![p] = a[end]]
           q == CHOOSE i \in 1 .. end : /\ \A k \in i .. end - 1 : value[s[k]] < value[tmp]
                                        /\ i = 1 \/ value[s[i - 1]] >= value[tmp]
           t == [i \in DOMAIN s |-> IF i = q THEN tmp ELSE IF i \in q + 1 .. end THEN s[i - 1] ELSE s[i]]
<1>1. /\ x \in [moves : [1 .. L -> S], sortedEnd : Int] /\ a \in [1 .. L -> S] /\ e \in Int /\ 1 <= e /\ e <= p - 1
      /\ Distinct(L, a)
      /\ \A i, j \in 1 .. e : i < j => value[a[i]] >= value[a[j]]
      /\ \A i \in e + 1 .. p - 1 : value[a[i]] < limit
  BY DEF SortedHalf
<1>2. \A i \in 1 .. L : a[i] \in S /\ value[a[i]] \in Int
  BY <1>1
<1>3. CASE value[tmp] < limit
  <2>1. Insert(x, p, value, limit) = x
    BY <1>3 DEF Insert
  <2>2. \A i \in e + 1 .. p : i = p \/ i \in e + 1 .. p - 1
    BY <1>1
  <2>3. \A i \in e + 1 .. p : value[a[i]] < limit
    BY <1>1, <1>3, <2>2
  <2>4. e <= p /\ p <= L
    BY <1>1
  <2>5. QED
    BY <1>1, <2>1, <2>3, <2>4 DEF SortedHalf
<1>4. CASE ~(value[tmp] < limit)
  <2>1. Insert(x, p, value, limit) = [moves |-> t, sortedEnd |-> end]
    BY <1>4 DEF Insert
  <2>2. end \in Int /\ 1 <= end /\ end <= p /\ p <= L /\ end <= L /\ tmp \in S /\ p \in 1 .. L /\ end \in 1 .. L
    BY <1>1, <1>2
  <2>3. s \in [1 .. L -> S] /\ DOMAIN s = 1 .. L
    BY <1>1, <1>2, <2>2
  <2>4. \A i \in 1 .. L : s[i] = IF i = p THEN a[end] ELSE a[i]
    BY <1>1
  <2>5. q \in 1 .. end /\ (\A k \in q .. end - 1 : value[s[k]] < value[tmp]) /\ (q = 1 \/ value[s[q - 1]] >= value[tmp])
    <3>1. \E i \in 1 .. end : /\ \A k \in i .. end - 1 : value[s[k]] < value[tmp]
                              /\ i = 1 \/ value[s[i - 1]] >= value[tmp]
      <4> HIDE DEF a, s, tmp, end
      <4>1. end >= 1 /\ end \in Int /\ L \in Int /\ end <= L
        BY <2>2
      <4>2. s \in [1 .. L -> S] /\ tmp \in S
        BY <2>2, <2>3
      <4>3. QED
        BY <4>1, <4>2, PlaceExists
    <3> HIDE DEF a, s, tmp, end
    <3>2. QED
      BY <3>1
  <2>6. \A i \in 1 .. L : t[i] = IF i = q THEN tmp ELSE IF i \in q + 1 .. end THEN s[i - 1] ELSE s[i]
    BY <2>3
  <2>7. t \in [1 .. L -> S]
    <3>1. \A i \in 1 .. L : i \in q + 1 .. end => i - 1 \in 1 .. L
      <4> HIDE DEF t, s, q, tmp, end
      <4>1. q \in Int /\ 1 <= q
        BY <2>5, <2>2
      <4>2. QED
        BY <2>2, <4>1
    <3>2. DOMAIN t = 1 .. L /\ t = [i \in 1 .. L |-> t[i]]
      BY <2>3
    <3> HIDE DEF t, s, q, tmp
    <3>3. \A i \in 1 .. L : t[i] \in S
      BY <2>2, <2>3, <2>6, <3>1
    <3>4. QED
      BY <3>2, <3>3
  <2> DEFINE g(i) == IF i = q THEN p ELSE IF i \in q + 1 .. end THEN i - 1 ELSE IF i = p THEN end ELSE i
  <2> HIDE DEF t, s, q, end
  <2>8. ASSUME NEW i \in 1 .. L PROVE g(i) \in 1 .. L /\ t[i] = a[g(i)]
    <3>1. CASE i = q
      BY <2>2, <2>6, <3>1
    <3>2. CASE i # q /\ i \in q + 1 .. end
      <4>1. i - 1 \in 1 .. L /\ i - 1 # p
        BY <2>2, <2>5, <3>2
      <4>2. QED
        BY <2>4, <2>6, <3>2, <4>1
    <3>3. CASE i # q /\ i \notin q + 1 .. end
      BY <2>2, <2>4, <2>6, <3>3
    <3>4. QED
      BY <3>1, <3>2, <3>3
  <2>9. \A i, j \in 1 .. L : g(i) = g(j) => i = j
    BY <2>2, <2>5
  <2>10. Distinct(L, t)
    <3> HIDE DEF g, a
    <3> QED BY <1>1, <2>8, <2>9 DEF Distinct
  <2>11. ASSUME NEW i \in 1 .. end, NEW j \in 1 .. end, i < j PROVE value[t[i]] >= value[t[j]]
    <3>1. i \in 1 .. L /\ j \in 1 .. L /\ e \in Int /\ end = e + 1
      BY <1>1, <2>2 DEF end
    <3>2. \A k \in 1 .. e : s[k] = a[k]
      BY <1>1, <2>2, <2>4
    <3>3. value[tmp] \in Int /\ \A k \in 1 .. L : value[a[k]] \in Int
      BY <1>2, <2>2
    <3>4. \A k \in q .. e : value[a[k]] < value[tmp]
      BY <2>5, <3>1, <3>2
    <3>5. \A k \in 1 .. q - 1 : value[a[k]] >= value[tmp]
      <4>1. SUFFICES ASSUME NEW k \in 1 .. q - 1 PROVE value[a[k]] >= value[tmp]
        OBVIOUS
      <4>2. q - 1 \in 1 .. e /\ k \in 1 .. e /\ q - 1 \in 1 .. L /\ k \in 1 .. L
        BY <2>2, <2>5, <3>1
      <4>3. value[a[q - 1]] >= value[tmp]
        BY <2>5, <3>2, <4>2
      <4>4. value[a[k]] >= value[a[q - 1]]
        BY <1>1, <1>2, <4>2
      <4>5. QED
        BY <3>3, <4>2, <4>3, <4>4
    <3>6. t[i] = (IF i = q THEN tmp ELSE IF i > q THEN a[i - 1] ELSE a[i])
      <4>1. i > q => i \in q + 1 .. end /\ i - 1 \in 1 .. e
        BY <2>5, <3>1
      <4>2. i < q => i \in 1 .. e /\ i \notin q + 1 .. end
        BY <2>5, <3>1
      <4>3. QED
        BY <2>5, <2>6, <3>1, <3>2, <4>1, <4>2
    <3>7. t[j] = (IF j = q THEN tmp ELSE IF j > q THEN a[j - 1] ELSE a[j])
      <4>1. j > q => j \in q + 1 .. end /\ j - 1 \in 1 .. e
        BY <2>5, <3>1
      <4>2. j < q => j \in 1 .. e /\ j \notin q + 1 .. end
        BY <2>5, <3>1
      <4>3. QED
        BY <2>5, <2>6, <3>1, <3>2, <4>1, <4>2
    <3> HIDE DEF a, e, tmp
    <3>8. CASE j < q
      <4>1. i \in 1 .. e /\ j \in 1 .. e /\ t[i] = a[i] /\ t[j] = a[j]
        BY <2>5, <2>11, <3>1, <3>6, <3>7, <3>8
      <4>2. QED
        BY <1>1, <2>11, <4>1
    <3>9. CASE j = q
      <4>1. i \in 1 .. q - 1 /\ t[i] = a[i] /\ t[j] = tmp
        BY <2>5, <2>11, <3>6, <3>7, <3>9
      <4>2. QED
        BY <3>5, <4>1
    <3>10. CASE j > q
      <4>1. t[j] = a[j - 1] /\ j - 1 \in q .. e /\ j - 1 \in 1 .. L
        BY <1>1, <2>2, <2>5, <3>1, <3>7, <3>10
      <4>2. value[a[j - 1]] < value[tmp] /\ value[a[j - 1]] \in Int
        BY <3>3, <3>4, <4>1
      <4>3. CASE i = q
        BY <3>3, <3>6, <4>1, <4>2, <4>3
      <4>4. CASE i < q
        <5>1. t[i] = a[i] /\ value[a[i]] >= value[tmp] /\ value[a[i]] \in Int
          BY <2>5, <3>1, <3>3, <3>5, <3>6, <4>4
        <5>2. QED
          BY <3>3, <4>1, <4>2, <5>1
      <4>5. CASE i > q
        <5>1. t[i] = a[i - 1] /\ i - 1 \in 1 .. e /\ j - 1 \in 1 .. e /\ i - 1 < j - 1
          BY <2>5, <2>11, <3>1, <3>6, <4>1, <4>5
        <5>2. QED
          BY <1>1, <4>1, <5>1
      <4>6. QED
        BY <2>5, <4>3, <4>4, <4>5
    <3>11. QED
      BY <2>5, <3>8, <3>9, <3>10
  <2>12. ASSUME NEW i \in end + 1 .. p PROVE value[t[i]] < limit
    <3>1. i \in 1 .. L /\ i # q /\ i \notin q + 1 .. end /\ end = e + 1
      BY <1>1, <2>2, <2>5 DEF end
    <3>2. t[i] = s[i]
      BY <2>6, <3>1
    <3>3. CASE i = p
      <4>1. t[i] = a[end] /\ end \in e + 1 .. p - 1
        BY <1>1, <2>4, <3>1, <3>2, <3>3
      <4>2. QED
        BY <1>1, <4>1
    <3>4. CASE i # p
      <4>1. t[i] = a[i] /\ i \in e + 1 .. p - 1
        BY <1>1, <2>2, <2>4, <3>1, <3>2, <3>4
      <4>2. QED
        BY <1>1, <4>1
    <3>5. QED
      BY <3>3, <3>4
  <2> DEFINE y == [moves |-> t, sortedEnd |-> end]
  <2>13. y \in [moves : [1 .. L -> S], sortedEnd : Int] /\ y.moves = t /\ y.sortedEnd = end
    BY <2>2, <2>7
  <2> HIDE DEF y
  <2>14. SortedHalf(S, L, value, limit, p, y)
    BY <2>2, <2>10, <2>11, <2>12, <2>13 DEF SortedHalf
  <2>15. QED
    BY <2>1, <2>14 DEF y
<1>5. QED
  BY <1>3, <1>4

Held(s, from, to) == {s[i] : i \in from .. to}
\* The values fall, up to what is below the limit.
Falls(value, limit, s, from, to) == \A i, j \in from .. to : i < j /\ value[s[j]] >= limit => value[s[i]] >= value[s[j]]

\* What an injective array holds is all there is.
LEMMA ArrayHoldsAll ==
  ASSUME NEW L \in Nat, NEW M, NEW s, s \in [1 .. L -> Held(M, 1, L)], Distinct(L, s)
  PROVE  Held(s, 1, L) = Held(M, 1, L)
<1> DEFINE f == [i \in 1 .. L |-> CHOOSE j \in 1 .. L : M[j] = s[i]]
<1>1. ASSUME NEW i \in 1 .. L PROVE f[i] \in 1 .. L /\ M[f[i]] = s[i]
  <2>1. s[i] \in Held(M, 1, L)
    OBVIOUS
  <2>2. \E j \in 1 .. L : M[j] = s[i]
    BY <2>1 DEF Held
  <2>3. QED
    BY <2>2
<1>2. f \in [1 .. L -> 1 .. L]
  <2>1. f = [i \in 1 .. L |-> f[i]]
    OBVIOUS
  <2> HIDE DEF f
  <2>2. QED
    BY <1>1, <2>1
<1> HIDE DEF f
<1>3. \A i, j \in 1 .. L : f[i] = f[j] => i = j
  BY <1>1 DEF Distinct
<1>4. \A m \in 1 .. L : \E i \in 1 .. L : f[i] = m
  <2>1. 1 \in Int /\ L \in Int
    OBVIOUS
  <2>2. QED
    BY <1>2, <1>3, <2>1, InjectionsCover
<1>5. ASSUME NEW m \in 1 .. L PROVE M[m] \in Held(s, 1, L)
  <2>1. PICK i \in 1 .. L : f[i] = m
    BY <1>4
  <2>2. M[m] = s[i]
    BY <1>1, <2>1
  <2>3. QED
    BY <2>2 DEF Held
<1>6. Held(M, 1, L) \subseteq Held(s, 1, L)
  BY <1>5 DEF Held
<1>7. Held(s, 1, L) \subseteq Held(M, 1, L)
  BY DEF Held
<1>8. QED
  BY <1>6, <1>7

\* What partial_insertion_sort promises.
Sorted(moves, value, limit, s) ==
  /\ s \in Seq(ToSet(moves)) /\ Len(s) = Len(moves) /\ Distinct(Len(s), s)
  /\ Held(s, 1, Len(s)) = ToSet(moves)
  /\ Falls(value, limit, s, 1, Len(s))

SortOutcome(S, L, moves, value, limit, x) ==
  SortedHalf(S, L, value, limit, L, x) /\ partial_insertion_sort(moves, value, limit) = x.moves
LEMMA SortSteps ==
  ASSUME NEW S, NEW L \in Nat, L >= 1, NEW moves, moves \in [1 .. L -> S], Len(moves) = L, Distinct(L, moves),
         NEW value, \A m \in S : value[m] \in Int, NEW limit \in Int
  PROVE  \E x : SortOutcome(S, L, moves, value, limit, x)
<1> DEFINE s0 == [moves |-> moves, sortedEnd |-> 1]
           X == [moves : [1 .. L -> S], sortedEnd : Int]
           half(p, x) == SortedHalf(S, L, value, limit, p, x)
           I == {e \in (1 .. L) \X X : half(e[1], e[2])}
           F == [e \in (2 .. L) \X X |-> Insert(e[2], e[1], value, limit)]
<1>1. \A p, x : half(p, x) => x \in X
  BY DEF SortedHalf
<1>2. \A p \in 1 .. L : \A x : <<p, x>> \in I <=> half(p, x)
  <2> HIDE DEF half, X
  <2> QED BY <1>1
<1>3. half(1, s0)
  <2>1. s0 \in X /\ s0.moves = moves /\ s0.sortedEnd = 1
    OBVIOUS
  <2> HIDE DEF s0
  <2>2. QED
    BY <2>1 DEF SortedHalf
<1>4. <<1, s0>> \in I
  <2>1. 1 \in 1 .. L
    OBVIOUS
  <2> HIDE DEF I, s0, half
  <2>2. QED
    BY <1>2, <1>3, <2>1
<1>5. ASSUME NEW p \in 2 .. L, NEW x, <<p - 1, x>> \in I
      PROVE  half(p - 1, x) /\ F[<<p, x>>] = Insert(x, p, value, limit) /\ half(p, Insert(x, p, value, limit))
  <2>1. p - 1 \in 1 .. L
    OBVIOUS
  <2>2. half(p - 1, x) /\ x \in X
    <3> HIDE DEF I, half, X
    <3> QED BY <1>1, <1>2, <1>5, <2>1
  <2>3. F[<<p, x>>] = Insert(x, p, value, limit)
    <3>1. <<p, x>> \in (2 .. L) \X X
      <4> HIDE DEF X
      <4> QED BY <2>2
    <3> HIDE DEF X
    <3>2. QED
      BY <3>1
  <2>4. half(p, Insert(x, p, value, limit))
    BY <2>2, InsertKeeps
  <2>5. QED
    BY <2>2, <2>3, <2>4
<1>6. ASSUME NEW p \in 1 + 1 .. L, NEW x, <<p - 1, x>> \in I PROVE <<p, F[<<p, x>>]>> \in I
  <2>1. p \in 2 .. L /\ p \in 1 .. L
    OBVIOUS
  <2> HIDE DEF I, F, half
  <2>2. QED
    BY <1>2, <1>5, <1>6, <2>1
<1>7. PICK g : Stepwise(1, L, s0, F, g) /\ \A p \in 1 .. L : <<p, g[p]>> \in I
  <2> HIDE DEF I, F, half, s0, X
  <2>1. 1 \in Int /\ L \in Int /\ 1 <= L
    OBVIOUS
  <2>2. \A p \in 1 + 1 .. L : \A y : <<p - 1, y>> \in I => <<p, F[<<p, y>>]>> \in I
    BY <1>6
  <2>3. QED
    BY <1>4, <2>1, <2>2, StepsExist
<1>8. ASSUME NEW p \in 1 .. L, p # 1 PROVE F[<<p, g[p - 1]>>] = Insert(g[p - 1], p, value, limit)
  <2>1. p \in 2 .. L /\ p - 1 \in 1 .. L
    BY <1>8
  <2> HIDE DEF I, F, half
  <2>2. QED
    BY <1>5, <1>7, <2>1
<1>9. g = [p \in 1 .. L |-> IF p = 1 THEN s0 ELSE Insert(g[p - 1], p, value, limit)]
  <2> HIDE DEF I, F, half, s0
  <2> QED BY <1>7, <1>8 DEF Stepwise
<1> DEFINE x == CHOOSE h : h = [p \in 1 .. Len(moves) |-> IF p = 1 THEN [moves |-> moves, sortedEnd |-> 1]
                                                       ELSE Insert(h[p - 1], p, value, limit)]
<1>11. moves # <<>>
  OBVIOUS
<1>12. partial_insertion_sort(moves, value, limit) = x[Len(moves)].moves
  BY <1>11, Zenon DEF partial_insertion_sort
<1>13. x = [p \in 1 .. L |-> IF p = 1 THEN s0 ELSE Insert(x[p - 1], p, value, limit)]
  <2>1. \E h : h = [p \in 1 .. Len(moves) |-> IF p = 1 THEN [moves |-> moves, sortedEnd |-> 1]
                                                       ELSE Insert(h[p - 1], p, value, limit)]
    BY <1>9
  <2>2. x = [p \in 1 .. Len(moves) |-> IF p = 1 THEN [moves |-> moves, sortedEnd |-> 1]
                                                       ELSE Insert(x[p - 1], p, value, limit)]
    BY <2>1, Zenon
  <2> HIDE DEF x
  <2>3. QED
    BY <2>2
<1> HIDE DEF x
<1>14. \A p \in 1 .. L : half(p, x[p])
  <2> DEFINE T == {p \in 1 .. L : half(p, x[p])}
  <2>1. 1 \in T
    <3>1. 1 \in 1 .. L
      OBVIOUS
    <3> HIDE DEF half, s0
    <3>2. QED
      BY <1>3, <1>13, <3>1
  <2>2. ASSUME NEW p \in 2 .. L, p - 1 \in T PROVE p \in T
    <3>1. p \in 1 .. L /\ p # 1
      OBVIOUS
    <3>2. x[p] = Insert(x[p - 1], p, value, limit)
      <4> HIDE DEF half, s0
      <4> QED BY <1>13, <3>1
    <3>3. half(p - 1, x[p - 1])
      BY <2>2
    <3>4. half(p, x[p])
      BY <3>2, <3>3, InsertKeeps
    <3>5. QED
      BY <3>1, <3>4
  <2>3. \A p \in 1 .. L : p \in T
    <3>1. 1 \in Int /\ L \in Int /\ 1 + 1 = 2
      OBVIOUS
    <3> HIDE DEF T
    <3>2. QED
      BY <2>1, <2>2, <3>1, Ascends
  <2>4. QED
    BY <2>3
<1>15. QED
  <2>1. L \in 1 .. L
    OBVIOUS
  <2>2. SortedHalf(S, L, value, limit, L, x[L])
    BY <1>14, <2>1
  <2>3. QED
    BY <1>12, <2>2 DEF SortOutcome

\* Moves of a setup: each once, and with a value.
Generated(moves, value) ==
  /\ moves \in Seq(ToSet(moves)) /\ IsInjective(moves) /\ NoneLeft \notin ToSet(moves)
  /\ \A m \in ToSet(moves) : value[m] \in Int /\ value[m] >= NoLimit

LEMMA SortSorts ==
  ASSUME NEW moves, NEW value, Generated(moves, value), NEW limit \in Int
  PROVE  Sorted(moves, value, limit, partial_insertion_sort(moves, value, limit))
<1> DEFINE S == ToSet(moves)  L == Len(moves)  s == partial_insertion_sort(moves, value, limit)
<1>1. moves \in Seq(S) /\ L \in Nat /\ moves \in [1 .. L -> S] /\ DOMAIN moves = 1 .. L
  BY DEF Generated
<1>2. S = Held(moves, 1, L) /\ Distinct(L, moves)
  BY <1>1 DEF Generated, ToSet, Held, Distinct, IsInjective
<1>3. CASE L = 0
  <2>1. moves = <<>>
    BY <1>1, <1>3
  <2>2. s = moves
    BY <2>1 DEF partial_insertion_sort
  <2>3. s \in Seq(S) /\ Len(s) = L
    BY <1>1, <2>2
  <2> HIDE DEF S, L, s
  <2>4. \A i : i \notin 1 .. 0
    OBVIOUS
  <2>5. Held(s, 1, Len(s)) = S
    BY <1>2, <2>2 DEF L
  <2>6. Falls(value, limit, s, 1, 0) /\ Distinct(0, s)
    BY <2>4 DEF Falls, Distinct
  <2>7. QED
    BY <1>3, <2>3, <2>5, <2>6 DEF Sorted, S, L, s
<1>4. CASE L # 0
  <2>1. L >= 1 /\ \A m \in S : value[m] \in Int
    BY <1>1, <1>4 DEF Generated
  <2>2. PICK x : SortOutcome(S, L, moves, value, limit, x)
    <3> HIDE DEF S
    <3>1. moves \in [1 .. L -> S] /\ L \in Nat /\ Len(moves) = L
      BY <1>1
    <3> HIDE DEF L
    <3>2. QED
      BY <1>2, <2>1, <3>1, SortSteps
  <2>3. s = x.moves
    BY <2>2 DEF SortOutcome
  <2> HIDE DEF s, S, L
  <2>4. /\ s \in [1 .. L -> S] /\ Distinct(L, s) /\ x.sortedEnd \in Int /\ x.sortedEnd <= L
        /\ \A i, j \in 1 .. x.sortedEnd : i < j => value[s[i]] >= value[s[j]]
        /\ \A i \in x.sortedEnd + 1 .. L : value[s[i]] < limit
    BY <2>2, <2>3 DEF SortedHalf, SortOutcome
  <2>5. s \in Seq(S) /\ Len(s) = L
    BY <1>1, <2>4
  <2>6. Held(s, 1, L) = S
    <3>1. s \in [1 .. L -> Held(moves, 1, L)]
      BY <1>2, <2>4
    <3>2. QED
      BY <1>1, <1>2, <2>4, <3>1, ArrayHoldsAll
  <2>7. Falls(value, limit, s, 1, L)
    <3>1. SUFFICES ASSUME NEW i \in 1 .. L, NEW j \in 1 .. L, i < j, value[s[j]] >= limit
                   PROVE  value[s[i]] >= value[s[j]]
      BY DEF Falls
    <3>2. value[s[j]] \in Int
      BY <2>1, <2>4
    <3>3. j \notin x.sortedEnd + 1 .. L
      BY <2>4, <3>1, <3>2
    <3>4. i \in 1 .. x.sortedEnd /\ j \in 1 .. x.sortedEnd
      BY <2>4, <3>1, <3>3
    <3>5. QED
      BY <2>4, <3>1, <3>4
  <2>8. QED
    BY <2>4, <2>5, <2>6, <2>7 DEF Sorted, S, L, s
<1>5. QED
  BY <1>3, <1>4

-----------------------------------------------------------------------------
(* select *)

MovesOf(n) == ToSet(n.captures) \cup ToSet(n.quiets) \cup ToSet(n.evasions)
Stages == {"TT", "CAPTURE_INIT", "EVASION_INIT", "GOOD_CAPTURE", "QUIET_INIT", "GOOD_QUIET", "BAD_CAPTURE", "BAD_QUIET",
           "main", "evasion", "qsearch", "probcut"}
PickerType(n) ==
  [stage : Stages, moves : Seq(MovesOf(n)), cur : Int, endCur : Int, endBadCaptures : Int, endCaptures : Int,
   endGenerated : Int, skipQuiets : BOOLEAN]
\* The array holds no move twice, and what is looked at lies in it.
ArrayRight(n, k) ==
  /\ k \in PickerType(n) /\ Distinct(Len(k.moves), k.moves)
  /\ 1 <= k.cur /\ k.cur <= k.endCur /\ k.endCur <= Len(k.moves) + 1
Ahead(n, k, pass) == Held(k.moves, k.cur, k.endCur - 1) \cap (pass \ {n.ttMove})
GoesTo(k, c) == [k EXCEPT !.cur = c]

LEMMA GoesToIs ==
  ASSUME NEW n, NEW k, k \in PickerType(n), NEW c \in Int
  PROVE  /\ GoesTo(k, c) \in PickerType(n) /\ GoesTo(k, c).cur = c
         /\ GoesTo(k, c).stage = k.stage /\ GoesTo(k, c).moves = k.moves /\ GoesTo(k, c).endCur = k.endCur
         /\ GoesTo(k, c).endBadCaptures = k.endBadCaptures /\ GoesTo(k, c).endCaptures = k.endCaptures
         /\ GoesTo(k, c).endGenerated = k.endGenerated /\ GoesTo(k, c).skipQuiets = k.skipQuiets
  BY DEF GoesTo, PickerType

LEMMA PickedIs == \A k, m : Picked(k, m).picker = k /\ Picked(k, m).move = m
  BY DEF Picked

\* The move at place c - 1 is taken: it was ahead, and the others that were ahead still are.
Takes(n, k, pass, c, r) ==
  /\ c \in k.cur + 1 .. k.endCur /\ r.picker = GoesTo(k, c) /\ r.move = k.moves[c - 1]
  /\ r.move \in Ahead(n, k, pass)
  /\ Held(k.moves, c, k.endCur - 1) \cap (pass \ {n.ttMove}) = Ahead(n, k, pass) \ {r.move}

LEMMA SmallestIs ==
  ASSUME NEW T, T \subseteq Nat, T # {}
  PROVE  Smallest(T) \in T /\ \A j \in T : Smallest(T) <= j
<1>1. \E i \in T : \A j \in T : i <= j
  BY LeastNumber
<1>2. QED
  BY <1>1 DEF Smallest

LEMMA PassingIs ==
  ASSUME NEW n, NEW k, ArrayRight(n, k), NEW pass
  PROVE  /\ Passing(n, k, pass) \subseteq Nat
         /\ Passing(n, k, pass) \subseteq k.cur .. k.endCur - 1
         /\ \A i \in k.cur .. k.endCur - 1 : i \in Passing(n, k, pass) <=> k.moves[i] \in pass \ {n.ttMove}
  BY DEF Passing, ArrayRight, PickerType

LEMMA SelectTakes ==
  ASSUME NEW n, NEW k, ArrayRight(n, k), NEW pass
  PROVE  \/ Ahead(n, k, pass) = {} /\ Select(n, k, pass) = Picked(GoesTo(k, k.endCur), NoneLeft)
         \/ \E c \in Int : Takes(n, k, pass, c, Select(n, k, pass))
<1> DEFINE found == Passing(n, k, pass)  i == Smallest(found)  r == Select(n, k, pass)
<1>1. /\ found \subseteq Nat /\ found \subseteq k.cur .. k.endCur - 1
      /\ \A j \in k.cur .. k.endCur - 1 : j \in found <=> k.moves[j] \in pass \ {n.ttMove}
  BY PassingIs
<1>2. CASE found = {}
  <2>1. r = Picked(GoesTo(k, k.endCur), NoneLeft)
    BY <1>2 DEF Select, GoesTo
  <2>2. Ahead(n, k, pass) = {}
    <3> HIDE DEF found
    <3> QED BY <1>1, <1>2 DEF Ahead, Held
  <2>3. QED
    BY <2>1, <2>2
<1>3. CASE found # {}
  <2>1. r = Picked(GoesTo(k, i + 1), k.moves[i])
    BY <1>3 DEF Select, GoesTo
  <2>2. i \in found /\ \A j \in found : i <= j
    BY <1>1, <1>3, SmallestIs
  <2>3. r.picker = GoesTo(k, i + 1) /\ r.move = k.moves[i]
    BY <2>1, PickedIs
  <2>4. k.cur \in Int /\ k.endCur \in Int /\ k.cur >= 1 /\ k.endCur <= Len(k.moves) + 1 /\ Len(k.moves) \in Nat
    BY DEF ArrayRight, PickerType
  <2> HIDE DEF i, r, found
  <2>5. i \in k.cur .. k.endCur - 1 /\ k.moves[i] \in pass \ {n.ttMove}
    BY <1>1, <2>2
  <2>6. i + 1 \in k.cur + 1 .. k.endCur /\ (i + 1) - 1 = i /\ i + 1 \in Int
    BY <2>4, <2>5
  <2>7. k.moves[i] \in Ahead(n, k, pass)
    BY <2>5 DEF Ahead, Held
  <2>8. ASSUME NEW j \in k.cur .. k.endCur - 1, k.moves[j] \in pass \ {n.ttMove}
        PROVE  k.moves[j] # k.moves[i] <=> j \in i + 1 .. k.endCur - 1
    <3>1. i <= j
      BY <1>1, <2>2, <2>8
    <3>2. i \in 1 .. Len(k.moves) /\ j \in 1 .. Len(k.moves)
      BY <2>4, <2>5
    <3>3. k.moves[i] = k.moves[j] <=> i = j
      BY <3>2 DEF ArrayRight, Distinct
    <3>4. QED
      BY <2>4, <2>5, <3>1, <3>3
  <2>9. \A j \in i + 1 .. k.endCur - 1 : j \in k.cur .. k.endCur - 1
    BY <2>4, <2>5
  <2>10. Held(k.moves, i + 1, k.endCur - 1) \cap (pass \ {n.ttMove}) = Ahead(n, k, pass) \ {k.moves[i]}
    BY <2>8, <2>9 DEF Ahead, Held
  <2> DEFINE c == i + 1
  <2>11. Takes(n, k, pass, c, r)
    BY <2>3, <2>6, <2>7, <2>10 DEF Takes
  <2>12. QED
    BY <2>6, <2>11 DEF r
<1>4. QED
  BY <1>2, <1>3

-----------------------------------------------------------------------------
(* What is still to come, and what a call of next_move gives *)

LEMMA SetupIs ==
  ASSUME NEW n \in PickSetups
  PROVE  /\ n.kind \in {"main", "evasion", "qsearch", "probcut"}
         /\ Generated(n.captures, n.value) /\ Generated(n.quiets, n.value) /\ Generated(n.evasions, n.value)
         /\ \A m \in MovesOf(n) : n.value[m] \in Int /\ n.value[m] >= NoLimit
         /\ NoneLeft \notin MovesOf(n)
         /\ ToSet(n.captures) \cap ToSet(n.quiets) = {}
         /\ n.kind = "evasion" => ToSet(n.captures) = {} /\ ToSet(n.quiets) = {}
         /\ n.kind # "evasion" => ToSet(n.evasions) = {}
         /\ SortLimit \in Int /\ NoLimit \in Int
<1>1. ToSet(<<>>) = {}
  BY DEF ToSet
<1>2. Generated(n.captures, n.value) /\ Generated(n.quiets, n.value) /\ Generated(n.evasions, n.value)
  BY PickAssumption DEF Generated
<1>3. \A m \in MovesOf(n) : n.value[m] \in Int /\ n.value[m] >= NoLimit
  BY <1>2 DEF Generated, MovesOf
<1>4. NoneLeft \notin MovesOf(n)
  BY <1>2 DEF Generated, MovesOf
<1>5. SortLimit \in Int /\ NoLimit \in Int
  BY PickAssumption DEF SortLimit, NoLimit
<1>6. /\ n.kind \in {"main", "evasion", "qsearch", "probcut"}
      /\ ToSet(n.captures) \cap ToSet(n.quiets) = {}
      /\ n.kind = "evasion" => ToSet(n.captures) = {} /\ ToSet(n.quiets) = {}
      /\ n.kind # "evasion" => ToSet(n.evasions) = {}
  BY <1>1, PickAssumption
<1>7. QED
  BY <1>2, <1>3, <1>4, <1>5, <1>6

\* Class and order of BestFirst, of a setup.
ClassOf(n, m) ==
  IF m \in ToSet(n.captures) THEN IF m \in n.good THEN 1 ELSE 3
  ELSE IF n.value[m] > goodQuietThreshold THEN 2 ELSE 4
Precedes(n, a, b) ==
  /\ n.kind = "main" => ClassOf(n, a) <= ClassOf(n, b)
  /\ (\/ {a, b} \subseteq ToSet(n.captures) /\ (n.kind = "main" => ClassOf(n, a) = ClassOf(n, b))
      \/ {a, b} \subseteq ToSet(n.evasions)
      \/ {a, b} \subseteq ToSet(n.quiets) /\ ClassOf(n, a) = ClassOf(n, b) /\ n.value[b] >= SortLimit)
     => n.value[a] >= n.value[b]

\* What a node is to be searched with: of ProbCut the good captures.
Wanted(n) ==
  CASE n.kind = "evasion" -> ToSet(n.evasions)
    [] n.kind = "qsearch" -> ToSet(n.captures)
    [] n.kind = "probcut" -> ToSet(n.captures) \cap n.good
    [] n.kind = "main" -> ToSet(n.captures) \cup ToSet(n.quiets)
InitStage(n) == IF n.kind = "evasion" THEN "EVASION_INIT" ELSE "CAPTURE_INIT"
BadCaptures(k) == Held(k.moves, 1, k.endBadCaptures - 1)
QuietsHeld(k) == Held(k.moves, k.endCaptures, k.endGenerated - 1)
BadQuiets(n, k) == QuietsHeld(k) \ (Good(n, k) \cup {n.ttMove})
ListPass(n, k) == IF n.kind = "probcut" THEN n.good ELSE Every(k)
Pending(n, k) ==
  IF k.stage = "TT" THEN Wanted(n) \cup {n.ttMove}
  ELSE IF k.stage = InitStage(n) THEN Wanted(n) \ {n.ttMove}
  ELSE IF k.stage = "GOOD_CAPTURE" THEN BadCaptures(k) \cup Ahead(n, k, Every(k)) \cup (ToSet(n.quiets) \ {n.ttMove})
  ELSE IF k.stage = "GOOD_QUIET" THEN Ahead(n, k, Good(n, k)) \cup BadCaptures(k) \cup BadQuiets(n, k)
  ELSE IF k.stage = "BAD_CAPTURE" THEN Ahead(n, k, Every(k)) \cup BadQuiets(n, k)
  ELSE IF k.stage = "BAD_QUIET" THEN Ahead(n, k, Every(k) \ Good(n, k))
  ELSE Ahead(n, k, ListPass(n, k))
Todo(n, k) == IF k.skipQuiets THEN Pending(n, k) \ ToSet(n.quiets) ELSE Pending(n, k)

Starting(n, k) ==
  /\ k \in PickerType(n)
  /\ \/ k.stage = "TT" /\ UsesTTMove(n) /\ ~k.skipQuiets
     \/ k.stage = InitStage(n)
  /\ k.endGenerated = 1
Listing(n, k) ==
  /\ n.kind # "main" /\ k.stage = n.kind /\ ArrayRight(n, k)
  /\ Held(k.moves, 1, Len(k.moves)) = IF n.kind = "evasion" THEN ToSet(n.evasions) ELSE ToSet(n.captures)
  /\ Falls(n.value, NoLimit, k.moves, 1, Len(k.moves))
\* The bad captures passed lie in front, and what is ahead is worth no more than they.
Kept(k) == {i \in 1 .. Len(k.moves) : i < k.endBadCaptures \/ k.cur <= i}
InGoodCaptures(n, k) ==
  /\ n.kind = "main" /\ k.stage = "GOOD_CAPTURE" /\ ArrayRight(n, k)
  /\ k.endCur = Len(k.moves) + 1 /\ k.endCaptures = k.endCur /\ k.endGenerated = 1
  /\ 1 <= k.endBadCaptures /\ k.endBadCaptures <= k.cur
  /\ Held(k.moves, 1, Len(k.moves)) \subseteq ToSet(n.captures)
  /\ BadCaptures(k) \cap (n.good \cup {n.ttMove}) = {}
  /\ \A i, j \in Kept(k) : i < j => n.value[k.moves[i]] >= n.value[k.moves[j]]
\* The bad captures lie in front, the quiet moves behind the captures.
InBad(n, k) ==
  /\ n.kind = "main" /\ k \in PickerType(n) /\ Distinct(Len(k.moves), k.moves)
  /\ 1 <= k.endBadCaptures /\ k.endBadCaptures <= k.endCaptures /\ k.endCaptures <= Len(k.moves) + 1
  /\ k.endGenerated <= Len(k.moves) + 1 /\ (~k.skipQuiets => k.endCaptures <= k.endGenerated)
  /\ BadCaptures(k) \subseteq ToSet(n.captures) \ (n.good \cup {n.ttMove})
  /\ Falls(n.value, NoLimit, k.moves, 1, k.endBadCaptures - 1)
  /\ QuietsHeld(k) \subseteq ToSet(n.quiets)
  /\ Falls(n.value, SortLimit, k.moves, k.endCaptures, k.endGenerated - 1)
InGoodQuiets(n, k) ==
  /\ InBad(n, k) /\ k.stage = "GOOD_QUIET"
  /\ Held(k.moves, k.cur, k.endCur - 1) \subseteq ToSet(n.quiets)
  /\ ~k.skipQuiets => ArrayRight(n, k) /\ k.endCaptures <= k.cur /\ k.endCur = k.endGenerated
InBadCaptures(n, k) == InBad(n, k) /\ k.stage = "BAD_CAPTURE" /\ ArrayRight(n, k) /\ k.endCur = k.endBadCaptures
InBadQuiets(n, k) ==
  /\ InBad(n, k) /\ k.stage = "BAD_QUIET"
  /\ k.endCaptures <= k.cur /\ k.endCur = k.endGenerated /\ (~k.skipQuiets => ArrayRight(n, k))
PickerInv(n, k) ==
  \/ Starting(n, k) \/ Listing(n, k) \/ InGoodCaptures(n, k)
  \/ InGoodQuiets(n, k) \/ InBadCaptures(n, k) \/ InBadQuiets(n, k)

\* A call gives a move to come before what is still to come, or nothing when nothing is.
Gives(n, k, r) ==
  /\ PickerInv(n, r.picker) /\ r.picker.stage # "TT" /\ r.picker.skipQuiets = k.skipQuiets
  /\ Todo(n, r.picker) = Todo(n, k) \ {r.move}
  /\ r.move = NoneLeft => Todo(n, k) = {}
  /\ r.move # NoneLeft => r.move \in Todo(n, k)
  /\ r.move \notin {NoneLeft, n.ttMove} => \A b \in Todo(n, k) \ {r.move} : Precedes(n, r.move, b)

LEMMA GivesFrom ==
  ASSUME NEW n, NEW k, NEW x, Todo(n, x) = Todo(n, k), x.skipQuiets = k.skipQuiets, NEW r, Gives(n, x, r)
  PROVE  Gives(n, k, r)
  BY DEF Gives

\* A stage that selects what passes, before the rest.
Selects(n, k, pass, rest) ==
  /\ ArrayRight(n, k) /\ k.stage # "TT"
  /\ Todo(n, k) = Ahead(n, k, pass) \cup rest /\ Ahead(n, k, pass) \cap rest = {}
  /\ \A c \in k.cur .. k.endCur :
       /\ PickerInv(n, GoesTo(k, c))
       /\ Todo(n, GoesTo(k, c)) = (Held(k.moves, c, k.endCur - 1) \cap (pass \ {n.ttMove})) \cup rest
  /\ \A i, j \in k.cur .. k.endCur - 1 :
       i < j /\ k.moves[i] \in pass /\ k.moves[j] \in pass => Precedes(n, k.moves[i], k.moves[j])
  /\ \A a \in Ahead(n, k, pass), b \in rest : Precedes(n, a, b)

LEMMA SelectGives ==
  ASSUME NEW n \in PickSetups, NEW k, NEW pass, NEW rest, Selects(n, k, pass, rest)
  PROVE  \/ /\ Select(n, k, pass).move = NoneLeft /\ Select(n, k, pass).picker = GoesTo(k, k.endCur)
            /\ Select(n, k, pass) = Picked(GoesTo(k, k.endCur), NoneLeft)
            /\ Todo(n, GoesTo(k, k.endCur)) = rest /\ Todo(n, k) = rest /\ PickerInv(n, GoesTo(k, k.endCur))
            /\ GoesTo(k, k.endCur).skipQuiets = k.skipQuiets /\ GoesTo(k, k.endCur).stage = k.stage
         \/ Select(n, k, pass).move # NoneLeft /\ Gives(n, k, Select(n, k, pass))
<1> DEFINE r == Select(n, k, pass)
<1>1. CASE Ahead(n, k, pass) = {} /\ r = Picked(GoesTo(k, k.endCur), NoneLeft)
  <2> DEFINE x == GoesTo(k, k.endCur)
  <2>1. k \in PickerType(n) /\ k.endCur \in Int /\ k.endCur \in k.cur .. k.endCur
    BY DEF Selects, ArrayRight, PickerType
  <2>2. r.move = NoneLeft /\ r.picker = x
    BY <1>1, PickedIs
  <2>3. x.skipQuiets = k.skipQuiets /\ x.stage = k.stage
    BY <2>1, GoesToIs
  <2>4. Held(k.moves, k.endCur, k.endCur - 1) = {}
    BY <2>1 DEF Held
  <2>5. /\ PickerInv(n, x) /\ Todo(n, k) = Ahead(n, k, pass) \cup rest
        /\ Todo(n, x) = (Held(k.moves, k.endCur, k.endCur - 1) \cap (pass \ {n.ttMove})) \cup rest
    BY <2>1 DEF Selects
  <2>6. Todo(n, x) = rest /\ Todo(n, k) = rest
    BY <1>1, <2>4, <2>5
  <2>7. QED
    BY <1>1, <2>2, <2>3, <2>5, <2>6
<1>2. CASE \E c \in Int : Takes(n, k, pass, c, r)
  <2>1. PICK c \in Int : Takes(n, k, pass, c, r)
    BY <1>2
  <2> HIDE DEF r
  <2>2. /\ c \in k.cur + 1 .. k.endCur /\ r.picker = GoesTo(k, c) /\ r.move = k.moves[c - 1]
        /\ r.move \in Ahead(n, k, pass)
        /\ Held(k.moves, c, k.endCur - 1) \cap (pass \ {n.ttMove}) = Ahead(n, k, pass) \ {r.move}
    BY <2>1 DEF Takes
  <2>3. k \in PickerType(n) /\ k.cur \in Int /\ k.endCur \in Int /\ k.cur >= 1 /\ k.endCur <= Len(k.moves) + 1
    BY DEF Selects, ArrayRight, PickerType
  <2>4. c \in k.cur .. k.endCur
    BY <2>2, <2>3
  <2>5. PickerInv(n, r.picker) /\ Todo(n, r.picker) = (Ahead(n, k, pass) \ {r.move}) \cup rest
    BY <2>2, <2>4 DEF Selects
  <2>6. r.picker.stage = k.stage /\ r.picker.skipQuiets = k.skipQuiets
    BY <2>2, <2>3, GoesToIs
  <2>7. Todo(n, r.picker) = Todo(n, k) \ {r.move}
    BY <2>2, <2>5 DEF Selects
  <2>8. r.move # NoneLeft
    <3>1. \A i \in 1 .. Len(k.moves) : k.moves[i] \in MovesOf(n)
      BY <2>3 DEF PickerType
    <3>2. c - 1 \in 1 .. Len(k.moves)
      BY <2>2, <2>3
    <3>3. QED
      BY <2>2, <3>1, <3>2, SetupIs
  <2>9. ASSUME NEW b \in Todo(n, k) \ {r.move} PROVE Precedes(n, r.move, b)
    <3>1. CASE b \in rest
      BY <2>2, <3>1 DEF Selects
    <3>2. CASE b \in Ahead(n, k, pass)
      <4>1. b \in Held(k.moves, c, k.endCur - 1) \cap (pass \ {n.ttMove})
        BY <2>2, <2>9, <3>2
      <4>2. PICK j \in c .. k.endCur - 1 : b = k.moves[j]
        BY <4>1 DEF Held
      <4>3. c - 1 \in k.cur .. k.endCur - 1 /\ j \in k.cur .. k.endCur - 1 /\ c - 1 < j
        BY <2>2, <2>3
      <4>4. k.moves[c - 1] \in pass /\ k.moves[j] \in pass
        BY <2>2, <4>1, <4>2 DEF Ahead
      <4>5. QED
        BY <2>2, <4>2, <4>3, <4>4 DEF Selects
    <3>3. QED
      BY <2>9, <3>1, <3>2 DEF Selects
  <2>10. r.move \in Todo(n, k) /\ k.stage # "TT"
    BY <2>2 DEF Selects
  <2>11. Gives(n, k, r)
    BY <2>5, <2>6, <2>7, <2>8, <2>9, <2>10 DEF Gives
  <2>12. QED
    BY <2>8, <2>11 DEF r
<1>3. QED
  BY <1>1, <1>2, SelectTakes DEF Selects

-----------------------------------------------------------------------------
(* The order of the classes *)

LEMMA ClassIs ==
  ASSUME NEW n \in PickSetups, NEW m
  PROVE  /\ m \in ToSet(n.captures) => ClassOf(n, m) = IF m \in n.good THEN 1 ELSE 3
         /\ m \in ToSet(n.quiets) => ClassOf(n, m) = IF n.value[m] > goodQuietThreshold THEN 2 ELSE 4
         /\ ~(m \in ToSet(n.captures) /\ m \in ToSet(n.quiets))
  BY SetupIs DEF ClassOf

LEMMA LowerClass ==
  ASSUME NEW n \in PickSetups, n.kind = "main", NEW a, NEW b, ClassOf(n, a) \in Int, ClassOf(n, b) \in Int,
         ClassOf(n, a) < ClassOf(n, b)
  PROVE  Precedes(n, a, b)
<1>1. ClassOf(n, a) <= ClassOf(n, b) /\ ClassOf(n, a) # ClassOf(n, b)
  OBVIOUS
<1>2. ToSet(n.evasions) = {}
  BY SetupIs
<1>3. QED
  BY <1>1, <1>2 DEF Precedes

LEMMA SameClass ==
  ASSUME NEW n \in PickSetups, n.kind = "main", NEW a, NEW b, ClassOf(n, a) \in Int, ClassOf(n, a) = ClassOf(n, b),
         a \in ToSet(n.captures) /\ b \in ToSet(n.captures) => n.value[a] >= n.value[b],
         a \in ToSet(n.quiets) /\ b \in ToSet(n.quiets) /\ n.value[b] >= SortLimit => n.value[a] >= n.value[b]
  PROVE  Precedes(n, a, b)
<1>1. ClassOf(n, a) <= ClassOf(n, b)
  OBVIOUS
<1>2. ToSet(n.evasions) = {}
  BY SetupIs
<1>3. QED
  BY <1>1, <1>2 DEF Precedes

\* Other than by where it stands, a picker is kept by GoesTo.
LEMMA GoesToKeeps ==
  ASSUME NEW n, NEW k, k \in PickerType(n), NEW c \in Int
  PROVE  /\ \A pass : Ahead(n, GoesTo(k, c), pass) = Held(k.moves, c, k.endCur - 1) \cap (pass \ {n.ttMove})
         /\ Every(GoesTo(k, c)) = Every(k) /\ Good(n, GoesTo(k, c)) = Good(n, k)
         /\ BadCaptures(GoesTo(k, c)) = BadCaptures(k) /\ QuietsHeld(GoesTo(k, c)) = QuietsHeld(k)
         /\ BadQuiets(n, GoesTo(k, c)) = BadQuiets(n, k)
         /\ InBad(n, k) => InBad(n, GoesTo(k, c))
         /\ ArrayRight(n, k) /\ 1 <= c /\ c <= k.endCur => ArrayRight(n, GoesTo(k, c))
<1> DEFINE x == GoesTo(k, c)
<1>1. /\ x \in PickerType(n) /\ x.cur = c
      /\ x.stage = k.stage /\ x.moves = k.moves /\ x.endCur = k.endCur
      /\ x.endBadCaptures = k.endBadCaptures /\ x.endCaptures = k.endCaptures
      /\ x.endGenerated = k.endGenerated /\ x.skipQuiets = k.skipQuiets
  BY GoesToIs
<1> HIDE DEF x
<1>2. \A pass : Ahead(n, x, pass) = Held(k.moves, c, k.endCur - 1) \cap (pass \ {n.ttMove})
  BY <1>1 DEF Ahead
<1>3. Every(x) = Every(k) /\ Good(n, x) = Good(n, k)
  BY <1>1 DEF Every, Good
<1>4. BadCaptures(x) = BadCaptures(k) /\ QuietsHeld(x) = QuietsHeld(k)
  BY <1>1 DEF BadCaptures, QuietsHeld
<1>5. BadQuiets(n, x) = BadQuiets(n, k)
  BY <1>3, <1>4 DEF BadQuiets
<1>6. InBad(n, k) => InBad(n, x)
  BY <1>1, <1>4 DEF InBad
<1>7. ArrayRight(n, k) /\ 1 <= c /\ c <= k.endCur => ArrayRight(n, x)
  BY <1>1 DEF ArrayRight
<1>8. QED
  BY <1>2, <1>3, <1>4, <1>5, <1>6, <1>7 DEF x

LEMMA StagesDiffer ==
  ASSUME NEW n
  PROVE  /\ InitStage(n) \in {"EVASION_INIT", "CAPTURE_INIT"}
         /\ InitStage(n) \notin {"TT", "GOOD_CAPTURE", "GOOD_QUIET", "BAD_CAPTURE", "BAD_QUIET", "evasion", "qsearch", "probcut"}
  BY DEF InitStage

LEMMA TypeOfMoves ==
  ASSUME NEW n, NEW k, k \in PickerType(n)
  PROVE  /\ k.moves \in [1 .. Len(k.moves) -> MovesOf(n)] /\ Len(k.moves) \in Nat
         /\ k.cur \in Int /\ k.endCur \in Int /\ k.endBadCaptures \in Int /\ k.endCaptures \in Int /\ k.endGenerated \in Int
         /\ k.skipQuiets \in BOOLEAN
         /\ \A i \in 1 .. Len(k.moves) : k.moves[i] \in Every(k)
         /\ \A m : m \in Good(n, k) <=> m \in Every(k) /\ n.value[m] > goodQuietThreshold
         /\ Every(k) = Held(k.moves, 1, Len(k.moves)) /\ Every(k) \subseteq MovesOf(n)
<1>1. k.moves \in Seq(MovesOf(n))
  BY DEF PickerType
<1>2. k.moves \in [1 .. Len(k.moves) -> MovesOf(n)] /\ Len(k.moves) \in Nat /\ DOMAIN k.moves = 1 .. Len(k.moves)
  BY <1>1
<1>3. Every(k) = Held(k.moves, 1, Len(k.moves))
  BY <1>2 DEF Every, ToSet, Held
<1>4. Every(k) \subseteq MovesOf(n) /\ \A i \in 1 .. Len(k.moves) : k.moves[i] \in Every(k)
  BY <1>2, <1>3 DEF Held
<1>5. \A m : m \in Good(n, k) <=> m \in Every(k) /\ n.value[m] > goodQuietThreshold
  BY DEF Good, Every
<1>6. QED
  BY <1>2, <1>3, <1>4, <1>5 DEF PickerType

LEMMA HeldIs ==
  ASSUME NEW s, NEW from, NEW to
  PROVE  \A m : m \in Held(s, from, to) <=> \E i \in from .. to : m = s[i]
  BY DEF Held

\* Nothing is left, and nothing was to come.
LEMMA NothingGiven ==
  ASSUME NEW n, NEW k, PickerInv(n, k), k.stage # "TT", Todo(n, k) = {}
  PROVE  Gives(n, k, Picked(k, NoneLeft))
  BY PickedIs DEF Gives

LEMMA BadQuietGives ==
  ASSUME NEW n \in PickSetups, NEW k, InBadQuiets(n, k)
  PROVE  Gives(n, k, BadQuiet(n, k))
<1>1. /\ InBad(n, k) /\ k \in PickerType(n) /\ k.stage = "BAD_QUIET" /\ k.stage # "TT" /\ k.stage # InitStage(n)
      /\ k.endCaptures <= k.cur /\ k.endCur = k.endGenerated /\ n.kind = "main"
      /\ 1 <= k.endCaptures /\ k.endGenerated <= Len(k.moves) + 1
      /\ k.cur \in Int /\ k.endCur \in Int /\ k.endCaptures \in Int /\ Len(k.moves) \in Nat /\ k.endBadCaptures \in Int
      /\ QuietsHeld(k) \subseteq ToSet(n.quiets)
      /\ Falls(n.value, SortLimit, k.moves, k.endCaptures, k.endGenerated - 1)
  BY StagesDiffer, TypeOfMoves DEF InBadQuiets, InBad
<1>2. \A i \in k.cur .. k.endCur - 1 : i \in k.endCaptures .. k.endGenerated - 1 /\ i \in 1 .. Len(k.moves)
  BY <1>1
<1>3. \A i \in k.cur .. k.endCur - 1 : k.moves[i] \in ToSet(n.quiets)
  BY <1>1, <1>2 DEF QuietsHeld, Held
<1> DEFINE pass == Every(k) \ Good(n, k)
<1>4. Pending(n, k) = Ahead(n, k, pass)
  BY <1>1 DEF Pending
<1>5. PickerInv(n, k)
  BY DEF PickerInv
<1>6. CASE k.skipQuiets
  <2>1. BadQuiet(n, k) = Picked(k, NoneLeft)
    BY <1>6 DEF BadQuiet
  <2>2. Ahead(n, k, pass) \subseteq ToSet(n.quiets)
    BY <1>3 DEF Ahead, Held
  <2>3. Todo(n, k) = {}
    BY <1>4, <1>6, <2>2 DEF Todo
  <2>4. QED
    BY <1>1, <1>5, <2>1, <2>3, NothingGiven
<1>7. CASE ~k.skipQuiets
  <2>1. ArrayRight(n, k) /\ 1 <= k.cur /\ k.cur <= k.endCur
    BY <1>7 DEF InBadQuiets, ArrayRight
  <2>2. BadQuiet(n, k) = Select(n, k, pass)
    BY <1>7 DEF BadQuiet
  <2>3. Todo(n, k) = Ahead(n, k, pass) \cup {}
    BY <1>4, <1>7 DEF Todo
  <2>4. ASSUME NEW c \in k.cur .. k.endCur
        PROVE  /\ PickerInv(n, GoesTo(k, c))
               /\ Todo(n, GoesTo(k, c)) = (Held(k.moves, c, k.endCur - 1) \cap (pass \ {n.ttMove})) \cup {}
    <3> DEFINE x == GoesTo(k, c)
    <3>1. c \in Int /\ k.endCaptures <= c /\ 1 <= c /\ c <= k.endCur
      BY <1>1, <2>1
    <3>2. /\ x.cur = c /\ x.stage = k.stage /\ x.endCur = k.endCur /\ x.endCaptures = k.endCaptures
          /\ x.endGenerated = k.endGenerated /\ x.skipQuiets = k.skipQuiets
      BY <1>1, <3>1, GoesToIs
    <3>3. /\ Ahead(n, x, pass) = Held(k.moves, c, k.endCur - 1) \cap (pass \ {n.ttMove})
          /\ Every(x) = Every(k) /\ Good(n, x) = Good(n, k) /\ InBad(n, x) /\ ArrayRight(n, x)
      <4> HIDE DEF pass
      <4>1. /\ Ahead(n, x, pass) = Held(k.moves, c, k.endCur - 1) \cap (pass \ {n.ttMove})
            /\ Every(x) = Every(k) /\ Good(n, x) = Good(n, k)
        BY <1>1, <3>1, GoesToKeeps
      <4>2. InBad(n, x) /\ ArrayRight(n, x)
        BY <1>1, <2>1, <3>1, GoesToKeeps
      <4>3. QED
        BY <4>1, <4>2
    <3> HIDE DEF x
    <3>4. InBadQuiets(n, x)
      BY <1>1, <3>1, <3>2, <3>3 DEF InBadQuiets
    <3>5. Todo(n, x) = Ahead(n, x, pass)
      BY <1>1, <1>7, <3>2, <3>3 DEF Todo, Pending
    <3>6. QED
      BY <3>3, <3>4, <3>5 DEF PickerInv, x
  <2>5. ASSUME NEW i \in k.cur .. k.endCur - 1, NEW j \in k.cur .. k.endCur - 1, i < j, k.moves[i] \in pass, k.moves[j] \in pass
        PROVE  Precedes(n, k.moves[i], k.moves[j])
    <3>1. \A m \in {k.moves[i], k.moves[j]} : m \in ToSet(n.quiets) /\ ~(n.value[m] > goodQuietThreshold)
      BY <1>1, <1>3, <2>5, TypeOfMoves
    <3>2. ClassOf(n, k.moves[i]) = 4 /\ ClassOf(n, k.moves[j]) = 4
      BY <3>1, ClassIs
    <3>3. k.moves[i] \notin ToSet(n.captures)
      BY <3>1, ClassIs
    <3>4. n.value[k.moves[j]] >= SortLimit => n.value[k.moves[i]] >= n.value[k.moves[j]]
      BY <1>1, <1>2, <2>5 DEF Falls
    <3>5. QED
      BY <1>1, <3>2, <3>3, <3>4, SameClass
  <2>6. Selects(n, k, pass, {})
    <3> HIDE DEF pass
    <3> QED BY <1>1, <2>1, <2>3, <2>4, <2>5 DEF Selects
  <2> DEFINE x == GoesTo(k, k.endCur)  r == Select(n, k, pass)
  <2>7. \/ r = Picked(x, NoneLeft) /\ Todo(n, x) = {} /\ Todo(n, k) = {} /\ PickerInv(n, x) /\ x.stage # "TT" /\ x.skipQuiets = k.skipQuiets
        \/ Gives(n, k, r)
    <3> HIDE DEF pass
    <3> QED BY <1>1, <2>6, SelectGives
  <2>8. Gives(n, k, r)
    <3> HIDE DEF x, r
    <3> QED BY <2>7, NothingGiven, GivesFrom
  <2>9. QED
    BY <2>2, <2>8
<1>8. QED
  BY <1>6, <1>7

At(k, stage, from, to) == [k EXCEPT !.stage = stage, !.cur = from, !.endCur = to]

LEMMA AtIs ==
  ASSUME NEW n, NEW k, k \in PickerType(n), NEW stage \in Stages, NEW from \in Int, NEW to \in Int,
         NEW x, x = At(k, stage, from, to)
  PROVE  /\ x \in PickerType(n) /\ x.stage = stage /\ x.cur = from /\ x.endCur = to /\ x.moves = k.moves
         /\ x.endBadCaptures = k.endBadCaptures /\ x.endCaptures = k.endCaptures
         /\ x.endGenerated = k.endGenerated /\ x.skipQuiets = k.skipQuiets
  BY DEF At, PickerType

LEMMA AtKeeps ==
  ASSUME NEW n, NEW k, k \in PickerType(n), NEW stage \in Stages, NEW from \in Int, NEW to \in Int,
         NEW x, x = At(k, stage, from, to)
  PROVE  /\ \A pass : Ahead(n, x, pass) = Held(k.moves, from, to - 1) \cap (pass \ {n.ttMove})
         /\ Every(x) = Every(k) /\ Good(n, x) = Good(n, k)
         /\ BadCaptures(x) = BadCaptures(k) /\ QuietsHeld(x) = QuietsHeld(k) /\ BadQuiets(n, x) = BadQuiets(n, k)
         /\ InBad(n, k) => InBad(n, x)
<1>1. /\ x \in PickerType(n) /\ x.stage = stage /\ x.cur = from /\ x.endCur = to /\ x.moves = k.moves
      /\ x.endBadCaptures = k.endBadCaptures /\ x.endCaptures = k.endCaptures
      /\ x.endGenerated = k.endGenerated /\ x.skipQuiets = k.skipQuiets
  BY AtIs
<1>2. \A pass : Ahead(n, x, pass) = Held(k.moves, from, to - 1) \cap (pass \ {n.ttMove})
  BY <1>1 DEF Ahead
<1>3. Every(x) = Every(k) /\ Good(n, x) = Good(n, k)
  BY <1>1 DEF Every, Good
<1>4. BadCaptures(x) = BadCaptures(k) /\ QuietsHeld(x) = QuietsHeld(k)
  BY <1>1 DEF BadCaptures, QuietsHeld
<1>5. BadQuiets(n, x) = BadQuiets(n, k)
  BY <1>3, <1>4 DEF BadQuiets
<1>6. InBad(n, k) => InBad(n, x)
  BY <1>1, <1>4 DEF InBad
<1>7. QED
  BY <1>2, <1>3, <1>4, <1>5, <1>6

LEMMA BadIs ==
  ASSUME NEW n \in PickSetups, NEW k, InBad(n, k)
  PROVE  /\ k \in PickerType(n) /\ n.kind = "main"
         /\ 1 <= k.endBadCaptures /\ k.endBadCaptures <= k.endCaptures /\ k.endCaptures <= Len(k.moves) + 1
         /\ k.endGenerated <= Len(k.moves) + 1 /\ (~k.skipQuiets => k.endCaptures <= k.endGenerated)
         /\ \A i \in 1 .. k.endBadCaptures - 1 : i \in 1 .. Len(k.moves) /\ k.moves[i] \in BadCaptures(k)
         /\ \A i \in k.endCaptures .. k.endGenerated - 1 : i \in 1 .. Len(k.moves) /\ k.moves[i] \in QuietsHeld(k)
         /\ BadCaptures(k) \subseteq ToSet(n.captures) \ (n.good \cup {n.ttMove}) /\ BadCaptures(k) \subseteq Every(k)
         /\ QuietsHeld(k) \subseteq ToSet(n.quiets) /\ QuietsHeld(k) \subseteq Every(k)
         /\ Falls(n.value, NoLimit, k.moves, 1, k.endBadCaptures - 1)
         /\ Falls(n.value, SortLimit, k.moves, k.endCaptures, k.endGenerated - 1)
         /\ \A m \in BadCaptures(k) : ClassOf(n, m) = 3 /\ m \notin ToSet(n.quiets)
         /\ \A m \in BadQuiets(n, k) : ClassOf(n, m) = 4 /\ m \in ToSet(n.quiets)
         /\ k.stage = "BAD_QUIET" \/ k.stage = "BAD_CAPTURE" \/ k.stage = "GOOD_QUIET" => k.stage # "TT" /\ k.stage # InitStage(n)
<1>1. /\ k \in PickerType(n) /\ n.kind = "main"
      /\ 1 <= k.endBadCaptures /\ k.endBadCaptures <= k.endCaptures /\ k.endCaptures <= Len(k.moves) + 1
      /\ k.endGenerated <= Len(k.moves) + 1 /\ (~k.skipQuiets => k.endCaptures <= k.endGenerated)
      /\ BadCaptures(k) \subseteq ToSet(n.captures) \ (n.good \cup {n.ttMove})
      /\ QuietsHeld(k) \subseteq ToSet(n.quiets)
      /\ Falls(n.value, NoLimit, k.moves, 1, k.endBadCaptures - 1)
      /\ Falls(n.value, SortLimit, k.moves, k.endCaptures, k.endGenerated - 1)
  BY DEF InBad
<1>2. /\ k.endBadCaptures \in Int /\ k.endCaptures \in Int /\ k.endGenerated \in Int /\ Len(k.moves) \in Nat
      /\ \A i \in 1 .. Len(k.moves) : k.moves[i] \in Every(k)
      /\ \A m : m \in Good(n, k) <=> m \in Every(k) /\ n.value[m] > goodQuietThreshold
  BY <1>1, TypeOfMoves
<1>3. \A i \in 1 .. k.endBadCaptures - 1 : i \in 1 .. Len(k.moves) /\ k.moves[i] \in BadCaptures(k)
  BY <1>1, <1>2 DEF BadCaptures, Held
<1>4. \A i \in k.endCaptures .. k.endGenerated - 1 : i \in 1 .. Len(k.moves) /\ k.moves[i] \in QuietsHeld(k)
  BY <1>1, <1>2 DEF QuietsHeld, Held
<1>5. BadCaptures(k) \subseteq Every(k)
  <2>1. ASSUME NEW m \in BadCaptures(k) PROVE m \in Every(k)
    <3>1. PICK i \in 1 .. k.endBadCaptures - 1 : m = k.moves[i]
      BY DEF BadCaptures, Held
    <3>2. QED
      BY <1>2, <1>3, <3>1
  <2>2. QED
    BY <2>1
<1>6. QuietsHeld(k) \subseteq Every(k)
  <2>1. ASSUME NEW m \in QuietsHeld(k) PROVE m \in Every(k)
    <3>1. PICK i \in k.endCaptures .. k.endGenerated - 1 : m = k.moves[i]
      BY DEF QuietsHeld, Held
    <3>2. QED
      BY <1>2, <1>4, <3>1
  <2>2. QED
    BY <2>1
<1>7. \A m \in BadCaptures(k) : ClassOf(n, m) = 3 /\ m \notin ToSet(n.quiets)
  BY <1>1, ClassIs
<1>8. ASSUME NEW m \in BadQuiets(n, k) PROVE ClassOf(n, m) = 4 /\ m \in ToSet(n.quiets)
  <2>1. m \in QuietsHeld(k) /\ m \notin Good(n, k)
    BY DEF BadQuiets
  <2>2. m \in ToSet(n.quiets) /\ ~(n.value[m] > goodQuietThreshold)
    BY <1>1, <1>2, <1>6, <2>1
  <2>3. QED
    BY <2>2, ClassIs
<1>9. k.stage = "BAD_QUIET" \/ k.stage = "BAD_CAPTURE" \/ k.stage = "GOOD_QUIET" => k.stage # "TT" /\ k.stage # InitStage(n)
  BY StagesDiffer
<1>10. QED
  BY <1>1, <1>3, <1>4, <1>5, <1>6, <1>7, <1>8, <1>9

LEMMA BadCaptureGives ==
  ASSUME NEW n \in PickSetups, NEW k, InBadCaptures(n, k)
  PROVE  Gives(n, k, BadCapture(n, k))
<1> DEFINE pass == Every(k)
           rest == IF k.skipQuiets THEN {} ELSE BadQuiets(n, k)
           r == Select(n, k, pass)
           g == GoesTo(k, k.endCur)
           y == At(g, "BAD_QUIET", k.endCaptures, k.endGenerated)
<1>1. /\ InBad(n, k) /\ k.stage = "BAD_CAPTURE" /\ ArrayRight(n, k) /\ k.endCur = k.endBadCaptures
      /\ k \in PickerType(n) /\ k.stage # "TT" /\ k.stage # InitStage(n) /\ n.kind = "main"
  BY BadIs DEF InBadCaptures
<1>2. /\ k.cur \in Int /\ k.endCur \in Int /\ k.cur >= 1 /\ k.cur <= k.endCur /\ Len(k.moves) \in Nat
      /\ k.endCaptures \in Int /\ k.endGenerated \in Int /\ k.endBadCaptures \in Int
  BY <1>1, TypeOfMoves DEF ArrayRight
<1>3. \A c \in k.cur .. k.endCur, i \in Int : i \in c .. k.endCur - 1 => i \in 1 .. k.endBadCaptures - 1
  BY <1>1, <1>2
<1>4. \A c \in k.cur .. k.endCur : Held(k.moves, c, k.endCur - 1) \subseteq BadCaptures(k)
  BY <1>3 DEF Held, BadCaptures
<1>5. BadCaptures(k) \cap BadQuiets(n, k) = {} /\ BadCaptures(k) \cap ToSet(n.quiets) = {} /\ BadQuiets(n, k) \subseteq ToSet(n.quiets)
  BY <1>1, BadIs
<1>6. ASSUME NEW c \in k.cur .. k.endCur
      PROVE  /\ PickerInv(n, GoesTo(k, c))
             /\ Todo(n, GoesTo(k, c)) = (Held(k.moves, c, k.endCur - 1) \cap (pass \ {n.ttMove})) \cup rest
  <2> DEFINE x == GoesTo(k, c)
  <2>1. c \in Int /\ 1 <= c /\ c <= k.endCur
    BY <1>2
  <2>2. /\ x.stage = k.stage /\ x.endCur = k.endCur /\ x.endBadCaptures = k.endBadCaptures /\ x.skipQuiets = k.skipQuiets
    BY <1>1, <2>1, GoesToIs
  <2>3. Ahead(n, x, pass) = Held(k.moves, c, k.endCur - 1) \cap (pass \ {n.ttMove})
    <3> HIDE DEF pass
    <3> QED BY <1>1, <2>1, GoesToKeeps
  <2>4. Every(x) = Every(k) /\ BadQuiets(n, x) = BadQuiets(n, k) /\ InBad(n, x) /\ ArrayRight(n, x)
    BY <1>1, <2>1, GoesToKeeps
  <2> HIDE DEF x
  <2>5. InBadCaptures(n, x)
    BY <1>1, <2>2, <2>4 DEF InBadCaptures
  <2>6. Pending(n, x) = Ahead(n, x, pass) \cup BadQuiets(n, k)
    BY <1>1, <2>2, <2>4 DEF Pending
  <2>7. Ahead(n, x, pass) \subseteq BadCaptures(k)
    BY <1>4, <2>3
  <2>8. Todo(n, x) = Ahead(n, x, pass) \cup rest
    <3> HIDE DEF pass
    <3> QED BY <1>5, <2>2, <2>6, <2>7 DEF Todo
  <2>9. QED
    BY <2>3, <2>5, <2>8 DEF PickerInv, x
<1>7. Todo(n, k) = Ahead(n, k, pass) \cup rest /\ Ahead(n, k, pass) \cap rest = {}
  <2>1. k.cur \in k.cur .. k.endCur
    BY <1>2
  <2>2. Ahead(n, k, pass) \subseteq BadCaptures(k)
    BY <1>4, <2>1 DEF Ahead
  <2>3. Pending(n, k) = Ahead(n, k, pass) \cup BadQuiets(n, k)
    BY <1>1 DEF Pending
  <2> HIDE DEF pass
  <2>4. QED
    BY <1>5, <2>2, <2>3 DEF Todo
<1>8. ASSUME NEW i \in k.cur .. k.endCur - 1, NEW j \in k.cur .. k.endCur - 1, i < j
      PROVE  Precedes(n, k.moves[i], k.moves[j])
  <2>1. i \in 1 .. k.endBadCaptures - 1 /\ j \in 1 .. k.endBadCaptures - 1
    BY <1>1, <1>2
  <2>2. \A m \in {k.moves[i], k.moves[j]} : m \in BadCaptures(k)
    BY <1>1, <2>1, BadIs
  <2>3. \A m \in {k.moves[i], k.moves[j]} : m \in ToSet(n.captures) /\ m \notin ToSet(n.quiets) /\ ClassOf(n, m) = 3
    BY <1>1, <2>2, BadIs
  <2>4. n.value[k.moves[j]] >= NoLimit
    BY <2>3, SetupIs DEF MovesOf
  <2>5. n.value[k.moves[i]] >= n.value[k.moves[j]]
    BY <1>1, <1>8, <2>1, <2>4, BadIs DEF Falls
  <2>6. QED
    BY <1>1, <2>3, <2>5, SameClass
<1>9. ASSUME NEW a \in Ahead(n, k, pass), NEW b \in rest PROVE Precedes(n, a, b)
  <2>1. a \in BadCaptures(k)
    <3>1. k.cur \in k.cur .. k.endCur
      BY <1>2
    <3>2. QED
      BY <1>4, <3>1 DEF Ahead
  <2>2. ClassOf(n, a) = 3 /\ ClassOf(n, b) = 4
    BY <1>1, <2>1, BadIs
  <2>3. QED
    BY <1>1, <2>2, LowerClass
<1>10. Selects(n, k, pass, rest)
  <2> HIDE DEF pass, rest
  <2> QED BY <1>1, <1>6, <1>7, <1>8, <1>9 DEF Selects
<1>11. \/ r.move = NoneLeft /\ r.picker = g /\ Todo(n, k) = rest
       \/ r.move # NoneLeft /\ Gives(n, k, r)
  <2> HIDE DEF pass, rest
  <2> QED BY <1>10, SelectGives
<1>12. CASE r.move # NoneLeft /\ Gives(n, k, r)
  <2>1. BadCapture(n, k) = r
    BY <1>12 DEF BadCapture
  <2>2. QED
    BY <1>12, <2>1
<1>13. CASE r.move = NoneLeft /\ r.picker = g /\ Todo(n, k) = rest
  <2>1. BadCapture(n, k) = BadQuiet(n, y)
    BY <1>13 DEF BadCapture, At
  <2>2. /\ g \in PickerType(n) /\ g.moves = k.moves /\ g.skipQuiets = k.skipQuiets /\ g.endCaptures = k.endCaptures
        /\ g.endGenerated = k.endGenerated
    BY <1>1, <1>2, GoesToIs
  <2>3. InBad(n, g) /\ Every(g) = Every(k) /\ Good(n, g) = Good(n, k) /\ BadQuiets(n, g) = BadQuiets(n, k) /\ QuietsHeld(g) = QuietsHeld(k)
    BY <1>1, <1>2, GoesToKeeps
  <2>0. y = At(g, "BAD_QUIET", k.endCaptures, k.endGenerated) /\ "BAD_QUIET" \in Stages
    BY DEF Stages
  <2> HIDE DEF g, y
  <2>4. /\ y \in PickerType(n) /\ y.stage = "BAD_QUIET" /\ y.cur = k.endCaptures /\ y.endCur = k.endGenerated /\ y.moves = k.moves
        /\ y.endCaptures = k.endCaptures /\ y.endGenerated = k.endGenerated /\ y.skipQuiets = k.skipQuiets
    BY <1>2, <2>2, <2>0, AtIs
  <2>5. /\ Every(y) = Every(k) /\ Good(n, y) = Good(n, k) /\ BadQuiets(n, y) = BadQuiets(n, k) /\ QuietsHeld(y) = QuietsHeld(k)
        /\ InBad(n, y)
        /\ \A p : Ahead(n, y, p) = Held(k.moves, k.endCaptures, k.endGenerated - 1) \cap (p \ {n.ttMove})
    BY <1>2, <2>2, <2>3, <2>0, AtKeeps
  <2>6. InBadQuiets(n, y)
    <3>1. ~y.skipQuiets => ArrayRight(n, y)
      BY <1>1, <1>2, <2>4, BadIs DEF ArrayRight
    <3>2. k.endCaptures <= k.endCaptures
      BY <1>2
    <3>3. QED
      BY <2>4, <2>5, <3>1, <3>2 DEF InBadQuiets
  <2>7. Todo(n, y) = Todo(n, k)
    <3>1. Pending(n, y) = QuietsHeld(k) \cap ((Every(k) \ Good(n, k)) \ {n.ttMove})
      BY <2>4, <2>5, <2>6, BadIs DEF Pending, QuietsHeld
    <3>2. Pending(n, y) = BadQuiets(n, k)
      BY <1>1, <3>1, BadIs DEF BadQuiets
    <3>3. QED
      BY <1>5, <1>13, <2>4, <3>2 DEF Todo
  <2>8. QED
    BY <2>1, <2>4, <2>6, <2>7, BadQuietGives, GivesFrom
<1>14. QED
  BY <1>11, <1>12, <1>13

LEMMA GoodQuietGives ==
  ASSUME NEW n \in PickSetups, NEW k, InGoodQuiets(n, k)
  PROVE  Gives(n, k, GoodQuiet(n, k))
<1> DEFINE pass == Good(n, k)
           rest == BadCaptures(k) \cup BadQuiets(n, k)
           s == Select(n, k, pass)
           r == IF k.skipQuiets THEN Picked(k, NoneLeft) ELSE s
           next(g) == At(g, "BAD_CAPTURE", 1, k.endBadCaptures)
<1>1. /\ InBad(n, k) /\ k.stage = "GOOD_QUIET" /\ k \in PickerType(n) /\ k.stage # "TT" /\ k.stage # InitStage(n) /\ n.kind = "main"
      /\ Held(k.moves, k.cur, k.endCur - 1) \subseteq ToSet(n.quiets)
  BY BadIs DEF InGoodQuiets
<1>2. /\ k.cur \in Int /\ k.endCur \in Int /\ Len(k.moves) \in Nat
      /\ k.endCaptures \in Int /\ k.endGenerated \in Int /\ k.endBadCaptures \in Int
  BY <1>1, TypeOfMoves
<1>3. /\ BadCaptures(k) \cap BadQuiets(n, k) = {} /\ BadCaptures(k) \cap ToSet(n.quiets) = {}
      /\ BadQuiets(n, k) \subseteq ToSet(n.quiets) /\ BadCaptures(k) \cap {n.ttMove} = {} /\ BadCaptures(k) \subseteq Every(k)
  BY <1>1, BadIs
<1>4. Pending(n, k) = Ahead(n, k, pass) \cup rest /\ Ahead(n, k, pass) \subseteq ToSet(n.quiets)
  BY <1>1 DEF Pending, Ahead
<1>5. ASSUME ~k.skipQuiets
      PROVE  \/ r.move = NoneLeft /\ r.picker = GoesTo(k, k.endCur) /\ Todo(n, k) = rest
             \/ r.move # NoneLeft /\ r = s /\ Gives(n, k, s)
  <2>1. ArrayRight(n, k) /\ 1 <= k.cur /\ k.cur <= k.endCur /\ k.endCaptures <= k.cur /\ k.endCur = k.endGenerated
    BY <1>5 DEF InGoodQuiets, ArrayRight
  <2>2. ASSUME NEW c \in k.cur .. k.endCur
        PROVE  /\ PickerInv(n, GoesTo(k, c))
               /\ Todo(n, GoesTo(k, c)) = (Held(k.moves, c, k.endCur - 1) \cap (pass \ {n.ttMove})) \cup rest
    <3> DEFINE x == GoesTo(k, c)
    <3>1. c \in Int /\ 1 <= c /\ c <= k.endCur /\ k.endCaptures <= c /\ k.cur <= c
      BY <1>2, <2>1
    <3>2. /\ x.stage = k.stage /\ x.cur = c /\ x.endCur = k.endCur /\ x.skipQuiets = k.skipQuiets /\ x.moves = k.moves
          /\ x.endCaptures = k.endCaptures /\ x.endGenerated = k.endGenerated
      BY <1>1, <3>1, GoesToIs
    <3>3. Ahead(n, x, pass) = Held(k.moves, c, k.endCur - 1) \cap (pass \ {n.ttMove})
      <4> HIDE DEF pass
      <4> QED BY <1>1, <3>1, GoesToKeeps
    <3>4. Good(n, x) = Good(n, k) /\ BadCaptures(x) = BadCaptures(k) /\ BadQuiets(n, x) = BadQuiets(n, k)
      BY <1>1, <3>1, GoesToKeeps
    <3>5. InBad(n, x) /\ ArrayRight(n, x)
      BY <1>1, <2>1, <3>1, GoesToKeeps
    <3> HIDE DEF x
    <3>6. Held(x.moves, x.cur, x.endCur - 1) \subseteq ToSet(n.quiets)
      <4>1. \A i \in c .. k.endCur - 1 : i \in k.cur .. k.endCur - 1
        BY <1>2, <3>1
      <4>2. QED
        BY <1>1, <3>2, <4>1 DEF Held
    <3>7. InGoodQuiets(n, x)
      BY <1>1, <2>1, <3>1, <3>2, <3>5, <3>6 DEF InGoodQuiets
    <3>8. Todo(n, x) = Ahead(n, x, pass) \cup rest
      BY <1>1, <1>5, <3>2, <3>4 DEF Todo, Pending
    <3>9. QED
      BY <3>3, <3>7, <3>8 DEF PickerInv, x
  <2>3. Todo(n, k) = Ahead(n, k, pass) \cup rest /\ Ahead(n, k, pass) \cap rest = {}
    <3>1. Ahead(n, k, pass) \cap BadQuiets(n, k) = {}
      BY DEF Ahead, BadQuiets
    <3> HIDE DEF pass
    <3>2. QED
      BY <1>3, <1>4, <1>5, <3>1 DEF Todo
  <2>4. ASSUME NEW m \in pass, m \in ToSet(n.quiets) PROVE ClassOf(n, m) = 2 /\ m \notin ToSet(n.captures)
    <3>1. n.value[m] > goodQuietThreshold
      BY <1>1, TypeOfMoves
    <3>2. QED
      BY <2>4, <3>1, ClassIs
  <2>5. ASSUME NEW i \in k.cur .. k.endCur - 1, NEW j \in k.cur .. k.endCur - 1, i < j, k.moves[i] \in pass, k.moves[j] \in pass
        PROVE  Precedes(n, k.moves[i], k.moves[j])
    <3>1. i \in k.endCaptures .. k.endGenerated - 1 /\ j \in k.endCaptures .. k.endGenerated - 1
      BY <1>2, <2>1
    <3>2. k.moves[i] \in ToSet(n.quiets) /\ k.moves[j] \in ToSet(n.quiets)
      BY <1>1 DEF Held
    <3>3. /\ ClassOf(n, k.moves[i]) = 2 /\ ClassOf(n, k.moves[j]) = 2
          /\ k.moves[i] \notin ToSet(n.captures)
      <4> HIDE DEF pass
      <4> QED BY <2>4, <2>5, <3>2
    <3>4. n.value[k.moves[j]] >= SortLimit => n.value[k.moves[i]] >= n.value[k.moves[j]]
      BY <1>1, <2>5, <3>1, BadIs DEF Falls
    <3>5. QED
      BY <1>1, <3>3, <3>4, SameClass
  <2>6. ASSUME NEW a \in Ahead(n, k, pass), NEW b \in rest PROVE Precedes(n, a, b)
    <3>1. ClassOf(n, a) = 2
      <4>1. a \in pass /\ a \in ToSet(n.quiets)
        BY <1>4 DEF Ahead
      <4> HIDE DEF pass
      <4>2. QED
        BY <2>4, <4>1
    <3>2. ClassOf(n, b) = 3 \/ ClassOf(n, b) = 4
      BY <1>1, BadIs
    <3>3. QED
      BY <1>1, <3>1, <3>2, LowerClass
  <2>7. Selects(n, k, pass, rest)
    <3> HIDE DEF pass, rest
    <3> QED BY <1>1, <2>1, <2>2, <2>3, <2>5, <2>6 DEF Selects
  <2>8. \/ s.move = NoneLeft /\ s.picker = GoesTo(k, k.endCur) /\ Todo(n, k) = rest
        \/ s.move # NoneLeft /\ Gives(n, k, s)
    <3> HIDE DEF pass, rest
    <3> QED BY <2>7, SelectGives
  <2>9. r = s
    BY <1>5
  <2>10. QED
    BY <2>8, <2>9
<1>6. ASSUME k.skipQuiets
      PROVE  r.move = NoneLeft /\ r.picker = k /\ Todo(n, k) = rest \ ToSet(n.quiets)
  <2>1. r.move = NoneLeft /\ r.picker = k
    BY <1>6, PickedIs
  <2>2. Todo(n, k) = rest \ ToSet(n.quiets)
    BY <1>4, <1>6 DEF Todo
  <2>3. QED
    BY <2>1, <2>2
<1>7. CASE r.move # NoneLeft
  <2>1. GoodQuiet(n, k) = s /\ Gives(n, k, s)
    <3>1. ~k.skipQuiets
      BY <1>6, <1>7
    <3>2. GoodQuiet(n, k) = s
      BY <1>7, <3>1 DEF GoodQuiet
    <3>3. QED
      BY <1>5, <1>7, <3>1, <3>2
  <2>2. QED
    BY <2>1
<1>8. CASE r.move = NoneLeft
  <2> DEFINE g == r.picker  y == next(g)
  <2>1. GoodQuiet(n, k) = BadCapture(n, y)
    BY <1>8 DEF GoodQuiet, At
  <2>2. g = k \/ g = GoesTo(k, k.endCur)
    BY <1>5, <1>6, <1>8
  <2> HIDE DEF g
  <2>3. g \in PickerType(n) /\ g.moves = k.moves /\ g.skipQuiets = k.skipQuiets /\ g.endBadCaptures = k.endBadCaptures
    <3> DEFINE x == GoesTo(k, k.endCur)
    <3>1. x \in PickerType(n) /\ x.moves = k.moves /\ x.skipQuiets = k.skipQuiets /\ x.endBadCaptures = k.endBadCaptures
      BY <1>1, <1>2, GoesToIs
    <3> HIDE DEF x
    <3>2. g = k \/ g = x
      BY <2>2 DEF x
    <3>3. QED
      BY <1>1, <3>1, <3>2
  <2>4. /\ InBad(n, g) /\ Every(g) = Every(k) /\ BadQuiets(n, g) = BadQuiets(n, k) /\ BadCaptures(g) = BadCaptures(k)
    BY <1>1, <1>2, <2>2, GoesToKeeps
  <2>5. y = At(g, "BAD_CAPTURE", 1, k.endBadCaptures) /\ "BAD_CAPTURE" \in Stages
    BY DEF Stages
  <2> HIDE DEF y
  <2>6. /\ y \in PickerType(n) /\ y.stage = "BAD_CAPTURE" /\ y.cur = 1 /\ y.endCur = k.endBadCaptures /\ y.moves = k.moves
        /\ y.skipQuiets = k.skipQuiets /\ y.endBadCaptures = k.endBadCaptures
    <3> DEFINE e == k.endBadCaptures  z == At(g, "BAD_CAPTURE", 1, e)
    <3>1. e \in Int /\ g \in PickerType(n) /\ "BAD_CAPTURE" \in Stages /\ y = z
      BY <1>2, <2>3, <2>5
    <3> HIDE DEF e
    <3>2. /\ z \in PickerType(n) /\ z.stage = "BAD_CAPTURE" /\ z.cur = 1 /\ z.endCur = e /\ z.moves = g.moves
          /\ z.skipQuiets = g.skipQuiets /\ z.endBadCaptures = g.endBadCaptures
      <4> DEFINE stage == "BAD_CAPTURE"
      <4>1. stage \in Stages
        BY <3>1
      <4> HIDE DEF stage, z
      <4>2. z = At(g, stage, 1, e)
        BY DEF z, stage
      <4>3. /\ z \in PickerType(n) /\ z.stage = stage /\ z.cur = 1 /\ z.endCur = e /\ z.moves = g.moves
            /\ z.skipQuiets = g.skipQuiets /\ z.endBadCaptures = g.endBadCaptures
        BY <3>1, <4>1, <4>2, AtIs
      <4>4. QED
        BY <4>3 DEF stage
    <3> HIDE DEF z
    <3>3. QED
      BY <2>3, <3>1, <3>2 DEF e
  <2>7. /\ Every(y) = Every(k) /\ BadQuiets(n, y) = BadQuiets(n, k) /\ BadCaptures(y) = BadCaptures(k) /\ InBad(n, y)
        /\ \A p : Ahead(n, y, p) = Held(k.moves, 1, k.endBadCaptures - 1) \cap (p \ {n.ttMove})
    BY <1>2, <2>3, <2>4, <2>5, AtKeeps
  <2>8. InBadCaptures(n, y)
    <3>1. ArrayRight(n, y)
      <4>1. Distinct(Len(k.moves), k.moves)
        BY <1>1 DEF InBad
      <4>2. 1 <= k.endBadCaptures /\ k.endBadCaptures <= Len(k.moves) + 1
        BY <1>1, <1>2, BadIs
      <4>3. QED
        BY <2>6, <4>1, <4>2 DEF ArrayRight
    <3>2. QED
      BY <2>6, <2>7, <3>1 DEF InBadCaptures
  <2>9. Todo(n, y) = Todo(n, k)
    <3>1. Pending(n, y) = (BadCaptures(k) \cap (Every(k) \ {n.ttMove})) \cup BadQuiets(n, k)
      BY <2>6, <2>7, BadIs DEF Pending, BadCaptures
    <3>2. Pending(n, y) = rest
      BY <1>3, <3>1
    <3>3. CASE k.skipQuiets
      BY <1>6, <2>6, <3>2, <3>3, <1>4 DEF Todo
    <3>4. CASE ~k.skipQuiets
      <4>1. Todo(n, k) = rest
        BY <1>5, <1>8, <3>4
      <4>2. QED
        BY <2>6, <3>2, <3>4, <4>1 DEF Todo
    <3>5. QED
      BY <3>3, <3>4
  <2>10. QED
    BY <2>1, <2>6, <2>8, <2>9, BadCaptureGives, GivesFrom
<1>9. QED
  BY <1>7, <1>8

\* When the captures are through, the quiet moves go behind them.
CapturesDone(n, k) ==
  /\ n.kind = "main" /\ k \in PickerType(n) /\ Distinct(Len(k.moves), k.moves)
  /\ k.cur = Len(k.moves) + 1 /\ k.endCur = k.cur /\ k.endCaptures = k.cur /\ k.endGenerated = 1
  /\ 1 <= k.endBadCaptures /\ k.endBadCaptures <= k.cur
  /\ Held(k.moves, 1, Len(k.moves)) \subseteq ToSet(n.captures)
  /\ BadCaptures(k) \cap (n.good \cup {n.ttMove}) = {}
  /\ Falls(n.value, NoLimit, k.moves, 1, k.endBadCaptures - 1)

\* Of two arrays without a common move, one behind the other.
Joined(M, a, b, c) ==
  /\ c \in Seq(M) /\ Len(c) = Len(a) + Len(b) /\ Distinct(Len(c), c)
  /\ \A i \in 1 .. Len(a) : c[i] = a[i]
  /\ \A i \in 1 .. Len(b) : c[Len(a) + i] = b[i]

LEMMA Appended ==
  ASSUME NEW M, NEW a \in Seq(M), NEW b \in Seq(M), Distinct(Len(a), a), Distinct(Len(b), b),
         Held(a, 1, Len(a)) \cap Held(b, 1, Len(b)) = {}, NEW c, c = a \o b
  PROVE  Joined(M, a, b, c)
<1>1. c \in Seq(M) /\ Len(c) = Len(a) + Len(b) /\ Len(a) \in Nat /\ Len(b) \in Nat
  OBVIOUS
<1>2. \A i \in 1 .. Len(a) : c[i] = a[i]
  OBVIOUS
<1>3. \A i \in 1 .. Len(b) : c[Len(a) + i] = b[i]
  OBVIOUS
<1>4. ASSUME NEW i \in 1 .. Len(c), NEW j \in 1 .. Len(c), c[i] = c[j] PROVE i = j
  <2>1. \A q \in 1 .. Len(a) : a[q] \in Held(a, 1, Len(a))
    BY DEF Held
  <2>2. \A q \in 1 .. Len(b) : b[q] \in Held(b, 1, Len(b))
    BY DEF Held
  <2>3. \A q \in 1 .. Len(c) : q \notin 1 .. Len(a) => q - Len(a) \in 1 .. Len(b) /\ Len(a) + (q - Len(a)) = q
    BY <1>1
  <2>4. CASE i \in 1 .. Len(a) /\ j \in 1 .. Len(a)
    BY <1>2, <1>4, <2>4 DEF Distinct
  <2>5. CASE i \in 1 .. Len(a) /\ j \notin 1 .. Len(a)
    <3>1. c[i] = a[i] /\ c[j] = b[j - Len(a)] /\ j - Len(a) \in 1 .. Len(b)
      BY <1>2, <1>3, <2>3, <2>5
    <3>2. QED
      BY <1>4, <2>1, <2>2, <2>5, <3>1
  <2>6. CASE i \notin 1 .. Len(a) /\ j \in 1 .. Len(a)
    <3>1. c[j] = a[j] /\ c[i] = b[i - Len(a)] /\ i - Len(a) \in 1 .. Len(b)
      BY <1>2, <1>3, <2>3, <2>6
    <3>2. QED
      BY <1>4, <2>1, <2>2, <2>6, <3>1
  <2>7. CASE i \notin 1 .. Len(a) /\ j \notin 1 .. Len(a)
    <3>1. c[j] = b[j - Len(a)] /\ c[i] = b[i - Len(a)] /\ i - Len(a) \in 1 .. Len(b) /\ j - Len(a) \in 1 .. Len(b)
      BY <1>3, <2>3, <2>7
    <3>2. i - Len(a) = j - Len(a)
      BY <1>4, <3>1 DEF Distinct
    <3>3. QED
      BY <1>1, <3>2
  <2>8. QED
    BY <2>4, <2>5, <2>6, <2>7
<1>5. Distinct(Len(c), c)
  BY <1>4 DEF Distinct
<1>6. QED
  BY <1>1, <1>2, <1>3, <1>5 DEF Joined

\* The picker that GOOD_QUIET starts with.
QuietsBehind(k, moves, end) == [k EXCEPT !.stage = "GOOD_QUIET", !.moves = moves, !.endCur = end, !.endGenerated = end]

LEMMA QuietsAppended ==
  ASSUME NEW n \in PickSetups, NEW k, CapturesDone(n, k), ~k.skipQuiets,
         NEW quiets, Sorted(n.quiets, n.value, SortLimit, quiets),
         NEW y, y = QuietsBehind(k, k.moves \o quiets, k.cur + Len(quiets))
  PROVE  InGoodQuiets(n, y) /\ y.skipQuiets = k.skipQuiets /\ Todo(n, y) = BadCaptures(k) \cup (ToSet(n.quiets) \ {n.ttMove})
<1> DEFINE L == Len(k.moves)  Q == Len(quiets)  moves == k.moves \o quiets
<1>1. /\ n.kind = "main" /\ k \in PickerType(n) /\ Distinct(L, k.moves) /\ L \in Nat /\ k.moves \in Seq(MovesOf(n))
      /\ k.cur = L + 1 /\ k.endCaptures = L + 1
      /\ 1 <= k.endBadCaptures /\ k.endBadCaptures <= L + 1 /\ k.endBadCaptures \in Int
      /\ Held(k.moves, 1, L) \subseteq ToSet(n.captures)
      /\ BadCaptures(k) \cap (n.good \cup {n.ttMove}) = {}
      /\ Falls(n.value, NoLimit, k.moves, 1, k.endBadCaptures - 1)
  BY DEF CapturesDone, PickerType
<1>2. /\ quiets \in Seq(ToSet(n.quiets)) /\ Distinct(Q, quiets) /\ Held(quiets, 1, Q) = ToSet(n.quiets)
      /\ Falls(n.value, SortLimit, quiets, 1, Q)
  BY DEF Sorted
<1>3. quiets \in Seq(MovesOf(n)) /\ Q \in Nat
  BY <1>2 DEF MovesOf
<1>4. Held(k.moves, 1, L) \cap Held(quiets, 1, Q) = {}
  BY <1>1, <1>2, SetupIs
<1>5. /\ moves \in Seq(MovesOf(n)) /\ Len(moves) = L + Q /\ Distinct(Len(moves), moves)
      /\ \A i \in 1 .. L : moves[i] = k.moves[i]
      /\ \A i \in 1 .. Q : moves[L + i] = quiets[i]
  <2> DEFINE A == k.moves
  <2>1. /\ A \in Seq(MovesOf(n)) /\ quiets \in Seq(MovesOf(n)) /\ Distinct(Len(A), A) /\ Distinct(Len(quiets), quiets)
        /\ Held(A, 1, Len(A)) \cap Held(quiets, 1, Len(quiets)) = {} /\ moves = A \o quiets
    BY <1>1, <1>2, <1>3, <1>4
  <2> HIDE DEF A, moves
  <2>2. Joined(MovesOf(n), A, quiets, moves)
    BY <2>1, Appended
  <2>3. QED
    BY <2>2 DEF A, Joined
<1>6. y = QuietsBehind(k, moves, L + 1 + Q)
  BY <1>1
<1> HIDE DEF moves, L, Q
<1>7. /\ y \in PickerType(n) /\ y.stage = "GOOD_QUIET" /\ y.moves = moves /\ y.cur = L + 1 /\ y.endCur = L + 1 + Q
      /\ y.endGenerated = L + 1 + Q /\ y.endCaptures = L + 1 /\ y.endBadCaptures = k.endBadCaptures
      /\ y.skipQuiets = k.skipQuiets
  <2>1. "GOOD_QUIET" \in Stages /\ L + 1 + Q \in Int
    BY <1>1, <1>3 DEF Stages
  <2>2. QED
    BY <1>1, <1>5, <1>6, <2>1 DEF QuietsBehind, PickerType
<1>8. BadCaptures(y) = BadCaptures(k)
  <2>1. \A i \in 1 .. k.endBadCaptures - 1 : i \in 1 .. L
    BY <1>1
  <2>2. QED
    BY <1>5, <1>7, <2>1 DEF BadCaptures, Held
<1>9. Held(moves, L + 1, L + Q) = ToSet(n.quiets)
  <2>1. \A i \in L + 1 .. L + Q : i - L \in 1 .. Q /\ L + (i - L) = i
    BY <1>1, <1>3
  <2>2. \A i \in 1 .. Q : L + i \in L + 1 .. L + Q
    BY <1>1, <1>3
  <2>3. Held(moves, L + 1, L + Q) \subseteq Held(quiets, 1, Q)
    BY <1>5, <2>1 DEF Held
  <2>4. Held(quiets, 1, Q) \subseteq Held(moves, L + 1, L + Q)
    BY <1>5, <2>2 DEF Held
  <2>5. QED
    BY <1>2, <2>3, <2>4
<1>10. L + 1 + Q - 1 = L + Q /\ L + Q + 1 = L + 1 + Q
  BY <1>1, <1>3
<1>11. QuietsHeld(y) = ToSet(n.quiets) /\ Held(y.moves, y.cur, y.endCur - 1) = ToSet(n.quiets) /\ y.endGenerated - 1 = L + Q
  <2>1. y.endGenerated - 1 = L + Q /\ y.endCur - 1 = L + Q
    BY <1>1, <1>3, <1>7
  <2>2. QED
    BY <1>7, <1>9, <2>1 DEF QuietsHeld
<1>12. Falls(n.value, SortLimit, moves, L + 1, L + Q)
  <2>1. SUFFICES ASSUME NEW i \in L + 1 .. L + Q, NEW j \in L + 1 .. L + Q, i < j, n.value[moves[j]] >= SortLimit
                 PROVE  n.value[moves[i]] >= n.value[moves[j]]
    BY DEF Falls
  <2>2. /\ i - L \in 1 .. Q /\ L + (i - L) = i /\ j - L \in 1 .. Q /\ L + (j - L) = j /\ i - L < j - L
    BY <1>1, <1>3, <2>1
  <2>3. moves[i] = quiets[i - L] /\ moves[j] = quiets[j - L]
    BY <1>5, <2>2
  <2>4. QED
    BY <1>2, <2>1, <2>2, <2>3 DEF Falls
<1>13. Falls(n.value, NoLimit, moves, 1, k.endBadCaptures - 1)
  <2>1. \A i \in 1 .. k.endBadCaptures - 1 : moves[i] = k.moves[i]
    <3>1. \A i \in 1 .. k.endBadCaptures - 1 : i \in 1 .. L
      BY <1>1
    <3>2. QED
      BY <1>5, <3>1
  <2>2. QED
    BY <1>1, <2>1 DEF Falls
<1>14. BadCaptures(k) \subseteq ToSet(n.captures)
  <2>1. \A i \in 1 .. k.endBadCaptures - 1 : i \in 1 .. L
    BY <1>1
  <2>2. QED
    BY <1>1, <2>1 DEF BadCaptures, Held
<1>15. InBad(n, y)
  <2>1. Distinct(Len(y.moves), y.moves) /\ Len(y.moves) = L + Q
    BY <1>5, <1>7
  <2>2. /\ 1 <= y.endBadCaptures /\ y.endBadCaptures <= y.endCaptures /\ y.endCaptures <= Len(y.moves) + 1
        /\ y.endGenerated <= Len(y.moves) + 1 /\ y.endCaptures <= y.endGenerated
    BY <1>1, <1>3, <1>7, <2>1
  <2>3. BadCaptures(y) \subseteq ToSet(n.captures) \ (n.good \cup {n.ttMove})
    BY <1>1, <1>8, <1>14
  <2>4. Falls(n.value, NoLimit, y.moves, 1, y.endBadCaptures - 1)
    BY <1>7, <1>13
  <2>5. Falls(n.value, SortLimit, y.moves, y.endCaptures, y.endGenerated - 1)
    BY <1>7, <1>11, <1>12
  <2>6. QuietsHeld(y) \subseteq ToSet(n.quiets)
    BY <1>11
  <2>7. QED
    BY <1>1, <1>7, <2>1, <2>2, <2>3, <2>4, <2>5, <2>6 DEF InBad
<1>16. InGoodQuiets(n, y)
  <2>1. ArrayRight(n, y)
    <3>1. 1 <= y.cur /\ y.cur <= y.endCur /\ y.endCur <= Len(y.moves) + 1 /\ Distinct(Len(y.moves), y.moves)
      <4>1. Len(y.moves) = L + Q /\ Distinct(Len(y.moves), y.moves)
        BY <1>5, <1>7
      <4>2. QED
        BY <1>1, <1>3, <1>7, <4>1
    <3>2. QED
      BY <1>7, <3>1 DEF ArrayRight
  <2>2. y.endCaptures <= y.cur /\ y.endCur = y.endGenerated
    BY <1>1, <1>7
  <2>3. QED
    BY <1>7, <1>11, <1>15, <2>1, <2>2 DEF InGoodQuiets
<1>17. Todo(n, y) = BadCaptures(k) \cup (ToSet(n.quiets) \ {n.ttMove})
  <2>1. Todo(n, y) = Ahead(n, y, Good(n, y)) \cup BadCaptures(y) \cup BadQuiets(n, y)
    BY <1>7, <1>15, BadIs DEF Todo, Pending
  <2>2. Ahead(n, y, Good(n, y)) = ToSet(n.quiets) \cap (Good(n, y) \ {n.ttMove})
    BY <1>11 DEF Ahead
  <2>3. BadQuiets(n, y) = ToSet(n.quiets) \ (Good(n, y) \cup {n.ttMove})
    BY <1>11 DEF BadQuiets
  <2>4. QED
    BY <1>8, <2>1, <2>2, <2>3
<1>18. QED
  BY <1>7, <1>16, <1>17

LEMMA QuietsSkipped ==
  ASSUME NEW n \in PickSetups, NEW k, CapturesDone(n, k), k.skipQuiets, NEW y, y = [k EXCEPT !.stage = "GOOD_QUIET"]
  PROVE  InGoodQuiets(n, y) /\ y.skipQuiets = k.skipQuiets /\ Todo(n, y) = BadCaptures(k)
<1> DEFINE L == Len(k.moves)
<1>1. /\ n.kind = "main" /\ k \in PickerType(n) /\ Distinct(L, k.moves) /\ L \in Nat
      /\ k.cur = L + 1 /\ k.endCur = L + 1 /\ k.endCaptures = L + 1 /\ k.endGenerated = 1
      /\ 1 <= k.endBadCaptures /\ k.endBadCaptures <= L + 1 /\ k.endBadCaptures \in Int
      /\ Held(k.moves, 1, L) \subseteq ToSet(n.captures)
      /\ BadCaptures(k) \cap (n.good \cup {n.ttMove}) = {}
      /\ Falls(n.value, NoLimit, k.moves, 1, k.endBadCaptures - 1)
  BY DEF CapturesDone, PickerType
<1>2. "GOOD_QUIET" \in Stages
  BY DEF Stages
<1>3. /\ y \in PickerType(n) /\ y.stage = "GOOD_QUIET" /\ y.moves = k.moves /\ y.cur = L + 1 /\ y.endCur = L + 1
      /\ y.endGenerated = 1 /\ y.endCaptures = L + 1 /\ y.endBadCaptures = k.endBadCaptures
      /\ y.skipQuiets = k.skipQuiets
  BY <1>1, <1>2 DEF PickerType
<1> HIDE DEF L
<1>4. y.endGenerated - 1 = 0 /\ y.endCur - 1 = L /\ L + 1 .. 0 = {} /\ L + 1 .. L = {}
  BY <1>1, <1>3
<1>5. QuietsHeld(y) = {} /\ Held(y.moves, y.cur, y.endCur - 1) = {} /\ BadCaptures(y) = BadCaptures(k)
  BY <1>3, <1>4 DEF QuietsHeld, Held, BadCaptures
<1>6. BadCaptures(k) \subseteq ToSet(n.captures)
  <2>1. \A i \in 1 .. k.endBadCaptures - 1 : i \in 1 .. L
    BY <1>1
  <2>2. QED
    BY <1>1, <2>1 DEF BadCaptures, Held
<1>7. InBad(n, y)
  <2>1. /\ 1 <= y.endBadCaptures /\ y.endBadCaptures <= y.endCaptures /\ y.endCaptures <= Len(y.moves) + 1
        /\ y.endGenerated <= Len(y.moves) + 1 /\ Distinct(Len(y.moves), y.moves)
    BY <1>1, <1>3 DEF L
  <2>2. Falls(n.value, SortLimit, y.moves, y.endCaptures, y.endGenerated - 1)
    BY <1>3, <1>4 DEF Falls
  <2>3. Falls(n.value, NoLimit, y.moves, 1, y.endBadCaptures - 1)
    BY <1>1, <1>3
  <2>4. BadCaptures(y) \subseteq ToSet(n.captures) \ (n.good \cup {n.ttMove}) /\ QuietsHeld(y) \subseteq ToSet(n.quiets)
    BY <1>1, <1>5, <1>6
  <2>5. QED
    BY <1>1, <1>3, <2>1, <2>2, <2>3, <2>4 DEF InBad
<1>8. InGoodQuiets(n, y)
  BY <1>3, <1>5, <1>7 DEF InGoodQuiets
<1>9. Todo(n, y) = BadCaptures(k)
  <2>1. Pending(n, y) = Ahead(n, y, Good(n, y)) \cup BadCaptures(y) \cup BadQuiets(n, y)
    <3>1. y.stage # "TT" /\ y.stage # InitStage(n)
      BY <1>3, StagesDiffer
    <3>2. QED
      BY <1>3, <3>1 DEF Pending
  <2>2. Ahead(n, y, Good(n, y)) = {} /\ BadQuiets(n, y) = {}
    BY <1>5 DEF Ahead, BadQuiets
  <2>3. BadCaptures(k) \cap ToSet(n.quiets) = {}
    BY <1>6, SetupIs
  <2>4. QED
    BY <1>3, <1>5, <2>1, <2>2, <2>3 DEF Todo
<1>10. QED
  BY <1>3, <1>8, <1>9

LEMMA QuietInitIs ==
  ASSUME NEW n \in PickSetups, NEW k, CapturesDone(n, k)
  PROVE  \E y : /\ QuietInit(n, k) = GoodQuiet(n, y) /\ InGoodQuiets(n, y) /\ y.skipQuiets = k.skipQuiets
                /\ Todo(n, y) = BadCaptures(k) \cup IF k.skipQuiets THEN {} ELSE ToSet(n.quiets) \ {n.ttMove}
<1>1. CASE k.skipQuiets
  <2> DEFINE y == [k EXCEPT !.stage = "GOOD_QUIET"]
  <2>1. QuietInit(n, k) = GoodQuiet(n, y)
    BY <1>1 DEF QuietInit
  <2>2. InGoodQuiets(n, y) /\ y.skipQuiets = k.skipQuiets /\ Todo(n, y) = BadCaptures(k)
    BY <1>1, QuietsSkipped
  <2> HIDE DEF y
  <2>3. QED
    BY <1>1, <2>1, <2>2
<1>2. CASE ~k.skipQuiets
  <2> DEFINE quiets == partial_insertion_sort(n.quiets, n.value, SortLimit)
             y == QuietsBehind(k, k.moves \o quiets, k.cur + Len(quiets))
  <2>1. SubSeq(k.moves, 1, k.cur - 1) = k.moves
    <3>1. k.moves \in Seq(MovesOf(n)) /\ k.cur - 1 = Len(k.moves)
      BY DEF CapturesDone, PickerType
    <3>2. QED
      BY <3>1
  <2>2. QuietInit(n, k) = GoodQuiet(n, y)
    BY <1>2, <2>1 DEF QuietInit, QuietsBehind
  <2>3. Sorted(n.quiets, n.value, SortLimit, quiets)
    BY SetupIs, SortSorts
  <2> HIDE DEF quiets
  <2>4. InGoodQuiets(n, y) /\ y.skipQuiets = k.skipQuiets /\ Todo(n, y) = BadCaptures(k) \cup (ToSet(n.quiets) \ {n.ttMove})
    BY <1>2, <2>3, QuietsAppended
  <2> HIDE DEF y
  <2>5. QED
    BY <1>2, <2>2, <2>4
<1>3. QED
  BY <1>1, <1>2

-----------------------------------------------------------------------------
(* The bad captures that are passed go to the front *)

\* What k becomes when it has been passed up to place i.
FrontRight(n, k, i, y) ==
  /\ y \in PickerType(n) /\ Distinct(Len(y.moves), y.moves) /\ Len(y.moves) = Len(k.moves)
  /\ y.stage = k.stage /\ y.cur = k.cur /\ y.endCur = k.endCur /\ y.endCaptures = k.endCaptures
  /\ y.endGenerated = k.endGenerated /\ y.skipQuiets = k.skipQuiets
  /\ Held(y.moves, 1, Len(k.moves)) \subseteq ToSet(n.captures)
  /\ 1 <= y.endBadCaptures /\ y.endBadCaptures <= i + 1
  /\ \A j \in i + 1 .. Len(k.moves) : y.moves[j] = k.moves[j]
  /\ BadCaptures(y) = BadCaptures(k) \cup (Held(k.moves, k.cur, i) \ {n.ttMove})
  /\ \A a, b \in 1 .. Len(k.moves) :
       a < b /\ (a < y.endBadCaptures \/ a > i) /\ (b < y.endBadCaptures \/ b > i) =>
         n.value[y.moves[a]] >= n.value[y.moves[b]]

SwapRight(M, L, s, e, i, t) ==
  /\ t \in [1 .. L -> M] /\ Distinct(L, t) /\ Held(t, 1, L) \subseteq Held(s, 1, L)
  /\ \A j \in 1 .. L : t[j] = IF j = i THEN s[e] ELSE IF j = e THEN s[i] ELSE s[j]

LEMMA SwappedIs ==
  ASSUME NEW M, NEW L \in Nat, NEW s \in [1 .. L -> M], Distinct(L, s), NEW e \in 1 .. L, NEW i \in 1 .. L,
         NEW t, t = Swapped(s, e, i)
  PROVE  SwapRight(M, L, s, e, i, t)
<1>1. t \in [1 .. L -> M] /\ \A j \in 1 .. L : t[j] = IF j = i THEN s[e] ELSE IF j = e THEN s[i] ELSE s[j]
  BY DEF Swapped
<1>2. Distinct(L, t)
  BY <1>1 DEF Distinct
<1>3. \A j \in 1 .. L : s[j] \in Held(s, 1, L)
  BY DEF Held
<1>4. ASSUME NEW j \in 1 .. L PROVE t[j] \in Held(s, 1, L)
  BY <1>1, <1>3
<1>5. Held(t, 1, L) \subseteq Held(s, 1, L)
  BY <1>4 DEF Held
<1>6. QED
  BY <1>1, <1>2, <1>5 DEF SwapRight

Replaced(n, y, t, c, z) ==
  /\ z \in PickerType(n) /\ z.moves = t /\ z.endBadCaptures = c
  /\ z.stage = y.stage /\ z.cur = y.cur /\ z.endCur = y.endCur /\ z.endCaptures = y.endCaptures
  /\ z.endGenerated = y.endGenerated /\ z.skipQuiets = y.skipQuiets

LEMMA ArrayReplaced ==
  ASSUME NEW n, NEW y, y \in PickerType(n), NEW t, t \in Seq(MovesOf(n)), NEW c, c \in Int,
         NEW z, z = [y EXCEPT !.moves = t, !.endBadCaptures = c]
  PROVE  Replaced(n, y, t, c, z)
  BY DEF PickerType, Replaced

LEMMA PutInFrontKeeps ==
  ASSUME NEW n \in PickSetups, NEW k, k \in PickerType(n), 1 <= k.cur, NEW i \in k.cur .. Len(k.moves),
         NEW y, FrontRight(n, k, i - 1, y)
  PROVE  FrontRight(n, k, i, PutInFront(n, y, i))
<1> DEFINE L == Len(k.moves)  z == PutInFront(n, y, i)  e == y.endBadCaptures
<1>1. /\ y \in PickerType(n) /\ Distinct(L, y.moves) /\ Len(y.moves) = L
      /\ y.stage = k.stage /\ y.cur = k.cur /\ y.endCur = k.endCur /\ y.endCaptures = k.endCaptures
      /\ y.endGenerated = k.endGenerated /\ y.skipQuiets = k.skipQuiets
      /\ Held(y.moves, 1, L) \subseteq ToSet(n.captures)
      /\ 1 <= e /\ e <= (i - 1) + 1
      /\ \A j \in (i - 1) + 1 .. L : y.moves[j] = k.moves[j]
      /\ BadCaptures(y) = BadCaptures(k) \cup (Held(k.moves, k.cur, i - 1) \ {n.ttMove})
      /\ \A a, b \in 1 .. L : a < b /\ (a < e \/ a > i - 1) /\ (b < e \/ b > i - 1) => n.value[y.moves[a]] >= n.value[y.moves[b]]
  BY DEF FrontRight
<1>2. /\ L \in Nat /\ k.cur \in Int /\ e \in Int /\ i \in Int /\ i \in 1 .. L /\ y.moves \in [1 .. L -> MovesOf(n)]
  BY <1>1, TypeOfMoves
<1>3. e <= i /\ e \in 1 .. L /\ (\A j \in i .. L : y.moves[j] = k.moves[j]) /\ y.moves[i] = k.moves[i]
  BY <1>1, <1>2
<1>4. Held(k.moves, k.cur, i) = Held(k.moves, k.cur, i - 1) \cup {k.moves[i]}
  <2>1. \A j : j \in k.cur .. i <=> j \in k.cur .. i - 1 \/ j = i
    BY <1>2
  <2>2. QED
    BY <2>1 DEF Held
<1> HIDE DEF L
<1>5. CASE y.moves[i] = n.ttMove
  <2>1. z = y
    BY <1>5 DEF PutInFront
  <2>2. BadCaptures(y) = BadCaptures(k) \cup (Held(k.moves, k.cur, i) \ {n.ttMove})
    BY <1>1, <1>3, <1>4, <1>5
  <2>3. e <= i + 1 /\ \A j \in i + 1 .. L : y.moves[j] = k.moves[j]
    BY <1>2, <1>3
  <2>4. \A a, b \in 1 .. L : a < b /\ (a < e \/ a > i) /\ (b < e \/ b > i) => n.value[y.moves[a]] >= n.value[y.moves[b]]
    <3>1. \A a \in 1 .. L : a > i => a > i - 1
      BY <1>2
    <3>2. QED
      BY <1>1, <3>1
  <2>5. QED
    BY <1>1, <2>1, <2>2, <2>3, <2>4 DEF FrontRight, L
<1>6. CASE y.moves[i] # n.ttMove
  <2> DEFINE t == Swapped(y.moves, e, i)
  <2>1. z = [y EXCEPT !.moves = t, !.endBadCaptures = e + 1]
    BY <1>6 DEF PutInFront
  <2>2. /\ t \in [1 .. L -> MovesOf(n)] /\ Distinct(L, t) /\ Held(t, 1, L) \subseteq Held(y.moves, 1, L)
        /\ \A j \in 1 .. L : t[j] = IF j = i THEN y.moves[e] ELSE IF j = e THEN y.moves[i] ELSE y.moves[j]
    <3> DEFINE s == y.moves
    <3>1. s \in [1 .. L -> MovesOf(n)] /\ Distinct(L, s) /\ t = Swapped(s, e, i)
      BY <1>1, <1>2
    <3> HIDE DEF s, t, e
    <3>2. SwapRight(MovesOf(n), L, s, e, i, t)
      BY <1>2, <1>3, <3>1, SwappedIs
    <3>3. QED
      BY <3>2 DEF s, SwapRight
  <2> HIDE DEF t
  <2>3. t \in Seq(MovesOf(n)) /\ Len(t) = L
    BY <1>2, <2>2
  <2>4. /\ z \in PickerType(n) /\ z.moves = t /\ z.endBadCaptures = e + 1
        /\ z.stage = y.stage /\ z.cur = y.cur /\ z.endCur = y.endCur /\ z.endCaptures = y.endCaptures
        /\ z.endGenerated = y.endGenerated /\ z.skipQuiets = y.skipQuiets
    <3>1. e + 1 \in Int
      BY <1>2
    <3> HIDE DEF e, z
    <3>2. Replaced(n, y, t, e + 1, z)
      BY <1>1, <2>1, <2>3, <3>1, ArrayReplaced
    <3>3. QED
      BY <3>2 DEF Replaced
  <2> HIDE DEF z
  <2>5. \A j \in i + 1 .. L : t[j] = k.moves[j]
    <3>1. \A j \in i + 1 .. L : j \in 1 .. L /\ j # i /\ j # e /\ j \in i .. L
      BY <1>2, <1>3
    <3>2. QED
      BY <1>3, <2>2, <3>1
  <2>6. t[e] = k.moves[i] /\ \A j \in 1 .. L : j < e => t[j] = y.moves[j]
    <3>1. \A j \in 1 .. L : j < e => j # i /\ j # e
      BY <1>2, <1>3
    <3>2. e # i => t[e] = y.moves[i]
      BY <1>3, <2>2
    <3>3. e = i => t[e] = y.moves[i]
      BY <1>3, <2>2
    <3>4. QED
      BY <1>3, <2>2, <3>1, <3>2, <3>3
  <2>7. BadCaptures(z) = BadCaptures(y) \cup {k.moves[i]}
    <3>1. (e + 1) - 1 = e /\ \A j : j \in 1 .. e <=> j \in 1 .. e - 1 \/ j = e
      BY <1>2, <1>3
    <3>2. \A j \in 1 .. e - 1 : j \in 1 .. L /\ j < e
      BY <1>2, <1>3
    <3>3. BadCaptures(z) = Held(t, 1, e)
      BY <2>4, <3>1 DEF BadCaptures
    <3>4. Held(t, 1, e) = Held(t, 1, e - 1) \cup {t[e]}
      BY <3>1 DEF Held
    <3>5. Held(t, 1, e - 1) = Held(y.moves, 1, e - 1)
      BY <2>6, <3>2 DEF Held
    <3>6. QED
      BY <2>6, <3>3, <3>4, <3>5 DEF BadCaptures
  <2>8. BadCaptures(z) = BadCaptures(k) \cup (Held(k.moves, k.cur, i) \ {n.ttMove})
    BY <1>1, <1>3, <1>4, <1>6, <2>7
  <2>9. ASSUME NEW a \in 1 .. L, NEW b \in 1 .. L, a < b, a < e + 1 \/ a > i, b < e + 1 \/ b > i
        PROVE  n.value[t[a]] >= n.value[t[b]]
    <3> DEFINE old(q) == IF q = e THEN i ELSE q
    <3>1. ASSUME NEW q \in 1 .. L, q < e + 1 \/ q > i
          PROVE  t[q] = y.moves[old(q)] /\ old(q) \in 1 .. L /\ (old(q) < e \/ old(q) > i - 1)
      <4>1. CASE q = e
        BY <1>2, <1>3, <2>6, <4>1
      <4>2. CASE q # e
        <5>1. q # i /\ (q < e \/ q > i - 1)
          BY <1>2, <1>3, <3>1, <4>2
        <5>2. QED
          BY <2>2, <4>2, <5>1
      <4>3. QED
        BY <4>1, <4>2
    <3>2. old(a) < old(b)
      BY <1>2, <1>3, <2>9
    <3> HIDE DEF old
    <3>3. QED
      BY <1>1, <2>9, <3>1, <3>2
  <2>10. Distinct(Len(z.moves), z.moves) /\ Len(z.moves) = L /\ Held(z.moves, 1, L) \subseteq ToSet(n.captures)
    BY <1>1, <2>2, <2>3, <2>4
  <2>11. 1 <= z.endBadCaptures /\ z.endBadCaptures <= i + 1
    BY <1>1, <1>2, <1>3, <2>4
  <2>12. QED
    BY <1>1, <2>4, <2>5, <2>8, <2>9, <2>10, <2>11 DEF FrontRight, L, z
<1>7. QED
  BY <1>5, <1>6

LEMMA SetAsideIs ==
  ASSUME NEW n \in PickSetups, NEW k, InGoodCaptures(n, k), NEW end \in k.cur .. k.endCur
  PROVE  FrontRight(n, k, end - 1, SetAside(n, k, end))
<1> DEFINE from == k.cur - 1  to == end - 1
           right(i, y) == FrontRight(n, k, i, y)
           X == PickerType(n)
           I == {r \in (from .. to) \X X : right(r[1], r[2])}
           F == [r \in (from + 1 .. to) \X X |-> PutInFront(n, r[2], r[1])]
<1>1. /\ k \in X /\ k.cur \in Int /\ 1 <= k.cur /\ k.cur <= k.endCur /\ k.endCur = Len(k.moves) + 1 /\ Len(k.moves) \in Nat
      /\ k.endBadCaptures \in Int /\ 1 <= k.endBadCaptures /\ k.endBadCaptures <= k.cur
      /\ from \in Int /\ to \in Int /\ from <= to /\ from + 1 = k.cur
  BY TypeOfMoves DEF InGoodCaptures, ArrayRight
<1>2. \A i, y : right(i, y) => y \in X
  BY DEF FrontRight
<1>3. \A i \in from .. to : \A y : <<i, y>> \in I <=> right(i, y)
  <2> HIDE DEF right, X, from, to
  <2> QED BY <1>2
<1>4. right(from, k)
  <2>1. Held(k.moves, k.cur, k.cur - 1) = {}
    BY <1>1 DEF Held
  <2>2. \A a \in 1 .. Len(k.moves) : a < k.endBadCaptures \/ a > k.cur - 1 => a \in Kept(k)
    BY <1>1 DEF Kept
  <2>3. Distinct(Len(k.moves), k.moves) /\ Held(k.moves, 1, Len(k.moves)) \subseteq ToSet(n.captures)
    BY DEF InGoodCaptures, ArrayRight
  <2>4. \A i, j \in Kept(k) : i < j => n.value[k.moves[i]] >= n.value[k.moves[j]]
    BY DEF InGoodCaptures
  <2>5. k.endBadCaptures <= (k.cur - 1) + 1
    BY <1>1
  <2>6. QED
    BY <1>1, <2>1, <2>2, <2>3, <2>4, <2>5 DEF FrontRight
<1>5. ASSUME NEW i \in from + 1 .. to, NEW y, right(i - 1, y)
      PROVE  F[<<i, y>>] = PutInFront(n, y, i) /\ right(i, PutInFront(n, y, i))
  <2>1. i \in k.cur .. Len(k.moves)
    BY <1>1
  <2>2. right(i, PutInFront(n, y, i))
    BY <1>1, <1>5, <2>1, PutInFrontKeeps
  <2>3. <<i, y>> \in (from + 1 .. to) \X X
    <3> HIDE DEF X, from, to, right
    <3> QED BY <1>2, <1>5
  <2> HIDE DEF X, from, to, right
  <2>4. QED
    BY <2>2, <2>3
<1>6. ASSUME NEW i \in from + 1 .. to, NEW y, <<i - 1, y>> \in I PROVE <<i, F[<<i, y>>]>> \in I
  <2>1. i \in from .. to /\ i - 1 \in from .. to
    BY <1>1
  <2> HIDE DEF I, F, right, from, to
  <2>2. QED
    BY <1>3, <1>5, <1>6, <2>1
<1>7. <<from, k>> \in I
  <2>1. from \in from .. to
    BY <1>1
  <2> HIDE DEF I, right, from, to
  <2>2. QED
    BY <1>3, <1>4, <2>1
<1>8. PICK g : Stepwise(from, to, k, F, g) /\ \A i \in from .. to : <<i, g[i]>> \in I
  <2> HIDE DEF I, F, right, X, from, to
  <2>1. \A p \in from + 1 .. to : \A y : <<p - 1, y>> \in I => <<p, F[<<p, y>>]>> \in I
    BY <1>6
  <2>2. QED
    BY <1>1, <1>7, <2>1, StepsExist
<1>9. ASSUME NEW i \in from .. to, i # from PROVE F[<<i, g[i - 1]>>] = PutInFront(n, g[i - 1], i)
  <2>1. i \in from + 1 .. to /\ i - 1 \in from .. to
    BY <1>1, <1>9
  <2> HIDE DEF I, F, right, from, to
  <2>2. QED
    BY <1>3, <1>5, <1>8, <2>1
<1>10. g = [i \in from .. to |-> IF i = from THEN k ELSE PutInFront(n, g[i - 1], i)]
  <2> HIDE DEF I, F, right, from, to
  <2> QED BY <1>8, <1>9 DEF Stepwise
<1> DEFINE x == CHOOSE h : h = [i \in k.cur - 1 .. end - 1 |-> IF i = k.cur - 1 THEN k ELSE PutInFront(n, h[i - 1], i)]
<1>11. SetAside(n, k, end) = x[end - 1]
  BY Zenon DEF SetAside
<1>12. x = [i \in from .. to |-> IF i = from THEN k ELSE PutInFront(n, x[i - 1], i)]
  <2>1. \E h : h = [i \in k.cur - 1 .. end - 1 |-> IF i = k.cur - 1 THEN k ELSE PutInFront(n, h[i - 1], i)]
    BY <1>10
  <2>2. x = [i \in k.cur - 1 .. end - 1 |-> IF i = k.cur - 1 THEN k ELSE PutInFront(n, x[i - 1], i)]
    BY <2>1, Zenon
  <2> HIDE DEF x
  <2>3. QED
    BY <2>2
<1> HIDE DEF x
<1>13. \A i \in from .. to : right(i, x[i])
  <2> DEFINE T == {i \in from .. to : right(i, x[i])}
  <2>1. from \in T
    <3>1. from \in from .. to
      BY <1>1
    <3> HIDE DEF right, from, to
    <3>2. QED
      BY <1>4, <1>12, <3>1
  <2>2. ASSUME NEW i \in from + 1 .. to, i - 1 \in T PROVE i \in T
    <3>1. i \in from .. to /\ i # from
      BY <1>1
    <3>2. x[i] = PutInFront(n, x[i - 1], i)
      <4> HIDE DEF right, from, to
      <4> QED BY <1>12, <3>1
    <3>3. right(i - 1, x[i - 1])
      BY <2>2
    <3> HIDE DEF right, from, to
    <3>4. right(i, x[i])
      BY <1>5, <3>2, <3>3
    <3>5. QED
      BY <3>1, <3>4
  <2>3. \A i \in from .. to : i \in T
    <3> HIDE DEF T, from, to
    <3> QED BY <1>1, <2>1, <2>2, Ascends
  <2>4. QED
    BY <2>3
<1>14. QED
  <2>1. to \in from .. to
    BY <1>1
  <2>2. right(to, x[to])
    <3> HIDE DEF right, from, to
    <3> QED BY <1>13, <2>1
  <2>3. QED
    BY <1>11, <2>2

LEMMA GoodCaptureGives ==
  ASSUME NEW n \in PickSetups, NEW k, InGoodCaptures(n, k)
  PROVE  Gives(n, k, GoodCapture(n, k))
<1> DEFINE L == Len(k.moves)
           found == Passing(n, k, n.good)
           end == IF found = {} THEN k.endCur ELSE Smallest(found)
           next == SetAside(n, k, end)
           passed == Held(k.moves, k.cur, end - 1) \ {n.ttMove}
           behind == Held(k.moves, end + 1, L) \ {n.ttMove}
           quiets == ToSet(n.quiets) \ {n.ttMove}
<1>1. /\ n.kind = "main" /\ k.stage = "GOOD_CAPTURE" /\ ArrayRight(n, k) /\ k \in PickerType(n)
      /\ k.endCur = L + 1 /\ k.endCaptures = L + 1 /\ k.endGenerated = 1
      /\ 1 <= k.endBadCaptures /\ k.endBadCaptures <= k.cur
      /\ Held(k.moves, 1, L) \subseteq ToSet(n.captures)
      /\ BadCaptures(k) \cap (n.good \cup {n.ttMove}) = {}
      /\ \A i, j \in Kept(k) : i < j => n.value[k.moves[i]] >= n.value[k.moves[j]]
      /\ Distinct(L, k.moves) /\ 1 <= k.cur /\ k.cur <= L + 1
      /\ L \in Nat /\ k.cur \in Int /\ k.endBadCaptures \in Int /\ k.endCur \in Int
  BY TypeOfMoves DEF InGoodCaptures, ArrayRight
<1>2. k.stage # "TT" /\ k.stage # InitStage(n)
  BY <1>1, StagesDiffer
<1>3. /\ found \subseteq Nat /\ found \subseteq k.cur .. k.endCur - 1
      /\ \A j \in k.cur .. k.endCur - 1 : j \in found <=> k.moves[j] \in n.good \ {n.ttMove}
  BY <1>1, PassingIs
<1>4. found # {} => end \in found /\ \A j \in found : end <= j
  BY <1>3, SmallestIs
<1> HIDE DEF found
<1>5. end \in k.cur .. k.endCur
  <2>1. CASE found = {}
    BY <1>1, <2>1
  <2>2. CASE found # {}
    <3>1. end \in k.cur .. k.endCur - 1
      BY <1>3, <1>4, <2>2
    <3> HIDE DEF end
    <3>2. QED
      BY <1>1, <3>1
  <2>3. QED
    BY <2>1, <2>2
<1>6. \A j \in k.cur .. end - 1 : k.moves[j] \notin n.good \ {n.ttMove}
  <2>1. SUFFICES ASSUME NEW j \in k.cur .. end - 1 PROVE j \notin found
    <3>1. \A j \in k.cur .. end - 1 : j \in k.cur .. k.endCur - 1
      <4> HIDE DEF end
      <4> QED BY <1>1, <1>5
    <3>2. QED
      BY <1>3, <3>1
  <2>2. CASE found = {}
    BY <2>2
  <2>3. CASE found # {}
    <3>1. ~(end <= j)
      <4> HIDE DEF end
      <4> QED BY <1>1, <1>5
    <3>2. QED
      BY <1>4, <2>3, <3>1
  <2>4. QED
    BY <2>2, <2>3
<1>7. FrontRight(n, k, end - 1, next)
  <2> HIDE DEF end
  <2> QED BY <1>5, SetAsideIs
<1>8. end \in Int /\ k.cur <= end /\ end <= L + 1
  BY <1>1, <1>5
<1>9. GoodCapture(n, k) = IF found # {} THEN Picked([next EXCEPT !.cur = end + 1], k.moves[end])
                          ELSE QuietInit(n, [next EXCEPT !.cur = k.endCur, !.stage = "QUIET_INIT"])
  BY DEF GoodCapture, found
<1>10. found = {} => end = k.endCur
  OBVIOUS
<1> HIDE DEF end, next
<1>11. /\ next \in PickerType(n) /\ Distinct(L, next.moves) /\ Len(next.moves) = L
       /\ next.stage = k.stage /\ next.cur = k.cur /\ next.endCur = k.endCur /\ next.endCaptures = k.endCaptures
       /\ next.endGenerated = k.endGenerated /\ next.skipQuiets = k.skipQuiets
       /\ Held(next.moves, 1, L) \subseteq ToSet(n.captures)
       /\ 1 <= next.endBadCaptures /\ next.endBadCaptures <= end /\ next.endBadCaptures \in Int
       /\ \A j \in end .. L : next.moves[j] = k.moves[j]
       /\ BadCaptures(next) = BadCaptures(k) \cup passed
       /\ \A a, b \in 1 .. L :
            a < b /\ (a < next.endBadCaptures \/ a > end - 1) /\ (b < next.endBadCaptures \/ b > end - 1) =>
              n.value[next.moves[a]] >= n.value[next.moves[b]]
  <2>1. (end - 1) + 1 = end
    BY <1>8
  <2>2. next \in PickerType(n)
    BY <1>7 DEF FrontRight
  <2>3. next.endBadCaptures \in Int
    BY <2>2, TypeOfMoves
  <2>4. QED
    BY <1>7, <2>1, <2>3 DEF FrontRight
<1>12. passed \cap (n.good \cup {n.ttMove}) = {} /\ passed \subseteq ToSet(n.captures) /\ behind \subseteq ToSet(n.captures)
       /\ BadCaptures(k) \subseteq ToSet(n.captures)
  <2>1. \A i \in 1 .. L : k.moves[i] \in ToSet(n.captures)
    BY <1>1 DEF Held
  <2>2. /\ \A j \in k.cur .. end - 1 : j \in 1 .. L
        /\ \A j \in end + 1 .. L : j \in 1 .. L
        /\ \A j \in 1 .. k.endBadCaptures - 1 : j \in 1 .. L
    BY <1>1, <1>8
  <2>3. passed \cap (n.good \cup {n.ttMove}) = {}
    BY <1>6 DEF Held
  <2>4. QED
    BY <2>1, <2>2, <2>3 DEF Held, BadCaptures
<1>13. BadCaptures(next) \cap (n.good \cup {n.ttMove}) = {}
  <2> HIDE DEF passed
  <2> QED BY <1>1, <1>11, <1>12
<1>14. Pending(n, k) = BadCaptures(k) \cup (Held(k.moves, k.cur, L) \ {n.ttMove}) \cup quiets
  <2>1. k.endCur - 1 = L
    BY <1>1
  <2>2. Held(k.moves, k.cur, L) \subseteq Every(k)
    <3>1. \A i \in k.cur .. L : i \in 1 .. L
      BY <1>1
    <3>2. QED
      BY <1>1, <3>1, TypeOfMoves DEF Held
  <2>3. Ahead(n, k, Every(k)) = Held(k.moves, k.cur, L) \ {n.ttMove}
    BY <2>1, <2>2 DEF Ahead
  <2>4. QED
    BY <1>1, <1>2, <2>3 DEF Pending
<1>15. ToSet(n.captures) \cap ToSet(n.quiets) = {}
  BY SetupIs
<1>16. CASE found = {}
  <2> DEFINE y == [next EXCEPT !.cur = k.endCur, !.stage = "QUIET_INIT"]
  <2>1. GoodCapture(n, k) = QuietInit(n, y) /\ end = L + 1 /\ end - 1 = L
    BY <1>1, <1>9, <1>10, <1>16
  <2>2. "QUIET_INIT" \in Stages
    BY DEF Stages
  <2>3. /\ y \in PickerType(n) /\ y.moves = next.moves /\ y.cur = L + 1 /\ y.endCur = L + 1 /\ y.endCaptures = L + 1
        /\ y.endGenerated = 1 /\ y.endBadCaptures = next.endBadCaptures /\ y.skipQuiets = k.skipQuiets
    BY <1>1, <1>11, <2>2 DEF PickerType
  <2> HIDE DEF y
  <2>4. BadCaptures(y) = BadCaptures(next)
    BY <2>3 DEF BadCaptures
  <2>5. Falls(n.value, NoLimit, next.moves, 1, next.endBadCaptures - 1)
    <3>1. SUFFICES ASSUME NEW i \in 1 .. next.endBadCaptures - 1, NEW j \in 1 .. next.endBadCaptures - 1, i < j
                   PROVE  n.value[next.moves[i]] >= n.value[next.moves[j]]
      BY DEF Falls
    <3>2. i \in 1 .. L /\ j \in 1 .. L /\ i < next.endBadCaptures /\ j < next.endBadCaptures
      BY <1>1, <1>8, <1>11
    <3>3. QED
      BY <1>11, <3>1, <3>2
  <2>6. CapturesDone(n, y)
    <3>1. y.endBadCaptures <= L + 1 /\ 1 <= y.endBadCaptures
      BY <1>11, <2>1, <2>3
    <3> HIDE DEF L
    <3>2. Len(y.moves) = L /\ Distinct(L, y.moves) /\ Held(y.moves, 1, L) \subseteq ToSet(n.captures)
      BY <1>11, <2>3
    <3>3. QED
      BY <1>1, <1>13, <2>3, <2>4, <2>5, <3>1, <3>2 DEF CapturesDone
  <2>7. PICK z : /\ QuietInit(n, y) = GoodQuiet(n, z) /\ InGoodQuiets(n, z) /\ z.skipQuiets = y.skipQuiets
                 /\ Todo(n, z) = BadCaptures(y) \cup IF y.skipQuiets THEN {} ELSE ToSet(n.quiets) \ {n.ttMove}
    BY <2>6, QuietInitIs
  <2>8. BadCaptures(y) = BadCaptures(k) \cup (Held(k.moves, k.cur, L) \ {n.ttMove})
    BY <1>11, <2>1, <2>4
  <2>9. BadCaptures(y) \subseteq ToSet(n.captures)
    <3> HIDE DEF passed
    <3> QED BY <1>11, <1>12, <2>4
  <2>10. Pending(n, k) = BadCaptures(y) \cup quiets
    BY <1>14, <2>8
  <2>11. Todo(n, z) = Todo(n, k)
    <3>1. CASE k.skipQuiets
      BY <1>15, <2>3, <2>7, <2>9, <2>10, <3>1 DEF Todo
    <3>2. CASE ~k.skipQuiets
      BY <2>3, <2>7, <2>10, <3>2 DEF Todo
    <3>3. QED
      BY <3>1, <3>2
  <2>12. QED
    BY <2>1, <2>3, <2>7, <2>11, GoodQuietGives, GivesFrom
<1>17. CASE found # {}
  <2> DEFINE m == k.moves[end]
             y == GoesTo(next, end + 1)
             r == GoodCapture(n, k)
  <2>1. r = Picked(y, m)
    BY <1>9, <1>17 DEF GoesTo
  <2>2. r.picker = y /\ r.move = m
    BY <2>1, PickedIs
  <2>3. end \in k.cur .. L /\ end \in 1 .. L /\ end \in found
    <3>1. end \in found /\ end \in k.cur .. k.endCur - 1
      BY <1>3, <1>4, <1>17
    <3> HIDE DEF L
    <3>2. QED
      BY <1>1, <3>1
  <2>4. m \in n.good /\ m # n.ttMove /\ m \in ToSet(n.captures)
    BY <1>1, <1>3, <2>3 DEF Held
  <2>5. /\ y \in PickerType(n) /\ y.cur = end + 1 /\ y.stage = k.stage /\ y.moves = next.moves /\ y.endCur = L + 1
        /\ y.endCaptures = L + 1 /\ y.endGenerated = 1 /\ y.endBadCaptures = next.endBadCaptures /\ y.skipQuiets = k.skipQuiets
    <3> DEFINE c == end + 1
    <3>1. c \in Int /\ y = GoesTo(next, c)
      BY <1>8
    <3> HIDE DEF c, y
    <3>2. /\ y \in PickerType(n) /\ y.cur = c /\ y.stage = next.stage /\ y.moves = next.moves /\ y.endCur = next.endCur
          /\ y.endCaptures = next.endCaptures /\ y.endGenerated = next.endGenerated
          /\ y.endBadCaptures = next.endBadCaptures /\ y.skipQuiets = next.skipQuiets
      <4>1. next \in PickerType(n)
        BY <1>11
      <4>2. QED
        BY <3>1, <4>1, GoesToIs
    <3> HIDE DEF L
    <3>3. QED
      BY <1>1, <1>11, <3>2 DEF c
  <2> HIDE DEF y, r
  <2>6. BadCaptures(y) = BadCaptures(k) \cup passed
    BY <1>11, <2>5 DEF BadCaptures
  <2>7. ArrayRight(n, y)
    <3>1. Len(y.moves) = L /\ Distinct(L, y.moves) /\ 1 <= end + 1 /\ end + 1 <= L + 1
      BY <1>1, <1>11, <2>3, <2>5
    <3>2. L + 1 <= L + 1
      BY <1>1
    <3> HIDE DEF L
    <3>3. QED
      BY <2>5, <3>1, <3>2 DEF ArrayRight
  <2>8. \A i, j \in Kept(y) : i < j => n.value[y.moves[i]] >= n.value[y.moves[j]]
    <3>1. \A i \in Kept(y) : i \in 1 .. L /\ (i < next.endBadCaptures \/ i > end - 1)
      BY <1>8, <1>11, <2>5 DEF Kept
    <3>2. QED
      BY <1>11, <2>5, <3>1
  <2>9. InGoodCaptures(n, y)
    <3>1. Len(y.moves) = L /\ Held(y.moves, 1, L) \subseteq ToSet(n.captures)
      BY <1>11, <2>5
    <3>2. 1 <= y.endBadCaptures /\ y.endBadCaptures <= y.cur
      BY <1>8, <1>11, <2>5
    <3>3. BadCaptures(y) \cap (n.good \cup {n.ttMove}) = {}
      BY <1>11, <1>13, <2>6
    <3> HIDE DEF L
    <3>4. QED
      BY <1>1, <2>5, <2>7, <2>8, <3>1, <3>2, <3>3 DEF InGoodCaptures
  <2>10. Pending(n, y) = BadCaptures(k) \cup passed \cup behind \cup quiets
    <3>1. y.endCur - 1 = L /\ y.stage # "TT" /\ y.stage # InitStage(n)
      BY <1>1, <1>2, <2>5
    <3>2. Held(y.moves, end + 1, L) = Held(k.moves, end + 1, L)
      <4>1. \A j \in end + 1 .. L : j \in end .. L
        BY <1>1, <1>8
      <4>2. QED
        BY <1>11, <2>5, <4>1 DEF Held
    <3>3. Held(y.moves, end + 1, L) \subseteq Every(y)
      <4>1. \A i \in end + 1 .. L : i \in 1 .. Len(y.moves)
        BY <1>1, <1>8, <1>11, <2>5
      <4>2. QED
        BY <2>5, <4>1, TypeOfMoves DEF Held
    <3>4. Ahead(n, y, Every(y)) = behind
      BY <2>5, <3>1, <3>2, <3>3 DEF Ahead
    <3>5. QED
      BY <1>1, <2>5, <2>6, <3>1, <3>4 DEF Pending
  <2>11. Held(k.moves, k.cur, L) \ {n.ttMove} = passed \cup {m} \cup behind
    <3>1. \A j : j \in k.cur .. L <=> j \in k.cur .. end - 1 \/ j = end \/ j \in end + 1 .. L
      BY <1>1, <2>3
    <3>2. QED
      BY <2>4, <3>1 DEF Held
  <2>12. m \notin BadCaptures(k) \cup passed \cup behind \cup quiets
    <3>1. m \notin BadCaptures(k) /\ m \notin passed
      <4> HIDE DEF m, passed
      <4> QED BY <1>1, <1>12, <2>4
    <3>2. m \notin behind
      <4>1. \A j \in end + 1 .. L : j \in 1 .. L /\ j # end
        BY <1>1, <2>3
      <4>2. QED
        BY <1>1, <2>3, <4>1 DEF Held, Distinct
    <3>3. m \notin quiets
      BY <1>15, <2>4
    <3>4. QED
      BY <3>1, <3>2, <3>3
  <2> HIDE DEF passed, behind, quiets, m
  <2>13. Pending(n, y) = Pending(n, k) \ {m} /\ m \in Pending(n, k)
    BY <1>14, <2>10, <2>11, <2>12
  <2>14. Todo(n, y) = Todo(n, k) \ {m} /\ m \in Todo(n, k)
    BY <1>15, <2>4, <2>5, <2>13 DEF Todo
  <2>15. m # NoneLeft
    BY <2>4, SetupIs DEF MovesOf
  <2>16. ASSUME NEW b \in Todo(n, k) \ {m} PROVE Precedes(n, m, b)
    <3>1. b \in Pending(n, k) /\ b # m /\ ClassOf(n, m) = 1
      BY <2>4, <2>16, ClassIs DEF Todo
    <3>2. CASE b \notin ToSet(n.captures) \/ b \notin n.good
      <4>1. ClassOf(n, b) \in {2, 3, 4}
        BY <3>2 DEF ClassOf
      <4>2. ClassOf(n, b) \in Int /\ ClassOf(n, m) \in Int /\ ClassOf(n, m) < ClassOf(n, b)
        BY <3>1, <4>1
      <4>3. QED
        BY <1>1, <4>2, LowerClass
    <3>3. CASE b \in ToSet(n.captures) /\ b \in n.good
      <4>1. b \in behind
        <5>1. b \notin BadCaptures(k) /\ b \notin passed
          BY <1>1, <1>12, <3>3
        <5>2. b \notin quiets
          BY <1>15, <3>3 DEF quiets
        <5>3. QED
          BY <1>14, <2>11, <3>1, <5>1, <5>2
      <4>2. PICK j \in end + 1 .. L : b = k.moves[j]
        BY <4>1 DEF behind, Held
      <4>3. end \in Kept(k) /\ j \in Kept(k) /\ end < j
        BY <1>1, <1>8, <2>3 DEF Kept
      <4>4. n.value[m] >= n.value[b]
        BY <1>1, <4>2, <4>3 DEF m
      <4>5. ClassOf(n, b) = 1 /\ m \notin ToSet(n.quiets)
        BY <2>4, <3>3, ClassIs
      <4>6. QED
        BY <1>1, <3>1, <4>4, <4>5, SameClass
    <3>4. QED
      BY <3>2, <3>3
  <2>17. PickerInv(n, y) /\ y.stage # "TT"
    BY <1>2, <2>5, <2>9 DEF PickerInv
  <2>18. Gives(n, k, r)
    BY <2>2, <2>5, <2>14, <2>15, <2>16, <2>17 DEF Gives
  <2>19. QED
    BY <2>18 DEF r
<1>18. QED
  BY <1>16, <1>17

-----------------------------------------------------------------------------
(* The other kinds of search, and the first calls *)

LEMMA ListingGives ==
  ASSUME NEW n \in PickSetups, NEW k, Listing(n, k)
  PROVE  Gives(n, k, Select(n, k, ListPass(n, k)))
<1> DEFINE pass == ListPass(n, k)  L == Len(k.moves)  r == Select(n, k, pass)  g == GoesTo(k, k.endCur)
           listed == IF n.kind = "evasion" THEN ToSet(n.evasions) ELSE ToSet(n.captures)
<1>1. /\ n.kind \in {"evasion", "qsearch", "probcut"} /\ k.stage = n.kind /\ ArrayRight(n, k) /\ k \in PickerType(n)
      /\ Held(k.moves, 1, L) = listed /\ Falls(n.value, NoLimit, k.moves, 1, L)
      /\ L \in Nat /\ k.cur \in Int /\ k.endCur \in Int /\ 1 <= k.cur /\ k.cur <= k.endCur /\ k.endCur <= L + 1
  BY SetupIs, TypeOfMoves DEF Listing, ArrayRight
<1>2. /\ k.stage \notin {"TT", "GOOD_CAPTURE", "GOOD_QUIET", "BAD_CAPTURE", "BAD_QUIET"}
      /\ k.stage # InitStage(n)
  BY <1>1, StagesDiffer
<1>3. \A i \in k.cur .. k.endCur - 1 : i \in 1 .. L
  BY <1>1
<1>4. \A c \in k.cur .. k.endCur, i \in Int : i \in c .. k.endCur - 1 => i \in 1 .. L
  BY <1>1
<1>5. \A i \in 1 .. L : k.moves[i] \in listed
  BY <1>1 DEF Held
<1>6. listed \cap ToSet(n.quiets) = {} /\ listed \subseteq MovesOf(n)
  BY SetupIs DEF MovesOf
<1>7. ASSUME NEW c \in k.cur .. k.endCur
      PROVE  /\ PickerInv(n, GoesTo(k, c))
             /\ Todo(n, GoesTo(k, c)) = Held(k.moves, c, k.endCur - 1) \cap (pass \ {n.ttMove})
  <2> DEFINE x == GoesTo(k, c)
  <2>1. c \in Int /\ 1 <= c /\ c <= k.endCur
    BY <1>1
  <2>2. x.stage = k.stage /\ x.moves = k.moves
    BY <1>1, <2>1, GoesToIs
  <2>3. Ahead(n, x, pass) = Held(k.moves, c, k.endCur - 1) \cap (pass \ {n.ttMove})
    <3> HIDE DEF pass
    <3> QED BY <1>1, <2>1, GoesToKeeps
  <2>4. Every(x) = Every(k) /\ ArrayRight(n, x)
    BY <1>1, <2>1, GoesToKeeps
  <2> HIDE DEF x
  <2>5. ListPass(n, x) = pass
    BY <2>4 DEF ListPass
  <2>6. Listing(n, x)
    BY <1>1, <2>2, <2>4 DEF Listing
  <2>7. Pending(n, x) = Ahead(n, x, pass)
    BY <1>2, <2>2, <2>5 DEF Pending
  <2>8. Held(k.moves, c, k.endCur - 1) \subseteq listed
    <3> HIDE DEF listed
    <3> QED BY <1>1, <1>4, <1>5, <2>1 DEF Held
  <2>9. Todo(n, x) = Ahead(n, x, pass)
    <3> HIDE DEF listed, pass
    <3> QED BY <1>6, <2>3, <2>7, <2>8 DEF Todo
  <2>10. QED
    BY <2>3, <2>6, <2>9 DEF PickerInv, x
<1>8. Todo(n, k) = Ahead(n, k, pass)
  <2>1. Pending(n, k) = Ahead(n, k, pass)
    BY <1>2 DEF Pending
  <2>2. Ahead(n, k, pass) \subseteq listed
    <3> HIDE DEF listed, pass
    <3> QED BY <1>3, <1>5 DEF Held, Ahead
  <2> HIDE DEF listed, pass
  <2>3. QED
    BY <1>6, <2>1, <2>2 DEF Todo
<1>9. ASSUME NEW i \in k.cur .. k.endCur - 1, NEW j \in k.cur .. k.endCur - 1, i < j
      PROVE  Precedes(n, k.moves[i], k.moves[j])
  <2>1. i \in 1 .. L /\ j \in 1 .. L /\ k.moves[j] \in MovesOf(n)
    BY <1>3, <1>5, <1>6
  <2>2. n.value[k.moves[j]] >= NoLimit
    BY <2>1, SetupIs
  <2>3. n.value[k.moves[i]] >= n.value[k.moves[j]]
    <3> HIDE DEF L
    <3> QED BY <1>1, <1>9, <2>1, <2>2 DEF Falls
  <2>4. n.kind # "main"
    BY <1>1
  <2>5. QED
    BY <2>3, <2>4 DEF Precedes
<1>10. Selects(n, k, pass, {})
  <2> HIDE DEF pass
  <2> QED BY <1>1, <1>2, <1>7, <1>8, <1>9 DEF Selects
<1>11. \/ r = Picked(g, NoneLeft) /\ Todo(n, g) = {} /\ Todo(n, k) = {} /\ PickerInv(n, g) /\ g.stage # "TT" /\ g.skipQuiets = k.skipQuiets
       \/ Gives(n, k, r)
  <2> HIDE DEF pass
  <2> QED BY <1>2, <1>10, SelectGives
<1>12. Gives(n, k, r)
  <2> HIDE DEF g, r
  <2> QED BY <1>11, NothingGiven, GivesFrom
<1>13. QED
  BY <1>12

\* The moves of a list, in order, and none passed.
StartsList(n, k, s, stage, y) ==
  /\ y \in PickerType(n) /\ y.stage = stage /\ y.moves = s /\ y.cur = 1 /\ y.endCur = Len(s) + 1
  /\ y.endBadCaptures = 1 /\ y.endCaptures = Len(s) + 1 /\ y.endGenerated = k.endGenerated /\ y.skipQuiets = k.skipQuiets

LEMMA InitedIs ==
  ASSUME NEW n, NEW k, k \in PickerType(n), NEW s, s \in Seq(MovesOf(n)), NEW stage, stage \in Stages,
         NEW y, y = Inited(k, s, stage)
  PROVE  StartsList(n, k, s, stage, y)
<1>1. Len(s) + 1 \in Int /\ 1 \in Int
  OBVIOUS
<1>2. QED
  BY <1>1 DEF Inited, PickerType, StartsList

LEMMA ListStarts ==
  ASSUME NEW n \in PickSetups, NEW k, Starting(n, k), k.stage = InitStage(n), n.kind # "main",
         NEW s, Sorted(IF n.kind = "evasion" THEN n.evasions ELSE n.captures, n.value, NoLimit, s),
         NEW y, y = Inited(k, s, n.kind)
  PROVE  Gives(n, k, Select(n, y, ListPass(n, y)))
<1> DEFINE list == IF n.kind = "evasion" THEN n.evasions ELSE n.captures  L == Len(s)
<1>1. /\ s \in Seq(ToSet(list)) /\ Distinct(L, s) /\ Held(s, 1, L) = ToSet(list) /\ Falls(n.value, NoLimit, s, 1, L)
      /\ k \in PickerType(n) /\ n.kind \in {"evasion", "qsearch", "probcut"}
  BY SetupIs DEF Sorted, Starting
<1>2. s \in Seq(MovesOf(n)) /\ n.kind \in Stages
  <2>1. ToSet(list) \subseteq MovesOf(n)
    BY DEF MovesOf
  <2> HIDE DEF list
  <2>2. QED
    BY <1>1, <2>1 DEF Stages
<1>3. StartsList(n, k, s, n.kind, y)
  BY <1>1, <1>2, InitedIs
<1>4. /\ y \in PickerType(n) /\ y.stage = n.kind /\ y.moves = s /\ y.cur = 1 /\ y.endCur = L + 1
      /\ y.skipQuiets = k.skipQuiets /\ L \in Nat
  BY <1>2, <1>3 DEF StartsList
<1> HIDE DEF L
<1>5. ArrayRight(n, y)
  <2>1. 1 <= L + 1 /\ L + 1 <= L + 1 /\ 1 <= 1 /\ Len(y.moves) = L
    BY <1>4 DEF L
  <2>2. QED
    BY <1>1, <1>4, <2>1 DEF ArrayRight
<1>6. Listing(n, y)
  <2>1. ToSet(list) = IF n.kind = "evasion" THEN ToSet(n.evasions) ELSE ToSet(n.captures)
    OBVIOUS
  <2>2. Len(y.moves) = L
    BY <1>4 DEF L
  <2> HIDE DEF list
  <2>3. QED
    BY <1>1, <1>4, <1>5, <2>1, <2>2 DEF Listing
<1>7. Todo(n, y) = Todo(n, k)
  <2>1. Pending(n, k) = Wanted(n) \ {n.ttMove}
    <3>1. k.stage # "TT"
      BY StagesDiffer
    <3>2. QED
      BY <3>1 DEF Pending
  <2>2. /\ y.stage \notin {"TT", "GOOD_CAPTURE", "GOOD_QUIET", "BAD_CAPTURE", "BAD_QUIET"}
        /\ y.stage # InitStage(n)
    BY <1>1, <1>4, StagesDiffer
  <2>3. Pending(n, y) = Ahead(n, y, ListPass(n, y))
    BY <2>2 DEF Pending
  <2>4. y.endCur - 1 = L /\ Every(y) = ToSet(list)
    <3>1. Len(y.moves) = L
      BY <1>4 DEF L
    <3> HIDE DEF list
    <3>2. QED
      BY <1>1, <1>4, <3>1, TypeOfMoves
  <2>5. Ahead(n, y, ListPass(n, y)) = ToSet(list) \cap (ListPass(n, y) \ {n.ttMove})
    BY <1>1, <1>4, <2>4 DEF Ahead
  <2>6. ToSet(list) \cap ListPass(n, y) = Wanted(n)
    BY <1>1, <2>4 DEF ListPass, Wanted
  <2>7. Pending(n, y) = Pending(n, k)
    <3> HIDE DEF list
    <3> QED BY <2>1, <2>3, <2>5, <2>6
  <2>8. QED
    BY <1>4, <2>7 DEF Todo
<1>8. QED
  BY <1>4, <1>6, <1>7, ListingGives, GivesFrom

LEMMA CapturesStart ==
  ASSUME NEW n \in PickSetups, NEW k, Starting(n, k), k.stage = InitStage(n), n.kind = "main",
         NEW s, Sorted(n.captures, n.value, NoLimit, s),
         NEW y, y = Inited(k, s, "GOOD_CAPTURE")
  PROVE  Gives(n, k, GoodCapture(n, y))
<1> DEFINE L == Len(s)
<1>1. /\ s \in Seq(ToSet(n.captures)) /\ Distinct(L, s) /\ Held(s, 1, L) = ToSet(n.captures) /\ Falls(n.value, NoLimit, s, 1, L)
      /\ k \in PickerType(n) /\ k.endGenerated = 1
  BY DEF Sorted, Starting
<1>2. s \in Seq(MovesOf(n)) /\ "GOOD_CAPTURE" \in Stages
  BY <1>1 DEF Stages, MovesOf
<1>3. StartsList(n, k, s, "GOOD_CAPTURE", y)
  BY <1>1, <1>2, InitedIs
<1>4. /\ y \in PickerType(n) /\ y.stage = "GOOD_CAPTURE" /\ y.moves = s /\ y.cur = 1 /\ y.endCur = L + 1
      /\ y.endBadCaptures = 1 /\ y.endCaptures = L + 1 /\ y.endGenerated = 1 /\ y.skipQuiets = k.skipQuiets /\ L \in Nat
      /\ Len(y.moves) = L
  BY <1>1, <1>2, <1>3 DEF StartsList
<1> HIDE DEF L
<1>5. ArrayRight(n, y)
  <2>1. 1 <= L + 1 /\ L + 1 <= L + 1 /\ 1 <= 1
    BY <1>4
  <2>2. QED
    BY <1>1, <1>4, <2>1 DEF ArrayRight
<1>6. BadCaptures(y) = {}
  BY <1>4 DEF BadCaptures, Held
<1>7. \A i, j \in Kept(y) : i < j => n.value[y.moves[i]] >= n.value[y.moves[j]]
  <2>1. SUFFICES ASSUME NEW i \in 1 .. L, NEW j \in 1 .. L, i < j PROVE n.value[s[i]] >= n.value[s[j]]
    BY <1>4 DEF Kept
  <2>2. s[j] \in MovesOf(n)
    BY <1>2 DEF L
  <2>3. n.value[s[j]] >= NoLimit
    BY <2>2, SetupIs
  <2>4. QED
    BY <1>1, <2>1, <2>3 DEF Falls
<1>8. InGoodCaptures(n, y)
  <2>1. 1 <= 1
    OBVIOUS
  <2>2. QED
    BY <1>1, <1>4, <1>5, <1>6, <1>7, <2>1 DEF InGoodCaptures
<1>9. Todo(n, y) = Todo(n, k)
  <2>1. Pending(n, k) = Wanted(n) \ {n.ttMove}
    <3>1. k.stage # "TT"
      BY StagesDiffer
    <3>2. QED
      BY <3>1 DEF Pending
  <2>2. y.stage # "TT" /\ y.stage # InitStage(n)
    BY <1>4, StagesDiffer
  <2>3. y.endCur - 1 = L /\ Every(y) = ToSet(n.captures)
    BY <1>1, <1>4, TypeOfMoves
  <2>4. Ahead(n, y, Every(y)) = ToSet(n.captures) \ {n.ttMove}
    BY <1>1, <1>4, <2>3 DEF Ahead
  <2>5. Pending(n, y) = (ToSet(n.captures) \ {n.ttMove}) \cup (ToSet(n.quiets) \ {n.ttMove})
    BY <1>4, <1>6, <2>2, <2>4 DEF Pending
  <2>6. Wanted(n) = ToSet(n.captures) \cup ToSet(n.quiets)
    BY DEF Wanted
  <2>7. QED
    BY <1>4, <2>1, <2>5, <2>6 DEF Todo
<1>10. QED
  BY <1>4, <1>8, <1>9, GoodCaptureGives, GivesFrom

LEMMA InitGives ==
  ASSUME NEW n \in PickSetups, NEW k, Starting(n, k), k.stage = InitStage(n)
  PROVE  Gives(n, k, next_move(n, k))
<1>1. n.kind \in {"main", "evasion", "qsearch", "probcut"}
  BY SetupIs
<1> DEFINE sorted(list) == partial_insertion_sort(list, n.value, NoLimit)
<1>2. Sorted(n.captures, n.value, NoLimit, sorted(n.captures)) /\ Sorted(n.evasions, n.value, NoLimit, sorted(n.evasions))
  BY SetupIs, SortSorts
<1>3. CASE n.kind = "evasion"
  <2> DEFINE y == Inited(k, sorted(n.evasions), n.kind)
  <2>1. next_move(n, k) = EvasionInit(n, k)
    BY <1>3 DEF next_move, InitStage
  <2>2. next_move(n, k) = Select(n, y, ListPass(n, y))
    BY <1>3, <2>1 DEF EvasionInit, ListPass
  <2> DEFINE s == sorted(n.evasions)
  <2>3. Sorted(IF n.kind = "evasion" THEN n.evasions ELSE n.captures, n.value, NoLimit, s) /\ y = Inited(k, s, n.kind)
    BY <1>2, <1>3
  <2> HIDE DEF y, s
  <2>4. QED
    BY <1>3, <2>2, <2>3, ListStarts
<1>4. CASE n.kind \in {"qsearch", "probcut"}
  <2> DEFINE y == Inited(k, sorted(n.captures), n.kind)
  <2>1. next_move(n, k) = CaptureInit(n, k)
    BY <1>4 DEF next_move, InitStage
  <2>2. next_move(n, k) = Select(n, y, ListPass(n, y))
    BY <1>4, <2>1 DEF CaptureInit, ListPass
  <2> DEFINE s == sorted(n.captures)
  <2>3. Sorted(IF n.kind = "evasion" THEN n.evasions ELSE n.captures, n.value, NoLimit, s) /\ y = Inited(k, s, n.kind)
    BY <1>2, <1>4
  <2> HIDE DEF y, s
  <2>4. QED
    BY <1>4, <2>2, <2>3, ListStarts
<1>5. CASE n.kind = "main"
  <2> DEFINE s == sorted(n.captures)
             next == Inited(k, s, n.kind)
             y == Inited(k, s, "GOOD_CAPTURE")
  <2>1. next_move(n, k) = CaptureInit(n, k)
    BY <1>5 DEF next_move, InitStage
  <2>2. CaptureInit(n, k) = GoodCapture(n, [next EXCEPT !.stage = "GOOD_CAPTURE"])
    BY <1>5 DEF CaptureInit
  <2>3. [next EXCEPT !.stage = "GOOD_CAPTURE"] = y
    <3> HIDE DEF s
    <3> QED BY DEF Inited, Starting, PickerType
  <2>4. next_move(n, k) = GoodCapture(n, y)
    BY <2>1, <2>2, <2>3
  <2> HIDE DEF s
  <2>5. QED
    BY <1>2, <1>5, <2>4, CapturesStart DEF s
<1>6. QED
  BY <1>1, <1>3, <1>4, <1>5

LEMMA HashMoveGives ==
  ASSUME NEW n \in PickSetups, NEW k, Starting(n, k), k.stage = "TT"
  PROVE  Gives(n, k, next_move(n, k)) /\ next_move(n, k).move = n.ttMove
<1> DEFINE y == [k EXCEPT !.stage = InitStage(n)]
<1>1. k \in PickerType(n) /\ UsesTTMove(n) /\ ~k.skipQuiets /\ k.endGenerated = 1
  BY StagesDiffer DEF Starting
<1>2. next_move(n, k) = Picked(y, n.ttMove)
  BY DEF next_move, InitStage
<1>3. InitStage(n) \in Stages
  BY StagesDiffer DEF Stages
<1>4. y \in PickerType(n) /\ y.stage = InitStage(n) /\ y.endGenerated = 1 /\ y.skipQuiets = k.skipQuiets
  BY <1>1, <1>3 DEF PickerType
<1> HIDE DEF y
<1>5. Starting(n, y)
  BY <1>4 DEF Starting
<1>6. n.ttMove # NoneLeft
  BY <1>1, SetupIs DEF UsesTTMove, PseudoLegal, MovesOf
<1>7. Todo(n, k) = Wanted(n) \cup {n.ttMove}
  BY <1>1 DEF Todo, Pending
<1>8. Todo(n, y) = Wanted(n) \ {n.ttMove}
  BY <1>1, <1>4, StagesDiffer DEF Todo, Pending
<1>9. next_move(n, k).picker = y /\ next_move(n, k).move = n.ttMove
  BY <1>2, PickedIs
<1>10. y.stage # "TT" /\ PickerInv(n, y)
  BY <1>4, <1>5, StagesDiffer DEF PickerInv
<1> DEFINE r == next_move(n, k)
<1>11. r.picker = y /\ r.move = n.ttMove
  BY <1>9
<1> HIDE DEF r
<1>12. Gives(n, k, r)
  BY <1>4, <1>6, <1>7, <1>8, <1>10, <1>11 DEF Gives
<1>13. QED
  BY <1>11, <1>12 DEF r

LEMMA NextMoveGives ==
  ASSUME NEW n \in PickSetups, NEW k, PickerInv(n, k)
  PROVE  Gives(n, k, next_move(n, k)) /\ (k.stage = "TT" => next_move(n, k).move = n.ttMove)
<1>1. CASE Starting(n, k)
  <2>1. k.stage = "TT" \/ (k.stage = InitStage(n) /\ k.stage # "TT")
    BY <1>1, StagesDiffer DEF Starting
  <2>2. QED
    BY <1>1, <2>1, InitGives, HashMoveGives
<1>2. CASE Listing(n, k)
  <2>1. n.kind \in {"evasion", "qsearch", "probcut"} /\ k.stage = n.kind
    BY <1>2, SetupIs DEF Listing
  <2>2. next_move(n, k) = Select(n, k, ListPass(n, k))
    BY <2>1 DEF next_move, ListPass
  <2>3. QED
    BY <1>2, <2>1, <2>2, ListingGives
<1>3. CASE InGoodCaptures(n, k)
  <2>1. k.stage = "GOOD_CAPTURE"
    BY <1>3 DEF InGoodCaptures
  <2>2. next_move(n, k) = GoodCapture(n, k)
    BY <2>1 DEF next_move
  <2>3. QED
    BY <1>3, <2>1, <2>2, GoodCaptureGives
<1>4. CASE InGoodQuiets(n, k)
  <2>1. k.stage = "GOOD_QUIET"
    BY <1>4 DEF InGoodQuiets
  <2>2. next_move(n, k) = GoodQuiet(n, k)
    BY <2>1 DEF next_move
  <2>3. QED
    BY <1>4, <2>1, <2>2, GoodQuietGives
<1>5. CASE InBadCaptures(n, k)
  <2>1. k.stage = "BAD_CAPTURE"
    BY <1>5 DEF InBadCaptures
  <2>2. next_move(n, k) = BadCapture(n, k)
    BY <2>1 DEF next_move
  <2>3. QED
    BY <1>5, <2>1, <2>2, BadCaptureGives
<1>6. CASE InBadQuiets(n, k)
  <2>1. k.stage = "BAD_QUIET"
    BY <1>6 DEF InBadQuiets
  <2>2. next_move(n, k) = BadQuiet(n, k)
    BY <2>1 DEF next_move
  <2>3. QED
    BY <1>6, <2>1, <2>2, BadQuietGives
<1>7. QED
  BY <1>1, <1>2, <1>3, <1>4, <1>5, <1>6 DEF PickerInv

-----------------------------------------------------------------------------
(* The moves that were given *)

EmittedFrom(n) == MovesOf(n) \cup {NoneLeft}
\* What was given is not to come again, what is wanted is given or to come, and the order is kept.
PickInv ==
  /\ node \in PickSetups /\ PickerInv(node, picker)
  /\ emitted \in Seq(EmittedFrom(node)) /\ Distinct(Len(emitted), emitted)
  /\ Todo(node, picker) \subseteq PseudoLegal(node)
  /\ \A i \in 1 .. Len(emitted) :
       IF emitted[i] = NoneLeft THEN i = Len(emitted) /\ Todo(node, picker) = {}
       ELSE emitted[i] \in PseudoLegal(node) /\ emitted[i] \notin Todo(node, picker)
  /\ picker.stage = "TT" => emitted = <<>>
  /\ UsesTTMove(node) => picker.stage = "TT" \/ (emitted # <<>> /\ emitted[1] = node.ttMove)
  /\ \A m \in Wanted(node) :
       m \in Todo(node, picker) \/ (\E i \in 1 .. Len(emitted) : emitted[i] = m) \/ (picker.skipQuiets /\ m \in ToSet(node.quiets))
  /\ \A i, j \in 1 .. Len(emitted) :
       i < j /\ {emitted[i], emitted[j]} \cap {NoneLeft, node.ttMove} = {} => Precedes(node, emitted[i], emitted[j])
  /\ \A i \in 1 .. Len(emitted), b \in Todo(node, picker) :
       {emitted[i], b} \cap {NoneLeft, node.ttMove} = {} => Precedes(node, emitted[i], b)

LEMMA PossibleMoves ==
  ASSUME NEW n \in PickSetups
  PROVE  /\ PseudoLegal(n) \subseteq MovesOf(n) /\ Wanted(n) \subseteq PseudoLegal(n) /\ NoneLeft \notin PseudoLegal(n)
         /\ UsesTTMove(n) => n.ttMove \in PseudoLegal(n)
<1>1. n.kind \in {"main", "evasion", "qsearch", "probcut"} /\ NoneLeft \notin MovesOf(n)
  BY SetupIs
<1>2. PseudoLegal(n) \subseteq MovesOf(n)
  BY DEF PseudoLegal, MovesOf
<1>3. Wanted(n) \subseteq PseudoLegal(n)
  BY <1>1 DEF Wanted, PseudoLegal
<1>4. UsesTTMove(n) => n.ttMove \in PseudoLegal(n)
  BY <1>1 DEF UsesTTMove, PseudoLegal
<1>5. QED
  BY <1>1, <1>2, <1>3, <1>4

LEMMA PickInitInv == PickInit => PickInv
<1> SUFFICES ASSUME PickInit PROVE PickInv
  OBVIOUS
<1>1. node \in PickSetups /\ picker = NewPicker(node) /\ emitted = <<>> /\ Len(emitted) = 0 /\ emitted \in Seq(EmittedFrom(node))
  BY DEF PickInit
<1>2. picker.stage = (IF UsesTTMove(node) THEN "TT" ELSE InitStage(node)) /\ picker.endGenerated = 1 /\ picker.skipQuiets = FALSE
  BY <1>1 DEF NewPicker, InitStage
<1>3. picker \in PickerType(node)
  <2>1. <<>> \in Seq(MovesOf(node)) /\ {"TT", "EVASION_INIT", "CAPTURE_INIT"} \subseteq Stages
    BY DEF Stages
  <2>2. QED
    BY <1>1, <2>1 DEF NewPicker, PickerType
<1>4. Starting(node, picker)
  BY <1>2, <1>3 DEF Starting
<1>5. UsesTTMove(node) => Todo(node, picker) = Wanted(node) \cup {node.ttMove}
  BY <1>2 DEF Todo, Pending
<1>6. ~UsesTTMove(node) => Todo(node, picker) = Wanted(node) \ {node.ttMove} /\ node.ttMove \notin Wanted(node)
  <2>1. ASSUME ~UsesTTMove(node) PROVE node.ttMove \notin Wanted(node)
    BY <1>1, <2>1, SetupIs DEF UsesTTMove, PseudoLegal, Wanted
  <2>2. QED
    BY <1>2, <2>1, StagesDiffer DEF Todo, Pending
<1>7. Todo(node, picker) \subseteq PseudoLegal(node) /\ Wanted(node) \subseteq Todo(node, picker)
  BY <1>1, <1>5, <1>6, PossibleMoves
<1>8. \A i : i \notin 1 .. 0
  OBVIOUS
<1>9. QED
  BY <1>1, <1>2, <1>4, <1>7, <1>8 DEF PickInv, PickerInv, Distinct

LEMMA NextMoveInv ==
  ASSUME PickInv, NextMove
  PROVE  PickInv'
<1> DEFINE n == node  r == next_move(node, picker)  m == r.move  L == Len(emitted)  old == Todo(node, picker)  new == Todo(node, picker')
<1>1. /\ node' = node /\ picker' = r.picker /\ emitted' = Append(emitted, m) /\ ~PickedAll
  BY DEF NextMove
<1>2. /\ node \in PickSetups /\ PickerInv(node, picker)
      /\ emitted \in Seq(EmittedFrom(node)) /\ Distinct(L, emitted)
      /\ old \subseteq PseudoLegal(node)
      /\ \A i \in 1 .. L :
           IF emitted[i] = NoneLeft THEN i = L /\ old = {}
           ELSE emitted[i] \in PseudoLegal(node) /\ emitted[i] \notin old
      /\ picker.stage = "TT" => emitted = <<>>
      /\ UsesTTMove(node) => picker.stage = "TT" \/ (emitted # <<>> /\ emitted[1] = node.ttMove)
      /\ \A w \in Wanted(node) :
           w \in old \/ (\E i \in 1 .. L : emitted[i] = w) \/ (picker.skipQuiets /\ w \in ToSet(node.quiets))
      /\ \A i, j \in 1 .. L :
           i < j /\ {emitted[i], emitted[j]} \cap {NoneLeft, node.ttMove} = {} => Precedes(node, emitted[i], emitted[j])
      /\ \A i \in 1 .. L, b \in old :
           {emitted[i], b} \cap {NoneLeft, node.ttMove} = {} => Precedes(node, emitted[i], b)
  BY DEF PickInv
<1>3. Gives(node, picker, r) /\ (picker.stage = "TT" => m = node.ttMove)
  BY <1>2, NextMoveGives
<1> HIDE DEF r
<1>4. /\ PickerInv(node, picker') /\ picker'.stage # "TT" /\ picker'.skipQuiets = picker.skipQuiets
      /\ new = old \ {m} /\ (m = NoneLeft => old = {}) /\ (m # NoneLeft => m \in old)
      /\ m \notin {NoneLeft, node.ttMove} => \A b \in old \ {m} : Precedes(node, m, b)
  BY <1>1, <1>3 DEF Gives
<1>5. m \in EmittedFrom(node) /\ (m # NoneLeft => m \in PseudoLegal(node))
  BY <1>2, <1>4, PossibleMoves DEF EmittedFrom
<1> HIDE DEF m, L, old, new
<1>6. L \in Nat /\ L = Len(emitted)
  BY <1>2 DEF L
<1>7. /\ emitted' \in Seq(EmittedFrom(node)) /\ Len(emitted') = L + 1 /\ emitted'[L + 1] = m
      /\ \A i \in 1 .. L : emitted'[i] = emitted[i]
  BY <1>1, <1>2, <1>5, <1>6
<1>8. \A i \in 1 .. L + 1 : i \in 1 .. L \/ i = L + 1
  BY <1>6
<1>9. \A i \in 1 .. L : emitted[i] # NoneLeft
  <2>1. SUFFICES ASSUME NEW i \in 1 .. L, emitted[i] = NoneLeft PROVE FALSE
    OBVIOUS
  <2>2. i = L /\ L >= 1
    BY <1>2, <1>6, <2>1
  <2>3. emitted # <<>> /\ Last(emitted) = NoneLeft
    BY <1>2, <1>6, <2>1, <2>2 DEF Last
  <2>4. QED
    BY <1>1, <2>3 DEF PickedAll
<1>10. \A i \in 1 .. L : emitted[i] # m
  <2>1. SUFFICES ASSUME NEW i \in 1 .. L PROVE emitted[i] # m
    OBVIOUS
  <2>2. emitted[i] # NoneLeft /\ emitted[i] \notin old
    BY <1>2, <1>9
  <2>3. QED
    BY <1>4, <2>2
<1>11. Distinct(L + 1, emitted')
  <2>1. SUFFICES ASSUME NEW i \in 1 .. L + 1, NEW j \in 1 .. L + 1, emitted'[i] = emitted'[j] PROVE i = j
    BY DEF Distinct
  <2>2. CASE i \in 1 .. L /\ j \in 1 .. L
    BY <1>2, <1>7, <2>1, <2>2 DEF Distinct
  <2>3. CASE i = L + 1 \/ j = L + 1
    BY <1>7, <1>8, <1>10, <2>1, <2>3
  <2>4. QED
    BY <1>8, <2>2, <2>3
<1>12. new \subseteq PseudoLegal(node)
  BY <1>2, <1>4
<1>13. ASSUME NEW i \in 1 .. L + 1
       PROVE  IF emitted'[i] = NoneLeft THEN i = L + 1 /\ new = {}
              ELSE emitted'[i] \in PseudoLegal(node) /\ emitted'[i] \notin new
  <2>1. CASE i \in 1 .. L
    BY <1>2, <1>4, <1>7, <1>9, <2>1
  <2>2. CASE i = L + 1
    BY <1>4, <1>5, <1>7, <2>2
  <2>3. QED
    BY <1>8, <2>1, <2>2
<1>14. UsesTTMove(node) => emitted' # <<>> /\ emitted'[1] = node.ttMove
  <2>1. SUFFICES ASSUME UsesTTMove(node) PROVE emitted' # <<>> /\ emitted'[1] = node.ttMove
    OBVIOUS
  <2>2. emitted' # <<>>
    BY <1>6, <1>7
  <2>3. CASE picker.stage = "TT"
    <3>1. L = 0 /\ m = node.ttMove
      BY <1>2, <1>3, <1>6, <2>3 DEF m
    <3>2. QED
      BY <1>7, <2>2, <3>1
  <2>4. CASE emitted # <<>> /\ emitted[1] = node.ttMove
    <3>1. 1 \in 1 .. L
      BY <1>2, <1>6, <2>4
    <3>2. QED
      BY <1>7, <2>2, <2>4, <3>1
  <2>5. QED
    BY <1>2, <2>1, <2>3, <2>4
<1>15. ASSUME NEW w \in Wanted(node)
       PROVE  w \in new \/ (\E i \in 1 .. L + 1 : emitted'[i] = w) \/ (picker'.skipQuiets /\ w \in ToSet(node.quiets))
  <2>1. \A i \in 1 .. L : i \in 1 .. L + 1
    BY <1>6
  <2>2. L + 1 \in 1 .. L + 1
    BY <1>6
  <2>3. CASE w \in old
    BY <1>4, <1>7, <2>2, <2>3
  <2>4. CASE \E i \in 1 .. L : emitted[i] = w
    BY <1>7, <2>1, <2>4
  <2>5. CASE picker.skipQuiets /\ w \in ToSet(node.quiets)
    BY <1>4, <2>5
  <2>6. QED
    BY <1>2, <2>3, <2>4, <2>5
<1>16. ASSUME NEW i \in 1 .. L + 1, NEW j \in 1 .. L + 1, i < j, {emitted'[i], emitted'[j]} \cap {NoneLeft, node.ttMove} = {}
       PROVE  Precedes(node, emitted'[i], emitted'[j])
  <2>1. i \in 1 .. L
    BY <1>6, <1>16
  <2>2. CASE j \in 1 .. L
    BY <1>2, <1>7, <1>16, <2>1, <2>2
  <2>3. CASE j = L + 1
    <3>1. emitted'[j] = m /\ m \in old /\ emitted'[i] = emitted[i]
      BY <1>4, <1>7, <1>16, <2>1, <2>3
    <3>2. QED
      BY <1>2, <1>16, <2>1, <3>1
  <2>4. QED
    BY <1>8, <2>2, <2>3
<1>17. ASSUME NEW i \in 1 .. L + 1, NEW b \in new, {emitted'[i], b} \cap {NoneLeft, node.ttMove} = {}
       PROVE  Precedes(node, emitted'[i], b)
  <2>1. b \in old /\ b # m
    BY <1>4
  <2>2. CASE i \in 1 .. L
    BY <1>2, <1>7, <1>17, <2>1, <2>2
  <2>3. CASE i = L + 1
    BY <1>4, <1>7, <1>17, <2>1, <2>3
  <2>4. QED
    BY <1>8, <2>2, <2>3
<1>18. Todo(node', picker') = new /\ Len(emitted') = L + 1 /\ EmittedFrom(node') = EmittedFrom(node) /\ PseudoLegal(node') = PseudoLegal(node)
       /\ Wanted(node') = Wanted(node) /\ UsesTTMove(node') = UsesTTMove(node)
  BY <1>1, <1>7 DEF new
<1>19. QED
  BY <1>1, <1>2, <1>4, <1>7, <1>11, <1>12, <1>13, <1>14, <1>15, <1>16, <1>17, <1>18 DEF PickInv

\* Skipping takes the quiet moves out of what is to come, and nothing else.
LEMMA SkipIs ==
  ASSUME NEW n \in PickSetups, NEW k, PickerInv(n, k), k.stage # "TT", ~k.skipQuiets, NEW y, y = [k EXCEPT !.skipQuiets = TRUE]
  PROVE  /\ PickerInv(n, y) /\ y.stage = k.stage /\ y.skipQuiets
         /\ Todo(n, y) = Todo(n, k) \ ToSet(n.quiets)
<1>1. k \in PickerType(n)
  BY DEF PickerInv, Starting, Listing, InGoodCaptures, InGoodQuiets, InBadCaptures, InBadQuiets, InBad, ArrayRight
<1>2. /\ y \in PickerType(n) /\ y.stage = k.stage /\ y.moves = k.moves /\ y.cur = k.cur /\ y.endCur = k.endCur
      /\ y.endBadCaptures = k.endBadCaptures /\ y.endCaptures = k.endCaptures /\ y.endGenerated = k.endGenerated
      /\ y.skipQuiets = TRUE
  BY <1>1 DEF PickerType
<1>3. /\ \A p : Ahead(n, y, p) = Ahead(n, k, p)
      /\ Every(y) = Every(k) /\ Good(n, y) = Good(n, k) /\ Kept(y) = Kept(k)
      /\ BadCaptures(y) = BadCaptures(k) /\ QuietsHeld(y) = QuietsHeld(k)
  BY <1>2 DEF Ahead, Every, Good, Kept, BadCaptures, QuietsHeld
<1>4. BadQuiets(n, y) = BadQuiets(n, k) /\ ListPass(n, y) = ListPass(n, k)
  BY <1>3 DEF BadQuiets, ListPass
<1>5. Pending(n, y) = Pending(n, k)
  BY <1>2, <1>3, <1>4 DEF Pending
<1>6. Todo(n, y) = Todo(n, k) \ ToSet(n.quiets)
  BY <1>2, <1>5 DEF Todo
<1>7. ArrayRight(n, k) => ArrayRight(n, y)
  BY <1>2 DEF ArrayRight
<1>8. InBad(n, k) => InBad(n, y)
  BY <1>2, <1>3 DEF InBad
<1>9. PickerInv(n, y)
  <2>1. CASE Starting(n, k)
    <3>1. Starting(n, y)
      BY <1>2, <2>1 DEF Starting
    <3>2. QED
      BY <3>1 DEF PickerInv
  <2>2. CASE Listing(n, k)
    <3>1. Listing(n, y)
      BY <1>2, <1>7, <2>2 DEF Listing
    <3>2. QED
      BY <3>1 DEF PickerInv
  <2>3. CASE InGoodCaptures(n, k)
    <3>1. InGoodCaptures(n, y)
      BY <1>2, <1>3, <1>7, <2>3 DEF InGoodCaptures
    <3>2. QED
      BY <3>1 DEF PickerInv
  <2>4. CASE InGoodQuiets(n, k)
    <3>1. InGoodQuiets(n, y)
      BY <1>2, <1>8, <2>4 DEF InGoodQuiets
    <3>2. QED
      BY <3>1 DEF PickerInv
  <2>5. CASE InBadCaptures(n, k)
    <3>1. InBadCaptures(n, y)
      BY <1>2, <1>7, <1>8, <2>5 DEF InBadCaptures
    <3>2. QED
      BY <3>1 DEF PickerInv
  <2>6. CASE InBadQuiets(n, k)
    <3>1. InBadQuiets(n, y)
      BY <1>2, <1>8, <2>6 DEF InBadQuiets
    <3>2. QED
      BY <3>1 DEF PickerInv
  <2>7. QED
    BY <2>1, <2>2, <2>3, <2>4, <2>5, <2>6 DEF PickerInv
<1>10. QED
  BY <1>2, <1>6, <1>9

LEMMA SkipInv ==
  ASSUME PickInv, skip_quiet_moves
  PROVE  PickInv'
<1>1. /\ node' = node /\ emitted' = emitted /\ picker' = [picker EXCEPT !.skipQuiets = TRUE] /\ ~picker.skipQuiets /\ emitted # <<>>
  BY DEF skip_quiet_moves
<1>2. node \in PickSetups /\ PickerInv(node, picker) /\ picker.stage # "TT"
  BY <1>1 DEF PickInv
<1>3. /\ PickerInv(node, picker') /\ picker'.stage = picker.stage /\ picker'.skipQuiets
      /\ Todo(node, picker') = Todo(node, picker) \ ToSet(node.quiets)
  BY <1>1, <1>2, SkipIs
<1>4. Todo(node', picker') \subseteq Todo(node, picker)
  BY <1>1, <1>3
<1>5. /\ \A i \in 1 .. Len(emitted) :
           IF emitted[i] = NoneLeft THEN i = Len(emitted) /\ Todo(node, picker') = {}
           ELSE emitted[i] \in PseudoLegal(node) /\ emitted[i] \notin Todo(node, picker')
      /\ Todo(node, picker') \subseteq PseudoLegal(node)
      /\ \A i \in 1 .. Len(emitted), b \in Todo(node, picker') :
           {emitted[i], b} \cap {NoneLeft, node.ttMove} = {} => Precedes(node, emitted[i], b)
  BY <1>1, <1>4 DEF PickInv
<1>6. \A m \in Wanted(node) :
        m \in Todo(node, picker') \/ (\E i \in 1 .. Len(emitted) : emitted[i] = m) \/ (picker'.skipQuiets /\ m \in ToSet(node.quiets))
  BY <1>3 DEF PickInv
<1>7. QED
  BY <1>1, <1>2, <1>3, <1>5, <1>6 DEF PickInv

LEMMA PickNextInv == PickInv /\ [PickNext]_pickVars => PickInv'
<1>1. SUFFICES ASSUME PickInv, [PickNext]_pickVars PROVE PickInv'
  OBVIOUS
<1>2. CASE UNCHANGED pickVars
  BY <1>1, <1>2 DEF pickVars, PickInv
<1>3. QED
  BY <1>1, <1>2, NextMoveInv, SkipInv DEF PickNext

LEMMA PickInvImplies == PickInv => PicksRight
<1> SUFFICES ASSUME PickInv PROVE PicksRight
  OBVIOUS
<1> DEFINE L == Len(emitted)
<1>1. /\ node \in PickSetups /\ emitted \in Seq(EmittedFrom(node)) /\ Distinct(L, emitted) /\ L \in Nat /\ DOMAIN emitted = 1 .. L
      /\ \A i \in 1 .. L : emitted[i] # NoneLeft => emitted[i] \in PseudoLegal(node)
  BY DEF PickInv
<1> HIDE DEF L
<1>2. \A m \in MovesEmitted : m # NoneLeft /\ \E i \in 1 .. L : emitted[i] = m
  BY <1>1 DEF MovesEmitted
<1>3. \A i \in 1 .. L : emitted[i] # NoneLeft => emitted[i] \in MovesEmitted
  BY <1>1 DEF MovesEmitted
<1>4. EachMoveOnce
  <2>1. IsInjective(emitted)
    BY <1>1 DEF IsInjective, Distinct
  <2>2. MovesEmitted \subseteq PseudoLegal(node)
    BY <1>1, <1>2
  <2>3. UsesTTMove(node) /\ emitted # <<>> => emitted[1] = node.ttMove
    BY DEF PickInv
  <2>4. QED
    BY <2>1, <2>2, <2>3 DEF EachMoveOnce
<1>5. NoMoveLost
  <2>1. SUFFICES ASSUME PickedAll PROVE NoMoveLost
    BY DEF NoMoveLost
  <2>2. emitted[L] = NoneLeft /\ L \in 1 .. L
    BY <1>1, <2>1 DEF PickedAll, Last, L
  <2>3. Todo(node, picker) = {}
    BY <2>2 DEF PickInv, L
  <2>4. \A m \in Wanted(node) : m # NoneLeft
    BY <1>1, PossibleMoves
  <2>5. \A m \in Wanted(node) : m \in MovesEmitted \/ (picker.skipQuiets /\ m \in ToSet(node.quiets))
    BY <1>3, <2>3, <2>4 DEF PickInv, L
  <2>6. node.kind \in {"main", "evasion", "qsearch", "probcut"}
    BY <1>1, SetupIs
  <2>7. ToSet(node.captures) \cap ToSet(node.quiets) = {} /\ (node.kind = "evasion" => ToSet(node.quiets) = {})
    BY <1>1, SetupIs
  <2>8. CASE node.kind = "evasion"
    BY <2>5, <2>7, <2>8 DEF NoMoveLost, Wanted
  <2>9. CASE node.kind = "qsearch"
    BY <2>5, <2>7, <2>9 DEF NoMoveLost, Wanted
  <2>10. CASE node.kind = "probcut"
    BY <2>5, <2>7, <2>10 DEF NoMoveLost, Wanted
  <2>11. CASE node.kind = "main"
    BY <2>5, <2>7, <2>11 DEF NoMoveLost, Wanted
  <2>12. QED
    BY <2>6, <2>8, <2>9, <2>10, <2>11
<1>6. BestFirst
  <2>1. \A m : Class(m) = ClassOf(node, m)
    BY DEF Class, ClassOf
  <2>2. ASSUME NEW m \in MovesEmitted PROVE PlaceOf(m) \in 1 .. L /\ emitted[PlaceOf(m)] = m
    <3>1. \E i \in DOMAIN emitted : emitted[i] = m
      BY <1>1, <1>2
    <3>2. QED
      BY <1>1, <3>1 DEF PlaceOf
  <2>3. ASSUME NEW a \in MovesEmitted \ {node.ttMove}, NEW b \in MovesEmitted \ {node.ttMove}, PlaceOf(a) < PlaceOf(b)
        PROVE  Precedes(node, a, b)
    <3>1. {a, b} \cap {NoneLeft, node.ttMove} = {}
      BY <1>2
    <3>2. \A i, j \in 1 .. L :
            i < j /\ {emitted[i], emitted[j]} \cap {NoneLeft, node.ttMove} = {} => Precedes(node, emitted[i], emitted[j])
      BY DEF PickInv, L
    <3>3. QED
      BY <2>2, <2>3, <3>1, <3>2
  <2>4. QED
    BY <2>1, <2>3 DEF BestFirst, Precedes
<1>7. QED
  BY <1>4, <1>5, <1>6 DEF PicksRight

\* The moves that a node is searched with (MovePicker::next_move): each possible move once,
\* the hash move first, none lost but the quiet moves that the search skips, good captures
\* before good quiet moves before bad captures before bad quiet moves, and the best first.
THEOREM MovesPickedRight == PickSpec => []PicksRight
<1>1. PickInit => PickInv
  BY PickInitInv
<1>2. PickInv /\ [PickNext]_pickVars => PickInv'
  BY PickNextInv
<1>3. PickInv => PicksRight
  BY PickInvImplies
<1>4. QED
  BY <1>1, <1>2, <1>3, PTL DEF PickSpec
=============================================================================
