----------------------------- MODULE TBEncoding -----------------------------
(***************************************************************************)
(* How the tablebases number the positions of a table (the tables that     *)
(* Tablebases::init computes, set_groups and do_probe_table of             *)
(* syzygy/tbprobe.cpp). A position is the sequence of the squares, 0 to    *)
(* 63, of the pieces of its table, white being the stronger side.          *)
(***************************************************************************)
EXTENDS Integers, Sequences, FiniteSetsExt, SequencesExt

CONSTANTS Encodings, \* tables: pieces, hasPawns, hasUniquePieces, pawnCount, order
          SomeSquares, MoreSquares, \* squares of the two positions compared
          PawnCounts \* the numbers of leading pawns considered

ASSUME SquaresAssumption == SomeSquares \subseteq 0 .. 63 /\ MoreSquares \subseteq 0 .. 63

file_of(s) == s % 8
rank_of(s) == s \div 8
off_A1H8(s) == rank_of(s) - file_of(s)
flip_file(s) == 8 * rank_of(s) + 7 - file_of(s)
flip_rank(s) == 8 * (7 - rank_of(s)) + file_of(s)
flip_diagonal(s) == 8 * file_of(s) + rank_of(s)
Count(S) == Cardinality(S)
BoolToInt(b) == IF b THEN 1 ELSE 0

-----------------------------------------------------------------------------
(* What init computes.                                                     *)

MapB1H1H7 == [s \in {u \in 0 .. 63 : off_A1H8(u) < 0} |-> Count({u \in 0 .. s - 1 : off_A1H8(u) < 0})]

\* The a1-d1-d4 triangle, its diagonal last.
Triangle == {s \in 0 .. 27 : off_A1H8(s) <= 0 /\ file_of(s) <= 3}
MapA1D1D4 == [s \in Triangle |->
  IF off_A1H8(s) = 0 THEN 6 + rank_of(s) ELSE Count({u \in Triangle : u < s /\ off_A1H8(u) # 0})]

\* Two kings: the first in the triangle, the second apart from it and, if the
\* first is on the diagonal, not above it; both on the diagonal come last.
Near(s, u) == /\ file_of(s) - file_of(u) \in -1 .. 1
              /\ rank_of(s) - rank_of(u) \in -1 .. 1
KingPairs == {k \in Triangle \X (0 .. 63) : ~Near(k[1], k[2]) /\ (off_A1H8(k[1]) = 0 => off_A1H8(k[2]) <= 0)}
KingOrder == [k \in KingPairs |->
  (IF off_A1H8(k[1]) = 0 /\ off_A1H8(k[2]) = 0 THEN 1000 ELSE 0) + 64 * MapA1D1D4[k[1]] + k[2]]
MapKK == [k \in KingPairs |-> Count({l \in KingPairs : KingOrder[l] < KingOrder[k]})]

\* The ways to choose k of n, which init builds by the Pascal rule.
Binomial(k, n) ==
  CASE k = 0 -> 1 [] k = 1 -> n [] k = 2 -> (n * (n - 1)) \div 2
    [] k = 3 -> (n * (n - 1) * (n - 2)) \div 6
    [] OTHER -> (((n * (n - 1) * (n - 2)) \div 6) * (n - 3)) \div 4

\* Squares from a2 to h7; the pawn with the largest number leads.
MapPawns(s) ==
  LET f == IF file_of(s) > 3 THEN 7 - file_of(s) ELSE file_of(s)
  IN  47 - 2 * (6 * f + rank_of(s) - 1) - BoolToInt(file_of(s) > 3)

LeadPawnIdx(count, s) ==
  MapThenSumSet(LAMBDA r : Binomial(count - 1, MapPawns(8 * r + file_of(s))), 1 .. rank_of(s) - 1)
\* Mutant: the last rank is left out.
LeadPawnsSizeShort(count, f) == MapThenSumSet(LAMBDA r : Binomial(count - 1, MapPawns(8 * r + f)), 1 .. 5)

LeadPawnsSize(count, f) == MapThenSumSet(LAMBDA r : Binomial(count - 1, MapPawns(8 * r + f)), 1 .. 6)

-----------------------------------------------------------------------------
(* set_groups: pieces that are encoded together, and the weight of each    *)
(* group in the index.                                                     *)

FirstLen(e) == IF e.hasPawns THEN 0 ELSE IF e.hasUniquePieces THEN 3 ELSE 2
GroupStarts(e) == {i \in DOMAIN e.pieces : i = 1 \/ (i > FirstLen(e) /\ e.pieces[i] # e.pieces[i - 1])}
NumGroups(e) == Count(GroupStarts(e))
GroupOf(e, i) == Count({j \in GroupStarts(e) : j <= i})
Members(e, g) == {i \in DOMAIN e.pieces : GroupOf(e, i) = g}
GroupLen(e, g) == Count(Members(e, g))

BothPawns(e) == e.hasPawns /\ e.pawnCount[2] > 0

\* When each group comes: the leading one and the other pawns at their places
\* of order, the rest in turn at those that are left.
Turn(e, g) ==
  CASE g = 1 -> e.order[1]
    [] g = 2 /\ BothPawns(e) -> e.order[2]
    [] OTHER -> LET taken == {e.order[1]} \cup (IF BothPawns(e) THEN {e.order[2]} ELSE {})
                    free  == (0 .. NumGroups(e) - 1) \ taken
                    first == IF BothPawns(e) THEN 3 ELSE 2
                IN  CHOOSE k \in free : Count({l \in free : l < k}) = g - first

FreeSquares(e, g) ==
  64 - MapThenSumSet(LAMBDA h : GroupLen(e, h), {h \in 1 .. NumGroups(e) : h < g})
GroupSize(e, g, f) ==
  CASE g = 1 -> IF e.hasPawns THEN LeadPawnsSize(GroupLen(e, 1), f) ELSE IF e.hasUniquePieces THEN 31332 ELSE 462
    [] g = 2 /\ BothPawns(e) -> Binomial(GroupLen(e, 2), 48 - GroupLen(e, 1))
    [] OTHER -> Binomial(GroupLen(e, g), FreeSquares(e, g))
Product(S, Op(_)) == FoldSet(LAMBDA x, acc : Op(x) * acc, 1, S)
GroupIdx(e, g, f) ==
  Product({h \in 1 .. NumGroups(e) : Turn(e, h) < Turn(e, g)}, LAMBDA h : GroupSize(e, h, f))
TableSize(e, f) == Product(1 .. NumGroups(e), LAMBDA h : GroupSize(e, h, f))

-----------------------------------------------------------------------------
(* do_probe_table: from the squares to the index.                          *)

Each(Op(_), squares) == [i \in DOMAIN squares |-> Op(squares[i])]

\* The leading pawn comes first.
LeadFirst(e, squares) ==
  IF ~e.hasPawns THEN squares
  ELSE LET lead == CHOOSE i \in Members(e, 1) : \A j \in Members(e, 1) : MapPawns(squares[j]) <= MapPawns(squares[i])
       IN  [squares EXCEPT ![1] = squares[lead], ![lead] = squares[1]]

ToFilesAD(squares) == IF file_of(squares[1]) > 3 THEN Each(flip_file, squares) ELSE squares
ToRanks14(squares) == IF rank_of(squares[1]) > 3 THEN Each(flip_rank, squares) ELSE squares

\* The first piece of the leading group off the diagonal goes below it.
BelowDiagonal(e, squares) ==
  LET off == {i \in Members(e, 1) : off_A1H8(squares[i]) # 0} IN
  IF off # {} /\ off_A1H8(squares[Min(off)]) > 0
  THEN [i \in DOMAIN squares |-> IF i >= Min(off) THEN flip_diagonal(squares[i]) ELSE squares[i]] ELSE squares

Canonical(e, squares) ==
  LET s == ToFilesAD(LeadFirst(e, squares))
  IN  IF e.hasPawns THEN s ELSE BelowDiagonal(e, ToRanks14(s))

\* Three unique pieces.
UniqueIdx(s) ==
  LET adjust1 == BoolToInt(s[2] > s[1])
      adjust2 == BoolToInt(s[3] > s[1]) + BoolToInt(s[3] > s[2])
      onDiagonal(i) == off_A1H8(s[i]) = 0
  IN  CASE ~onDiagonal(1) -> (MapA1D1D4[s[1]] * 63 + (s[2] - adjust1)) * 62 + s[3] - adjust2
        [] onDiagonal(1) /\ ~onDiagonal(2) ->
             (6 * 63 + rank_of(s[1]) * 28 + MapB1H1H7[s[2]]) * 62 + s[3] - adjust2
        [] onDiagonal(1) /\ onDiagonal(2) /\ ~onDiagonal(3) ->
             6 * 63 * 62 + 4 * 28 * 62 + rank_of(s[1]) * 7 * 28 + (rank_of(s[2]) - adjust1) * 28 + MapB1H1H7[s[3]]
        [] OTHER -> 6 * 63 * 62 + 4 * 28 * 62 + 4 * 7 * 28 + rank_of(s[1]) * 7 * 6
                      + (rank_of(s[2]) - adjust1) * 6 + (rank_of(s[3]) - adjust2)

\* The leading pawns, after the first in ascending order of MapPawns.
PawnsIdx(s, count) ==
  LeadPawnIdx(count, s[1])
    + MapThenSumSet(LAMBDA i : Binomial(1 + Count({j \in 2 .. count : MapPawns(s[j]) < MapPawns(s[i])}), MapPawns(s[i])),
                    2 .. count)

LeadIdx(e, s) ==
  IF e.hasPawns THEN PawnsIdx(s, GroupLen(e, 1)) ELSE IF e.hasUniquePieces THEN UniqueIdx(s) ELSE MapKK[<<s[1], s[2]>>]

\* Another group: squares in ascending order, those of earlier groups left out.
GroupNumber(e, g, s) ==
  LET own == {s[i] : i \in Members(e, g)}
      before == {s[i] : i \in {j \in DOMAIN s : GroupOf(e, j) < g}}
      adjusted(q) == q - Count({u \in before : u < q}) - (IF g = 2 /\ BothPawns(e) THEN 8 ELSE 0)
  IN  MapThenSumSet(LAMBDA q : Binomial(1 + Count({u \in own : u < q}), adjusted(q)), own)

FileOfTable(e, s) == IF e.hasPawns THEN file_of(s[1]) ELSE 0
Index(e, squares) ==
  LET s == Canonical(e, squares)  f == FileOfTable(e, s)
  IN  LeadIdx(e, s) * GroupIdx(e, 1, f)
        + MapThenSumSet(LAMBDA g : GroupNumber(e, g, s) * GroupIdx(e, g, f), 2 .. NumGroups(e))

-----------------------------------------------------------------------------
(* Two positions of one table.                                             *)

VARIABLES encoding, first, second
encVars == <<encoding, first, second>>

\* What the table encodes: no two pieces on a square, no pawns on the outer
\* ranks, no kings side by side.
Encodable(e, squares) ==
  /\ IsInjective(squares)
  /\ \A i \in DOMAIN squares : e.pieces[i] \in {"P", "p"} => rank_of(squares[i]) \in 1 .. 6
  /\ \A i, j \in DOMAIN squares : e.pieces[i] = "K" /\ e.pieces[j] = "k" => ~Near(squares[i], squares[j])

EncInit == encoding \in Encodings /\ first = <<>> /\ second = <<>>

PositionsOn(S) == {p \in [DOMAIN encoding.pieces -> S] : Encodable(encoding, p)}

EncodeFirst ==
  /\ first = <<>> /\ first' \in PositionsOn(SomeSquares)
  /\ UNCHANGED <<encoding, second>>
EncodeSecond ==
  /\ first # <<>> /\ second = <<>> /\ second' \in PositionsOn(MoreSquares)
  /\ UNCHANGED <<encoding, first>>
EncNext == EncodeFirst \/ EncodeSecond

-----------------------------------------------------------------------------
(* Properties.                                                             *)

\* A position is within its table.
IndexInTable ==
  first # <<>> => Index(encoding, first) \in
                    0 .. TableSize(encoding, FileOfTable(encoding, Canonical(encoding, first))) - 1

\* The images of a position under the symmetries that its table uses.
Placed(e, squares) == {<<e.pieces[i], squares[i]>> : i \in DOMAIN squares}
Symmetric(e, squares) ==
  LET mirrored == {squares, Each(flip_file, squares)}
      turned == mirrored \cup {Each(flip_rank, p) : p \in mirrored}
  IN  IF e.hasPawns THEN mirrored ELSE turned \cup {Each(flip_diagonal, p) : p \in turned}

\* One index is one position: two positions that differ by more than a symmetry
\* of the board are never stored in one place.
IndexIsUnique ==
  second # <<>> /\ Index(encoding, first) = Index(encoding, second)
    /\ FileOfTable(encoding, Canonical(encoding, first)) = FileOfTable(encoding, Canonical(encoding, second))
    => Placed(encoding, second) \in {Placed(encoding, p) : p \in Symmetric(encoding, first)}

\* The leading pieces are numbered without gaps: the 462 pairs of kings, the
\* 31332 triples of unique pieces, the pawns of every file.
BelowFirst(s) == \* a canonical triple
  /\ s[1] \in Triangle
  /\ off_A1H8(s[1]) = 0 => off_A1H8(s[2]) <= 0
  /\ off_A1H8(s[1]) = 0 /\ off_A1H8(s[2]) = 0 => off_A1H8(s[3]) <= 0
LeadIsDense ==
  first = <<>> =>
    IF encoding.hasPawns
    THEN \A count \in PawnCounts, f \in 0 .. 3 :
           LET pawns == {s \in 8 .. 55 : TRUE}
               Leads(p) == file_of(p[1]) = f /\ \A i \in 2 .. count : MapPawns(p[i]) < MapPawns(p[1])
                             /\ (i > 2 => MapPawns(p[i - 1]) < MapPawns(p[i]))
           IN  {PawnsIdx(p, count) : p \in {q \in [1 .. count -> pawns] : Leads(q)}} = 0 .. LeadPawnsSize(count, f) - 1
    ELSE IF encoding.hasUniquePieces
    THEN {UniqueIdx(p) : p \in {q \in Triangle \X (0 .. 63) \X (0 .. 63) : IsInjective(q) /\ BelowFirst(q)}} = 0 .. 31331
    ELSE {MapKK[k] : k \in KingPairs} = 0 .. 461
=============================================================================
