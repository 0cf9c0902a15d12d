-------------------------------- MODULE Board --------------------------------
(***************************************************************************)
(* Squares, pieces and attacks (types.h, bitboard.h and bitboard.cpp). A   *)
(* bitboard is a set of squares; the tables of attacks are what the magic  *)
(* bitboards look up.                                                      *)
(***************************************************************************)
EXTENDS Integers, FiniteSets

WHITE == 0
BLACK == 1
Colors == {WHITE, BLACK}
Opposite(c) == 1 - c \* ~c

NO_PIECE == 0
PAWN == 1
KNIGHT == 2
BISHOP == 3
ROOK == 4
QUEEN == 5
KING == 6
PieceTypes == PAWN .. KING
make_piece(c, pt) == 8 * c + pt
color_of(pc) == pc \div 8
type_of(pc) == pc % 8

PieceValue == [pt \in NO_PIECE .. KING |->
  CASE pt = PAWN -> 208 [] pt = KNIGHT -> 781 [] pt = BISHOP -> 825 [] pt = ROOK -> 1276 [] pt = QUEEN -> 2538 [] OTHER -> 0]

Squares == 0 .. 63
SQ_NONE == 64
file_of(s) == s % 8
rank_of(s) == s \div 8
make_square(f, r) == 8 * r + f
file_bb(s) == {q \in Squares : file_of(q) = file_of(s)}
relative_rank(c, s) == IF c = WHITE THEN rank_of(s) ELSE 7 - rank_of(s)
relative_square(c, s) == IF c = WHITE THEN s ELSE make_square(file_of(s), 7 - rank_of(s))
pawn_push(c) == IF c = WHITE THEN 8 ELSE -8

\* Sets of squares.
Xor(a, b) == (a \ b) \cup (b \ a)
more_than_one(b) == Cardinality(b) > 1
lsb(b) == CHOOSE s \in b : \A q \in b : s <= q

-----------------------------------------------------------------------------
(* The tables of Bitboards::init.                                          *)

Difference(x, y) == IF x > y THEN x - y ELSE y - x
Toward(x, y) == IF x < y THEN 1 ELSE IF x > y THEN -1 ELSE 0
FileDistance(s, t) == Difference(file_of(s), file_of(t))
RankDistance(s, t) == Difference(rank_of(s), rank_of(t))
Steps(s, t) == IF FileDistance(s, t) > RankDistance(s, t) THEN FileDistance(s, t) ELSE RankDistance(s, t)

RookAligned(s, t) == s # t /\ (FileDistance(s, t) = 0 \/ RankDistance(s, t) = 0)
BishopAligned(s, t) == s # t /\ FileDistance(s, t) = RankDistance(s, t)
Aligned(s, t) == RookAligned(s, t) \/ BishopAligned(s, t)

\* Squares after s up to and with t; {t} if they are not on a line.
BetweenBB == [s \in Squares |-> [t \in Squares |->
  IF Aligned(s, t)
  THEN {make_square(file_of(s) + k * Toward(file_of(s), file_of(t)), rank_of(s) + k * Toward(rank_of(s), rank_of(t))) :
          k \in 1 .. Steps(s, t)}
  ELSE {t}]]

\* The line through both, and the ray that starts in s and passes t.
LineBB == [s \in Squares |-> [t \in Squares |->
  IF ~Aligned(s, t) THEN {} ELSE
    {s, t} \cup {q \in Squares : /\ IF RookAligned(s, t) THEN RookAligned(s, q) /\ RookAligned(t, q)
                                    ELSE BishopAligned(s, q) /\ BishopAligned(t, q)
                                 /\ q \notin {s, t}}]]
RayPassBB == [s \in Squares |-> [t \in Squares |->
  {q \in LineBB[s][t] : q # s /\ Toward(file_of(s), file_of(q)) = Toward(file_of(s), file_of(t))
                        /\ Toward(rank_of(s), rank_of(q)) = Toward(rank_of(s), rank_of(t))}]]

PseudoAttacks == [pt \in PieceTypes \ {PAWN} |-> [s \in Squares |-> {t \in Squares :
  CASE pt = KNIGHT -> {FileDistance(s, t), RankDistance(s, t)} = {1, 2}
    [] pt = BISHOP -> BishopAligned(s, t)
    [] pt = ROOK   -> RookAligned(s, t)
    [] pt = QUEEN  -> Aligned(s, t)
    [] pt = KING   -> Steps(s, t) = 1}]]
PawnAttacks == [c \in Colors |-> [s \in Squares |->
  {t \in Squares : FileDistance(s, t) = 1 /\ 8 * rank_of(t) = 8 * rank_of(s) + pawn_push(c)}]]

Sliders == {BISHOP, ROOK, QUEEN}
\* sliding_attack: as far as the first occupied square.
attacks_bb(pt, s, occupied) ==
  IF pt \in Sliders THEN {t \in PseudoAttacks[pt][s] : BetweenBB[s][t] \cap occupied \subseteq {t}}
  ELSE PseudoAttacks[pt][s]
PieceAttacks(pc, s, occupied) ==
  IF type_of(pc) = PAWN THEN PawnAttacks[color_of(pc)][s] ELSE attacks_bb(type_of(pc), s, occupied)
=============================================================================
