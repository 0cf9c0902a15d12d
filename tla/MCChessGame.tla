----------------------------- MODULE MCChessGame -----------------------------
\* Games of a few plies from positions made for what is hard: pins of en passant
\* captures, castling of both kinds, promotions, exchanges, repetitions.
EXTENDS ChessGame

Sq(f, r) == make_square(f - 1, r - 1)
WK == make_piece(WHITE, KING)    BK == make_piece(BLACK, KING)
WQ == make_piece(WHITE, QUEEN)   BQ == make_piece(BLACK, QUEEN)
WR == make_piece(WHITE, ROOK)    BR == make_piece(BLACK, ROOK)
WB == make_piece(WHITE, BISHOP)  BB == make_piece(BLACK, BISHOP)
WN == make_piece(WHITE, KNIGHT)  BN == make_piece(BLACK, KNIGHT)
WP == make_piece(WHITE, PAWN)    BP == make_piece(BLACK, PAWN)

Fen(placement, active, castling, rule50) ==
  [placement |-> placement, active |-> active, castling |-> castling, ep |-> SQ_NONE, rule50 |-> rule50, fullmove |-> 3]
Setup(f, chess960, plies, region, nulls) ==
  [fen |-> f, chess960 |-> chess960, plies |-> plies, region |-> region, nulls |-> nulls]

\* e7-e5 beside one or two white pawns, with a slider anywhere around the king.
PinSquares == {Sq(1,5), Sq(2,3), Sq(4,3), Sq(7,4), Sq(5,1), Sq(1,7)}
PinSliders == {Sq(8,5), Sq(7,8), Sq(4,8), Sq(8,7), Sq(3,8), Sq(5,8), Sq(8,1), Sq(2,7)}
EnPassants ==
  {s \in {Setup(Fen((k :> WK) @@ (q :> pc) @@ (Sq(8,8) :> BK) @@ (Sq(5,7) :> BP) @@ [x \in ps |-> WP], BLACK, {}, 3),
                FALSE, 1, {Sq(5,7), Sq(5,5)}, FALSE) :
            k \in PinSquares, q \in PinSliders, pc \in {BR, BB}, ps \in {{Sq(4,5)}, {Sq(6,5)}, {Sq(4,5), Sq(6,5)}}} :
     pos_is_ok(Set(s.fen, FALSE))}

Castlings ==
  {Setup(Fen((Sq(5,1) :> WK) @@ (Sq(1,1) :> WR) @@ (Sq(8,1) :> WR) @@ (Sq(7,8) :> BK) @@ (Sq(2,8) :> BR) @@ (Sq(6,3) :> BP), WHITE,
             {<<WHITE, TagK>>, <<WHITE, TagQ>>}, 0), FALSE, 2, Squares, FALSE),
   Setup(Fen((Sq(4,1) :> WK) @@ (Sq(2,1) :> WR) @@ (Sq(7,1) :> WR) @@ (Sq(1,1) :> BQ) @@ (Sq(8,8) :> BK), WHITE,
             {<<WHITE, 1>>, <<WHITE, 6>>}, 0), TRUE, 1, Squares, FALSE),
   Setup(Fen((Sq(2,8) :> BK) @@ (Sq(1,8) :> BR) @@ (Sq(3,8) :> BR) @@ (Sq(4,5) :> WB) @@ (Sq(4,1) :> WK), BLACK,
             {<<BLACK, TagQ>>, <<BLACK, TagK>>}, 0), TRUE, 2, Squares, FALSE)}
Promotions ==
  {Setup(Fen((Sq(2,7) :> WP) @@ (Sq(1,8) :> BR) @@ (Sq(3,8) :> BN) @@ (Sq(5,7) :> WK) @@ (Sq(8,8) :> BK) @@ (Sq(7,2) :> BP) @@ (Sq(6,1) :> WR),
             WHITE, {}, 0), FALSE, 2, Squares, FALSE)}
Exchanges ==
  {Setup(Fen((Sq(4,5) :> BP) @@ (Sq(3,6) :> BP) @@ (Sq(6,6) :> BN) @@ (Sq(4,8) :> BQ) @@ (Sq(4,7) :> BR) @@ (Sq(7,8) :> BK)
              @@ (Sq(5,4) :> WP) @@ (Sq(3,3) :> WN) @@ (Sq(6,3) :> WB) @@ (Sq(4,1) :> WR) @@ (Sq(4,2) :> WQ) @@ (Sq(7,1) :> WK),
             WHITE, {}, 0), FALSE, 1, Squares, FALSE),
   Setup(Fen((Sq(5,4) :> BN) @@ (Sq(5,8) :> BR) @@ (Sq(8,8) :> BK) @@ (Sq(1,8) :> BB)
              @@ (Sq(4,3) :> WP) @@ (Sq(5,2) :> WR) @@ (Sq(5,1) :> WK) @@ (Sq(8,1) :> WB), WHITE, {}, 0), FALSE, 1, Squares, FALSE)}
Repetitions ==
  {Setup(Fen((Sq(1,1) :> WK) @@ (Sq(3,1) :> WR) @@ (Sq(8,8) :> BK) @@ (Sq(6,8) :> BR), WHITE, {}, 93), FALSE, 9,
         {Sq(1,1), Sq(1,2), Sq(3,1), Sq(3,2), Sq(8,8), Sq(8,7)}, FALSE),
   Setup(Fen((Sq(5,1) :> WK) @@ (Sq(8,1) :> WR) @@ (Sq(1,8) :> BK), WHITE, {<<WHITE, TagK>>}, 0), FALSE, 9,
         {Sq(8,1), Sq(7,1), Sq(1,8), Sq(1,7)}, TRUE)}
Mates == {Setup(Fen((Sq(2,6) :> WK) @@ (Sq(3,1) :> WR) @@ (Sq(1,8) :> BK), WHITE, {}, 99), FALSE, 1, Squares, FALSE)}
MCSetups == Mates \cup EnPassants \cup Castlings \cup Promotions \cup Exchanges \cup Repetitions
MCThresholds == {-600, 0, 44, 700}
=============================================================================
