------------------------------ MODULE Position -------------------------------
(***************************************************************************)
(* A chess position (position.h and position.cpp): making and unmaking     *)
(* moves with all that is kept up to date on the way, tests of moves,      *)
(* repetitions, static exchange evaluation.                                *)
(*                                                                         *)
(* A board is a function of its occupied squares. A Zobrist key is the set *)
(* of the random numbers that are combined by xor: two keys are equal when *)
(* the sets are, so collisions of keys are left out.                       *)
(***************************************************************************)
EXTENDS Board, Sequences, TLC, Functions, FiniteSetsExt

\* CastlingRights; a castling is encoded by the square of its rook.
WHITE_OO == 1
WHITE_OOO == 2
BLACK_OO == 4
BLACK_OOO == 8
RightsOf(c) == IF c = WHITE THEN {WHITE_OO, WHITE_OOO} ELSE {BLACK_OO, BLACK_OOO}
ColorOfRight(cr) == IF cr \in RightsOf(WHITE) THEN WHITE ELSE BLACK
KingSide(cr) == cr \in {WHITE_OO, BLACK_OO}

\* Moves.
Normal(from, to) == [from |-> from, to |-> to, type |-> "NORMAL", promotion |-> KNIGHT]
Promotion(from, to, pt) == [from |-> from, to |-> to, type |-> "PROMOTION", promotion |-> pt]
EnPassant(from, to) == [from |-> from, to |-> to, type |-> "EN_PASSANT", promotion |-> KNIGHT]
Castling(from, to) == [from |-> from, to |-> to, type |-> "CASTLING", promotion |-> KNIGHT]

-----------------------------------------------------------------------------
(* A position p: board, sideToMove, gamePly, chess960, castlingRookSquare, *)
(* castlingKingSquare (where castlingRightsMask has the king), st, and     *)
(* previous, the states behind st.                                         *)

pieces(p) == DOMAIN p.board
PiecesOf(p, c) == {s \in DOMAIN p.board : color_of(p.board[s]) = c}
OfTypes(p, T) == {s \in DOMAIN p.board : type_of(p.board[s]) \in T}
PiecesOfTypes(p, c, T) == {s \in DOMAIN p.board : color_of(p.board[s]) = c /\ type_of(p.board[s]) \in T}
KingSquare(p, c) == CHOOSE s \in DOMAIN p.board : p.board[s] = make_piece(c, KING)
piece_on(p, s) == IF s \in DOMAIN p.board THEN p.board[s] ELSE NO_PIECE
PieceCount(b, pc) == Cardinality({s \in DOMAIN b : b[s] = pc})
IsPiece(p, s, c, pt) == piece_on(p, s) = make_piece(c, pt)

attackers_to(p, s, occupied) ==
  {q \in DOMAIN p.board : s \in PieceAttacks(p.board[q], q, occupied)}
attackers_to_exist(p, s, occupied, c) == \E q \in PiecesOf(p, c) : s \in PieceAttacks(p.board[q], q, occupied)
\* The sliders of color c that look at s.
SlidersAt(p, s, occupied, c) ==
  (attacks_bb(ROOK, s, occupied) \cap PiecesOfTypes(p, c, {ROOK, QUEEN}))
    \cup (attacks_bb(BISHOP, s, occupied) \cap PiecesOfTypes(p, c, {BISHOP, QUEEN}))

RookTo(c, cr) == relative_square(c, IF KingSide(cr) THEN 5 ELSE 3)
KingTo(c, cr) == relative_square(c, IF KingSide(cr) THEN 6 ELSE 2)
CastlingPath(p, cr) ==
  LET rfrom == p.castlingRookSquare[cr]  kfrom == p.castlingKingSquare[cr]  c == ColorOfRight(cr)
  IN  (BetweenBB[rfrom][RookTo(c, cr)] \cup BetweenBB[kfrom][KingTo(c, cr)]) \ {kfrom, rfrom}
castling_impeded(p, cr) == pieces(p) \cap CastlingPath(p, cr) # {}
RightsMask(p, s) == {cr \in DOMAIN p.castlingRookSquare : s \in {p.castlingRookSquare[cr], p.castlingKingSquare[cr]}}

-----------------------------------------------------------------------------
(* Keys.                                                                   *)

\* Pawns on the last ranks have the number 0.
Psq(pc, s) ==
  IF (pc = make_piece(WHITE, PAWN) /\ rank_of(s) = 7) \/ (pc = make_piece(BLACK, PAWN) /\ rank_of(s) = 0) THEN {}
  ELSE {<<"psq", pc, s>>}
EnPassantKey(s) == {<<"enpassant", file_of(s), 0>>}
CastlingKey(rights) == {<<"castling", FoldSet(LAMBDA cr, acc : cr + acc, 0, rights), 0>>}
SideKey == {<<"side", 0, 0>>}
NoPawns == {<<"noPawns", 0, 0>>}
MaterialKey(b) == UNION {Psq(b[s], 8 + n) : <<s, n>> \in {<<q, k>> \in (DOMAIN b) \X (0 .. 15) : k < PieceCount(b, b[q])}}

PsqOf(b, S) == UNION {Psq(b[s], s) : s \in S}
MinorTypes == {KNIGHT, BISHOP}
PositionKey(b, us, rights, ep) ==
  Xor(Xor(PsqOf(b, DOMAIN b), IF us = BLACK THEN SideKey ELSE {}),
      Xor(CastlingKey(rights), IF ep = SQ_NONE THEN {} ELSE EnPassantKey(ep)))

\* set_state: all of it from the board.
set_state(p) ==
  LET b == p.board
      Of(c, T) == PiecesOfTypes(p, c, T)
      Officers == KNIGHT .. QUEEN
  IN  [key |-> PositionKey(b, p.sideToMove, p.st.castlingRights, p.st.epSquare),
       pawnKey |-> Xor(NoPawns, PsqOf(b, OfTypes(p, {PAWN}))),
       minorPieceKey |-> PsqOf(b, OfTypes(p, MinorTypes)),
       nonPawnKey |-> [c \in Colors |-> PsqOf(b, Of(c, Officers \cup {KING}))],
       nonPawnMaterial |-> [c \in Colors |-> MapThenSumSet(LAMBDA s : PieceValue[type_of(b[s])], Of(c, Officers))],
       materialKey |-> MaterialKey(b)]

-----------------------------------------------------------------------------
(* Checks.                                                                 *)

Snipers(p, c) == SlidersAt(p, KingSquare(p, c), {}, Opposite(c))
\* update_slider_blockers: the snipers that one piece, of either color, keeps from the king, with it.
BlockedBy(p, c, snipers) ==
  {x \in snipers \X pieces(p) : BetweenBB[KingSquare(p, c)][x[1]] \cap (pieces(p) \ snipers) = {x[2]}}
BlockersForKing(p, c) == {x[2] : x \in BlockedBy(p, c, Snipers(p, c))}
PinnersOf(p, c) == {x[1] : x \in {y \in BlockedBy(p, c, Snipers(p, c)) : y[2] \in PiecesOf(p, c)}}

\* set_check_info, for the side to move of p.
set_check_info(p) ==
  LET ksq == KingSquare(p, Opposite(p.sideToMove))
      Looks(pt) == CASE pt = PAWN -> PawnAttacks[Opposite(p.sideToMove)][ksq] [] pt = KING -> {}
                     [] OTHER -> attacks_bb(pt, ksq, pieces(p))
  IN  [p EXCEPT !.st = [@ EXCEPT
        !.blockersForKing = [c \in Colors |-> BlockersForKing(p, c)],
        !.pinners = [c \in Colors |-> PinnersOf(p, Opposite(c))],
        !.checkSquares = [pt \in PieceTypes |-> Looks(pt)]]]

-----------------------------------------------------------------------------
(* Threats: put_piece, remove_piece, move_piece and swap_piece note the    *)
(* changed threats between pieces for the network. x is a board with the   *)
(* lists of threats noted so far.                                          *)

Threat(add, pc, threatened, s, t) == [add |-> add, pc |-> pc, threatened |-> threatened, s |-> s, t |-> t]

\* update_piece_threats: those of the piece, those on it, and those of sliders, which see what
\* is behind it when it goes.
Revealed(ray, b, s, q, noRaysContaining) ==
  IF type_of(b[q]) \in Sliders /\ ray /\ RayPassBB[q][s] \cap noRaysContaining # noRaysContaining
  THEN (RayPassBB[q][s] \ BetweenBB[q][s]) \cap attacks_bb(QUEEN, s, DOMAIN b) \cap DOMAIN b ELSE {}
PieceThreats(put, ray, b, pc, s, noRaysContaining) ==
  {Threat(put, pc, b[t], s, t) : t \in PieceAttacks(pc, s, DOMAIN b) \cap DOMAIN b}
    \cup UNION {{Threat(put, b[q], pc, q, s)} \cup {Threat(~put, b[q], b[t], q, t) : t \in Revealed(ray, b, s, q, noRaysContaining)} :
                  q \in {r \in DOMAIN b \ {s} : s \in PieceAttacks(b[r], r, DOMAIN b)}}

AnySquare == Squares
With(b, pc, s) == [q \in DOMAIN b \cup {s} |-> IF q = s THEN pc ELSE b[q]]
Without(b, s) == Restrict(b, DOMAIN b \ {s})

put_piece(x, pc, s) ==
  LET b == With(x.board, pc, s)
  IN  [board |-> b, threats |-> Append(x.threats, PieceThreats(TRUE, TRUE, b, pc, s, AnySquare))]
remove_piece(x, s) ==
  [board |-> Without(x.board, s),
   threats |-> Append(x.threats, PieceThreats(FALSE, TRUE, x.board, x.board[s], s, AnySquare))]
move_piece(x, from, to) ==
  LET pc == x.board[from]
      b == With(Without(x.board, from), pc, to)
  IN  [board |-> b,
       threats |-> x.threats \o <<PieceThreats(FALSE, TRUE, x.board, pc, from, {from, to}),
                                  PieceThreats(TRUE, TRUE, b, pc, to, {from, to})>>]
swap_piece(x, s, pc) ==
  [board |-> With(x.board, pc, s),
   threats |-> x.threats \o <<PieceThreats(FALSE, FALSE, Without(x.board, s), x.board[s], s, AnySquare),
                              PieceThreats(TRUE, FALSE, With(x.board, pc, s), pc, s, AnySquare)>>]

\* do_castling<true>: the pieces are lifted first, their squares may overlap.
RightOfMove(us, m) == CHOOSE cr \in RightsOf(us) : KingSide(cr) = (m.to > m.from)
do_castling(x, us, m) ==
  LET cr == RightOfMove(us, m)
      lifted == remove_piece(remove_piece(x, m.from), m.to)
  IN  put_piece(put_piece(lifted, make_piece(us, KING), KingTo(us, cr)), make_piece(us, ROOK), RookTo(us, cr))

-----------------------------------------------------------------------------
(* do_move and undo_move.                                                  *)

CapturedPiece(p, m) ==
  CASE m.type = "EN_PASSANT" -> make_piece(Opposite(p.sideToMove), PAWN)
    [] m.type = "CASTLING" -> NO_PIECE
    [] OTHER -> piece_on(p, m.to)
CaptureSquare(p, m) == IF m.type = "EN_PASSANT" THEN m.to - pawn_push(p.sideToMove) ELSE m.to
IsDoublePush(p, m) == type_of(p.board[m.from]) = PAWN /\ Difference(m.from, m.to) = 16

\* The board and the threats.
PiecesMoved(x, p, m) ==
  CASE m.type = "CASTLING" -> do_castling(x, p.sideToMove, m)
    [] m.type = "EN_PASSANT" -> move_piece(remove_piece(x, CaptureSquare(p, m)), m.from, m.to)
    [] m.type \in {"NORMAL", "PROMOTION"} /\ m.to \in pieces(p) -> swap_piece(remove_piece(x, m.from), m.to, p.board[m.from])
    [] OTHER -> move_piece(x, m.from, m.to)
Promoted(x, p, m) == IF m.type = "PROMOTION" THEN swap_piece(x, m.to, make_piece(p.sideToMove, m.promotion)) ELSE x
BoardAfter(p, m) == Promoted(PiecesMoved([board |-> p.board, threats |-> <<>>], p, m), p, m)

\* Whatever leaves or comes to the squares of king and rook.
RightsAfter(p, m) == p.st.castlingRights \ (RightsMask(p, m.from) \cup RightsMask(p, m.to))

\* The keys and the material, each changed by what the move changes.
KeysAfter(p, m, board) ==
  LET us == p.sideToMove  them == Opposite(us)  st == p.st
      pc == p.board[m.from]  pt == type_of(pc)
      captured == CapturedPiece(p, m)  ct == type_of(captured)  capsq == CaptureSquare(p, m)
      promoted == make_piece(us, m.promotion)
      castles == m.type = "CASTLING"  promotes == m.type = "PROMOTION"
      cr == RightOfMove(us, m)
      rook == make_piece(us, ROOK)
      to == IF castles THEN KingTo(us, cr) ELSE m.to
      ofMove == Xor(Psq(pc, m.from), Psq(pc, to))
      ofRook == IF castles THEN Xor(Psq(rook, m.to), Psq(rook, RookTo(us, cr))) ELSE {}
      ofCapture == IF captured = NO_PIECE THEN {} ELSE Psq(captured, capsq)
      ofPromotion == IF promotes THEN Psq(promoted, m.to) ELSE {}
      rights == RightsAfter(p, m)
      ofRights == IF rights = st.castlingRights THEN {} ELSE Xor(CastlingKey(st.castlingRights), CastlingKey(rights))
      If(condition, tokens) == IF condition THEN tokens ELSE {}
      Officer(t) == t \in KNIGHT .. QUEEN
  IN  [castlingRights |-> rights,
       key |-> Xor(Xor(Xor(st.key, SideKey), Xor(ofMove, ofRook)),
                   Xor(Xor(ofCapture, ofPromotion),
                       Xor(ofRights, If(st.epSquare # SQ_NONE, EnPassantKey(st.epSquare))))),
       pawnKey |-> Xor(Xor(st.pawnKey, If(pt = PAWN, ofMove)), If(captured # NO_PIECE /\ ct = PAWN, ofCapture)),
       minorPieceKey |-> Xor(Xor(st.minorPieceKey, If(pt \in MinorTypes, ofMove)),
                             Xor(If(ct \in MinorTypes, ofCapture), If(promotes /\ m.promotion \in MinorTypes, ofPromotion))),
       nonPawnKey |-> [c \in Colors |->
         IF c = us THEN Xor(Xor(st.nonPawnKey[us], If(pt # PAWN, ofMove)), Xor(ofRook, ofPromotion))
         ELSE Xor(st.nonPawnKey[them], If(captured # NO_PIECE /\ ct # PAWN, ofCapture))],
       nonPawnMaterial |-> [c \in Colors |->
         IF c = us THEN st.nonPawnMaterial[us] + (IF promotes THEN PieceValue[m.promotion] ELSE 0)
         ELSE st.nonPawnMaterial[them] - (IF Officer(ct) THEN PieceValue[ct] ELSE 0)],
       materialKey |->
         Xor(Xor(st.materialKey, If(captured # NO_PIECE, Psq(captured, 8 + PieceCount(board, captured)))),
             If(promotes, Xor(Psq(promoted, 8 + PieceCount(board, promoted) - 1), Psq(pc, 8 + PieceCount(board, pc)))))]

\* The en passant square after a double push, of p as it is after the move: only
\* where a capture is legal.
EpSquareAfter(p, to) ==
  LET us == Opposite(p.sideToMove)  them == p.sideToMove
      ep == to - pawn_push(us)
      ksq == KingSquare(p, them)
      pawns == PawnAttacks[us][ep] \cap PiecesOfTypes(p, them, {PAWN})
      capturer == IF more_than_one(pawns) THEN pawns \ file_bb(ksq) ELSE pawns
      Safe(S) == SlidersAt(p, ksq, Xor(pieces(p), {lsb(S), to}) \cup {ep}, us) = {}
  IN  IF /\ pawns # {} /\ p.st.checkers \ {to} = {}
         /\ \/ more_than_one(pawns) /\ ~more_than_one(p.st.blockersForKing[them] \cap pawns)
            \/ ~more_than_one(capturer) /\ Safe(capturer)
      THEN ep ELSE SQ_NONE

\* Distance to the last occurrence of the position, negative if that was not the
\* first; the states of the game are <<st, the one before, ..>>.
LeastOf(x, y) == IF x < y THEN x ELSE y

RepetitionOf(key, states, end) ==
  LET same == {i \in 4 .. end : i % 2 = 0 /\ states[i].key = key}
      i == CHOOSE k \in same : \A l \in same : k <= l
  IN  IF same = {} THEN 0 ELSE IF states[i].repetition # 0 THEN -i ELSE i

\* The new state, a copy of the old one with its keys and counters changed, on the new board.
Moved(p, m, board) ==
  [p EXCEPT !.board = board, !.sideToMove = Opposite(@), !.gamePly = @ + 1, !.previous = <<p.st>> \o @,
            !.st = KeysAfter(p, m, board) @@ [@ EXCEPT
              !.rule50 = IF CapturedPiece(p, m) # NO_PIECE \/ type_of(p.board[m.from]) = PAWN THEN 0 ELSE @ + 1,
              !.pliesFromNull = @ + 1, !.epSquare = SQ_NONE, !.captured = CapturedPiece(p, m)]]
\* Only a move that gives check has checkers.
Checked(p, givesCheck) ==
  [p EXCEPT !.st.checkers =
     IF givesCheck THEN attackers_to(p, KingSquare(p, p.sideToMove), pieces(p)) \cap PiecesOf(p, Opposite(p.sideToMove)) ELSE {}]
\* The en passant square is part of the key, the key decides whether the position repeats.
WithEpSquare(p, ep) ==
  [p EXCEPT !.st = [@ EXCEPT !.epSquare = ep, !.key = IF ep = SQ_NONE THEN @ ELSE Xor(@, EnPassantKey(ep))]]
Repeating(p) == [p EXCEPT !.st.repetition = RepetitionOf(p.st.key, p.previous, LeastOf(p.st.rule50, p.st.pliesFromNull))]
do_move(p, m, givesCheck) ==
  LET Completed(q) == Repeating(WithEpSquare(q, IF IsDoublePush(p, m) THEN EpSquareAfter(q, m.to) ELSE SQ_NONE))
  IN  Completed(set_check_info(Checked(Moved(p, m, BoardAfter(p, m).board), givesCheck)))

\* Taking back notes no threats. The piece that was taken is put on capsq.
Uncastled(b, us, cr, m) ==
  With(With(Without(Without(b, KingTo(us, cr)), RookTo(us, cr)), make_piece(us, KING), m.from), make_piece(us, ROOK), m.to)
MovedBack(b, us, m) ==
  With(Without(b, m.to), IF m.type = "PROMOTION" THEN make_piece(us, PAWN) ELSE b[m.to], m.from)
BoardBefore(p, us, m, capsq) ==
  CASE m.type = "CASTLING" -> Uncastled(p.board, us, RightOfMove(us, m), m)
    [] m.type # "CASTLING" /\ p.st.captured # NO_PIECE -> With(MovedBack(p.board, us, m), p.st.captured, capsq)
    [] OTHER -> MovedBack(p.board, us, m)
\* Mutant: the captured pawn comes back on the square moved to.
UndoOnTo(p, m) ==
  [p EXCEPT !.sideToMove = Opposite(@), !.gamePly = @ - 1, !.st = Head(p.previous), !.previous = Tail(@),
            !.board = BoardBefore(p, Opposite(p.sideToMove), m, m.to)]

undo_move(p, m) ==
  LET us == Opposite(p.sideToMove)
  IN  [p EXCEPT !.sideToMove = us, !.gamePly = @ - 1, !.st = Head(p.previous), !.previous = Tail(@),
                !.board = BoardBefore(p, us, m, IF m.type = "EN_PASSANT" THEN m.to - pawn_push(us) ELSE m.to)]

do_null_move(p) ==
  LET st == p.st
      key == Xor(Xor(st.key, SideKey), IF st.epSquare = SQ_NONE THEN {} ELSE EnPassantKey(st.epSquare))
  IN  [set_check_info([p EXCEPT !.sideToMove = Opposite(p.sideToMove), !.previous = <<st>> \o p.previous,
                                !.st = [st EXCEPT !.epSquare = SQ_NONE, !.key = key, !.pliesFromNull = 0]])
       EXCEPT !.st.repetition = 0]
undo_null_move(p) ==
  [p EXCEPT !.st = Head(p.previous), !.previous = Tail(p.previous), !.sideToMove = Opposite(p.sideToMove)]

-----------------------------------------------------------------------------
(* Tests of moves.                                                         *)

gives_check(p, m) ==
  LET us == p.sideToMove  them == Opposite(us)
      ksq == KingSquare(p, them)
  IN  \/ m.to \in p.st.checkSquares[type_of(p.board[m.from])]
      \/ /\ m.from \in p.st.blockersForKing[them]
         /\ (ksq \notin LineBB[m.from][m.to] \/ m.type = "CASTLING")
      \/ /\ m.from \notin p.st.blockersForKing[them]
         /\ \/ m.type = "PROMOTION" /\ ksq \in attacks_bb(m.promotion, m.to, pieces(p) \ {m.from})
            \/ /\ m.type = "EN_PASSANT"
               /\ SlidersAt(p, ksq, Xor(pieces(p), {m.from, make_square(file_of(m.to), rank_of(m.from))}) \cup {m.to}, us) # {}
            \/ m.type = "CASTLING" /\ RookTo(us, RightOfMove(us, m)) \in p.st.checkSquares[ROOK]

\* Of a pseudo-legal move.
legal(p, m) ==
  LET us == p.sideToMove  them == Opposite(us)
      ksq == KingSquare(p, us)
      kto == KingTo(us, RightOfMove(us, m))
  IN  CASE m.type = "EN_PASSANT" ->
             SlidersAt(p, ksq, Xor(pieces(p), {m.from, m.to - pawn_push(us)}) \cup {m.to}, them) = {}
        [] m.type = "CASTLING" ->
             /\ \A s \in (BetweenBB[m.from][kto] \cup {kto}) \ {m.from} : ~attackers_to_exist(p, s, pieces(p), them)
             /\ ~p.chess960 \/ m.to \notin p.st.blockersForKing[us]
        [] m.type \in {"NORMAL", "PROMOTION"} /\ m.from = ksq -> ~attackers_to_exist(p, m.to, pieces(p) \ {m.from}, them)
        [] OTHER -> m.from \notin p.st.blockersForKing[us] \/ ksq \in LineBB[m.from][m.to]

-----------------------------------------------------------------------------
(* Setting up, writing and flipping a position. A FEN is the record of its  *)
(* six fields; a castling field is a set of <<color, tag>>, the tag a file *)
(* or one of the two letters K and Q.                                      *)

TagK == 8
TagQ == 9
\* The rook a tag means: the outermost one for K and Q.
RookOfTag(b, c, tag) ==
  LET rooks == {s \in DOMAIN b : b[s] = make_piece(c, ROOK) /\ relative_rank(c, s) = 0}
  IN  CASE tag = TagK -> Max(rooks) [] tag = TagQ -> Min(rooks)
        [] OTHER -> make_square(tag, 7 * c)
RightOfRook(b, c, rfrom) ==
  CHOOSE cr \in RightsOf(c) : KingSide(cr) = (rfrom > CHOOSE s \in DOMAIN b : b[s] = make_piece(c, KING))

\* Kept only where a pawn may seem to capture, legally or not.
EnPassantField(fen) ==
  LET b == fen.placement  us == fen.active  ep == fen.ep
      Holds(s, pc) == s \in DOMAIN b /\ b[s] = pc
  IN  IF /\ ep # SQ_NONE /\ relative_rank(us, ep) = 5
         /\ \E s \in PawnAttacks[Opposite(us)][ep] : Holds(s, make_piece(us, PAWN))
         /\ Holds(ep + pawn_push(Opposite(us)), make_piece(Opposite(us), PAWN))
         /\ {ep, ep + pawn_push(us)} \cap DOMAIN b = {}
      THEN ep ELSE SQ_NONE

Greater(x, y) == IF x > y THEN x ELSE y
Set(fen, isChess960) ==
  LET b == fen.placement  us == fen.active
      rooks == [cr \in {RightOfRook(b, t[1], RookOfTag(b, t[1], t[2])) : t \in fen.castling} |->
                  RookOfTag(b, ColorOfRight(cr), CHOOSE tag \in 0 .. TagQ :
                    /\ <<ColorOfRight(cr), tag>> \in fen.castling
                    /\ RightOfRook(b, ColorOfRight(cr), RookOfTag(b, ColorOfRight(cr), tag)) = cr)]
      p == [board |-> b, sideToMove |-> us, chess960 |-> isChess960, previous |-> <<>>,
            gamePly |-> Greater(2 * (fen.fullmove - 1), 0) + us,
            castlingRookSquare |-> rooks,
            castlingKingSquare |-> [cr \in DOMAIN rooks |-> CHOOSE s \in DOMAIN b : b[s] = make_piece(ColorOfRight(cr), KING)],
            st |-> [castlingRights |-> DOMAIN rooks, epSquare |-> EnPassantField(fen), rule50 |-> fen.rule50,
                    pliesFromNull |-> 0, captured |-> NO_PIECE, repetition |-> 0, checkers |-> {},
                    blockersForKing |-> <<>>, pinners |-> <<>>, checkSquares |-> <<>>]]
      keys == set_state(p)
  IN  set_check_info([p EXCEPT !.st = keys @@ [@ EXCEPT
        !.checkers = attackers_to(p, KingSquare(p, us), pieces(p)) \cap PiecesOf(p, Opposite(us))]])

fen(p) ==
  [placement |-> p.board, active |-> p.sideToMove,
   castling |-> {<<ColorOfRight(cr), IF p.chess960 THEN file_of(p.castlingRookSquare[cr])
                                     ELSE IF KingSide(cr) THEN TagK ELSE TagQ>> : cr \in p.st.castlingRights},
   ep |-> p.st.epSquare, rule50 |-> p.st.rule50, fullmove |-> 1 + (p.gamePly - p.sideToMove) \div 2]

Mirror(s) == make_square(file_of(s), 7 - rank_of(s))
flip(p) ==
  LET f == fen(p)
      b == [s \in {Mirror(q) : q \in DOMAIN f.placement} |->
              make_piece(Opposite(color_of(f.placement[Mirror(s)])), type_of(f.placement[Mirror(s)]))]
  IN  Set([f EXCEPT !.placement = b, !.active = Opposite(@), !.castling = {<<Opposite(t[1]), t[2]>> : t \in @},
                    !.ep = IF @ = SQ_NONE THEN SQ_NONE ELSE Mirror(@)], p.chess960)

pos_is_ok(p) ==
  /\ \A c \in Colors : PieceCount(p.board, make_piece(c, KING)) = 1
  /\ p.st.epSquare # SQ_NONE => relative_rank(p.sideToMove, p.st.epSquare) = 5
  /\ ~attackers_to_exist(p, KingSquare(p, Opposite(p.sideToMove)), pieces(p), p.sideToMove)
  /\ \A s \in OfTypes(p, {PAWN}) : rank_of(s) \in 1 .. 6
  /\ \A c \in Colors : PieceCount(p.board, make_piece(c, PAWN)) <= 8 /\ Cardinality(PiecesOf(p, c)) <= 16
  /\ \A cr \in p.st.castlingRights :
       /\ IsPiece(p, p.castlingRookSquare[cr], ColorOfRight(cr), ROOK)
       /\ RightsMask(p, p.castlingRookSquare[cr]) = {cr}
       /\ cr \in RightsMask(p, KingSquare(p, ColorOfRight(cr)))
  /\ p.st.materialKey = MaterialKey(p.board)
=============================================================================
