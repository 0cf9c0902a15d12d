------------------------------ MODULE ChessGame ------------------------------
(***************************************************************************)
(* A game or a line of the search as Position sees it: moves and null      *)
(* moves made one after another from a position that was set up. Beside    *)
(* the position the game keeps what it looked like after each ply, from    *)
(* which the properties say what Position must answer.                     *)
(***************************************************************************)
EXTENDS MoveGen

CONSTANTS Setups,      \* records [fen, chess960, plies, region, nulls]
          Rule50,      \* plies for a draw, 100 in the program
          Thresholds   \* of exchanges

VARIABLES game,   \* the setup
          pos,    \* the position
          lastMove,   \* <<>> or <<the last move>>
          past    \* what the game looked like, the newest first
gameVars == <<game, pos, lastMove, past>>

\* What a repetition is about; null: whether a null move led here.
Look(p, null) == [board |-> p.board, side |-> p.sideToMove, rights |-> p.st.castlingRights,
                  ep |-> p.st.epSquare, null |-> null]

GameInit ==
  /\ game \in Setups
  /\ pos = Set(game.fen, game.chess960)
  /\ lastMove = <<>>
  /\ past = <<Look(pos, TRUE)>>

MoreMoves == Len(past) <= game.plies
DoMove ==
  /\ MoreMoves
  /\ \E m \in LegalMoves(pos) :
       /\ {m.from, m.to} \subseteq game.region
       /\ pos' = do_move(pos, m, gives_check(pos, m))
       /\ lastMove' = <<m>>
  /\ past' = <<Look(pos', FALSE)>> \o past
  /\ UNCHANGED game
DoNullMove ==
  /\ MoreMoves /\ game.nulls
  /\ pos.st.checkers = {} /\ lastMove # <<>>
  /\ pos' = do_null_move(pos)
  /\ lastMove' = <<>>
  /\ past' = <<Look(pos', TRUE)>> \o past
  /\ UNCHANGED game

GameNext == DoMove \/ DoNullMove
GameSpec == GameInit /\ [][GameNext]_gameVars

-----------------------------------------------------------------------------
(* The rules of chess, on boards alone.                                    *)

\* Whether color c attacks s on board b.
AttackedOn(b, s, c) == \E q \in DOMAIN b : color_of(b[q]) = c /\ s \in PieceAttacks(b[q], q, DOMAIN b)
InCheckOn(b, c) == \E s \in DOMAIN b : b[s] = make_piece(c, KING) /\ AttackedOn(b, s, Opposite(c))

BoardPlayed(p, m) ==
  LET us == p.sideToMove
      cr == RightOfMove(us, m)
      gone == {m.from} \cup (IF m.type = "CASTLING" THEN {m.to} ELSE {})
                \cup (IF m.type = "EN_PASSANT" THEN {make_square(file_of(m.to), rank_of(m.from))} ELSE {})
      new == CASE m.type = "CASTLING" -> {<<KingTo(us, cr), KING>>, <<RookTo(us, cr), ROOK>>}
               [] m.type = "PROMOTION" -> {<<m.to, m.promotion>>}
               [] OTHER -> {<<m.to, type_of(p.board[m.from])>>}
      squares == {x[1] : x \in new}
  IN  [s \in (pieces(p) \ gone) \cup squares |->
         IF s \in squares THEN make_piece(us, (CHOOSE x \in new : x[1] = s)[2]) ELSE p.board[s]]

PawnMoves(p, s) ==
  LET us == p.sideToMove  up == pawn_push(us)
      free(t) == t \notin pieces(p)
      tos == (IF free(s + up) THEN {s + up} ELSE {})
               \cup (IF relative_rank(us, s) = 1 /\ free(s + up) /\ free(s + 2 * up) THEN {s + 2 * up} ELSE {})
               \cup (PawnAttacks[us][s] \cap PiecesOf(p, Opposite(us)))
  IN  UNION {IF relative_rank(us, t) = 7 THEN {Promotion(s, t, pt) : pt \in KNIGHT .. QUEEN} ELSE {Normal(s, t)} : t \in tos}
        \cup {EnPassant(s, t) : t \in PawnAttacks[us][s] \cap {p.st.epSquare}}

\* Castling: nothing but the two pieces on the way of either, no attack on the king's way.
MayCastle(p, cr) ==
  LET us == p.sideToMove  k == p.castlingKingSquare[cr]  r == p.castlingRookSquare[cr]
      Way(a, b) == {s \in Squares : rank_of(s) = rank_of(a) /\ s >= Min({a, b}) /\ s <= Max({a, b})}
  IN  /\ (Way(k, KingTo(us, cr)) \cup Way(r, RookTo(us, cr))) \cap pieces(p) \subseteq {k, r}
      /\ \A s \in Way(k, KingTo(us, cr)) : ~AttackedOn(Restrict(p.board, pieces(p) \ {k}), s, Opposite(us))

RuleMoves(p) ==
  LET us == p.sideToMove
      own == PiecesOf(p, us)
      moves == UNION {IF type_of(p.board[s]) = PAWN THEN PawnMoves(p, s)
                      ELSE {Normal(s, t) : t \in PieceAttacks(p.board[s], s, pieces(p)) \ own} : s \in own}
      castlings == {Castling(p.castlingKingSquare[cr], p.castlingRookSquare[cr]) :
                      cr \in {r \in RightsOf(us) \cap p.st.castlingRights : MayCastle(p, r)}}
  IN  {m \in moves \cup castlings : ~InCheckOn(BoardPlayed(p, m), us)}

\* The value of capturing on a square where a piece of value on stands.
RECURSIVE ExchangeValue(_, _, _, _, _)
ExchangeValue(p, to, stm, occupied, on) ==
  LET attackers == attackers_to(p, to, occupied) \cap occupied
      capturing == ToCapture(p, stm, attackers, occupied)
      least == Min({type_of(p.board[q]) : q \in capturing})
      s == lsb({q \in capturing : type_of(p.board[q]) = least})
  IN  IF capturing = {} \/ (least = KING /\ attackers \cap PiecesOf(p, Opposite(stm)) # {}) THEN 0
      ELSE Max({0, on - ExchangeValue(p, to, Opposite(stm), occupied \ {s}, PieceValue[least])})

ThreatsOn(b) == UNION {{<<b[s], b[t], s, t>> : t \in PieceAttacks(b[s], s, DOMAIN b) \cap DOMAIN b} : s \in DOMAIN b}

-----------------------------------------------------------------------------
(* Properties.                                                             *)

\* pos_is_ok with its full checks: one king a side, the side that has moved not in
\* check, castling rights only with king and rook on their squares, the material key
\* that of the board.
PosTypeOK == pos_is_ok(pos)

\* Everything do_move and do_null_move change by their difference (keys of the
\* position, of pawns, of minor pieces, of each side, the material) is what set_state
\* computes from the board, through captures, promotions, castling and en passant.
KeysAreIncremental ==
  LET fresh == set_state(pos) IN \A k \in DOMAIN fresh : fresh[k] = pos.st[k]

\* gives_check is exact, and so is st->checkersBB, which do_move computes only for
\* moves that are said to give check.
CheckersRight ==
  /\ pos.st.checkers = attackers_to(pos, KingSquare(pos, pos.sideToMove), pieces(pos)) \cap PiecesOf(pos, Opposite(pos.sideToMove))
  /\ \A m \in LegalMoves(pos) : gives_check(pos, m) = InCheckOn(BoardPlayed(pos, m), Opposite(pos.sideToMove))

\* generate<LEGAL>, with its evasions, blockers and special cases, yields the moves
\* the rules of chess allow, and captures and quiet moves together are all of them.
LegalIsLegal ==
  /\ LegalMoves(pos) = RuleMoves(pos)
  /\ pos.st.checkers = {} => /\ generate(pos, CAPTURES) \cup generate(pos, QUIETS) = generate(pos, NON_EVASIONS)
                             /\ \A m \in generate(pos, QUIETS) : ~capture_stage(pos, m)
                             /\ \A m \in generate(pos, CAPTURES) : capture(pos, m) \/ m.type = "PROMOTION"

\* A move from the transposition table, whatever it is, is let through by
\* pseudo_legal and legal only if it is legal.
HashMovesAreLegal ==
  \A s \in pieces(pos), t \in Squares :
    LET m == Normal(s, t) IN (pseudo_legal(pos, m) /\ legal(pos, m)) <=> m \in RuleMoves(pos)

\* An en passant square is set after a double push exactly if a capture there is
\* legal, so that positions that repeat have equal keys.
EpOnlyIfLegal ==
  lastMove # <<>> /\ type_of(piece_on(pos, lastMove[1].to)) = PAWN /\ Difference(lastMove[1].from, lastMove[1].to) = 16 =>
    LET ep == (lastMove[1].from + lastMove[1].to) \div 2
        p == [pos EXCEPT !.st.epSquare = ep]
    IN  pos.st.epSquare = IF \E m \in RuleMoves(p) : m.type = "EN_PASSANT" THEN ep ELSE SQ_NONE

\* undo_move takes back every move to the very position before it.
UndoRestores ==
  /\ \A m \in LegalMoves(pos) : undo_move(do_move(pos, m, gives_check(pos, m)), m) = pos
  /\ pos.st.checkers = {} => undo_null_move(do_null_move(pos)) = pos

\* The earlier plies, since the last null move, at which the position was that of ply n.
SamePlies(n) ==
  {i \in n + 1 .. Len(past) - 1 :
     /\ [past[i + 1] EXCEPT !.null = FALSE] = [past[n + 1] EXCEPT !.null = FALSE]
     /\ \A k \in 1 .. i : ~past[k].null}
Repeated(ply) == (\E i \in SamePlies(0) : i < ply) \/ Cardinality(SamePlies(0)) > 1

\* "Return a draw score if a position repeats once earlier but strictly after the
\* root, or repeats twice before or at the root", at any number of plies from the root;
\* has_repeated tells whether any position since the last null move repeated.
RepetitionExact ==
  /\ \A ply \in 0 .. Len(past) - 1 : is_repetition(pos, ply) <=> Repeated(ply)
  /\ has_repeated(pos) <=> \E n \in 0 .. Len(past) - 1 : SamePlies(n) # {}

\* Plies without capture or pawn move; null moves do not count.
Settled(look) == [s \in {q \in DOMAIN look.board : type_of(look.board[q]) = PAWN} |-> look.board[s]]
QuietPlies ==
  LET quiet == {i \in 1 .. Len(past) - 1 : \A k \in 1 .. i :
                  Settled(past[k + 1]) = Settled(past[1]) /\ Cardinality(DOMAIN past[k + 1].board) = Cardinality(DOMAIN past[1].board)}
      moves == {i \in quiet : ~past[i].null}
  IN  Cardinality(moves) + (IF Cardinality(quiet) = Len(past) - 1 THEN game.fen.rule50 ELSE 0)

\* A position is a draw by the 50-move rule or a repetition, never by the rule when it
\* is mate.
DrawsRight ==
  \A ply \in 0 .. Len(past) - 1 :
    is_draw(pos, ply, Rule50) <=>
      \/ Repeated(ply)
      \/ QuietPlies >= Rule50 /\ ~(InCheckOn(pos.board, pos.sideToMove) /\ RuleMoves(pos) = {})

\* upcoming_repetition "accurately matches the outcome of is_draw() over all legal
\* moves", as far as repetitions are concerned.
UpcomingAccurate ==
  \A ply \in 1 .. Len(past) - 1 :
    upcoming_repetition(pos, ply) <=>
      \E m \in LegalMoves(pos) : is_repetition(do_move(pos, m, gives_check(pos, m)), ply + 1)

\* The threats noted on the way (DirtyThreats) are, net, the difference between the
\* threats on the board after and before, and their list never exceeds its size.
ThreatsIncremental ==
  LET Is(S, t) == IF t \in S THEN 1 ELSE 0
      Noted(lists, add, t) == Cardinality({k \in DOMAIN lists : Threat(add, t[1], t[2], t[3], t[4]) \in lists[k]})
      Net(lists, old, new) ==
        \A t \in old \cup new \cup {<<x.pc, x.threatened, x.s, x.t>> : x \in UNION Range(lists)} :
          Noted(lists, TRUE, t) - Noted(lists, FALSE, t) = Is(new, t) - Is(old, t)
      Exact(after) ==
        /\ Net(after.threats, ThreatsOn(pos.board), ThreatsOn(after.board))
        /\ MapThenSumSet(LAMBDA k : Cardinality(after.threats[k]), DOMAIN after.threats) <= 80
  IN  \A m \in LegalMoves(pos) : Exact(BoardAfter(pos, m))

\* see_ge answers as the exchange that is played out with the least valuable pieces
\* and in which either side may stop.
ExchangesRight ==
  \A m \in LegalMoves(pos), t \in Thresholds :
    m.type = "NORMAL" =>
      (see_ge(pos, m, t) <=>
         PieceValue[type_of(piece_on(pos, m.to))]
           - ExchangeValue(pos, m.to, Opposite(pos.sideToMove), pieces(pos) \ {m.from, m.to}, PieceValue[type_of(pos.board[m.from])]) >= t)

\* A position that is written as FEN and set up again is the same (but for its
\* number if null moves, which do not count, were made), and on the flipped board the
\* same moves are legal.
SetUpAgainIsSame ==
  LET Same(again) ==
        /\ \A k \in {"board", "sideToMove", "chess960"} : again[k] = pos[k]
        /\ (\A i \in 1 .. Len(past) - 1 : ~past[i].null) => again.gamePly = pos.gamePly
        /\ \A k \in DOMAIN pos.st \ {"pliesFromNull", "captured", "repetition"} : again.st[k] = pos.st[k]
        /\ LegalMoves(again) = LegalMoves(pos)
  IN  /\ Same(Set(fen(pos), pos.chess960))
      /\ LegalMoves(flip(pos)) = {[m EXCEPT !.from = Mirror(@), !.to = Mirror(@)] : m \in LegalMoves(pos)}

\* What do_move changes step by step (keys, checkers, pins, repetition distance, the noted
\* threats) is what a position set up anew has, and undo_move leaves no trace.
StateInfoRight ==
  PosTypeOK /\ KeysAreIncremental /\ CheckersRight /\ UndoRestores /\ SetUpAgainIsSame /\ ThreatsIncremental

\* The moves that are generated and pass legal are the rules' moves; a move of the hash table
\* is taken exactly if it is one of them; the en passant square is kept exactly if it matters.
MovesRight == LegalIsLegal /\ HashMovesAreLegal /\ EpOnlyIfLegal

\* Draws by repetition and by the 50-move rule, and repetitions a move ahead, are what the
\* history of the line says.
RepetitionsRight == RepetitionExact /\ DrawsRight /\ UpcomingAccurate
=============================================================================
