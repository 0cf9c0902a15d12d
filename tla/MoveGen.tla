------------------------------- MODULE MoveGen -------------------------------
(***************************************************************************)
(* The generation of moves (movegen.cpp) and what Position decides with    *)
(* it: tests of moves from the transposition table, exchanges on a square, *)
(* draws. A list of moves is a set: its order is that of MovePick.         *)
(***************************************************************************)
EXTENDS Position

CAPTURES == "CAPTURES"
QUIETS == "QUIETS"
EVASIONS == "EVASIONS"
NON_EVASIONS == "NON_EVASIONS"
AllMoves(gt) == gt \in {EVASIONS, NON_EVASIONS}

make_promotions(gt, from, to, enemy) ==
  {Promotion(from, to, pt) : pt \in
     (IF gt = CAPTURES \/ AllMoves(gt) THEN {QUEEN} ELSE {})
       \cup (IF (gt = CAPTURES /\ enemy) \/ (gt = QUIETS /\ ~enemy) \/ AllMoves(gt) THEN {ROOK, BISHOP, KNIGHT} ELSE {})}

generate_pawn_moves(p, gt, target) ==
  LET us == p.sideToMove  up == pawn_push(us)  ep == p.st.epSquare
      emptySquares == Squares \ pieces(p)
      enemies == IF gt = EVASIONS THEN p.st.checkers ELSE PiecesOf(p, Opposite(us))
      pawns == PiecesOfTypes(p, us, {PAWN})
      pawnsOn7 == {s \in pawns : relative_rank(us, s) = 6}
      Allowed(to) == gt = EVASIONS => to \in target
      single == {s \in pawns \ pawnsOn7 : s + up \in emptySquares}
      double == {s \in single : relative_rank(us, s) = 1 /\ s + 2 * up \in emptySquares}
      pushes == {Normal(s, s + up) : s \in {q \in single : Allowed(q + up)}}
                  \cup {Normal(s, s + 2 * up) : s \in {q \in double : Allowed(q + 2 * up)}}
      promotions ==
        UNION {UNION {make_promotions(gt, s, to, TRUE) : to \in PawnAttacks[us][s] \cap enemies} : s \in pawnsOn7}
          \cup UNION {make_promotions(gt, s, s + up, FALSE) : s \in {q \in pawnsOn7 : q + up \in emptySquares /\ Allowed(q + up)}}
      captures == UNION {{Normal(s, to) : to \in PawnAttacks[us][s] \cap enemies} : s \in pawns \ pawnsOn7}
      enPassant == IF ep = SQ_NONE \/ (gt = EVASIONS /\ ep + up \in target) THEN {}
                   ELSE {EnPassant(s, ep) : s \in (pawns \ pawnsOn7) \cap PawnAttacks[Opposite(us)][ep]}
  IN  (IF gt # CAPTURES THEN pushes ELSE {}) \cup promotions
        \cup (IF gt # QUIETS THEN captures \cup enPassant ELSE {})

\* generate_moves, for the pieces from knights to queens.
generate_moves(p, target) ==
  UNION {{Normal(s, to) : to \in attacks_bb(type_of(p.board[s]), s, pieces(p)) \cap target} :
           s \in PiecesOfTypes(p, p.sideToMove, KNIGHT .. QUEEN)}

\* generate_all
generate(p, gt) ==
  LET us == p.sideToMove
      ksq == KingSquare(p, us)
      target == CASE gt = EVASIONS -> BetweenBB[ksq][lsb(p.st.checkers)]
                  [] gt = NON_EVASIONS -> Squares \ PiecesOf(p, us)
                  [] gt = CAPTURES -> PiecesOf(p, Opposite(us))
                  [] gt = QUIETS -> Squares \ pieces(p)
      ofKing == attacks_bb(KING, ksq, {}) \cap (IF gt = EVASIONS THEN Squares \ PiecesOf(p, us) ELSE target)
  IN  (IF gt # EVASIONS \/ ~more_than_one(p.st.checkers)
       THEN generate_pawn_moves(p, gt, target) \cup generate_moves(p, target) ELSE {})
        \cup {Normal(ksq, to) : to \in ofKing}
        \cup (IF gt \in {QUIETS, NON_EVASIONS}
              THEN {Castling(ksq, p.castlingRookSquare[cr]) :
                      cr \in {r \in RightsOf(us) \cap p.st.castlingRights : ~castling_impeded(p, r)}}
              ELSE {})

PseudoLegalMoves(p) == generate(p, IF p.st.checkers # {} THEN EVASIONS ELSE NON_EVASIONS)
\* generate<LEGAL>: only moves that could be illegal are tested.
LegalMoves(p) ==
  LET us == p.sideToMove
      Doubtful(m) == m.from \in p.st.blockersForKing[us] \cap PiecesOf(p, us) \/ m.from = KingSquare(p, us) \/ m.type = "EN_PASSANT"
  IN  {m \in PseudoLegalMoves(p) : Doubtful(m) => legal(p, m)}

-----------------------------------------------------------------------------
(* Tests of moves.                                                         *)

capture(p, m) == (m.to \in pieces(p) /\ m.type # "CASTLING") \/ m.type = "EN_PASSANT"
capture_stage(p, m) == capture(p, m) \/ (m.type = "PROMOTION" /\ m.promotion = QUEEN)

\* Mutant: evasions are not filtered.
PseudoLegalUnderCheck(p, m) ==
  LET us == p.sideToMove  up == pawn_push(us)
      pc == piece_on(p, m.from)
      IsEmpty(s) == s \notin pieces(p)
  IN  IF m.type # "NORMAL" THEN m \in PseudoLegalMoves(p)
      ELSE /\ pc # NO_PIECE /\ color_of(pc) = us
           /\ m.to \notin PiecesOf(p, us)
           /\ IF type_of(pc) = PAWN
              THEN /\ rank_of(m.to) \in 1 .. 6
                   /\ \/ m.to \in PawnAttacks[us][m.from] \cap PiecesOf(p, Opposite(us))
                      \/ m.from + up = m.to /\ IsEmpty(m.to)
                      \/ /\ m.from + 2 * up = m.to /\ relative_rank(us, m.from) = 1
                         /\ IsEmpty(m.to) /\ IsEmpty(m.to - up)
              ELSE m.to \in attacks_bb(type_of(pc), m.from, pieces(p))

pseudo_legal(p, m) ==
  LET us == p.sideToMove  them == Opposite(us)  up == pawn_push(us)
      pc == piece_on(p, m.from)
      ksq == KingSquare(p, us)
      IsEmpty(s) == s \notin pieces(p)
  IN  IF m.type # "NORMAL" THEN m \in PseudoLegalMoves(p)
      ELSE /\ pc # NO_PIECE /\ color_of(pc) = us
           /\ m.to \notin PiecesOf(p, us)
           /\ IF type_of(pc) = PAWN
              THEN /\ rank_of(m.to) \in 1 .. 6
                   /\ \/ m.to \in PawnAttacks[us][m.from] \cap PiecesOf(p, them)
                      \/ m.from + up = m.to /\ IsEmpty(m.to)
                      \/ /\ m.from + 2 * up = m.to /\ relative_rank(us, m.from) = 1
                         /\ IsEmpty(m.to) /\ IsEmpty(m.to - up)
              ELSE m.to \in attacks_bb(type_of(pc), m.from, pieces(p))
           /\ p.st.checkers # {} =>
                IF type_of(pc) # KING
                THEN ~more_than_one(p.st.checkers) /\ m.to \in BetweenBB[ksq][lsb(p.st.checkers)]
                ELSE ~attackers_to_exist(p, m.to, pieces(p) \ {m.from}, them)

\* One round of the exchange on a square: stm is to capture, swap is what the
\* other side is ahead of the threshold, res the answer if stm stops here.
ToCapture(p, stm, attackers, occupied) ==
  LET own == attackers \cap PiecesOf(p, stm)
  IN  IF p.st.pinners[Opposite(stm)] \cap occupied # {} THEN own \ p.st.blockersForKing[stm] ELSE own
RECURSIVE Exchange(_, _, _, _, _, _)
Exchange(p, to, mover, occupied, swap, res) ==
  LET stm == Opposite(mover)
      attackers == attackers_to(p, to, occupied) \cap occupied
      capturing == ToCapture(p, stm, attackers, occupied)
      least == Min({type_of(p.board[s]) : s \in capturing})
      next == PieceValue[least] - swap
      s == lsb({q \in capturing : type_of(p.board[q]) = least})
  IN  CASE capturing = {} -> res
        [] capturing # {} /\ least = KING -> IF attackers \cap PiecesOf(p, mover) # {} THEN res ELSE 1 - res
        [] capturing # {} /\ least # KING ->
             IF next < 1 - res /\ least # QUEEN THEN 1 - res ELSE Exchange(p, to, stm, occupied \ {s}, next, 1 - res)

\* Mutant: a piece that is captured back at once costs nothing.
SeeFirstOnly(p, m, threshold) == PieceValue[type_of(piece_on(p, m.to))] >= threshold

\* Not for pieces that are pinned, as long as their pinner stands.
see_ge(p, m, threshold) ==
  LET ahead == PieceValue[type_of(piece_on(p, m.to))] - threshold
      behind == PieceValue[type_of(p.board[m.from])] - ahead
  IN  CASE m.type # "NORMAL" -> 0 >= threshold
        [] m.type = "NORMAL" /\ ahead < 0 -> FALSE
        [] m.type = "NORMAL" /\ ahead >= 0 /\ behind <= 0 -> TRUE
        [] OTHER -> Exchange(p, m.to, p.sideToMove, pieces(p) \ {m.from, m.to}, behind, 1) = 1

-----------------------------------------------------------------------------
(* Draws.                                                                  *)

is_repetition(p, ply) == p.st.repetition # 0 /\ p.st.repetition < ply

\* Rule50 is 100 in the program.
is_draw(p, ply, Rule50) ==
  \/ p.st.rule50 > Rule50 - 1 /\ (p.st.checkers = {} \/ LegalMoves(p) # {})
  \/ is_repetition(p, ply)

\* The states of the game, the newest first.
StatesOf(p) == <<p.st>> \o p.previous
PliesBack(p) == LeastOf(p.st.rule50, p.st.pliesFromNull)
has_repeated(p) == \E i \in 1 .. PliesBack(p) - 3 : StatesOf(p)[i].repetition # 0

\* The cuckoo tables: the keys of the reversible moves.
CuckooMove(key) ==
  {<<s1, s2>> \in {<<a[3], b[3]>> : <<a, b>> \in {<<x, y>> \in (key \ SideKey) \X (key \ SideKey) :
                      x[1] = "psq" /\ y[1] = "psq" /\ x[2] = y[2] /\ x[3] < y[3]
                      /\ type_of(x[2]) # PAWN /\ y[3] \in PseudoAttacks[type_of(x[2])][x[3]]}} :
     SideKey \subseteq key /\ Cardinality(key) = 3}

\* Mutant: the pieces of the opponent may have moved.
UpcomingOfMover(p, ply) ==
  LET states == StatesOf(p)
  IN  \E i \in 3 .. PliesBack(p) :
        /\ i % 2 = 1
        /\ \E move \in CuckooMove(Xor(p.st.key, states[i + 1].key)) :
             (BetweenBB[move[1]][move[2]] \ {move[2]}) \cap pieces(p) = {}
        /\ ply >= i \/ states[i + 1].repetition # 0

upcoming_repetition(p, ply) ==
  LET states == StatesOf(p)
      \* What the opponent has changed since i plies ago.
      Other(i) == FoldSet(LAMBDA k, acc : Xor(acc, Xor(Xor(states[k].key, states[k + 1].key), SideKey)),
                          {}, {k \in 1 .. i : k % 2 = 1})
  IN  \E i \in 3 .. PliesBack(p) :
        /\ i % 2 = 1 /\ Other(i) = {}
        /\ \E move \in CuckooMove(Xor(p.st.key, states[i + 1].key)) :
             (BetweenBB[move[1]][move[2]] \ {move[2]}) \cap pieces(p) = {}
        /\ ply > i \/ states[i + 1].repetition # 0
=============================================================================
