----------------------------- MODULE Accumulators -----------------------------
(***************************************************************************)
(* The accumulators of the network's first layer (nnue_accumulator.cpp,    *)
(* half_ka_v2_hm.cpp, full_threats.cpp): a stack with one entry per move   *)
(* of the line that is searched, each with what the move changed. When a   *)
(* position is evaluated its entry is computed from the nearest usable one *)
(* or, when a king has moved, anew. An accumulator, a sum of weights, is   *)
(* here the set of the features summed.                                    *)
(***************************************************************************)
EXTENDS MoveGen, SequencesExt

CONSTANT LineSetups \* records [fen, chess960, plies, moves, region]: plies the longest line, moves
                    \* how many are made in all, region the squares they use

VARIABLES task,   \* the setup
          made,   \* moves so far
          line,   \* the positions from the root on
          stack,  \* AccumulatorStack: of each position [dp, dts, psq, threats]
          cache   \* AccumulatorCaches: of the entries that were used [pieces, features]
accVars == <<task, made, line, stack, cache>>

Pos == line[Len(line)]

-----------------------------------------------------------------------------
(* Features, as the side perspective with its king on ksq sees them.       *)

\* HalfKAv2_hm::make_index, and those of a board.
PsqFeature(ksq, pc, s) == <<ksq, pc, s>>
PsqFeatures(b, ksq) == {PsqFeature(ksq, b[s], s) : s \in DOMAIN b}
\* FullThreats::make_index depends on the king by the half of the board it is on.
Half(ksq) == file_of(ksq) \div 4
ThreatFeature(ksq, attacker, from, to, attacked) == <<Half(ksq), attacker, from, to, attacked>>
ThreatFeatures(b, ksq) ==
  UNION {{ThreatFeature(ksq, b[s], s, t, b[t]) : t \in PieceAttacks(b[s], s, DOMAIN b) \cap DOMAIN b} : s \in DOMAIN b}

\* A sum in which each feature of from, added and removed counts; added and removed are
\* sequences of sets. A sum that is no set of features is none that a position has.
NoSum == {<<-1>>}
Sum(from, added, removed) ==
  LET in(q, f) == Cardinality({i \in DOMAIN q : f \in q[i]})
      count(f) == (IF f \in from THEN 1 ELSE 0) + in(added, f) - in(removed, f)
      all == from \cup UNION Range(added) \cup UNION Range(removed)
  IN  IF \A f \in all : count(f) \in {0, 1} THEN {f \in all : count(f) = 1} ELSE NoSum

\* What do_move notes: DirtyPiece and DirtyThreats.
DirtyPiece(p, m) ==
  LET us == p.sideToMove
      captured == CapturedPiece(p, m)
      cr == RightOfMove(us, m)
      moved == [pc |-> p.board[m.from], from |-> m.from, to |-> m.to, remove_sq |-> SQ_NONE, remove_pc |-> NO_PIECE,
                add_sq |-> SQ_NONE, add_pc |-> NO_PIECE]
      rook == make_piece(us, ROOK)
      taken == IF captured = NO_PIECE THEN moved ELSE [moved EXCEPT !.remove_sq = CaptureSquare(p, m), !.remove_pc = captured]
  IN  CASE m.type = "CASTLING" ->
             [moved EXCEPT !.to = KingTo(us, cr), !.remove_sq = m.to, !.remove_pc = rook, !.add_sq = RookTo(us, cr), !.add_pc = rook]
        [] m.type = "PROMOTION" -> [taken EXCEPT !.to = SQ_NONE, !.add_sq = m.to, !.add_pc = make_piece(us, m.promotion)]
        [] OTHER -> taken
DirtyThreats(p, m, q) ==
  LET noted == BoardAfter(p, m).threats
  IN  [list |-> noted, us |-> p.sideToMove, prevKsq |-> KingSquare(p, p.sideToMove), ksq |-> KingSquare(q, p.sideToMove),
       threateningSqs |-> {t.s : t \in {x \in UNION Range(noted) : x.add}}]

\* HalfKAv2_hm::append_changed_indices.
PsqRemoved(ksq, dp) ==
  <<{PsqFeature(ksq, dp.pc, dp.from)}>> \o (IF dp.remove_sq # SQ_NONE THEN <<{PsqFeature(ksq, dp.remove_pc, dp.remove_sq)}>> ELSE <<>>)
PsqAdded(ksq, dp) ==
  (IF dp.to # SQ_NONE THEN <<{PsqFeature(ksq, dp.pc, dp.to)}>> ELSE <<>>)
    \o (IF dp.add_sq # SQ_NONE THEN <<{PsqFeature(ksq, dp.add_pc, dp.add_sq)}>> ELSE <<>>)
\* FullThreats::append_changed_indices, of one kind of change.
ThreatChanges(ksq, list, add) ==
  [i \in DOMAIN list |-> {ThreatFeature(ksq, t.pc, t.s, t.t, t.threatened) : t \in {x \in list[i] : x.add = add}}]

\* The fused update of two moves: threats by and on a piece that the second move takes off
\* are left out if the first adds and the second removes them. x has the squares they go
\* to and come from, and what is left of the lists.
Fuse(x, changes, removed, first) ==
  LET skips(t) == \/ t.s = removed /\ (IF t.add THEN first ELSE t.t \in x.origin)
                  \/ t.t = removed /\ (IF t.add THEN first ELSE t.s \in x.target)
      left == {t \in changes : t.add /\ first /\ removed \in {t.s, t.t}}
  IN  [origin |-> x.origin \cup {t.t : t \in {y \in left : y.s = removed}},
       target |-> x.target \cup {t.s : t \in {y \in left : y.s # removed}},
       list |-> Append(x.list, {t \in changes : ~skips(t)})]
Fused(first, second, removed) ==
  LET x == FoldLeft(LAMBDA acc, c : Fuse(acc, c, removed, TRUE), [origin |-> {}, target |-> {}, list |-> <<>>], first)
  IN  FoldLeft(LAMBDA acc, c : Fuse(acc, c, removed, FALSE), x, second).list

-----------------------------------------------------------------------------
(* A side's evaluation: of each kind of feature, "psq" or "threats".       *)

NotComputed == [c \in Colors |-> [computed |-> FALSE, features |-> {}]]
Computed(features) == [computed |-> TRUE, features |-> features]

\* Mutant: the threats of a king that crosses to the other half are updated as any.
RefreshForPieces(kind, e, c) == kind = "psq" /\ e.dp.pc = make_piece(c, KING)

requires_refresh(kind, e, c) ==
  IF kind = "psq" THEN e.dp.pc = make_piece(c, KING) ELSE c = e.dts.us /\ Half(e.dts.ksq) # Half(e.dts.prevKsq)

\* find_last_usable_accumulator
LastUsable(s, kind, c) ==
  LET usable == {i \in 2 .. Len(s) : s[i][kind][c].computed \/ requires_refresh(kind, s[i], c)}
  IN  IF usable = {} THEN 1 ELSE Max(usable)

\* What the diff of entry e adds and removes.
Added(kind, e, ksq) == IF kind = "psq" THEN PsqAdded(ksq, e.dp) ELSE ThreatChanges(ksq, e.dts.list, TRUE)
Removed(kind, e, ksq) == IF kind = "psq" THEN PsqRemoved(ksq, e.dp) ELSE ThreatChanges(ksq, e.dts.list, FALSE)

\* Whether the entries i and i + 1 are updated at once: the second takes what the first moved or made threaten.
Together(s, kind, i) ==
  /\ i < Len(s)
  /\ IF kind = "psq" THEN s[i].dp.to # SQ_NONE /\ s[i].dp.to = s[i + 1].dp.remove_sq
     ELSE s[i + 1].dp.remove_sq # SQ_NONE /\ s[i + 1].dp.remove_sq \in s[i].dts.threateningSqs
\* double_inc_update: from entry i - 1 to entry i + 1.
Double(s, kind, c, ksq, i) ==
  LET from == s[i - 1][kind][c].features
      dp1 == [s[i].dp EXCEPT !.to = SQ_NONE]
      dp2 == [s[i + 1].dp EXCEPT !.remove_sq = SQ_NONE]
      list == Fused(s[i].dts.list, s[i + 1].dts.list, s[i + 1].dp.remove_sq)
  IN  IF kind = "psq" THEN Sum(from, PsqAdded(ksq, dp1) \o PsqAdded(ksq, dp2), PsqRemoved(ksq, dp1) \o PsqRemoved(ksq, dp2))
      ELSE Sum(from, ThreatChanges(ksq, list, TRUE), ThreatChanges(ksq, list, FALSE))

RECURSIVE forward_update_incremental(_, _, _, _, _)
forward_update_incremental(s, kind, c, ksq, i) ==
  IF i > Len(s) THEN s
  ELSE IF Together(s, kind, i)
  THEN forward_update_incremental([s EXCEPT ![i + 1][kind][c] = Computed(Double(s, kind, c, ksq, i))], kind, c, ksq, i + 2)
  ELSE LET features == Sum(s[i - 1][kind][c].features, Added(kind, s[i], ksq), Removed(kind, s[i], ksq))
       IN  forward_update_incremental([s EXCEPT ![i][kind][c] = Computed(features)], kind, c, ksq, i + 1)

RECURSIVE backward_update_incremental(_, _, _, _, _, _)
backward_update_incremental(s, kind, c, ksq, i, end) ==
  IF i < end THEN s
  ELSE LET features == Sum(s[i + 1][kind][c].features, Removed(kind, s[i + 1], ksq), Added(kind, s[i + 1], ksq))
       IN  backward_update_incremental([s EXCEPT ![i][kind][c] = Computed(features)], kind, c, ksq, i - 1, end)

\* update_accumulator_refresh_cache: from the entry of the cache, by the pieces that changed since.
CacheEntry(ch, ksq, c) == IF <<ksq, c>> \in DOMAIN ch THEN ch[<<ksq, c>>] ELSE [pieces |-> <<>>, features |-> {}]
Refreshed(ch, ksq, c, b) ==
  LET entry == CacheEntry(ch, ksq, c)
      old == {<<s, entry.pieces[s]>> : s \in DOMAIN entry.pieces}
      new == {<<s, b[s]>> : s \in DOMAIN b}
      features(S) == <<{PsqFeature(ksq, x[2], x[1]) : x \in S}>>
  IN  [pieces |-> b, features |-> Sum(entry.features, features(new \ old), features(old \ new))]

\* update_threats_accumulator_full: from zero.
ThreatsFromZero(b, ksq) == Sum({}, <<ThreatFeatures(b, ksq)>>, <<>>)

\* evaluate_side, on x = [stack, cache].
EvaluateSide(x, kind, c) ==
  LET s == x.stack
      last == LastUsable(s, kind, c)
      ksq == KingSquare(Pos, c)
      entry == Refreshed(x.cache, ksq, c, Pos.board)
      full == IF kind = "psq" THEN entry.features ELSE ThreatsFromZero(Pos.board, ksq)
  IN  IF s[last][kind][c].computed THEN [x EXCEPT !.stack = forward_update_incremental(s, kind, c, ksq, last + 1)]
      ELSE [stack |-> backward_update_incremental([s EXCEPT ![Len(s)][kind][c] = Computed(full)], kind, c, ksq, Len(s) - 1, last),
            cache |-> IF kind = "psq" THEN (<<ksq, c>> :> entry) @@ x.cache ELSE x.cache]

-----------------------------------------------------------------------------
AccInit ==
  /\ task \in LineSetups /\ made = 0
  /\ line = <<Set(task.fen, task.chess960)>>
  /\ stack = <<[dp |-> <<>>, dts |-> <<>>, psq |-> NotComputed, threats |-> NotComputed]>>
  /\ cache = <<>>

\* Worker::do_move: AccumulatorStack::push, which do_move fills.
Push ==
  /\ Len(line) <= task.plies /\ made < task.moves /\ made' = made + 1
  /\ \E m \in LegalMoves(Pos) :
       LET q == do_move(Pos, m, gives_check(Pos, m))
       IN  /\ {m.from, m.to} \subseteq task.region
           /\ line' = Append(line, q)
           /\ stack' = Append(stack, [dp |-> DirtyPiece(Pos, m), dts |-> DirtyThreats(Pos, m, q),
                                      psq |-> NotComputed, threats |-> NotComputed])
  /\ UNCHANGED <<task, cache>>
\* Worker::undo_move.
Pop ==
  /\ Len(line) > 1
  /\ line' = Front(line) /\ stack' = Front(stack)
  /\ UNCHANGED <<task, made, cache>>
\* AccumulatorStack::evaluate, only of positions without a check.
Evaluate ==
  /\ Pos.st.checkers = {}
  /\ LET sides == <<<<"psq", WHITE>>, <<"threats", WHITE>>, <<"psq", BLACK>>, <<"threats", BLACK>>>>
         x == FoldLeft(LAMBDA acc, k : EvaluateSide(acc, k[1], k[2]), [stack |-> stack, cache |-> cache], sides)
     IN  stack' = x.stack /\ cache' = x.cache
  /\ UNCHANGED <<task, made, line>>

AccNext == Push \/ Pop \/ Evaluate
AccSpec == AccInit /\ [][AccNext]_accVars

-----------------------------------------------------------------------------
\* Every accumulator that counts as computed has the features of its position, whether it
\* was built forward, two moves at once, backward or from the cache, through captures of
\* pieces just moved, promotions, castling and kings that change sides.
AccumulatorsExact ==
  \A i \in DOMAIN stack, c \in Colors :
    LET ksq == KingSquare(line[i], c)
    IN  /\ stack[i].psq[c].computed => stack[i].psq[c].features = PsqFeatures(line[i].board, ksq)
        /\ stack[i].threats[c].computed => stack[i].threats[c].features = ThreatFeatures(line[i].board, ksq)

\* The cache never lags behind its record of the board.
CacheExact == \A k \in DOMAIN cache : cache[k].features = PsqFeatures(cache[k].pieces, k[1])

\* The asserts of the updates: one or two features are added and removed by a move, two
\* moves at once add one and remove two or three.
UpdateSizes ==
  \A i \in 2 .. Len(stack) :
    LET dp == stack[i].dp
        size(s) == Len(s)
    IN  /\ size(PsqAdded(0, dp)) \in 1 .. 2 /\ size(PsqRemoved(0, dp)) \in size(PsqAdded(0, dp)) .. 2
        /\ Together(stack, "psq", i) =>
             LET dp1 == [dp EXCEPT !.to = SQ_NONE]  dp2 == [stack[i + 1].dp EXCEPT !.remove_sq = SQ_NONE]
             IN  /\ size(PsqAdded(0, dp1) \o PsqAdded(0, dp2)) = 1
                 /\ size(PsqRemoved(0, dp1) \o PsqRemoved(0, dp2)) \in 2 .. 3

\* What the network is given is the position evaluated (AccumulatorStack::evaluate), however
\* the search came to it.
AccumulatorsRight == AccumulatorsExact /\ CacheExact /\ UpdateSizes
=============================================================================
