----------------------------- MODULE MCEngineTree ------------------------------
(***************************************************************************)
(* The search of the tree: the order in which a node's moves are tried, one *)
(* node, the deepening at the root, and the accumulators that are kept in   *)
(* step with the moves made. One part runs, the others rest.                *)
(***************************************************************************)
EXTENDS MovePick, RootSearch, SearchNode, Accumulators

VARIABLE part

\* Three captures and three quiet moves, of all values that the stages tell apart.
Captures == {"c1", "c2", "c3"}
Quiets == {"q1", "q2", "q3"}
Node(kind, captures, quiets, evasions, ttMove, value, good) ==
  [kind |-> kind, captures |-> captures, quiets |-> quiets, evasions |-> evasions, ttMove |-> ttMove, value |-> value, good |-> good]
MainNodes ==
  {Node("main", <<"c1", "c2", "c3">>, <<"q1", "q2", "q3">>, <<>>, tt, [m \in Captures \cup Quiets |-> IF m \in Captures THEN vc[m] ELSE vq[m]], good) :
     tt \in {"none", "c2", "q1", "other"}, vc \in [Captures -> {1, 2}], good \in SUBSET Captures,
     vq \in {f \in [Quiets -> {-20000, -14000, -5000, 0}] : f["q3"] # -14000}}
OtherNodes ==
  {Node(k, IF k = "evasion" THEN <<>> ELSE <<"c1", "c2", "c3">>, IF k = "evasion" THEN <<>> ELSE <<"q1">>,
        IF k = "evasion" THEN <<"c1", "c2", "c3", "q1">> ELSE <<>>, tt,
        [m \in Captures \cup {"q1"} |-> IF m = "q1" THEN -5000 ELSE vc[m]], good) :
     k \in {"evasion", "qsearch", "probcut"}, tt \in {"none", "c2", "q1"}, vc \in [Captures -> {1, 2}], good \in SUBSET Captures}
MCPickSetups == MainNodes \cup OtherNodes

\* Windows that fail on both sides; three lines over two tablebase ranks; two threads, of
\* which the helper may go deeper than main; and three iterations, so that a worker falls
\* back to what an earlier one found.
Root(threads, moves, rank, multiPV, deltas, values, depth) ==
  [threads |-> threads, moves |-> moves, rank |-> rank, multiPV |-> multiPV, deltas |-> deltas, values |-> values, depth |-> depth]
SameRank == [m \in {"a", "b"} |-> 1]
MCRootSetups == {
  Root(<<"t0">>, <<"a", "b">>, SameRank, 1, {3}, {-8, 8}, 2),
  Root(<<"t0">>, <<"a", "b", "c">>, [a |-> 2, b |-> 2, c |-> 1], 3, {20}, {-8, 1, 3}, 2),
  Root(<<"t0", "t1">>, <<"a", "b">>, SameRank, 1, {20}, {-8, 0, 8}, 1),
  Root(<<"t0", "t1">>, <<"a", "b">>, SameRank, 1, {20}, {-8, 8}, 2),
  Root(<<"t0">>, <<"a", "b">>, SameRank, 1, {20}, {-8, 0, 1}, 3) }

\* Positions with up to two moves, decided or not, quiet and in check, and drawn ones.
Truths == {-3, -2, 0, 2}
Place(draw, inCheck, repeats, truth) == [draw |-> draw, inCheck |-> inCheck, repeats |-> repeats, truth |-> truth]
Ordinary == {Place(FALSE, c, FALSE, t) : c \in BOOLEAN, t \in {<<>>} \cup [{"a"} -> {-3, 0, 2}] \cup [{"a", "b"} -> Truths]}
Drawish == {Place(TRUE, FALSE, FALSE, t) : t \in [{"a"} -> Truths]}
           \cup {Place(FALSE, FALSE, TRUE, t) : t \in {f \in [{"a", "b"} -> Truths] : f["a"] = 0}}
Call(kind, alpha, beta) == [kind |-> kind, alpha |-> alpha, beta |-> beta]
Calls == {Call(k, a, a + 1) : k \in {"nonpv", "qsearch"}, a \in {-4, -1, 1}}
         \cup {Call(k, w[1], w[2]) : k \in {"pv", "qsearchPV"}, w \in {<<-6, 6>>, <<-3, 1>>}}
Roots == {Call("root", -6, 1), Call("root", 0, 6)}
Entries == {NoEntry} \cup {[value |-> v, bound |-> b, move |-> "a"] : v \in {-2, 1, 2}, b \in {"lower", "upper"}}
Setting(c, p, e, skipped, barred, excluded) ==
  [kind |-> c.kind, alpha |-> c.alpha, beta |-> c.beta, truth |-> p.truth, inCheck |-> p.inCheck, draw |-> p.draw,
   repeats |-> p.repeats, skipped |-> skipped, barred |-> barred, excluded |-> excluded, entry |-> e]
MCNodeSetups ==
  {Setting(c, p, e, {}, {}, NoneMove) : c \in Calls, p \in Ordinary \cup Drawish, e \in Entries}
  \cup {Setting(c, p, e, {}, {}, NoneMove) : c \in Roots, p \in {q \in Ordinary : q.truth # <<>>}, e \in Entries}
  \cup {Setting(c, p, e, s[1], s[2], NoneMove) :
          c \in Roots, p \in {q \in Ordinary : DOMAIN q.truth = {"a", "b"}}, e \in Entries, s \in {<<{"a"}, {}>>, <<{}, {"a"}>>}}
  \cup {Setting(c, p, e, {}, {}, "a") : c \in {x \in Calls : x.kind = "nonpv"}, p \in {q \in Ordinary : q.truth # <<>>}, e \in Entries}

\* Exchanges, castling with both rooks, promotions and en passant beside a king that
\* crosses the middle; the squares that moves use are few.
Sq(f, r) == make_square(f - 1, r - 1)
White(kind) == make_piece(WHITE, kind)
Black(kind) == make_piece(BLACK, kind)
Line(placement, castling, plies, region) ==
  [fen |-> [placement |-> placement, active |-> WHITE, castling |-> castling, ep |-> SQ_NONE, rule50 |-> 0, fullmove |-> 3],
   chess960 |-> FALSE, plies |-> plies, moves |-> 4, region |-> region]
MCLineSetups == {
  Line((Sq(4,5) :> Black(PAWN)) @@ (Sq(3,6) :> Black(PAWN)) @@ (Sq(6,6) :> Black(KNIGHT)) @@ (Sq(7,8) :> Black(KING))
         @@ (Sq(4,8) :> Black(QUEEN)) @@ (Sq(5,4) :> White(PAWN)) @@ (Sq(3,3) :> White(KNIGHT)) @@ (Sq(4,1) :> White(ROOK))
         @@ (Sq(7,1) :> White(KING)), {}, 3, {Sq(4,5), Sq(3,6), Sq(6,6), Sq(5,4), Sq(3,3), Sq(4,1)}),
  Line((Sq(5,1) :> White(KING)) @@ (Sq(8,1) :> White(ROOK)) @@ (Sq(1,1) :> White(ROOK)) @@ (Sq(2,6) :> Black(BISHOP))
         @@ (Sq(7,8) :> Black(KING)) @@ (Sq(1,2) :> White(PAWN)), {<<WHITE, 7>>, <<WHITE, 0>>}, 3,
       {Sq(5,1), Sq(4,1), Sq(8,1), Sq(1,1), Sq(2,6), Sq(7,1), Sq(3,5)}),
  Line((Sq(2,7) :> White(PAWN)) @@ (Sq(1,8) :> Black(ROOK)) @@ (Sq(3,8) :> Black(KNIGHT)) @@ (Sq(5,2) :> White(KING))
         @@ (Sq(8,8) :> Black(KING)) @@ (Sq(7,7) :> Black(PAWN)) @@ (Sq(6,5) :> White(PAWN)), {}, 3,
       {Sq(2,7), Sq(1,8), Sq(3,8), Sq(2,8), Sq(5,2), Sq(4,2), Sq(7,7), Sq(7,5), Sq(6,5), Sq(7,6)}) }

-----------------------------------------------------------------------------
\* A picker that has nothing left, a root search that is done, a node that returned, a line
\* with nothing on it.
PickRest ==
  /\ node = Node("qsearch", <<>>, <<>>, <<>>, "none", <<>>, {}) /\ picker = NewPicker(node) /\ emitted = <<NoneLeft>>
RootRest ==
  /\ setup = Root(<<"t0">>, <<"a">>, [a |-> 1], 1, {3}, {0}, 0) /\ stop = TRUE /\ aborted = FALSE
  /\ worker = [t \in {"t0"} |-> [Worker(setup) EXCEPT !.pc = "done"]]
NodeRest ==
  /\ callee = Setting(Call("pv", -6, 6), Place(TRUE, FALSE, FALSE, <<>>), NoEntry, {}, {}, NoneMove) /\ stopped = FALSE
  /\ frame = [pc |-> "returned", made |-> 0, nmp |-> FALSE, value |-> 0, written |-> NoEntry, writtenWhole |-> TRUE]

AccRest == task = Line(<<>>, {}, 0, {}) /\ made = 0 /\ line = <<>> /\ stack = <<>> /\ cache = <<>>

Init ==
  \/ part = "pick" /\ PickInit /\ RootRest /\ NodeRest /\ AccRest
  \/ part = "root" /\ PickRest /\ RootInit /\ NodeRest /\ AccRest
  \/ part = "node" /\ PickRest /\ RootRest /\ NodeInit /\ AccRest
  \/ part = "line" /\ PickRest /\ RootRest /\ NodeRest /\ AccInit

Next ==
  /\ UNCHANGED part
  /\ \/ part = "pick" /\ PickNext /\ UNCHANGED <<rootVars, nodeVars, accVars>>
     \/ part = "root" /\ RootNext /\ UNCHANGED <<pickVars, nodeVars, accVars>>
     \/ part = "node" /\ NodeNext /\ UNCHANGED <<pickVars, rootVars, accVars>>
     \/ part = "line" /\ AccNext /\ UNCHANGED <<pickVars, rootVars, nodeVars>>

Spec == Init /\ [][Next]_<<part, pickVars, rootVars, nodeVars, accVars>> /\ \A t \in RootThreads : WF_rootVars(t \in Threads /\ RootStep(t))
=============================================================================
