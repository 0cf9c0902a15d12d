------------------------------ MODULE RootSearch ------------------------------
(***************************************************************************)
(* Iterative deepening (search.cpp, iterative_deepening and the root of    *)
(* search) by several workers that share the flags stop and abortedSearch, *)
(* and the choice of the thread whose move is played (get_best_thread).    *)
(* What the tree below a root move returns is any of a setup's values.     *)
(***************************************************************************)
EXTENDS Integers, Sequences, FiniteSets, SequencesExt, FiniteSetsExt

CONSTANTS RootThreads, \* of the largest pool
          RootSetups,  \* records [threads, moves, rank, multiPV, deltas, values, depth]: threads and moves
                       \* sequences, rank the tablebase rank of a move, deltas the first window sizes
          LastDepth,   \* the deepest iteration of a thread without a limit, MAX_PLY - 1
          Inf,         \* VALUE_INFINITE
          Decisive     \* the least value of a proven win

NoMove == "none"

\* The moves come by descending rank; a search returns a value between the infinite ones.
ASSUME RootAssumption ==
  /\ Inf \in Nat /\ Decisive \in 1 .. Inf /\ LastDepth \in Nat
  /\ \A s \in RootSetups :
       /\ s.threads \in Seq(RootThreads) /\ s.threads # <<>>
       /\ s.moves \in Seq(ToSet(s.moves)) /\ s.moves # <<>> /\ NoMove \notin ToSet(s.moves)
       /\ s.rank \in [ToSet(s.moves) -> Int]
       /\ \A i, j \in DOMAIN s.moves : i < j => s.rank[s.moves[i]] >= s.rank[s.moves[j]]
       /\ s.multiPV \in DOMAIN s.moves /\ s.depth \in Nat
       /\ s.deltas \subseteq Nat \ {0} /\ s.values \subseteq (1 - Inf) .. (Inf - 1)

is_loss(v) == v <= -Decisive
is_win(v) == v >= Decisive

VARIABLES setup,    \* what is searched, and how
          stop,     \* threads.stop
          aborted,  \* threads.abortedSearch
          worker    \* of each thread
rootVars == <<setup, stop, aborted, worker>>

Threads == ToSet(setup.threads)
Main == setup.threads[1]

-----------------------------------------------------------------------------
\* averaged is whether averageScore has a value, that is whether the move was ever searched.
RootMove(m) == [move |-> m, score |-> -Inf, previousScore |-> -Inf, exact |-> TRUE, averaged |-> FALSE]
Worker(s) ==
  [pc |-> "iterate", rootDepth |-> 0, completedDepth |-> 0, rootMoves |-> [i \in DOMAIN s.moves |-> RootMove(s.moves[i])],
   pvIdx |-> 1, pvFirst |-> 1, pvLast |-> 1, alpha |-> -Inf, beta |-> Inf, delta |-> 0,
   lastBest |-> [move |-> NoMove, score |-> -Inf], results |-> <<>>]

RootInit ==
  /\ setup \in RootSetups
  /\ stop = FALSE /\ aborted = FALSE
  /\ worker = [t \in ToSet(setup.threads) |-> Worker(setup)]

\* RootMove::operator<, and std::stable_sort of the moves first .. last by it: of two that are
\* equal the one that came first stays first.
Before(a, b) == IF b.score # a.score THEN b.score < a.score ELSE b.previousScore < a.previousScore
StablyBefore(rows, i, j) == Before(rows[i], rows[j]) \/ (~Before(rows[j], rows[i]) /\ i < j)
SortOrder(rows, first, last) ==
  CHOOSE p \in [first .. last -> first .. last] :
    \A i, j \in first .. last : i < j => StablyBefore(rows, p[i], p[j])
stable_sort(rows, first, last) ==
  LET p == SortOrder(rows, first, last)
  IN  [i \in DOMAIN rows |-> IF i \in first .. last THEN rows[p[i]] ELSE rows[i]]

-----------------------------------------------------------------------------
(* The search of the root moves of one line.                               *)

\* The move in place i has the value v: only the first and those that raise alpha get a score.
SearchMove(x, i, v, beta) ==
  IF x.cut THEN x
  ELSE LET pv == x.first \/ v > x.alpha
           row == IF pv THEN [x.rows[i] EXCEPT !.score = v, !.exact = x.alpha < v /\ v < beta, !.averaged = TRUE]
                  ELSE [x.rows[i] EXCEPT !.score = -Inf, !.averaged = TRUE]
       IN  [rows |-> [x.rows EXCEPT ![i] = row], alpha |-> IF v > x.alpha /\ v < beta THEN v ELSE x.alpha,
            best |-> IF v > x.best THEN v ELSE x.best, first |-> FALSE, cut |-> v >= beta]
NoneSearched(w) == [rows |-> w.rootMoves, alpha |-> w.alpha, best |-> -Inf, first |-> TRUE, cut |-> FALSE]
Searched(w, order, value, n) ==
  LET x[k \in 0 .. n] == IF k = 0 THEN NoneSearched(w) ELSE SearchMove(x[k - 1], order[k], value[k], w.beta)
  IN  x[n]

\* The places of the line, the best move so far first and the others as the picker gives them.
Places(w) == 1 .. w.pvLast - w.pvIdx + 1
Orders(w) == {order \in [Places(w) -> w.pvIdx .. w.pvLast] : order[1] = w.pvIdx /\ IsInjective(order)}

Least(a, b) == IF a <= b THEN a ELSE b
Greatest(a, b) == IF a >= b THEN a ELSE b
\* The window of the search after one that failed, and its growth.
FailLow(w, best) == [w EXCEPT !.beta = w.alpha, !.alpha = Greatest(best - w.delta, -Inf), !.delta = @ + @ \div 3]
FailHigh(w, best) ==
  [w EXCEPT !.alpha = Greatest(w.beta - w.delta, w.alpha), !.beta = Least(best + w.delta, Inf), !.delta = @ + @ \div 3]

LineEnds(w) == [w EXCEPT !.pc = "line", !.alpha = -Inf, !.beta = Inf, !.delta = 0]

\* One call of search<Root> with the sort and the window that follow it. A raised stop
\* ends it after any number of moves, and main's own clock in the middle of one.
SearchRoot(t) ==
  LET w == worker[t]
  IN  /\ w.pc = "search"
      /\ \E order \in Orders(w) :
           \E n \in IF stop THEN 0 .. Len(order) - (IF aborted /\ t = Main THEN 1 ELSE 0) ELSE {Len(order)} :
             \E value \in [1 .. n -> setup.values] :
               LET x == Searched(w, order, value, n)
                   sorted == [w EXCEPT !.rootMoves = stable_sort(x.rows, w.pvIdx, w.pvLast)]
               IN  worker' = [worker EXCEPT ![t] =
                     IF stop THEN LineEnds(sorted)
                     ELSE IF x.best <= w.alpha THEN FailLow(sorted, x.best)
                     ELSE IF x.best >= w.beta THEN FailHigh(sorted, x.best)
                     ELSE LineEnds(sorted)]
      /\ UNCHANGED <<setup, stop, aborted>>

\* The small ProbCut idea, which the root has too: a lower bound of the transposition
\* table ends the call above beta before a move is searched.
CutOffAtRoot(t) ==
  LET w == worker[t]
  IN  /\ w.pc = "search" /\ ~stop /\ ~is_loss(w.beta) /\ ~is_win(w.beta)
      /\ \E v \in {x \in setup.values : x >= w.beta /\ ~is_win(x)} :
           worker' = [worker EXCEPT ![t] = FailHigh([w EXCEPT !.rootMoves = stable_sort(@, w.pvIdx, w.pvLast)], v)]
      /\ UNCHANGED <<setup, stop, aborted>>

\* The last move, from pvFirst on, of the moves with the tablebase rank of pvFirst.
LineEnd(w, first) ==
  Max({i \in first .. Len(w.rootMoves) :
        \A j \in first .. i : setup.rank[w.rootMoves[j].move] = setup.rank[w.rootMoves[first].move]})
\* Line idx begins with a window around the move's average, or at -Inf for a move that has none.
BeginLine(w, idx, delta, avg) ==
  LET next == idx = 1 \/ idx > w.pvLast
  IN  [w EXCEPT !.pc = "search", !.pvIdx = idx, !.delta = delta,
                !.pvFirst = IF next THEN idx ELSE @, !.pvLast = IF next THEN LineEnd(w, idx) ELSE @,
                !.alpha = Greatest(avg - delta, -Inf), !.beta = Least(avg + delta, Inf)]
Averages(w, idx) == IF w.rootMoves[idx].averaged THEN setup.values ELSE {-Inf}

\* The loop ends on a stop or at its depth: limits.depth is for main, the helpers go on
\* until main is done and stops them.
Deepest(t) == worker[t].rootDepth = LastDepth \/ (t = Main /\ worker[t].rootDepth = setup.depth)
\* A new iteration remembers the scores of the last.
Deepened(w) ==
  [w EXCEPT !.rootDepth = @ + 1,
            !.rootMoves = [i \in DOMAIN @ |-> [@[i] EXCEPT !.previousScore = w.rootMoves[i].score]]]
\* The next iteration, if there is one.
Iterate(t) ==
  LET w == worker[t]
  IN  /\ w.pc = "iterate"
      /\ IF stop \/ Deepest(t)
         THEN worker' = [worker EXCEPT ![t].pc = "done"] /\ stop' = (stop \/ t = Main)
         ELSE /\ \E delta \in setup.deltas, avg \in Averages(w, 1) : worker' = [worker EXCEPT ![t] = BeginLine(Deepened(w), 1, delta, avg)]
              /\ UNCHANGED stop
      /\ UNCHANGED <<setup, aborted>>

\* Mutant: the lines are left as they were searched.
EndLineUnsorted(t) ==
  LET w == worker[t]
  IN  /\ w.pc = "line"
      /\ IF stop \/ w.pvIdx = setup.multiPV
         THEN worker' = [worker EXCEPT ![t].pc = "end"]
         ELSE \E delta \in setup.deltas, avg \in Averages(w, w.pvIdx + 1) :
                worker' = [worker EXCEPT ![t] = BeginLine(w, w.pvIdx + 1, delta, avg)]
      /\ UNCHANGED <<setup, stop, aborted>>

\* The lines so far are sorted; the next one or, after the last or a stop, the end of the iteration.
EndLine(t) ==
  LET w == worker[t]
      sorted == [w EXCEPT !.rootMoves = stable_sort(@, w.pvFirst, w.pvIdx)]
  IN  /\ w.pc = "line"
      /\ IF stop \/ w.pvIdx = setup.multiPV
         THEN worker' = [worker EXCEPT ![t] = [sorted EXCEPT !.pc = "end"]]
         ELSE \E delta \in setup.deltas, avg \in Averages(sorted, w.pvIdx + 1) :
                worker' = [worker EXCEPT ![t] = BeginLine(sorted, w.pvIdx + 1, delta, avg)]
      /\ UNCHANGED <<setup, stop, aborted>>

\* Utility::move_to_front of the root move m, if it is there.
Rotated(rows, k) == [i \in DOMAIN rows |-> IF i = 1 THEN rows[k] ELSE IF i <= k THEN rows[i - 1] ELSE rows[i]]
move_to_front(rows, m) ==
  LET found == {i \in DOMAIN rows : rows[i].move = m}
  IN  IF found = {} THEN rows ELSE Rotated(rows, Min(found))

\* Mutant: the last best move comes to the front, but keeps the score that it has.
RestoredUnscored(w) == [w EXCEPT !.rootMoves = move_to_front(w.rootMoves, w.lastBest.move)]

\* The last best move comes to the front, and what is in front takes its score.
Restored(w) ==
  LET front == move_to_front(w.rootMoves, w.lastBest.move)
  IN  [w EXCEPT !.rootMoves = [front EXCEPT ![1] = [@ EXCEPT !.move = w.lastBest.move, !.score = w.lastBest.score]]]
UnprovenLoss(w) == aborted /\ w.rootMoves[1].score # -Inf /\ is_loss(w.rootMoves[1].score)
Best(w) == [move |-> w.rootMoves[1].move, score |-> w.rootMoves[1].score]

\* The end of an iteration, finished or not; main may find that it has searched enough.
\* results is what the finished iterations found.
EndIteration(t) ==
  LET w == worker[t]
      counted == IF stop THEN w ELSE [w EXCEPT !.completedDepth = w.rootDepth, !.results = Append(@, Best(w))]
  IN  /\ w.pc = "end"
      /\ worker' = [worker EXCEPT ![t] =
           [(IF UnprovenLoss(w) THEN Restored(counted)
             ELSE IF Best(w).move # w.lastBest.move THEN [counted EXCEPT !.lastBest = Best(w)] ELSE counted) EXCEPT !.pc = "iterate"]]
      /\ stop' \in (IF t = Main THEN {stop, TRUE} ELSE {stop})
      /\ UNCHANGED <<setup, aborted>>

\* The GUI's stop, and SearchManager::check_time, which main calls as it searches.
StopSearch == ~stop /\ stop' = TRUE /\ UNCHANGED <<setup, aborted, worker>>
check_time ==
  /\ ~aborted /\ worker[Main].pc = "search" /\ worker[Main].completedDepth >= 1
  /\ stop' = TRUE /\ aborted' = TRUE
  /\ UNCHANGED <<setup, worker>>

RootStep(t) == Iterate(t) \/ SearchRoot(t) \/ CutOffAtRoot(t) \/ EndLine(t) \/ EndIteration(t)
RootNext == (\E t \in Threads : RootStep(t)) \/ StopSearch \/ check_time
RootSpec == RootInit /\ [][RootNext]_rootVars /\ \A t \in RootThreads : WF_rootVars(t \in Threads /\ RootStep(t))

-----------------------------------------------------------------------------
(* ThreadPool::get_best_thread, long the threads whose line has over two moves. *)

Score(t) == worker[t].rootMoves[1].score
MoveOf(t) == worker[t].rootMoves[1].move
ProvenLoss(v) == v # -Inf /\ is_loss(v)
voting_value(t) == (Score(t) - Min({Score(u) : u \in Threads}) + 14) * worker[t].completedDepth
votes(t) == MapThenSumSet(voting_value, {u \in Threads : MoveOf(u) = MoveOf(t)})
Better(best, t, long) ==
  LET weight(u) == IF u \in long THEN voting_value(u) ELSE 0
  IN  IF is_win(Score(best)) THEN Score(t) > Score(best)
      ELSE IF ProvenLoss(Score(best)) THEN ProvenLoss(Score(t)) /\ Score(t) < Score(best)
      ELSE \/ is_win(Score(t)) \/ ProvenLoss(Score(t))
           \/ ~is_loss(Score(t)) /\ (votes(t) > votes(best) \/ (votes(t) = votes(best) /\ weight(t) > weight(best)))
get_best_thread(long) ==
  LET n == Len(setup.threads)
      best[k \in 0 .. n] ==
        IF k = 0 THEN Main
        ELSE IF Better(best[k - 1], setup.threads[k], long) THEN setup.threads[k] ELSE best[k - 1]
  IN  best[n]

-----------------------------------------------------------------------------
AllDone == \A t \in Threads : worker[t].pc = "done"
RootMovesOf(t) == {worker[t].rootMoves[i].move : i \in DOMAIN worker[t].rootMoves}

RootTypeOK ==
  /\ stop \in BOOLEAN /\ aborted \in BOOLEAN /\ (aborted => stop)
  /\ \A t \in Threads :
       /\ worker[t].pc \in {"iterate", "search", "line", "end", "done"}
       /\ worker[t].completedDepth <= worker[t].rootDepth
       /\ worker[t].pc = "search" => worker[t].pvIdx \in worker[t].pvFirst .. worker[t].pvLast

\* The window is open and within the infinite values, however often it failed.
WindowOpen ==
  \A t \in Threads : worker[t].pc = "search" =>
    -Inf <= worker[t].alpha /\ worker[t].alpha < worker[t].beta /\ worker[t].beta <= Inf

\* A worker's root moves stay the legal moves, each once: only a helper whose first
\* iteration was aborted may end without a first move.
RootMovesKept ==
  \A t \in Threads :
    \/ RootMovesOf(t) = ToSet(setup.moves)
    \/ t # Main /\ worker[t].completedDepth = 0 /\ aborted /\ MoveOf(t) = NoMove

\* However the lines are sorted, a move of a worse tablebase rank never goes before a better one.
RanksKept ==
  \A t \in Threads : \A i, j \in DOMAIN worker[t].rootMoves :
    i < j /\ MoveOf(t) # NoMove => setup.rank[worker[t].rootMoves[i].move] >= setup.rank[worker[t].rootMoves[j].move]

\* When an iteration was finished its lines have exact scores, the best of each rank first.
LinesSorted ==
  \A t \in Threads : LET w == worker[t] IN
    w.pc = "end" /\ ~stop =>
      \A i \in 1 .. setup.multiPV :
        /\ w.rootMoves[i].score # -Inf /\ w.rootMoves[i].exact
        /\ \A j \in 1 .. i : setup.rank[w.rootMoves[i].move] = setup.rank[w.rootMoves[j].move] =>
                               w.rootMoves[j].score >= w.rootMoves[i].score

\* A worker that ends an iteration of a search aborted by the clock never keeps a loss that
\* is not the result of one of its finished iterations.
ProvenLossOnly ==
  [][\A t \in RootThreads :
       t \in Threads /\ worker[t].pc = "end" /\ worker'[t].pc = "iterate" /\ aborted /\ ProvenLoss(Score(t)')
         => Best(worker'[t]) \in ToSet(worker'[t].results)]_rootVars

\* The thread that is chosen has a move; with proven wins it has the shortest and with
\* proven losses one of them, unless the threads contradict each other.
BestThreadRight ==
  AllDone /\ MoveOf(Main) # NoMove =>
    \A long \in SUBSET Threads :
      LET best == get_best_thread(long)
          wins == {t \in Threads : is_win(Score(t))}
          losses == {t \in Threads : ProvenLoss(Score(t))}
      IN  /\ MoveOf(best) # NoMove
          /\ wins # {} /\ losses = {} => Score(best) = Max({Score(t) : t \in Threads})
          /\ losses # {} /\ wins = {} => best \in losses

\* Windows grow until they hold: every worker ends.
AspirationEnds == \A t \in RootThreads : <>(t \in Threads => worker[t].pc = "done")

\* The lines that the search reports and plays from (the sorts of iterative_deepening, the
\* window around a line, the vote of the threads) are the root moves in their right order.
LinesRight == RootTypeOK /\ WindowOpen /\ RootMovesKept /\ RanksKept /\ LinesSorted /\ BestThreadRight

\* However the clock and the windows fall, a search ends and trusts no unproven loss.
RootPromises == ProvenLossOnly /\ AspirationEnds
=============================================================================
