------------------------------ MODULE SearchNode ------------------------------
(***************************************************************************)
(* One call of search or qsearch (search.cpp) at ply 1 of the tree. What   *)
(* it may rely on is what it must deliver: a decisive value (a mate or     *)
(* tablebase score) that a search returns from inside its window, or that  *)
(* the transposition table bounds, is proven. The searches below a move,   *)
(* the entry that is found and the tablebases give any value that keeps    *)
(* this; margins, depths and histories are left open.                      *)
(***************************************************************************)
EXTENDS Integers, FiniteSets, FiniteSetsExt

CONSTANTS NodeSetups,  \* records [kind, alpha, beta, truth, inCheck, draw, repeats, skipped, barred, excluded, entry]:
                       \* truth the value of the position after each move, for the side to move there,
                       \* skipped the root moves of earlier lines (pvIdx is their number), barred those that
                       \* searchmoves or a worse tablebase rank leaves out, entry what the table has
          NodeInf,     \* VALUE_INFINITE
          NodeMate,    \* VALUE_MATE
          NodeWin      \* VALUE_TB_WIN_IN_MAX_PLY

NoneMove == "none"
NoEntry == [value |-> 0, bound |-> "none", move |-> NoneMove]
LowerBounds == {"lower", "exact"}
UpperBounds == {"upper", "exact"}
IsWin(v) == v >= NodeWin
IsLoss(v) == v <= -NodeWin
IsDecisive(v) == IsWin(v) \/ IsLoss(v)
Plain == 1 - NodeWin .. NodeWin - 1           \* the values that are not decisive
NodeValues == 1 - NodeInf .. NodeInf - 1
DrawValues == {-1, 1}                         \* value_draw
mated_in(ply) == ply - NodeMate
mate_in(ply) == NodeMate - ply
tbValue == NodeWin                            \* VALUE_TB - ply
Larger(a, b) == IF a >= b THEN a ELSE b
Smaller(a, b) == IF a <= b THEN a ELSE b

\* The asserts at the beginning of search and qsearch. Only a search off the principal
\* variation leaves a move out; a root has moves, and whether it is drawn is not asked.
ASSUME NodeAssumption ==
  /\ NodeInf \in Nat /\ NodeMate \in Nat /\ NodeWin \in Nat
  /\ 1 < NodeWin /\ NodeWin + 1 < NodeMate /\ NodeMate < NodeInf
  /\ \A c \in NodeSetups :
       /\ c.kind \in {"root", "pv", "nonpv", "qsearch", "qsearchPV"}
       /\ c.alpha \in Int /\ c.beta \in Int /\ -NodeInf <= c.alpha /\ c.alpha < c.beta /\ c.beta <= NodeInf
       /\ c.kind \in {"nonpv", "qsearch"} => c.alpha = c.beta - 1
       /\ \A m \in DOMAIN c.truth : m # NoneMove /\ c.truth[m] \in NodeValues
       /\ c.inCheck \in BOOLEAN /\ c.draw \in BOOLEAN /\ c.repeats \in BOOLEAN
       /\ c.skipped \cup c.barred # {} => c.kind = "root"
       /\ c.excluded # NoneMove => c.kind = "nonpv"
       /\ c.kind = "root" => DOMAIN c.truth \ (c.skipped \cup c.barred) # {} /\ ~c.draw
       /\ c.entry.value \in Int /\ c.entry.bound \in {"none", "lower", "upper", "exact"}

VARIABLES callee,  \* the setup: the call's arguments and the position's truth
          stopped, \* threads.stop
          frame    \* the locals of the call, what it has written and what it has returned
nodeVars == <<callee, stopped, frame>>

Moves == DOMAIN callee.truth
\* The value of the position with the moves M: the best one's, mate or stalemate without
\* one, a draw as the rules have it.
TruthAmong(c, M) ==
  IF c.draw THEN 0
  ELSE IF M = {} THEN IF c.inCheck THEN mated_in(1) ELSE 0
  ELSE Max({-c.truth[m] : m \in M})
TruthOf(c) == TruthAmong(c, DOMAIN c.truth)
\* The moves of a call: a root has those of its list from pvIdx to pvLast.
Candidates(c) == DOMAIN c.truth \ (c.skipped \cup c.barred)
TruthHere(c) == TruthAmong(c, Candidates(c))
\* A value from a window (a, b) for a position of value t proves what it claims.
Proven(v, t, a, b) == (v > a /\ IsWin(v) => t >= v) /\ (v < b /\ IsLoss(v) => t <= v)
EntryProven(e, t) ==
  (e.bound \in LowerBounds /\ IsWin(e.value) => t >= e.value) /\ (e.bound \in UpperBounds /\ IsLoss(e.value) => t <= e.value)

NodeInit ==
  /\ callee \in {c \in NodeSetups : EntryProven(c.entry, TruthOf(c))}
  /\ stopped = FALSE
  /\ frame = [pc |-> "enter", alpha |-> callee.alpha, beta |-> callee.beta, bestValue |-> -NodeInf, maxValue |-> NodeInf,
              bestMove |-> NoneMove, count |-> 0, todo |-> Candidates(callee), move |-> NoneMove, singular |-> FALSE, whole |-> TRUE,
              made |-> 0, nmp |-> FALSE, written |-> NoEntry, writtenWhole |-> TRUE, value |-> 0]

-----------------------------------------------------------------------------
Quiescence == callee.kind = "qsearch" \/ callee.kind = "qsearchPV"
PvNode == callee.kind \in {"root", "pv", "qsearchPV"}
RootNode == callee.kind = "root"
At(pc) == frame.pc = pc
Goto(f, pc) == frame' = [f EXCEPT !.pc = pc]
Return(f, v) == frame' = [f EXCEPT !.pc = "returned", !.value = v]
Written(f, value, bound, move) ==
  [f EXCEPT !.written = [value |-> value, bound |-> bound, move |-> move], !.writtenWhole = f.whole]
Kept == UNCHANGED <<callee, stopped>>

\* What a search of the position after m gives to this side for the window (a, b); a
\* search that is stopped gives 0 or a draw.
Finished(m, a, b) == {[value |-> v, whole |-> TRUE] : v \in {x \in NodeValues : Proven(-x, callee.truth[m], -b, -a)}}
Interrupted == IF stopped THEN {[value |-> v, whole |-> FALSE] : v \in DrawValues \cup {0}} ELSE {}
Searches(m, a, b) == Finished(m, a, b) \cup (IF Quiescence THEN {} ELSE Interrupted)
\* A search of this position itself, as razoring and the verification of a null move make it.
SearchesHere(a, b) ==
  {[value |-> v, whole |-> TRUE] : v \in {x \in NodeValues : Proven(x, TruthOf(callee), a, b)}} \cup Interrupted

\* The beginning, steps 1 to 3: an upcoming repetition, a stop or a draw, mate distance pruning.
Enter ==
  /\ At("enter") /\ Kept
  /\ \E draw \in DrawValues :
       LET repeats == callee.repeats /\ frame.alpha < 0 /\ ~RootNode
           alpha == IF repeats THEN draw ELSE frame.alpha
           a == Larger(mated_in(1), alpha)
           b == Smaller(mate_in(2), frame.beta)
           next == [frame EXCEPT !.alpha = a, !.beta = b]
       IN  IF repeats /\ alpha >= frame.beta THEN Return(frame, alpha)
           ELSE IF RootNode THEN Goto(frame, "cutoff")
           ELSE IF Quiescence THEN IF callee.draw THEN Return(frame, 0) ELSE Goto([frame EXCEPT !.alpha = alpha], "cutoff")
           ELSE IF stopped \/ callee.draw THEN Return(frame, draw)
           ELSE IF a >= b THEN Return(next, a)
           ELSE Goto(next, "cutoff")

\* Step 4: the entry of the transposition table may end the search of a node off the principal variation.
TTCutoff ==
  LET e == callee.entry
  IN  /\ At("cutoff") /\ Kept
      /\ \/ /\ ~PvNode /\ callee.excluded = NoneMove
            /\ e.bound \in (IF e.value >= frame.beta THEN LowerBounds ELSE UpperBounds)
            /\ Return(frame, e.value)
         \/ Goto(frame, IF Quiescence THEN "stand" ELSE "tables")

\* Step 5: the tablebases know the position, if it has few pieces.
TBValue == CASE IsWin(TruthOf(callee)) -> tbValue [] IsLoss(TruthOf(callee)) -> -tbValue [] OTHER -> 0
TBProbe ==
  LET b == IF IsWin(TBValue) THEN "lower" ELSE IF IsLoss(TBValue) THEN "upper" ELSE "exact"
      next == IF callee.inCheck THEN "moves" ELSE "prune"
  IN  /\ At("tables") /\ Kept
      /\ \/ /\ ~RootNode /\ callee.excluded = NoneMove
            /\ IF b = "exact" \/ (b = "lower" /\ TBValue >= frame.beta) \/ (b = "upper" /\ TBValue <= frame.alpha)
               THEN Return(Written(frame, TBValue, b, NoneMove), TBValue)
               ELSE Goto(IF ~PvNode THEN frame
                         ELSE IF b = "lower" THEN [frame EXCEPT !.bestValue = TBValue, !.alpha = Larger(@, TBValue)]
                         ELSE [frame EXCEPT !.maxValue = TBValue], next)
         \/ Goto(frame, next)

\* What a node that is not in check thinks of its position: the static evaluation or, if
\* its bound allows that, the entry's value.
Evals == Plain \cup (IF callee.entry.bound # "none" THEN {callee.entry.value} ELSE {})

\* Step 7: far below alpha the quiescence search decides.
Razoring ==
  /\ At("prune") /\ ~PvNode /\ Kept
  /\ \E r \in SearchesHere(frame.alpha, frame.beta) : r.whole /\ Return(frame, r.value)
\* Step 8: far above beta the search ends with a mean of beta and the evaluation.
FutilityPruning ==
  /\ At("prune") /\ ~PvNode /\ ~IsLoss(frame.beta) /\ Kept
  /\ \E eval \in Evals : eval >= frame.beta /\ ~IsWin(eval) /\ \E v \in frame.beta .. eval : Return(frame, v)
\* Step 9: the opponent moves twice; a search with null moves disabled may have to verify it.
NullMove ==
  /\ At("prune") /\ ~PvNode /\ callee.excluded = NoneMove /\ ~frame.nmp /\ ~IsLoss(frame.beta) /\ Kept
  /\ \/ \E nullValue \in NodeValues :
          /\ nullValue >= frame.beta /\ ~IsWin(nullValue)
          /\ \/ Return(frame, nullValue)
             \/ frame' = [frame EXCEPT !.pc = "verify", !.nmp = TRUE, !.value = nullValue]
     \/ Goto(frame, "probcut")
VerifyNull ==
  /\ At("verify") /\ Kept
  /\ \E r \in SearchesHere(frame.beta - 1, frame.beta) :
       LET next == [frame EXCEPT !.nmp = FALSE]
       IN  IF r.value >= frame.beta THEN Return(next, frame.value) ELSE Goto([next EXCEPT !.value = 0], "probcut")
NoPruning == At("prune") /\ Kept /\ Goto(frame, "probcut")

\* Step 11: a capture that holds far above beta, at the root one that its list does not
\* have, too; after a decisive value the next capture is tried.
ProbCut ==
  /\ At("probcut") /\ ~IsDecisive(frame.beta) /\ Kept
  /\ \E m \in Moves \ {callee.excluded}, probCutBeta \in frame.beta + 1 .. NodeWin :
       /\ callee.entry.bound # "none" => callee.entry.value >= probCutBeta
       /\ \E r \in Searches(m, probCutBeta - 1, probCutBeta) :
            /\ r.value >= probCutBeta
            /\ LET next == Written([frame EXCEPT !.whole = @ /\ r.whole], r.value, "lower", m)
               IN  IF IsDecisive(r.value) THEN Goto([next EXCEPT !.whole = TRUE], "probcut")
                   ELSE Return(next, r.value - (probCutBeta - frame.beta))
NoProbCut == At("probcut") /\ Kept /\ Goto(frame, "moves")

\* Step 12: the entry's lower bound is far above beta.
SmallProbCut ==
  LET e == callee.entry
  IN  /\ At("moves") /\ frame.count = 0 /\ ~Quiescence /\ Kept
      /\ e.bound \in LowerBounds /\ ~IsDecisive(frame.beta) /\ ~IsDecisive(e.value)
      /\ \E probCutBeta \in frame.beta .. e.value : Return(frame, probCutBeta)

-----------------------------------------------------------------------------
(* Steps 13 to 20: the moves, in any order.                                *)

Turn(m) == At("moves") /\ m \in frame.todo /\ m # callee.excluded /\ Kept
Passed(m) == [frame EXCEPT !.todo = @ \ {m}, !.count = @ + 1]

\* Mutant: moves are pruned although all before them lose.
PruneAny(m) == Turn(m) /\ ~RootNode /\ ~Quiescence /\ frame' = Passed(m)

\* Step 14: a move is not searched at a shallow depth, once another one does not lose; a
\* futility value may take the place of the best value.
PruneMove(m) ==
  /\ Turn(m) /\ ~RootNode /\ ~Quiescence /\ ~IsLoss(frame.bestValue)
  /\ \/ frame' = Passed(m)
     \/ \E futilityValue \in NodeValues :
          /\ ~callee.inCheck /\ futilityValue <= frame.alpha
          /\ frame.bestValue <= futilityValue /\ ~IsDecisive(frame.bestValue) /\ ~IsWin(futilityValue)
          /\ frame' = [Passed(m) EXCEPT !.bestValue = futilityValue]
\* The pruning of the quiescence search (its step 6).
PruneCapture(m) ==
  /\ Turn(m) /\ Quiescence /\ ~IsLoss(frame.bestValue)
  /\ \/ frame' = Passed(m)
     \/ \E futilityValue \in NodeValues :
          /\ ~IsLoss(futilityValue) /\ futilityValue <= frame.alpha
          /\ frame' = [Passed(m) EXCEPT !.bestValue = Larger(@, futilityValue)]

\* Step 15: a search without the entry's move, whose value may end this one, too.
SingularExtension(m) ==
  LET e == callee.entry
  IN  /\ Turn(m) /\ ~RootNode /\ ~Quiescence /\ e.move = m /\ callee.excluded = NoneMove
      /\ e.bound \in LowerBounds /\ ~IsDecisive(e.value) /\ ~frame.singular
      /\ \E v \in NodeValues :
           IF v >= frame.beta /\ ~IsDecisive(v) THEN Return(frame, v) ELSE frame' = [frame EXCEPT !.singular = TRUE]

\* Steps 16 to 18: the move is made and searched, with an empty window unless it is the
\* first of a principal variation, and again with the whole one when that fails high there.
MoveValues(m) ==
  LET full == Searches(m, frame.alpha, frame.beta)
      null == Searches(m, frame.alpha, frame.alpha + 1)
  IN  IF ~PvNode \/ Quiescence \/ frame.count = 0 THEN full
      ELSE {r \in null : r.value <= frame.alpha} \cup (IF \E r \in null : r.value > frame.alpha THEN full ELSE {})
MakeMove(m) ==
  /\ Turn(m)
  /\ \E r \in MoveValues(m) :
       frame' = [Passed(m) EXCEPT !.pc = "made", !.made = @ + 1, !.value = r.value, !.whole = r.whole, !.move = m]
\* Steps 19 and 20: the move is taken back; a stop ends the search, and a better value
\* counts. A move as good as the best may be promoted: inc lets it pass for better.
Increments == IF ~Quiescence /\ frame.value = frame.bestValue /\ ~IsWin(Larger(frame.value, -frame.value) + 1) THEN {0, 1} ELSE {0}
TakeBack ==
  LET undone == [frame EXCEPT !.made = @ - 1, !.value = 0, !.move = NoneMove]
      v == frame.value
      m == frame.move
  IN  /\ At("made") /\ Kept
      /\ IF stopped /\ ~Quiescence THEN Return(undone, 0)
         ELSE \E inc \in Increments :
                IF v + inc <= frame.bestValue THEN Goto(undone, "moves")
                ELSE IF v + inc <= frame.alpha THEN Goto([undone EXCEPT !.bestValue = v], "moves")
                ELSE IF v >= frame.beta THEN Goto([undone EXCEPT !.bestValue = v, !.bestMove = m], "end")
                ELSE Goto([undone EXCEPT !.bestValue = v, !.bestMove = m, !.alpha = v], "moves")

\* No move is left.
NoMoveLeft == At("moves") /\ frame.todo \subseteq {callee.excluded} /\ Kept /\ Goto(frame, IF Quiescence THEN "qend" ELSE "end")

\* Step 21: mate and stalemate, and what is written: nothing by a later line of the root,
\* but a root with barred moves writes what the others are worth.
EndSearch ==
  /\ At("end") /\ ~Quiescence /\ Kept
  /\ \E adjusted \in IF frame.bestValue >= frame.beta /\ ~IsDecisive(frame.bestValue) /\ ~IsDecisive(frame.alpha)
                     THEN Smaller(frame.beta, frame.bestValue) .. frame.bestValue ELSE {frame.bestValue} :
       LET found == IF frame.count > 0 THEN adjusted
                    ELSE IF callee.excluded # NoneMove THEN frame.alpha ELSE IF callee.inCheck THEN mated_in(1) ELSE 0
           bestValue == IF PvNode THEN Smaller(found, frame.maxValue) ELSE found
           bound == IF bestValue >= frame.beta THEN "lower" ELSE IF PvNode /\ frame.bestMove # NoneMove THEN "exact" ELSE "upper"
       IN  Return(IF callee.excluded # NoneMove \/ (RootNode /\ callee.skipped # {}) THEN frame
                  ELSE Written(frame, bestValue, bound, frame.bestMove), bestValue)

-----------------------------------------------------------------------------
(* The quiescence search before and after its moves.                       *)

\* Step 4 there: out of check the evaluation counts, and ends the search if it reaches beta.
StandPat ==
  /\ At("stand") /\ Kept
  /\ IF callee.inCheck THEN Goto(frame, "moves")
     ELSE \E eval \in {v \in Evals : ~IsDecisive(v)} :
            IF eval >= frame.beta
            THEN \E v \in frame.beta .. eval :
                   Return(IF callee.entry.bound = "none" THEN Written(frame, v, "lower", NoneMove) ELSE frame, v)
            ELSE Goto([frame EXCEPT !.bestValue = eval, !.alpha = Larger(@, eval)], "moves")

\* Step 9 there: mate, a stalemate that the captures do not show, and what is written.
EndQuiescence ==
  /\ frame.pc \in {"qend", "end"} /\ Quiescence /\ Kept
  /\ IF callee.inCheck /\ frame.bestValue = -NodeInf THEN Return(frame, mated_in(1))
     ELSE \E mean \in IF ~IsDecisive(frame.bestValue) /\ frame.bestValue > frame.beta
                      THEN frame.beta .. frame.bestValue ELSE {frame.bestValue} :
            \E bestValue \in IF Moves = {} /\ ~callee.inCheck THEN {mean, 0} ELSE {mean} :
              Return(Written(frame, bestValue, IF bestValue >= frame.beta THEN "lower" ELSE "upper", frame.bestMove), bestValue)

-----------------------------------------------------------------------------
StopRaised == ~stopped /\ ~At("returned") /\ stopped' = TRUE /\ UNCHANGED <<callee, frame>>

NodeNext ==
  \/ Enter \/ TTCutoff \/ TBProbe \/ Razoring \/ FutilityPruning \/ NullMove \/ VerifyNull \/ NoPruning \/ ProbCut \/ NoProbCut
  \/ SmallProbCut \/ TakeBack \/ NoMoveLeft \/ EndSearch \/ StandPat \/ EndQuiescence \/ StopRaised
  \/ \E m \in Moves : PruneMove(m) \/ PruneCapture(m) \/ SingularExtension(m) \/ MakeMove(m)
NodeSpec == NodeInit /\ [][NodeNext]_nodeVars

\* What the call returns or writes as decisive is proven, whatever was pruned on the way: a
\* returned value for the moves of the call, a written win for the position. A written loss
\* is proven for all moves that are not barred, which is all that the write in step 21
\* (search.cpp:1465 asks for pvIdx alone) allows to say: after searchmoves the table may have
\* a loss that the position is not.
WriteProven(e, c) ==
  /\ e.bound \in LowerBounds /\ IsWin(e.value) => TruthOf(c) >= e.value
  /\ e.bound \in UpperBounds /\ IsLoss(e.value) => TruthAmong(c, DOMAIN c.truth \ c.barred) <= e.value
DecisiveIsProven ==
  /\ At("returned") /\ callee.excluded = NoneMove =>
       Proven(frame.value, TruthHere(callee), callee.alpha, callee.beta)
  /\ WriteProven(frame.written, callee)

\* What a call changes for its time is as it was when it returns: the position, the null moves.
LeavesAsFound == At("returned") => frame.made = 0 /\ ~frame.nmp

\* A search only prunes what it may prune (steps 1 to 21 of search, 1 to 9 of qsearch), and
\* unwinds all it has done on every one of its ways out.
ValuesProven == DecisiveIsProven /\ LeavesAsFound

\* Nothing is written that rests on a search that was stopped.
InterruptedNotWritten == frame.writtenWhole
=============================================================================
