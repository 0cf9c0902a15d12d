--------------------------- MODULE MoveClassifier ---------------------------
(***************************************************************************)
(* lib/engine/move_classifier.dart: the heuristic that labels one move and *)
(* the totals the statistics panel shows.  Evaluations are centipawns      *)
(* (a double in the code, an integer here); an engine line is a record     *)
(* [first, eval, depth], first being moves[0], or NoMove if moves is empty.*)
(***************************************************************************)
EXTENDS Integers, Sequences, FiniteSets

Quality == {"brilliant", "great", "best", "good", "book", "inaccuracy",
            "mistake", "blunder", "miss", "forced"}

NoMove == "none"

\* A null entry of List<MoveClassification?>.
Unrated == "unrated"

BlunderDrop == 400
MissDrop == 300
GreatGap == 200
DeepEnough == 20

Abs(x) == IF x < 0 THEN -x ELSE x

\* bestMove as the caller derives it: first move of the first line, or null.
BestOf(lines) == IF lines = <<>> THEN NoMove ELSE lines[1].first

IsBrilliant(isSacrifice, lines) ==
  isSacrifice /\ \E i \in DOMAIN lines : lines[i].depth >= DeepEnough

\* A line without moves counts as agreeing with the move that was played.
IsGreat(lines, played) ==
  /\ Len(lines) >= 2
  /\ \A i \in 1..2 : lines[i].depth >= DeepEnough
  /\ Abs(lines[1].eval - lines[2].eval) >= GreatGap
  /\ lines[1].first \in {NoMove, played}

\* The code's cascade of early returns; shallowEval and isForcedMove are unused.
Classify(evalBefore, evalAfter, isBook, isSacrifice, lines, played) ==
  LET drop == evalBefore - evalAfter
  IN  CASE isBook                              -> "book"
        [] ~isBook /\ drop >= BlunderDrop      -> "blunder"
        [] ~isBook /\ drop \in MissDrop..(BlunderDrop - 1) -> "miss"
        [] OTHER -> IF IsBrilliant(isSacrifice, lines) THEN "brilliant"
                    ELSE IF IsGreat(lines, played) THEN "great"
                    ELSE "good"

\* White moves are the even Dart indices, i.e. the odd plies.
PlyIsWhite(ply) == ply % 2 = 1

\* A forced move is counted as a good one.
CountedAs(q) == IF q = "forced" THEN "good" ELSE q

FromClassifications(list, forWhite) ==
  [q \in Quality \ {"forced"} |->
     Cardinality({p \in DOMAIN list :
                    /\ list[p] # Unrated
                    /\ PlyIsWhite(p) = forWhite
                    /\ CountedAs(list[p]) = q})]
=============================================================================
