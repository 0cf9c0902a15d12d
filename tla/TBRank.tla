------------------------------- MODULE TBRank -------------------------------
(***************************************************************************)
(* The arithmetic that ranks the root moves of a tablebase position        *)
(* (root_probe and root_probe_wdl of syzygy/tbprobe.cpp): a distance to    *)
(* zeroing becomes a rank and the score that is shown.                     *)
(***************************************************************************)
EXTENDS Integers

CONSTANT Rule50 \* the plies of the 50-move rule; the code has 100

ASSUME Rule50Assumption == Rule50 \in Nat \ {0, 1}

WDL == -2 .. 2 \* loss, blessed loss, draw, cursed win, win

MAX_DTZ == 262144 \* 1 << 18
VALUE_MATE == 32000
MAX_PLY == 246
PawnValue == 208
VALUE_TB == VALUE_MATE - MAX_PLY - 1

\* Division as C++ has it, towards zero.
Quotient(x, y) == IF x >= 0 THEN x \div y ELSE -((-x) \div y)
AtLeast(x, y) == IF x >= y THEN x ELSE y

sign_of(x) == IF x > 0 THEN 1 ELSE IF x < 0 THEN -1 ELSE 0

dtz_before_zeroing(wdl) ==
  CASE wdl = 2 -> 1 [] wdl = 1 -> Rule50 + 1 [] wdl = -1 -> -(Rule50 + 1) [] wdl = -2 -> -1 [] OTHER -> 0

\* A distance one ply earlier.
Earlier(dtz) == dtz + sign_of(dtz)

\* Mutant: a repetition does not end the equal ranks of certain wins.
RankCalm(dtz, cnt50, rep, rankDTZ) ==
  CASE dtz > 0 /\ dtz + cnt50 <= Rule50 - 1 -> MAX_DTZ - (IF rankDTZ THEN dtz ELSE 0)
    [] dtz > 0 /\ dtz + cnt50 > Rule50 - 1 -> MAX_DTZ \div 2 - (dtz + cnt50)
    [] dtz < 0 -> -MAX_DTZ
    [] OTHER -> 0

\* The rank of a move: certain wins are ranked equally unless rankDTZ, losing
\* moves are ranked equally unless a 50-move draw is in sight.
Rank(dtz, cnt50, rep, rankDTZ) ==
  CASE dtz > 0 /\ dtz + cnt50 <= Rule50 - 1 /\ ~rep -> MAX_DTZ - (IF rankDTZ THEN dtz ELSE 0)
    [] dtz > 0 /\ ~(dtz + cnt50 <= Rule50 - 1 /\ ~rep) -> MAX_DTZ \div 2 - (dtz + cnt50)
    [] dtz < 0 /\ (-dtz) * 2 + cnt50 < Rule50 -> -MAX_DTZ - (IF rankDTZ THEN dtz ELSE 0)
    [] dtz < 0 /\ ~((-dtz) * 2 + cnt50 < Rule50) -> -(MAX_DTZ \div 2) + (-dtz + cnt50)
    [] OTHER -> 0

\* The score that is shown: a rank from bound on counts as won.
RankBound(rule50) == IF rule50 THEN MAX_DTZ \div 2 - Rule50 ELSE 1

Score(r, rule50) ==
  LET bound == RankBound(rule50) IN
  CASE r >= bound -> VALUE_TB
    [] r > 0 /\ r < bound -> Quotient(AtLeast(3, r - (MAX_DTZ \div 2 - 2 * Rule50)) * PawnValue, 2 * Rule50)
    [] r = 0 /\ r < bound -> 0
    [] r < 0 /\ r > -bound -> Quotient((-AtLeast(3, -(r + (MAX_DTZ \div 2 - 2 * Rule50)))) * PawnValue, 2 * Rule50)
    [] OTHER -> -VALUE_TB

\* root_probe_wdl, when a DTZ file is missing.
WDL_to_rank(wdl) ==
  CASE wdl = 2 -> MAX_DTZ [] wdl = 1 -> MAX_DTZ - (Rule50 + 1) [] wdl = 0 -> 0
    [] wdl = -1 -> -MAX_DTZ + (Rule50 + 1) [] OTHER -> -MAX_DTZ
=============================================================================
