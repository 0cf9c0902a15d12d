------------------------------ MODULE TBProbe -------------------------------
(***************************************************************************)
(* Probing the endgame tablebases (search, probe_dtz and root_probe of     *)
(* syzygy/tbprobe.cpp) on whole games: what the tables of one material     *)
(* configuration store, what the probing code makes of it, and how a game  *)
(* goes when the winner plays a move of the highest rank at every turn.    *)
(*                                                                         *)
(* A game is a graph of positions of one material, those of the stored     *)
(* side and those of the other; a zeroing move (capture, en passant, pawn) *)
(* leaves it for a value, which is what the same code finds in the         *)
(* material that it leads to. What a table stores is external: the         *)
(* generator's promises, as the comments of the code give them, allow it   *)
(* any value where the code says "don't care".                             *)
(***************************************************************************)
EXTENDS TBRank, FiniteSets, FiniteSetsExt

CONSTANTS Stored, Other, \* positions of the side DTZ is stored for, and of the other
          Games \* the games considered, [quiet, zeroing]: the positions that quiet
                \* moves reach, and zeroing moves [kind, value]

ASSUME PositionsAssumption == Stored \cap Other = {} /\ Stored \cup Other # {} /\ IsFiniteSet(Stored \cup Other)

Positions == Stored \cup Other
Zeroing == [kind : {"capture", "ep", "pawn"}, value : WDL]
ASSUME GamesAssumption == \* positions with an en passant capture come after a pawn move only
  \A g \in Games :
    /\ g.quiet \in [Positions -> SUBSET Positions] /\ g.zeroing \in [Positions -> SUBSET Zeroing]
    /\ \A p \in Positions : g.quiet[p] \subseteq (IF p \in Stored THEN Other ELSE Stored)
    /\ \A p, q \in Positions : q \in g.quiet[p] => \A z \in g.zeroing[q] : z.kind # "ep"
MaxDistance == Rule50 + 1 + Cardinality(Positions)
\* The longest distance that tables hold and ranks tell apart: MAX_DTZ is twice what is
\* supported, and far beyond the 50-move rule.
Longest == MAX_DTZ \div 2 - 2 * Rule50
ASSUME DistancesAssumption == 8 * Rule50 < MAX_DTZ

VARIABLES
  quiet, zeroing, check, \* the game: its quiet and zeroing moves, whether a
                         \* position without moves is a mate
  distances, \* what is true of it: plies to the next zeroing move of good play
  wdlTable, \* the WDL value stored for each position
  dtzTable, \* the distance its DTZ entry was made from
  inPlies,  \* WinPlies and LossPlies: wins are stored in plies, not in moves
  phase,    \* what happens to it
  here, cnt50, visits, \* the game being played, since its last zeroing move
  rankDTZ,
  certain   \* whether the side to win had a certain win at the root

tbpVars == <<quiet, zeroing, check, distances, wdlTable, dtzTable, inPlies, phase, here, cnt50, visits, rankDTZ, certain>>

-----------------------------------------------------------------------------
(* What is true of a game, by retrograde analysis.                         *)

Legal(p) == Cardinality(quiet[p]) + Cardinality(zeroing[p])
Mated(p) == Legal(p) = 0 /\ check[p]

\* A position is won in n plies if a move wins in so many or leads to one that is
\* lost in fewer, and lost if it is a mate or all its moves lead to a win. Leaving for a
\* cursed win or a blessed loss counts as one ply more than the rule allows.
Costs(value) == IF value \in {-2, 2} THEN 1 ELSE Rule50 + 1
NoMoves(leaving, p) == quiet[p] = {} /\ leaving[p] = {}
Wins(leaving, p, lost, n) ==
  (\E z \in leaving[p] : z.value > 0 /\ Costs(z.value) <= n) \/ quiet[p] \cap lost # {}
Loses(leaving, p, won, n) ==
  /\ ~NoMoves(leaving, p) /\ quiet[p] \subseteq won
  /\ \A z \in leaving[p] : z.value < 0 /\ Costs(z.value) <= n

\* Pairs of a position and its distance: those in at most n plies, from those in fewer.
WonIn(d) == {x[1] : x \in {x \in d : x[2] > 0}}
LostIn(d) == {x[1] : x \in {x \in d : x[2] < 0}}
Further(leaving, d, n) ==
  LET open == Positions \ (WonIn(d) \cup LostIn(d))
  IN  d \cup {<<p, n>> : p \in {p \in open : Wins(leaving, p, LostIn(d), n)}}
        \cup {<<p, -n>> : p \in {p \in open : Loses(leaving, p, WonIn(d), n)}}
\* Distances of all positions, 0 where the game is drawn.
Analysis(leaving) ==
  LET d[n \in 0 .. MaxDistance] ==
        IF n = 0 THEN {<<p, -1>> : p \in {p \in Positions : NoMoves(leaving, p) /\ check[p]}}
        ELSE Further(leaving, d[n - 1], n)
      all == d[MaxDistance]
  IN  [p \in Positions |-> IF p \in WonIn(all) \cup LostIn(all) THEN (CHOOSE x \in all : x[1] = p)[2] ELSE 0]
ValueOf(distance) == IF distance > Rule50 \/ distance < -Rule50 THEN sign_of(distance) ELSE 2 * sign_of(distance)

-----------------------------------------------------------------------------
(* What the tables store.                                                  *)

Captures(p) == {z.value : z \in {z \in zeroing[p] : z.kind = "capture"}}

\* Of a position whose best capture is as good as it gets, any value no better;
\* of one with a winning capture, any value at all. En passant is unknown to
\* the generator.
Storable(p, truth) ==
  LET best == Max({-3} \cup Captures(p)) IN
  CASE best = 2 -> WDL [] best >= truth /\ best # 2 -> {v \in WDL : v <= best} [] OTHER -> {truth}

WithoutEp == [p \in Positions |-> {z \in zeroing[p] : z.kind # "ep"}]

\* The stored distance: less one, in moves unless in plies. map_score and probe_dtz make
\* plies of it again by the value that search has found, not by the one that is stored.
Kept(distance) ==
  LET d == AtLeast(distance, -distance)
      x == IF d > Rule50 THEN d - Rule50 ELSE d
  IN  IF inPlies /\ d <= Rule50 THEN x - 1 ELSE (x - 1) \div 2
ReadDTZ(distance, wdl) ==
  LET plies == IF inPlies /\ wdl \in {-2, 2} THEN Kept(distance) ELSE 2 * Kept(distance)
  IN  (plies + 1 + (IF wdl \in {-1, 1} THEN Rule50 ELSE 0)) * sign_of(wdl)

-----------------------------------------------------------------------------
(* The code.                                                               *)

\* search<CheckZeroingMoves>
Search(p, checkZeroing) ==
  LET looked == {z \in zeroing[p] : checkZeroing \/ z.kind # "pawn"}
      bestValue == Max({-2} \cup {z.value : z \in looked})
      noMoreMoves == looked # {} /\ Cardinality(looked) = Legal(p)
      value == IF noMoreMoves THEN bestValue ELSE wdlTable[p]
  IN  CASE bestValue >= 2 -> [value |-> bestValue, best |-> "zeroing"]
        [] bestValue < 2 /\ bestValue >= value ->
             [value |-> bestValue, best |-> IF bestValue > 0 \/ noMoreMoves THEN "zeroing" ELSE "ok"]
        [] OTHER -> [value |-> value, best |-> "ok"]

probe_wdl(p) == Search(p, FALSE).value

\* probe_dtz
ProbeDTZ[p \in Positions] ==
  LET found == Search(p, TRUE)
      sign  == sign_of(found.value)
      After(q) == Earlier(-ProbeDTZ[q])
      mates == \E q \in quiet[p] : Mated(q)
      ofSign == {d \in {After(q) : q \in quiet[p]} \cup {dtz_before_zeroing(z.value) : z \in zeroing[p]} :
                   sign_of(d) = sign}
  IN  CASE found.value = 0 -> 0
        [] found.value # 0 /\ found.best = "zeroing" -> dtz_before_zeroing(found.value)
        [] found.value # 0 /\ found.best = "ok" /\ p \in Stored -> ReadDTZ(dtzTable[p], found.value)
        [] OTHER -> IF mates THEN Min(ofSign \cup {1}) ELSE IF ofSign = {} THEN -1 ELSE Min(ofSign)

\* root_probe, for a quiet move to q or a zeroing move z.
DtzOfQuiet(q) ==
  IF \/ cnt50 + 1 >= Rule50 /\ ~Mated(q)
     \/ visits[q] >= 2
  THEN 0
  ELSE IF Mated(q) THEN 1 ELSE Earlier(-ProbeDTZ[q])
Repeated == \E p \in Positions : visits[p] >= 2

RankOf(dtz) == Rank(dtz, cnt50, Repeated, rankDTZ)
RankOfQuiet(q) == RankOf(DtzOfQuiet(q))
RankOfZeroing(z) == RankOf(dtz_before_zeroing(z.value))

\* iterative_deepening plays a move of the highest rank.
HighestRank == Max({RankOfQuiet(q) : q \in quiet[here]} \cup {RankOfZeroing(z) : z \in zeroing[here]})
BestQuiet == {q \in quiet[here] : RankOfQuiet(q) = HighestRank}
BestZeroing == {z \in zeroing[here] : RankOfZeroing(z) = HighestRank}

-----------------------------------------------------------------------------
(* One game, its tables, one root, and the play from it.                   *)

TBPInit ==
  /\ \E g \in Games : quiet = g.quiet /\ zeroing = g.zeroing
  /\ \E mates \in BOOLEAN : check = [p \in Positions |-> mates /\ Legal(p) = 0]
  /\ distances = [p \in Positions |-> 0] /\ wdlTable = distances /\ dtzTable = distances /\ inPlies = FALSE
  /\ phase = "game" /\ here = (CHOOSE p \in Positions : TRUE) /\ cnt50 = 0
  /\ rankDTZ = FALSE /\ certain = FALSE
  /\ visits = [p \in Positions |-> 0]

\* The generator, which knows no en passant, makes the tables: one WDL value for all
\* positions that need not care, the true one for the others, and the distances. They
\* are in plies if a position is on the edge of the 50-move rule.
Generate ==
  LET known == Analysis(WithoutEp) IN
  /\ phase = "game" /\ phase' = "tables"
  /\ distances' = Analysis(zeroing) /\ \A p \in Positions : distances'[p] \in -Longest .. Longest
  /\ \E filler \in WDL : wdlTable' = [p \in Positions |->
       IF filler \in Storable(p, ValueOf(known[p])) THEN filler ELSE ValueOf(known[p])]
  /\ dtzTable' = known
  /\ inPlies' \in {b \in BOOLEAN : (\E p \in Positions : known[p] \in {Rule50, -Rule50}) => b}
  /\ UNCHANGED <<quiet, zeroing, check, here, cnt50, visits, rankDTZ, certain>>

\* The root: the side to move wins for certain.
SetRoot(p, count, byDTZ) ==
  /\ phase = "tables" /\ here' = p
  /\ distances[p] > 0 /\ distances[p] + count <= Rule50 - 1
  /\ phase' = "winner" /\ cnt50' = count /\ rankDTZ' = byDTZ /\ certain' = TRUE
  /\ visits' = [visits EXCEPT ![p] = 1]
  /\ UNCHANGED <<quiet, zeroing, check, distances, wdlTable, dtzTable, inPlies>>

InPlay == visits[here] < 3 /\ cnt50 < Rule50

\* A quiet move to q.
Move(q) ==
  /\ here' = q /\ cnt50' = cnt50 + 1 /\ visits' = [visits EXCEPT ![q] = @ + 1]
  /\ UNCHANGED <<quiet, zeroing, check, distances, wdlTable, dtzTable, inPlies, rankDTZ, certain>>

\* A zeroing move ends the play with its value.
Leave(wins) ==
  /\ phase' = "left" /\ certain' = wins
  /\ UNCHANGED <<quiet, zeroing, check, distances, wdlTable, dtzTable, inPlies, here, cnt50, visits, rankDTZ>>

WinnerMoves ==
  /\ phase = "winner" /\ InPlay
  /\ \/ \E q \in BestQuiet : Move(q) /\ phase' = "loser"
     \/ \E z \in BestZeroing : Leave(z.value = 2)
LoserMoves ==
  /\ phase = "loser" /\ InPlay
  /\ \/ \E q \in quiet[here] : Move(q) /\ phase' = "winner"
     \/ \E z \in zeroing[here] : Leave(z.value = -2)

TBPNext ==
  \/ Generate
  \/ \E p \in Positions, count \in 0 .. Rule50 - 1, byDTZ \in BOOLEAN : SetRoot(p, count, byDTZ)
  \/ WinnerMoves \/ LoserMoves
TBPSpec == TBPInit /\ [][TBPNext]_tbpVars

-----------------------------------------------------------------------------
(* Properties.                                                             *)

TBPTypeOK ==
  /\ wdlTable \in [Positions -> WDL] /\ distances \in [Positions -> -MaxDistance .. MaxDistance]
  /\ dtzTable \in [Positions -> -MaxDistance .. MaxDistance]
  /\ phase \in {"game", "tables", "winner", "loser", "left"} /\ here \in Positions
  /\ cnt50 \in 0 .. Rule50 /\ visits \in [Positions -> 0 .. 3] /\ certain \in BOOLEAN

\* Probing finds the value of every position, whatever the tables hold where
\* they need not care: the captures that are looked at make up for it.
ProbeFindsValue ==
  phase = "tables" => \A p \in Positions : \A checkZeroing \in BOOLEAN :
    Search(p, checkZeroing).value = ValueOf(distances[p])

\* The entry of a position is read though an en passant capture, which the table does not
\* know, makes its distance another. The comment of probe_dtz calls such an entry "plain
\* wrong" and not to be probed, but search only returns ZEROING_BEST_MOVE, which leaves it
\* alone, if the capture wins or no other move is left.
ReadsPastEp(p) == p \in Stored /\ Search(p, TRUE).best = "ok" /\ dtzTable[p] # distances[p]

\* The distance that probe_dtz returns is the true one or one ply less, on the
\* same side of the 50-move rule, also for the side that has none stored. The positions of
\* ReadsPastEp are left out: their distance may be wrong by more.
ProbeFindsDistance ==
  phase = "tables" => \A p \in Positions : ~ReadsPastEp(p) =>
    LET found == ProbeDTZ[p] exact == distances[p] IN
    /\ sign_of(found) = sign_of(exact) /\ ValueOf(found) = ValueOf(exact)
    /\ AtLeast(exact, -exact) - AtLeast(found, -found) \in {0, 1}

\* A win that is certain at the root is kept by any moves of the highest rank:
\* neither the 50-move rule nor a third repetition comes before the mate or the
\* zeroing move that wins, whatever the other side plays.
CertainWinKept ==
  /\ phase \in {"winner", "loser"} => InPlay \/ Mated(here)
  /\ phase = "winner" => distances[here] > 0
  /\ phase = "loser" => distances[here] < 0
  /\ phase = "left" => certain

\* Probing and ranking root moves (probe_wdl, probe_dtz, root_probe) find the value and the
\* distance of a position though the table says nothing of captures and en passant, and a
\* game that follows the ranks wins what is certainly won within the 50-move rule.
ProbesRight == TBPTypeOK /\ ProbeFindsValue /\ ProbeFindsDistance /\ CertainWinKept
=============================================================================
