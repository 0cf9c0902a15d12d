------------------------------ MODULE MovePick -------------------------------
(***************************************************************************)
(* The staged picking of moves (movepick.cpp): captures, quiet moves or    *)
(* evasions are generated when their stage comes, put in order and emitted *)
(* one by one from one array, in which bad captures are kept at the front  *)
(* for later. The caller may say at any time that quiet moves are to be    *)
(* skipped.                                                                *)
(***************************************************************************)
EXTENDS Integers, Sequences, FiniteSets, SequencesExt

CONSTANTS PickSetups,  \* records [kind, captures, quiets, evasions, ttMove, value, good]: value of
                       \* each move, good the captures whose exchange is good enough
          PickDepth    \* of the search

goodQuietThreshold == -14000
SortLimit == -3560 * PickDepth
NoLimit == -1000000
NoneLeft == "none"

\* Each move is generated once: in check as an evasion, else as a capture or as a quiet move.
\* NoLimit, the smallest int in the code, is below all values.
ASSUME PickAssumption ==
  /\ PickDepth \in Nat
  /\ \A n \in PickSetups :
       /\ n.kind \in {"main", "evasion", "qsearch", "probcut"}
       /\ \A moves \in {n.captures, n.quiets, n.evasions} :
            /\ moves \in Seq(ToSet(moves)) /\ IsInjective(moves) /\ NoneLeft \notin ToSet(moves)
            /\ \A m \in ToSet(moves) : n.value[m] \in Int /\ n.value[m] >= NoLimit
       /\ ToSet(n.captures) \cap ToSet(n.quiets) = {}
       /\ IF n.kind = "evasion" THEN n.captures = <<>> /\ n.quiets = <<>> ELSE n.evasions = <<>>

VARIABLES node,     \* the setup
          picker,   \* the MovePicker
          emitted   \* the moves that next_move has returned
pickVars == <<node, picker, emitted>>

Swapped(s, i, j) == [s EXCEPT ![i] = s[j], ![j] = s[i]]

\* One step of partial_insertion_sort: x.moves is sorted up to x.sortedEnd.
Insert(x, p, value, limit) ==
  IF value[x.moves[p]] < limit THEN x
  ELSE LET end == x.sortedEnd + 1
           tmp == x.moves[p]
           s == [x.moves EXCEPT ![p] = x.moves[end]]
           q == CHOOSE i \in 1 .. end : /\ \A k \in i .. end - 1 : value[s[k]] < value[tmp]
                                        /\ i = 1 \/ value[s[i - 1]] >= value[tmp]
       IN  [moves |-> [i \in DOMAIN s |-> IF i = q THEN tmp ELSE IF i \in q + 1 .. end THEN s[i - 1] ELSE s[i]],
            sortedEnd |-> end]
partial_insertion_sort(moves, value, limit) ==
  LET x[p \in 1 .. Len(moves)] ==
        IF p = 1 THEN [moves |-> moves, sortedEnd |-> 1] ELSE Insert(x[p - 1], p, value, limit)
  IN  IF moves = <<>> THEN moves ELSE x[Len(moves)].moves

\* The moves that are possible at all.
PseudoLegal(n) == IF n.kind = "evasion" THEN ToSet(n.evasions) ELSE ToSet(n.captures) \cup ToSet(n.quiets)
\* A move of the hash table is used if it is possible, for ProbCut if it is a capture.
UsesTTMove(n) == IF n.kind = "probcut" THEN n.ttMove \in ToSet(n.captures) ELSE n.ttMove \in PseudoLegal(n)

\* The constructors; positions in the array start at 1.
NewPicker(n) ==
  [stage |-> IF UsesTTMove(n) THEN "TT" ELSE IF n.kind = "evasion" THEN "EVASION_INIT" ELSE "CAPTURE_INIT",
   moves |-> <<>>, cur |-> 1, endCur |-> 1, endBadCaptures |-> 1, endCaptures |-> 1, endGenerated |-> 1, skipQuiets |-> FALSE]

-----------------------------------------------------------------------------
(* next_move: from a picker to [picker, move], falling through the stages. *)

Picked(k, move) == [picker |-> k, move |-> move]
\* select: the first move from cur on that is not the hash move and passes.
Passing(n, k, pass) == {i \in k.cur .. k.endCur - 1 : k.moves[i] \in pass \ {n.ttMove}}
Smallest(S) == CHOOSE i \in S : \A j \in S : i <= j
Select(n, k, pass) ==
  LET found == Passing(n, k, pass)
  IN  IF found = {} THEN Picked([k EXCEPT !.cur = k.endCur], NoneLeft)
      ELSE Picked([k EXCEPT !.cur = Smallest(found) + 1], k.moves[Smallest(found)])
Every(k) == ToSet(k.moves)
Good(n, k) == {m \in ToSet(k.moves) : n.value[m] > goodQuietThreshold}

BadQuiet(n, k) == IF k.skipQuiets THEN Picked(k, NoneLeft) ELSE Select(n, k, Every(k) \ Good(n, k))
BadCapture(n, k) ==
  LET r == Select(n, k, Every(k))
  IN  IF r.move # NoneLeft THEN r
      ELSE BadQuiet(n, [r.picker EXCEPT !.stage = "BAD_QUIET", !.cur = k.endCaptures, !.endCur = k.endGenerated])
\* Mutant: the bad captures reach to the end of all captures.
GoodQuietAllCaptures(n, k) ==
  LET r == IF k.skipQuiets THEN Picked(k, NoneLeft) ELSE Select(n, k, Good(n, k))
  IN  IF r.move # NoneLeft THEN r
      ELSE BadCapture(n, [r.picker EXCEPT !.stage = "BAD_CAPTURE", !.cur = 1, !.endCur = k.endCaptures])

GoodQuiet(n, k) ==
  LET r == IF k.skipQuiets THEN Picked(k, NoneLeft) ELSE Select(n, k, Good(n, k))
  IN  IF r.move # NoneLeft THEN r
      ELSE BadCapture(n, [r.picker EXCEPT !.stage = "BAD_CAPTURE", !.cur = 1, !.endCur = k.endBadCaptures])
QuietInit(n, k) ==
  LET captures == SubSeq(k.moves, 1, k.cur - 1)
      quiets == partial_insertion_sort(n.quiets, n.value, SortLimit)
      end == k.cur + Len(quiets)
  IN  GoodQuiet(n, IF k.skipQuiets THEN [k EXCEPT !.stage = "GOOD_QUIET"]
                   ELSE [k EXCEPT !.stage = "GOOD_QUIET", !.moves = captures \o quiets, !.endCur = end, !.endGenerated = end])
\* The bad captures before the place end go to the front of the array.
PutInFront(n, k, i) ==
  IF k.moves[i] = n.ttMove THEN k
  ELSE [k EXCEPT !.moves = Swapped(@, k.endBadCaptures, i), !.endBadCaptures = @ + 1]
SetAside(n, k, end) ==
  LET x[i \in k.cur - 1 .. end - 1] == IF i = k.cur - 1 THEN k ELSE PutInFront(n, x[i - 1], i)
  IN  x[end - 1]
GoodCapture(n, k) ==
  LET found == Passing(n, k, n.good)
      end == IF found = {} THEN k.endCur ELSE Smallest(found)
      next == SetAside(n, k, end)
  IN  IF found # {} THEN Picked([next EXCEPT !.cur = end + 1], k.moves[end])
      ELSE QuietInit(n, [next EXCEPT !.cur = k.endCur, !.stage = "QUIET_INIT"])

Inited(k, moves, stage) ==
  [k EXCEPT !.moves = moves, !.cur = 1, !.endBadCaptures = 1, !.endCur = Len(moves) + 1,
            !.endCaptures = Len(moves) + 1, !.stage = stage]
CaptureInit(n, k) ==
  LET next == Inited(k, partial_insertion_sort(n.captures, n.value, NoLimit), n.kind)
  IN  CASE n.kind = "main" -> GoodCapture(n, [next EXCEPT !.stage = "GOOD_CAPTURE"])
        [] n.kind = "qsearch" -> Select(n, next, Every(next))
        [] n.kind = "probcut" -> Select(n, next, n.good)
EvasionInit(n, k) ==
  LET next == Inited(k, partial_insertion_sort(n.evasions, n.value, NoLimit), "evasion")
  IN  Select(n, next, Every(next))

next_move(n, k) ==
  CASE k.stage = "TT" -> Picked([k EXCEPT !.stage = IF n.kind = "evasion" THEN "EVASION_INIT" ELSE "CAPTURE_INIT"], n.ttMove)
    [] k.stage = "CAPTURE_INIT" -> CaptureInit(n, k)
    [] k.stage = "EVASION_INIT" -> EvasionInit(n, k)
    [] k.stage = "GOOD_CAPTURE" -> GoodCapture(n, k)
    [] k.stage = "GOOD_QUIET" -> GoodQuiet(n, k)
    [] k.stage = "BAD_CAPTURE" -> BadCapture(n, k)
    [] k.stage = "BAD_QUIET" -> BadQuiet(n, k)
    [] k.stage \in {"evasion", "qsearch"} -> Select(n, k, Every(k))
    [] k.stage = "probcut" -> Select(n, k, n.good)

-----------------------------------------------------------------------------
PickInit == node \in PickSetups /\ picker = NewPicker(node) /\ emitted = <<>>

PickedAll == emitted # <<>> /\ Last(emitted) = NoneLeft
NextMove ==
  /\ ~PickedAll
  /\ LET r == next_move(node, picker) IN picker' = r.picker /\ emitted' = Append(emitted, r.move)
  /\ UNCHANGED node
\* The search skips quiet moves after enough of them; it never unskips.
skip_quiet_moves ==
  /\ ~PickedAll /\ ~picker.skipQuiets /\ emitted # <<>>
  /\ picker' = [picker EXCEPT !.skipQuiets = TRUE]
  /\ UNCHANGED <<node, emitted>>
PickNext == NextMove \/ skip_quiet_moves
PickSpec == PickInit /\ [][PickNext]_pickVars

-----------------------------------------------------------------------------
MovesEmitted == {emitted[i] : i \in DOMAIN emitted} \ {NoneLeft}
PlaceOf(m) == CHOOSE i \in DOMAIN emitted : emitted[i] = m

\* No move is emitted twice, the hash move comes first and never again, and nothing
\* is emitted that the position does not have.
EachMoveOnce ==
  /\ IsInjective(emitted)
  /\ MovesEmitted \subseteq PseudoLegal(node)
  /\ UsesTTMove(node) /\ emitted # <<>> => emitted[1] = node.ttMove

\* When next_move has nothing left all moves were emitted: skipping quiet moves loses no
\* capture and, as it comes, no bad capture either.
NoMoveLost ==
  PickedAll => CASE node.kind = "evasion" -> ToSet(node.evasions) \subseteq MovesEmitted
            [] node.kind = "qsearch" -> ToSet(node.captures) \subseteq MovesEmitted
            [] node.kind = "probcut" -> ToSet(node.captures) \cap node.good \subseteq MovesEmitted
            [] node.kind = "main" -> ToSet(node.captures) \cup (IF picker.skipQuiets THEN {} ELSE ToSet(node.quiets)) \subseteq MovesEmitted

\* Good captures first, then good quiet moves, bad captures and bad quiet moves; captures
\* by value, quiet moves by value down to the limit of the sort, but for its first.
Class(m) ==
  IF m \in ToSet(node.captures) THEN IF m \in node.good THEN 1 ELSE 3
  ELSE IF node.value[m] > goodQuietThreshold THEN 2 ELSE 4
BestFirst ==
  \A a \in MovesEmitted \ {node.ttMove}, b \in MovesEmitted \ {node.ttMove} :
    PlaceOf(a) < PlaceOf(b) =>
      /\ node.kind = "main" => Class(a) <= Class(b)
      /\ (\/ {a, b} \subseteq ToSet(node.captures) /\ (node.kind = "main" => Class(a) = Class(b))
          \/ {a, b} \subseteq ToSet(node.evasions)
          \/ {a, b} \subseteq ToSet(node.quiets) /\ Class(a) = Class(b) /\ node.value[b] >= SortLimit)
         => node.value[a] >= node.value[b]

\* What a node searches is every move it should, once, the promising ones first
\* (MovePicker::next_move over its 19 stages).
PicksRight == EachMoveOnce /\ NoMoveLost /\ BestFirst
=============================================================================
