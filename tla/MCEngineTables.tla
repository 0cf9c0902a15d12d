---------------------------- MODULE MCEngineTables ----------------------------
(***************************************************************************)
(* The tables a search looks positions up in. The endgame tables: which     *)
(* there are, how a file is read, how a position is numbered and what       *)
(* probing makes of the values; and the transposition table. One part runs, *)
(* the others rest.                                                         *)
(***************************************************************************)
EXTENDS TBProbe, TBPairs, TBMaterial, TBEncoding, TTable

CONSTANTS t1, t2, k1, k2

VARIABLE part

\* Books: two symbols; pairs of pairs; a length that no symbol has.
MCBooks == {
  [tree |-> <<<<0>>, <<1>>, <<0, 1>>>>, len |-> <<2, 2, 1>>],
  [tree |-> <<<<2>>, <<3, 0>>, <<0>>, <<1>>>>, len |-> <<3, 3, 2, 1>>],
  [tree |-> <<<<2>>, <<4, 0>>, <<0>>, <<1>>, <<2, 3>>>>, len |-> <<3, 3, 3, 3, 1>>],
  [tree |-> <<<<1>>, <<4, 0>>, <<0>>, <<1>>, <<2, 3>>>>, len |-> <<4, 4, 3, 2, 1>>] }
MCMessages == (SeqOf(0 .. 2, 4) \ {<<>>}) \cup
  {<<x, y, 0, x, 1, y, x, y>> : x \in 0 .. 4, y \in 0 .. 4} \cup {<<0, x, 0, y, 1, 0, x, y, 2>> : x \in 0 .. 4, y \in 0 .. 4}

Table(p, h, u, c, o) == [pieces |-> p, hasPawns |-> h, hasUniquePieces |-> u, pawnCount |-> c, order |-> o]
MCEncodings == {
  Table(<<"K", "R", "k">>, FALSE, TRUE, <<0, 0>>, <<0, 15>>),
  Table(<<"K", "k", "N", "N">>, FALSE, FALSE, <<0, 0>>, <<1, 15>>),
  Table(<<"P", "K", "k">>, TRUE, TRUE, <<1, 0>>, <<2, 15>>),
  Table(<<"P", "p", "K", "k">>, TRUE, TRUE, <<1, 1>>, <<0, 2>>),
  Table(<<"P", "P", "K", "k">>, TRUE, FALSE, <<2, 0>>, <<0, 15>>) }

Capture(v) == [kind |-> "capture", value |-> v]
Pawn(v) == [kind |-> "pawn", value |-> v]
EnPassant(v) == [kind |-> "ep", value |-> v]

\* Some positions as given, the rest without moves.
Wide(f) == [p \in Positions |-> IF p \in DOMAIN f THEN f[p] ELSE {}]

\* Two positions of each side, all roads between them; a capture here and there.
Small == {"w1", "w2", "b1", "b2"}
Dense ==
  {[quiet |-> Wide(q), zeroing |-> Wide(z)] :
     q \in {f \in [Small -> SUBSET Small] :
              /\ f["w1"] \in {{"b1"}, {"b1", "b2"}} /\ f["w2"] = {"b1", "b2"}
              /\ f["b1"] \in {{"w2"}, {"w1", "w2"}} /\ f["b2"] \in {{}, {"w1"}}},
     z \in {f \in [Small -> {{}, {Capture(2)}, {Capture(-2)}}] :
              /\ f["w1"] = {} /\ f["w2"] \in {{}, {Capture(2)}}
              /\ f["b1"] \in {{}, {Capture(-2)}} /\ f["b2"] \in {{}, {Capture(-2)}}}}

\* One line as long as the 50-move rule, what ends it and what tempts before.
W(i) == CASE i = 1 -> "w1" [] i = 2 -> "w2" [] i = 3 -> "w3" [] i = 4 -> "w4" [] i = 5 -> "w5" [] i = 6 -> "w6"
B(i) == CASE i = 1 -> "b1" [] i = 2 -> "b2" [] i = 3 -> "b3" [] i = 4 -> "b4" [] i = 5 -> "b5" [] i = 6 -> "b6"
Along(p) ==
  CASE p \in Stored -> {B(CHOOSE i \in 1 .. 6 : p = W(i))}
    [] p = "b6" -> {}
    [] OTHER -> {W(1 + CHOOSE i \in 1 .. 6 : p = B(i))}
Lines ==
  {[quiet   |-> [p \in Positions |-> Along(p)],
    zeroing |-> [p \in Positions |-> CASE p = "b6" -> end [] p = at -> by [] OTHER -> {}]] :
     end \in {{}, {Capture(-2)}, {Capture(-1), Pawn(-2)}, {Capture(2)}}, at \in {"w1", "b1", "b5"},
     by \in {{Capture(-2)}, {Pawn(1)}, {Capture(-1)}, {Capture(0), Pawn(1)}}}

\* En passant.
Passing ==
  {[quiet |-> Wide([w1 |-> q, b1 |-> {"w2"}]), zeroing |-> Wide([w1 |-> z, b1 |-> y, w2 |-> x])] :
     q \in {{}, {"b1"}}, z \in {{EnPassant(v)} : v \in WDL} \cup {{EnPassant(v), Capture(u)} : v \in WDL, u \in WDL},
     y \in {{}, {Capture(-2)}}, x \in {{}, {Pawn(2)}, {Pawn(1), Capture(0)}}}
MCGames == Dense \cup Lines \cup Passing

MCKey16 == [k \in Keys |-> IF k = k1 THEN 1 ELSE 2]
MCWorks == {[pv |-> 0, b |-> 1, d |-> 1], [pv |-> 1, b |-> 3, d |-> 7]}

-----------------------------------------------------------------------------
PairsRest ==
  /\ book = (CHOOSE b \in Books : TRUE) /\ message = <<0>> /\ span \in {CHOOSE n \in Spans : TRUE}
  /\ idx = 0 /\ block = 0 /\ offset = 0 /\ buf = 0 /\ bufSize = 0 /\ ptr = 0 /\ sym = 0 /\ step = "sparse"
ProbeRest ==
  /\ quiet = [p \in Positions |-> {}] /\ zeroing = quiet /\ check = [p \in Positions |-> FALSE]
  /\ distances = [p \in Positions |-> 0] /\ wdlTable = distances /\ dtzTable = distances /\ inPlies = FALSE
  /\ phase = "game" /\ here = (CHOOSE p \in Positions : TRUE) /\ cnt50 = 0
  /\ rankDTZ = FALSE /\ certain = FALSE /\ visits = distances
EncodingRest ==
  /\ encoding = (CHOOSE e \in Encodings : Len(e.pieces) = 3 /\ ~e.hasPawns) /\ first = <<0, 9, 18>> /\ second = <<>>

Init ==
  /\ MaterialInit /\ TTInit
  /\ \/ part \in {"material", "hash"} /\ PairsRest /\ ProbeRest /\ EncodingRest
     \/ part = "pairs" /\ PairsInit /\ ProbeRest /\ EncodingRest
     \/ part = "probe" /\ PairsRest /\ TBPInit /\ EncodingRest
     \/ part = "encoding" /\ PairsRest /\ ProbeRest /\ EncInit

Next ==
  /\ UNCHANGED part
  /\ \/ part = "material" /\ MaterialNext /\ UNCHANGED <<pairsVars, tbpVars, encVars, ttVars>>
     \/ part = "pairs" /\ PairsNext /\ UNCHANGED <<materialVars, tbpVars, encVars, ttVars>>
     \/ part = "probe" /\ TBPNext /\ UNCHANGED <<materialVars, pairsVars, encVars, ttVars>>
     \/ part = "encoding" /\ EncNext /\ UNCHANGED <<materialVars, pairsVars, tbpVars, ttVars>>
     \/ part = "hash" /\ TTNext /\ UNCHANGED <<materialVars, pairsVars, tbpVars, encVars>>

Spec == Init /\ [][Next]_<<part, materialVars, pairsVars, tbpVars, encVars, ttVars>>

\* Every material has one table (Tablebases::init), and do_probe_table numbers the positions of
\* a table without gaps at the front, no two of them alike, whatever its order of pieces.
PositionsNumbered == MaterialTypeOK /\ OneTableEach /\ IndexInTable /\ IndexIsUnique /\ LeadIsDense
=============================================================================
