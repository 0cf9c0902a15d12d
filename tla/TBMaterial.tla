----------------------------- MODULE TBMaterial ------------------------------
(***************************************************************************)
(* The tables that Tablebases::init looks for (syzygy/tbprobe.cpp): the    *)
(* nested loops that call TBTables::add. A table is named by the pieces of *)
(* the stronger side and those of the other; kings are left out. It serves *)
(* both colours, since add enters it under two keys.                       *)
(***************************************************************************)
EXTENDS Integers, Sequences, FiniteSets, SequencesExt

CONSTANT King \* the piece types are 1 (the pawn) to King - 1

ASSUME KingAssumption == King \in Nat \ {0, 1}

Types == 1 .. King - 1

\* Loops that run down from the type before: p2 <= p1, p3 <= p2, ...
Descending(n) == {p \in [1 .. n -> Types] : \A i \in 2 .. n : p[i] <= p[i - 1]}

\* Two pieces each: p3 <= p1, p4 <= (p1 == p3 ? p2 : p3).
Ordered(p, q) == q[1] <= p[1] /\ q[2] <= (IF p[1] = q[1] THEN p[2] ELSE q[1])

\* The arguments of add.
Added ==
  (UNION {Descending(n) : n \in 1 .. 5}) \X {<<>>}
  \cup {a \in Descending(1) \X Descending(1) : a[2][1] <= a[1][1]}
  \cup UNION {Descending(n) \X Descending(1) : n \in 2 .. 4}
  \cup (Descending(3) \X Descending(2))
  \cup {<<p, q>> \in Descending(2) \X [1 .. 2 -> Types] : Ordered(p, q)}

VARIABLES white, black \* pieces on the board, sorted
materialVars == <<white, black>>

MaterialInit == white = <<>> /\ black = <<>>

Sorted(p) == SortSeq(p, LAMBDA x, y : x > y)

\* Any material of up to seven men comes up on the board.
PutPiece(p) ==
  /\ Len(white) + Len(black) < 5
  /\ \/ white' = Sorted(Append(white, p)) /\ UNCHANGED black
     \/ black' = Sorted(Append(black, p)) /\ UNCHANGED white
MaterialNext == \E p \in Types : PutPiece(p)

MaterialTypeOK == white \in Seq(Types) /\ black \in Seq(Types)

\* For every material of three to seven men init looks for one file that serves
\* it, and for no second one: a position is never left without its table, and
\* two tables never claim one key.
OneTableEach ==
  white # <<>> \/ black # <<>> =>
    Cardinality({a \in Added : a \in {<<white, black>>, <<black, white>>}}) = 1
=============================================================================
