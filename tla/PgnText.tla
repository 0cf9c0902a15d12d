------------------------------- MODULE PgnText -------------------------------
(***************************************************************************)
(* The texts PgnParser is given: someone, chess.com or a pasting user,      *)
(* writes the PGN of Game piece by piece, and the parser may be asked to    *)
(* read it after every piece.                                               *)
(***************************************************************************)
EXTENDS PgnParser

CONSTANTS
  Styles,       \* what is written, and how: see StylesAssumption
  MaxNesting    \* bound: variations inside variations

\* game: the SANs; numberEvery: each move has a number, as chess.com writes it;
\* gluing: "1.e4" is allowed; marks: "e4!" is allowed; asides is a bound on
\* comments, variations, NAGs and line breaks.
ASSUME StylesAssumption ==
  /\ Styles \subseteq [game : Seq([form : SanForms, check : BOOLEAN]), numberEvery : BOOLEAN,
                       gluing : BOOLEAN, marks : BOOLEAN, asides : Nat]
  /\ MaxNesting \in Nat

VARIABLES
  style,     \* of this text
  lines,     \* the text so far
  written,   \* moves of the game written so far
  asides,    \* comments, variations, NAGs and line breaks so far
  depth,     \* open variations
  nested,    \* history: a variation was opened inside another
  numbered,  \* Black's next move needs a number
  ended      \* the result has been written

textVars == <<style, lines, written, asides, depth, nested, numbered, ended>>

TheResult == "1-0"

HeaderLine(r) == [bracket |-> TRUE, result |-> r, items |-> <<>>]
TextLine(items) == [bracket |-> FALSE, result |-> "", items |-> items]

WhiteMoves(m) == m % 2 = 1
NumberOf(m) == (m + 1) \div 2
NumberFor(m) == NumberLexeme(NumberOf(m), IF WhiteMoves(m) THEN 1 ELSE 3)

\* A move of no place in the game.
Other == MoveLexeme(0, San("piece", FALSE))

Put(items) == lines' = [lines EXCEPT ![Len(lines)].items = @ \o items]

Aside == asides < style.asides /\ asides' = asides + 1 /\ ~ended

\* With headers, a blank line and the moves; or the moves alone.
TextInit ==
  /\ style \in Styles
  /\ lines \in {<<HeaderLine(TheResult), TextLine(<<>>), TextLine(<<>>)>>,
                <<HeaderLine(Unknown), HeaderLine(""), TextLine(<<>>)>>,
                <<TextLine(<<>>)>>}
  /\ written = 0 /\ asides = 0 /\ depth = 0 /\ nested = FALSE
  /\ numbered = TRUE /\ ended = FALSE

WriteMove ==
  /\ ~ended /\ depth = 0 /\ written < Len(style.game)
  /\ LET m == written + 1
     IN  \E number, glue, mark \in BOOLEAN :
           /\ number \/ (~style.numberEvery /\ ~WhiteMoves(m) /\ ~numbered)
           /\ glue => style.gluing /\ number
           /\ mark => style.marks
           /\ Put((IF number THEN <<NumberFor(m)>> ELSE <<>>)
                  \o (IF number /\ ~glue THEN <<Space>> ELSE <<>>)
                  \o <<MoveLexeme(m, style.game[m])>>
                  \o (IF mark THEN <<Lexeme("mark")>> ELSE <<>>)
                  \o <<Space>>)
         /\ written' = m
  /\ numbered' = FALSE
  /\ UNCHANGED <<style, asides, depth, nested, ended>>

\* A comment may hold anything but its own end.
WriteComment ==
  /\ Aside
  /\ \E inside \in {<<Other>>, <<Lexeme("(")>>, <<Lexeme(")")>>,
                    <<Space, NumberLexeme(9, 1), Space, ResultLexeme("0-1"), Space>>} :
       Put(<<Lexeme("{")>> \o inside \o <<Lexeme("}"), Space>>)
  /\ numbered' = TRUE
  /\ UNCHANGED <<style, written, depth, nested, ended>>

\* A comment that goes on in a line that begins with a bracket ("[%clk 0:01]}").
WrapComment ==
  /\ Aside
  /\ lines' = [lines EXCEPT ![Len(lines)].items = @ \o <<Lexeme("{")>>]
              \o <<[bracket |-> TRUE, result |-> "", items |-> <<Lexeme("}"), Space>>]>>
  /\ numbered' = TRUE
  /\ UNCHANGED <<style, written, depth, nested, ended>>

BreakLine ==
  /\ Aside
  /\ lines' = Append(lines, TextLine(<<>>))
  /\ UNCHANGED <<style, written, depth, nested, numbered, ended>>

WriteNag ==
  /\ Aside
  /\ written > 0 /\ depth = 0
  /\ Put(<<Lexeme("nag"), Space>>)
  /\ UNCHANGED <<style, written, depth, nested, numbered, ended>>

\* A variation begins with another move in place of the last one.
OpenVariation ==
  /\ Aside
  /\ written > 0 /\ depth < MaxNesting
  /\ \E space \in {<<Space>>, <<>>} :
       Put(<<Lexeme("("), NumberFor(written), Space, Other>> \o space)
  /\ depth' = depth + 1
  /\ nested' = (nested \/ depth > 0)
  /\ numbered' = TRUE
  /\ UNCHANGED <<style, written, ended>>

\* After an inner variation the outer one may go on with other moves.
CloseVariation ==
  /\ depth > 0
  /\ \E more \in {<<>>, <<Other>>, <<Other, Space, Other>>} :
       /\ more # <<>> => depth > 1
       /\ Put(<<Lexeme(")"), Space>> \o more)
  /\ depth' = depth - 1
  /\ UNCHANGED <<style, written, asides, nested, numbered, ended>>

WriteResult ==
  /\ ~ended /\ depth = 0
  /\ Put(<<ResultLexeme(TheResult)>>)
  /\ ended' = TRUE
  /\ UNCHANGED <<style, written, asides, depth, nested, numbered>>

TextNext ==
  \/ WriteMove \/ WriteComment \/ WrapComment \/ BreakLine \/ WriteNag
  \/ OpenVariation \/ CloseVariation \/ WriteResult

TextSpec == TextInit /\ [][TextNext]_textVars

-----------------------------------------------------------------------------
(* Properties *)

\* The moves written so far, each with its own label.
MainLine ==
  [m \in 1..written |->
     [move |-> m, moveNumber |-> NumberOf(m), isWhite |-> WhiteMoves(m)]]

\* Every SAN is one the parser knows, with nothing glued to it.
Plain ==
  /\ ~style.gluing /\ ~style.marks
  /\ \A m \in DOMAIN style.game : style.game[m].form # "promotion" /\ (style.game[m].form = "castle" => ~style.game[m].check)

\* What the parser read of the game: the expression that removes variations stops at
\* the first closing parenthesis, so after an inner variation it leaves the rest of the
\* outer one, whose moves are read as if they were played (pgn_parser.dart:127).
ReadOfGame == SelectSeq(Parse(lines).moves, LAMBDA m : m.move # 0)

\* If no variation stands inside another, comments, NAGs, line breaks and variations
\* leave no trace: the parser reads the moves of the game, all of them and no other,
\* each with its number and colour (pgn_parser.dart:125-137, 90-120).
ReadsMainLine == (Plain /\ depth = 0 /\ ~nested) => Parse(lines).moves = MainLine

\* With variations inside variations too no move of the game is lost and none changes
\* its place, though moves of a variation may be read between them.
LosesNoMove ==
  (Plain /\ depth = 0) =>
    [i \in DOMAIN ReadOfGame |-> ReadOfGame[i].move] = [m \in 1..written |-> m]

\* The result is the one at the end of the moves, whatever the headers said and
\* whatever looks like a result inside a comment (pgn_parser.dart:84, 91, 102).
ResultIsOfGame == ended => Parse(lines).result = TheResult

\* If every move has its number, the parser may miss moves it does not understand
\* (glued to a number or a mark, e8=Q, O-O+), but what it reads of the game is in
\* order, each move once and with its own label, however many were missed before and
\* whatever a nested variation left behind (pgn_parser.dart:94-99).  Nothing else is
\* read unless a variation stands inside another.
ReadsPartOfMainLine ==
  (style.numberEvery /\ depth = 0) =>
    /\ \E kept \in SUBSET (1..written) :
         ReadOfGame = SelectSeq(MainLine, LAMBDA m : m.move \in kept)
    /\ ~nested => Parse(lines).moves = ReadOfGame

\* Of a text whose moves are all of a form the parser knows, with nothing glued to
\* them: the main line is read exactly unless a variation stands inside another, it is
\* never lost, and the result is the game's (PgnParser.parse).
ReadsGame == ReadsMainLine /\ LosesNoMove /\ ResultIsOfGame
=============================================================================
