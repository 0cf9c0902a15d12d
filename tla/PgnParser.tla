------------------------------ MODULE PgnParser ------------------------------
(***************************************************************************)
(* lib/engine/pgn_parser.dart: from the text of a PGN to the list of moves. *)
(* A text is a sequence of lines, a line a sequence of lexemes; a token is  *)
(* what stands between two spaces, one lexeme or several glued.             *)
(***************************************************************************)
EXTENDS Naturals, Sequences, FiniteSets, SequencesExt

\* What distinguishes SANs for _isValidSan; "O-O" and "e8=Q" are castle and
\* promotion.
SanForms == {"piece", "pawn", "castle", "promotion"}
Results == {"1-0", "0-1", "1/2-1/2"}
Unknown == "*"

San(form, check) == [form |-> form, check |-> check]

\* A lexeme: brackets, spaces, numbers with their dots, results and NAGs as they
\* are; a move by its SAN and its place in the game, 0 for a move of a variation.
Lexeme(kind) ==
  [kind |-> kind, number |-> 0, dots |-> 0, move |-> 0, san |-> San("piece", FALSE), result |-> ""]
Space == Lexeme(" ")
NumberLexeme(n, dots) == [Lexeme("number") EXCEPT !.number = n, !.dots = dots]
MoveLexeme(m, san) == [Lexeme("move") EXCEPT !.move = m, !.san = san]
ResultLexeme(r) == [Lexeme("result") EXCEPT !.result = r]

-----------------------------------------------------------------------------
(* Lines.  A line is [bracket, result, items]: whether it begins with '[', and *)
(* the value of the Result header if it is one.                             *)

\* trim().isEmpty
Blank(line) == ~line.bracket /\ \A i \in DOMAIN line.items : line.items[i] = Space

\* The moves have begun before line i: a text line, or a blank after a header.
InMoves(lines, i) ==
  \E j \in 1..(i - 1) :
    IF Blank(lines[j]) THEN \E k \in 1..(j - 1) : lines[k].bracket ELSE ~lines[j].bracket

IsHeader(lines, i) == lines[i].bracket /\ ~InMoves(lines, i)

\* headers['Result'] ?? '*': the last such header counts.
HeaderResult(lines) ==
  LET tags == {i \in DOMAIN lines : IsHeader(lines, i) /\ lines[i].result # ""}
  IN  IF tags = {} THEN Unknown
      ELSE lines[CHOOSE i \in tags : \A j \in tags : j <= i].result

\* moveLines.join(' ')
MovesText(lines) ==
  FoldLeft(LAMBDA text, i : IF IsHeader(lines, i) \/ Blank(lines[i]) THEN text
                            ELSE text \o <<Space>> \o lines[i].items,
           <<>>, [i \in 1..Len(lines) |-> i])

-----------------------------------------------------------------------------
(* _tokenizeMoves *)

\* Removes each span from an opening to the next closing bracket, and no other.
WithoutSpans(text, open, close) ==
  LET n == Len(text)
      Ends(i) == {j \in (i + 1)..n : text[j].kind = close}
      from[i \in 1..(n + 1)] ==
        IF i > n THEN <<>>
        ELSE IF text[i].kind = open /\ Ends(i) # {}
        THEN from[1 + CHOOSE j \in Ends(i) : \A l \in Ends(i) : j <= l]
        ELSE <<text[i]>> \o from[i + 1]
  IN  from[1]

\* Mutant: variations are removed before comments.
VariationsFirst(text) == WithoutSpans(WithoutSpans(text, "(", ")"), "{", "}")

WithoutAsides(text) == WithoutSpans(WithoutSpans(text, "{", "}"), "(", ")")

\* Places where something is glued to a move number.
Glued(text) ==
  {i \in 1..(Len(text) - 1) : text[i].kind = "number" /\ text[i + 1] # Space}

\* The pattern runs to the end of the line, so it matches only once.
Separated(text) ==
  IF Glued(text) = {} THEN text
  ELSE InsertAt(text, 1 + CHOOSE i \in Glued(text) : \A j \in Glued(text) : i <= j, Space)

\* split(r'\s+'), without the empty tokens.
Tokens(text) ==
  LET Split(tokens, lexeme) ==
        IF lexeme = Space THEN Append(tokens, <<>>)
        ELSE [tokens EXCEPT ![Len(tokens)] = Append(@, lexeme)]
  IN  SelectSeq(FoldLeft(Split, <<<<>>>>, text), LAMBDA token : token # <<>>)

-----------------------------------------------------------------------------
(* The loop over the tokens *)

Is(token, kind) == Len(token) = 1 /\ token[1].kind = kind

\* "O-O" is compared as it stands, without a check sign; the pattern has one
\* place for a character of "=QRBN", so it does not match "e8=Q".
IsValidSan(token) ==
  /\ Is(token, "move")
  /\ LET san == token[1].san
     IN  san.form \in {"piece", "pawn"} \/ (san.form = "castle" /\ ~san.check)

\* Mutant: a number with dots keeps the side to move.
NumberOnly(s, token) == [s EXCEPT !.number = token[1].number]

Numbered(s, token) ==
  [s EXCEPT !.number = token[1].number, !.isWhite = (token[1].dots < 3)]

Moved(s, token) ==
  [s EXCEPT !.moves = Append(@, [move |-> token[1].move, moveNumber |-> s.number,
                                 isWhite |-> s.isWhite]),
            !.number = IF s.isWhite THEN @ ELSE @ + 1,
            !.isWhite = ~@]

Ended(s, token) ==
  [s EXCEPT !.over = TRUE,
            !.result = IF token[1].result = Unknown THEN @ ELSE token[1].result]

\* Other tokens, NAGs among them, are skipped without a trace.
Read(s, token) ==
  IF s.over THEN s
  ELSE IF Is(token, "result") THEN Ended(s, token)
  ELSE IF Is(token, "number") THEN Numbered(s, token)
  ELSE IF IsValidSan(token) THEN Moved(s, token)
  ELSE s

Parse(lines) ==
  FoldLeft(Read,
           [moves |-> <<>>, result |-> HeaderResult(lines), number |-> 1,
            isWhite |-> TRUE, over |-> FALSE],
           Tokens(Separated(WithoutAsides(MovesText(lines)))))
=============================================================================
