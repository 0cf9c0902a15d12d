---------------------------- MODULE MCAppServices ----------------------------
(***************************************************************************)
(* What the app gets from outside: the games chess.com sends for the        *)
(* history, and the text of a PGN.  One part runs, the other rests.         *)
(***************************************************************************)
EXTENDS GameHistory, PgnText

CONSTANTS ann, bob

VARIABLE part

TwoUsers == {ann, bob}
OneMonth == {1}

\* "1. e4 Nf6+ 2. O-O": every SAN is one the parser knows.
PlainGame == <<San("pawn", FALSE), San("piece", TRUE), San("castle", FALSE)>>

\* A promotion and a castling that gives check.
PromotionGame ==
  <<San("piece", FALSE), San("castle", TRUE), San("promotion", FALSE), San("piece", TRUE)>>

\* A castling that gives check, which the parser misses, before a move it knows.
ShortGame == <<San("castle", TRUE), San("piece", FALSE)>>

Style(game, every, gluing, marks, n) ==
  [game |-> game, numberEvery |-> every, gluing |-> gluing, marks |-> marks, asides |-> n]
MCStyles ==
  {Style(PlainGame, FALSE, FALSE, FALSE, 2), Style(PromotionGame, TRUE, TRUE, TRUE, 1),
   Style(ShortGame, TRUE, FALSE, FALSE, 2)}

-----------------------------------------------------------------------------
HistoryRest == Init /\ played = [u \in Users |-> [m \in Months |-> 0]]
TextRest ==
  /\ TextInit
  /\ style = Style(PlainGame, FALSE, FALSE, FALSE, 2) /\ Len(lines) = 1

ServicesInit ==
  \/ part = "history" /\ Init /\ TextRest
  \/ part = "text" /\ TextInit /\ HistoryRest

ServicesNext ==
  /\ UNCHANGED part
  /\ \/ part = "history" /\ Next /\ UNCHANGED textVars
     \/ part = "text" /\ TextNext /\ UNCHANGED vars

ServicesSpec == ServicesInit /\ [][ServicesNext]_<<part, vars, textVars>> /\ Fairness
=============================================================================
