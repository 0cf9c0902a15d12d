-------------------------- MODULE MCReviewAnalysis --------------------------
(***************************************************************************)
(* Small instances of ReviewAnalysis for TLC.  No caller passes a game id  *)
(* for a game from the history or from pasted text, so ids are empty.      *)
(***************************************************************************)
EXTENDS ReviewAnalysis

Move(isWhite, capture, book) == [isWhite |-> isWhite, capture |-> capture, book |-> book]

\* "1... e4 d5 exd5": every label is wrong, and the third move captures.
Mislabelled ==
  [id |-> "", boards |-> 4,
   moves |-> <<Move(FALSE, FALSE, TRUE), Move(TRUE, FALSE, FALSE), Move(FALSE, TRUE, FALSE)>>]

\* "1. e4 Nd5": the second move is illegal, so it has no board.
Truncated ==
  [id |-> "", boards |-> 2, moves |-> <<Move(TRUE, FALSE, TRUE), Move(FALSE, FALSE, FALSE)>>]

\* Headers only.
NoMoves == [id |-> "", boards |-> 1, moves |-> <<>>]

\* "1. d4" and "1. e4 e5".
OneMove == [id |-> "", boards |-> 2, moves |-> <<Move(TRUE, FALSE, TRUE)>>]
TwoMoves ==
  [id |-> "", boards |-> 3, moves |-> <<Move(TRUE, FALSE, TRUE), Move(FALSE, FALSE, FALSE)>>]

\* "1. d4 Nf6 2. c4 e6": one ply more than the window ahead of the start.
FourMoves ==
  [id |-> "", boards |-> 5,
   moves |-> <<Move(TRUE, FALSE, TRUE), Move(FALSE, FALSE, FALSE),
               Move(TRUE, FALSE, FALSE), Move(FALSE, FALSE, FALSE)>>]

TwoGames == {Mislabelled, Truncated}
SmallGames == {OneMove, TwoMoves}
AllGames == {Mislabelled, Truncated, NoMoves, FourMoves}
DeepAndShallow == {18, 26}
DefaultDepth == {18}

\* The abstract review that the one on screen implements while only one screen
\* shows it.
Promise ==
  INSTANCE ReviewPromise WITH
    Boards <- {g.boards : g \in Games},
    boards <- IF screens > 0 THEN state[current].game.boards ELSE 0,
    rated <- IF screens > 0
             THEN {p \in 1..Len(state[current].list) : state[current].list[p] # Unrated}
             ELSE {},
    working <- screens > 0 /\ state[current].isAnalyzing

\* The review keeps the promise of ReviewPromise: ratings come one by one, none is
\* withdrawn, and the end of the analysis leaves none out.
KeepsPromise == Promise!Spec
=============================================================================
