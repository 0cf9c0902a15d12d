---------------------------- MODULE ReviewPromise ----------------------------
(***************************************************************************)
(* What the review of a game promises to the one who reads it: a game is   *)
(* opened, its moves get their ratings one by one in some order, no rating *)
(* is withdrawn, and the analysis is over only when none is missing.       *)
(***************************************************************************)
EXTENDS Naturals

CONSTANT Boards  \* the numbers of boards the games can have

VARIABLES boards,   \* boards of the open game, 0 if none is open
          rated,    \* the plies that have a rating
          working   \* an analysis is under way

reviewVars == <<boards, rated, working>>

PliesOf(b) == {p \in 1..b : p < b}

Init == boards = 0 /\ rated = {} /\ working = FALSE

Open == boards = 0 /\ boards' \in Boards /\ rated' = {} /\ working' \in BOOLEAN

Begin == boards > 0 /\ ~working /\ working' = TRUE /\ UNCHANGED <<boards, rated>>

Rate ==
  /\ working
  /\ \E p \in PliesOf(boards) : rated' = rated \cup {p}
  /\ UNCHANGED <<boards, working>>

\* The last missing rating, if there is one, comes with the end of the work.
Complete ==
  /\ working
  /\ rated' = PliesOf(boards)
  /\ \E p \in 0..boards : rated' \subseteq rated \cup {p}
  /\ working' = FALSE
  /\ UNCHANGED boards

Close == boards > 0 /\ boards' = 0 /\ rated' = {} /\ working' = FALSE

Next == Open \/ Begin \/ Rate \/ Complete \/ Close

Spec == Init /\ [][Next]_reviewVars
=============================================================================
