---------------------------- MODULE MCUciEngine ----------------------------
(* Instances of UciEngine for TLC.                                         *)
EXTENDS UciEngine

NoLimit == [infinite |-> FALSE, ponderMode |-> FALSE, time |-> FALSE,
            budget |-> FALSE, mate |-> FALSE, depth |-> 0]

\* "go infinite", "go ponder wtime ...", "go depth 1 nodes ..."
MCLimitSet == {[NoLimit EXCEPT !.infinite = TRUE],
               [NoLimit EXCEPT !.ponderMode = TRUE, !.time = TRUE],
               [NoLimit EXCEPT !.depth = 1, !.budget = TRUE]}

=============================================================================
