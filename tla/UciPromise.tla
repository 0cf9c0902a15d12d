----------------------------- MODULE UciPromise -----------------------------
(***************************************************************************)
(* What the engine promises its GUI about searches: every "go" is answered *)
(* by one "bestmove", in order, and the answer to a "go infinite" or a "go *)
(* ponder" is held back until the GUI releases it.                         *)
(***************************************************************************)
EXTENDS Sequences

VARIABLE queue \* the requests not answered yet: is the answer held back?

Init == queue = <<>>

\* A new request; an older one may still be unanswered, but not held back.
Go == /\ \A i \in DOMAIN queue : ~queue[i]
      /\ \E held \in BOOLEAN : queue' = Append(queue, held)

\* "stop", "ponderhit" or "quit" releases the answer.
Release == \E i \in DOMAIN queue : queue[i] /\ queue' = [queue EXCEPT ![i] = FALSE]

Answer == queue # <<>> /\ ~Head(queue) /\ queue' = Tail(queue)

Next == Go \/ Release \/ Answer
Spec == Init /\ [][Next]_queue
=============================================================================
