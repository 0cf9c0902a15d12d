---------------------------- MODULE SearchProofs ----------------------------
(***************************************************************************)
(* What TLAPS proves about the search. Of one call (SearchNode), for every *)
(* window, position, entry and size of the values: the decisive values     *)
(* that it returns or writes are proven, and it unwinds what it has done.  *)
(* Of the deepening at the root (RootSearch), for every pool, position and *)
(* number of lines: the root moves are kept in their order, no unproven    *)
(* loss is kept, and the thread that is chosen has the move to play.       *)
(***************************************************************************)
EXTENDS SearchNode, RootSearch, NumberLemmas, FiniteSetTheorems, TLAPS

-----------------------------------------------------------------------------
(* The inductive invariant, of the call c and the locals f *)

Pcs == {"enter", "cutoff", "stand", "tables", "prune", "verify", "probcut", "moves", "made", "end", "qend", "returned"}
\* Before the first move is looked at.
BeforeMoves == {"enter", "cutoff", "stand", "tables", "prune", "verify", "probcut"}
Bounds == {"none", "lower", "upper", "exact"}
Quiet(c) == c.kind \in {"qsearch", "qsearchPV"}
\* The search stands for all moves that it is asked for.
Whole(c) == c.excluded = NoneMove

FrameType(c, f) ==
  f \in [pc : Pcs, alpha : Int, beta : Int, bestValue : -NodeInf .. NodeInf - 1, maxValue : {NodeInf, -NodeWin},
         bestMove : DOMAIN c.truth \cup {NoneMove}, count : Nat, todo : SUBSET Candidates(c),
         move : DOMAIN c.truth \cup {NoneMove}, singular : BOOLEAN, whole : BOOLEAN, made : Int, nmp : BOOLEAN,
         written : [value : Int, bound : Bounds, move : DOMAIN c.truth \cup {NoneMove}], writtenWhole : BOOLEAN, value : Int]

\* The window lies in the caller's, and is narrowed by values that are proven or not decisive.
InWindow(c, f) ==
  /\ c.alpha <= f.alpha /\ f.alpha < f.beta /\ f.beta <= c.beta
  /\ f.beta # c.beta => f.beta = mate_in(2)
  /\ (f.alpha > c.alpha /\ IsWin(f.alpha)) => TruthHere(c) >= f.alpha

\* A winning best value above the caller's alpha is proven, and so is the tablebases' upper
\* bound. A best move has raised alpha, or was promoted by a tie, whose value does not win.
BestProven(c, f) ==
  /\ (f.bestValue > c.alpha /\ IsWin(f.bestValue)) => TruthHere(c) >= f.bestValue
  /\ f.bestMove # NoneMove => /\ f.bestValue >= f.alpha
                              /\ f.bestValue > c.alpha \/ (~Quiet(c) /\ ~IsWin(f.bestValue))
  /\ f.maxValue = -NodeWin => TruthHere(c) <= -NodeWin

\* While the best value loses, no move is passed over: each one behind loses as much.
LossProven(c, f) ==
  (Whole(c) /\ IsLoss(f.bestValue) /\ f.bestValue < f.beta) =>
    \A m \in Candidates(c) \ (f.todo \cup {f.move}) : -c.truth[m] <= f.bestValue

\* Where the search is in its moves.
InMoves(c, f) ==
  /\ f.count = 0 => f.todo = Candidates(c)
  /\ f.count > 0 => Candidates(c) # {}
  /\ f.pc \in BeforeMoves => f.count = 0 /\ f.bestMove = NoneMove
  /\ f.pc \in {"end", "qend"} => f.todo \subseteq {c.excluded} \/ (f.count > 0 /\ f.bestValue >= f.beta)
  /\ f.pc # "enter" => ~c.draw

\* The quiescence search: in check the moves alone count, out of check the evaluation does.
Standing(c, f) ==
  /\ f.pc \in {"tables", "prune", "verify", "probcut"} => ~Quiet(c)
  /\ f.pc = "verify" => c.kind # "root"
  /\ (Quiet(c) /\ c.inCheck /\ f.count = 0) => f.bestValue = -NodeInf
  /\ (Quiet(c) /\ ~c.inCheck /\ f.pc \notin BeforeMoves) => ~IsLoss(f.bestValue)

\* The move that is made has been searched with the window of this node, or failed low.
MadeProven(c, f) ==
  /\ f.pc = "made" => /\ f.move \in Candidates(c) /\ f.move \in DOMAIN c.truth /\ f.value \in NodeValues /\ f.count > 0
                      /\ Proven(f.value, -c.truth[f.move], f.alpha, f.beta)
  /\ f.pc # "made" => f.move = NoneMove

\* What has to be undone, and a null move's value is not decisive.
Undoing(f) ==
  /\ f.made = IF f.pc = "made" THEN 1 ELSE 0
  /\ f.nmp => f.pc = "verify"
  /\ f.pc = "verify" => ~IsDecisive(f.value)

Running(c, f) ==
  /\ InWindow(c, f) /\ BestProven(c, f) /\ LossProven(c, f) /\ InMoves(c, f)
  /\ Standing(c, f) /\ MadeProven(c, f) /\ Undoing(f)

Returned(c, f) ==
  /\ f.made = 0 /\ ~f.nmp
  /\ Whole(c) => Proven(f.value, TruthHere(c), c.alpha, c.beta)

FrameInv(c, f) ==
  /\ FrameType(c, f) /\ WriteProven(f.written, c)
  /\ f.pc = "returned" => Returned(c, f)
  /\ f.pc # "returned" => Running(c, f)

NodeInv ==
  /\ callee \in NodeSetups /\ EntryProven(callee.entry, TruthOf(callee))
  /\ stopped \in BOOLEAN
  /\ FrameInv(callee, frame)

-----------------------------------------------------------------------------
(* The values *)

\* A set of integers that is bounded has a largest one.
LEMMA MaxIsLargest ==
  ASSUME NEW S \in SUBSET Int, S # {}, NEW b \in Int, \A x \in S : x <= b
  PROVE  Max(S) \in S /\ \A x \in S : Max(S) >= x
<1> DEFINE D == {b - x : x \in S}
<1>1. D \subseteq Nat /\ D # {}
  <2>1. \A x \in S : b - x \in Nat
    OBVIOUS
  <2>2. D # {}
    OBVIOUS
  <2> QED BY <2>1, <2>2
<1>2. PICK d \in D : \A e \in D : ~(<<e, d>> \in OpToRel(<, Nat))
  BY <1>1, NatLessThanWellFounded, WFMin, Zenon
<1>3. \A e \in D : ~(e < d)
  BY <1>1, <1>2 DEF OpToRel
<1>4. PICK x \in S : d = b - x
  BY DEF D
<1>5. \A y \in S : x >= y
  <2> TAKE y \in S
  <2>1. b - y \in D
    OBVIOUS
  <2>2. ~(b - y < b - x)
    BY <2>1, <1>3, <1>4
  <2> QED BY <2>2
<1> QED BY <1>4, <1>5 DEF Max

\* The truth among some moves is an integer: that of the best of them, if there is one.
LEMMA TruthAmongIs ==
  ASSUME NEW c \in NodeSetups, NEW M \in SUBSET DOMAIN c.truth
  PROVE  /\ TruthAmong(c, M) \in Int
         /\ (~c.draw /\ M # {}) =>
              /\ \E m \in M : TruthAmong(c, M) = -c.truth[m]
              /\ \A m \in M : TruthAmong(c, M) >= -c.truth[m]
<1> DEFINE S == {-c.truth[m] : m \in M}
<1>1. \A m \in M : c.truth[m] \in Int /\ -c.truth[m] <= NodeInf
  BY NodeAssumption DEF NodeValues
<1>2. S \in SUBSET Int /\ \A x \in S : x <= NodeInf
  BY <1>1
<1>3. CASE c.draw
  BY <1>3 DEF TruthAmong
<1>4. CASE ~c.draw /\ M = {}
  BY <1>4, NodeAssumption DEF TruthAmong, mated_in
<1>5. CASE ~c.draw /\ M # {}
  <2>1. S # {}
    BY <1>5
  <2>2. Max(S) \in S /\ \A x \in S : Max(S) >= x
    <3> HIDE DEF S
    <3> NodeInf \in Int
      BY NodeAssumption
    <3> QED BY <1>2, <2>1, MaxIsLargest
  <2>3. TruthAmong(c, M) = Max(S)
    BY <1>5 DEF TruthAmong
  <2> HIDE DEF S
  <2>4. TruthAmong(c, M) \in S /\ \A x \in S : TruthAmong(c, M) >= x
    BY <2>2, <2>3
  <2> USE DEF S
  <2> QED BY <2>4, <1>2
<1> QED BY <1>3, <1>4, <1>5

LEMMA TruthIs ==
  ASSUME NEW c \in NodeSetups
  PROVE  /\ TruthHere(c) \in Int
         /\ (~c.draw /\ Candidates(c) # {}) =>
              /\ \E m \in Candidates(c) : TruthHere(c) = -c.truth[m]
              /\ \A m \in Candidates(c) : TruthHere(c) >= -c.truth[m]
<1>1. Candidates(c) \in SUBSET DOMAIN c.truth
  BY DEF Candidates
<1> QED BY <1>1, TruthAmongIs DEF TruthHere

\* What all moves are worth, and those that are not barred.
TruthAllowed(c) == TruthAmong(c, DOMAIN c.truth \ c.barred)

\* More moves are worth no less; only a root has fewer than all.
LEMMA TruthsAre ==
  ASSUME NEW c \in NodeSetups
  PROVE  /\ TruthOf(c) \in Int /\ TruthAllowed(c) \in Int
         /\ TruthOf(c) >= TruthHere(c)
         /\ c.skipped = {} => TruthAllowed(c) = TruthHere(c)
         /\ c.kind # "root" => TruthOf(c) = TruthHere(c) /\ Candidates(c) = DOMAIN c.truth
         /\ Candidates(c) \subseteq DOMAIN c.truth
         /\ \A m \in DOMAIN c.truth : ~c.draw => TruthOf(c) >= -c.truth[m]
<1> DEFINE A == DOMAIN c.truth
<1>1. Candidates(c) \in SUBSET A /\ A \ c.barred \in SUBSET A /\ A \in SUBSET A
  BY DEF Candidates
<1>2. TruthOf(c) \in Int /\ TruthAllowed(c) \in Int /\ TruthHere(c) \in Int
  BY <1>1, TruthAmongIs DEF TruthOf, TruthAllowed, TruthHere
<1>3. c.skipped = {} => TruthAllowed(c) = TruthHere(c)
  <2>1. c.skipped = {} => A \ c.barred = Candidates(c)
    BY DEF Candidates
  <2> QED BY <2>1 DEF TruthAllowed, TruthHere
<1>4. c.kind # "root" => TruthOf(c) = TruthHere(c) /\ Candidates(c) = A
  <2>1. c.kind # "root" => Candidates(c) = A
    BY NodeAssumption DEF Candidates
  <2> QED BY <2>1 DEF TruthOf, TruthHere
<1>5. \A m \in A : ~c.draw => TruthOf(c) >= -c.truth[m]
  BY <1>1, TruthAmongIs DEF TruthOf
<1>6. TruthOf(c) >= TruthHere(c)
  <2>1. CASE c.kind # "root"
    BY <1>2, <1>4, <2>1
  <2>2. CASE c.kind = "root"
    <3>1. ~c.draw /\ Candidates(c) # {}
      BY <2>2, NodeAssumption DEF Candidates
    <3>2. PICK m \in Candidates(c) : TruthHere(c) = -c.truth[m]
      BY <3>1, TruthIs
    <3> QED BY <1>1, <1>5, <3>1, <3>2
  <2> QED BY <2>1, <2>2
<1> QED BY <1>1, <1>2, <1>3, <1>4, <1>5, <1>6

\* What a call is made with.
LEMMA CallIs ==
  ASSUME NEW c \in NodeSetups
  PROVE  /\ c.kind \in {"root", "pv", "nonpv", "qsearch", "qsearchPV"}
         /\ c.alpha \in Int /\ c.beta \in Int /\ -NodeInf <= c.alpha /\ c.alpha < c.beta /\ c.beta <= NodeInf
         /\ c.kind \in {"nonpv", "qsearch"} => c.alpha = c.beta - 1
         /\ \A m \in DOMAIN c.truth : m # NoneMove /\ c.truth[m] \in NodeValues
         /\ c.inCheck \in BOOLEAN /\ c.draw \in BOOLEAN /\ c.repeats \in BOOLEAN
         /\ c.skipped # {} => c.kind = "root"
         /\ Candidates(c) \subseteq DOMAIN c.truth
         /\ c.excluded # NoneMove => c.kind = "nonpv"
         /\ c.kind = "root" => Candidates(c) # {} /\ ~c.draw
         /\ c.entry.value \in Int /\ c.entry.bound \in Bounds
  BY NodeAssumption DEF Bounds, Candidates

\* The sizes of the values.
LEMMA SizesAre ==
  /\ NodeInf \in Int /\ NodeMate \in Int /\ NodeWin \in Int
  /\ 1 < NodeWin /\ NodeWin + 1 < NodeMate /\ NodeMate < NodeInf
  BY NodeAssumption

\* A value that is not decisive claims nothing.
LEMMA PlainClaimsNothing ==
  ASSUME NEW v \in Int, ~IsDecisive(v), NEW t, NEW a, NEW b
  PROVE  Proven(v, t, a, b)
  BY DEF IsDecisive, Proven

\* What is proven for a narrowed window is proven for the caller's.
LEMMA ProvenForCaller ==
  ASSUME NEW c \in NodeSetups, NEW f, FrameType(c, f), InWindow(c, f),
         NEW v \in Int, Proven(v, TruthHere(c), f.alpha, f.beta)
  PROVE  Proven(v, TruthHere(c), c.alpha, c.beta)
<1>1. f.alpha \in Int /\ f.beta \in Int
  BY DEF FrameType
<1>2. TruthHere(c) \in Int
  BY TruthIs
<1>3. ASSUME v > c.alpha, IsWin(v) PROVE TruthHere(c) >= v
  <2>1. CASE v > f.alpha
    BY <1>3, <2>1 DEF Proven
  <2>2. CASE v <= f.alpha
    <3>1. f.alpha > c.alpha /\ IsWin(f.alpha)
      BY <1>1, <1>3, <2>2, CallIs, SizesAre DEF IsWin
    <3> QED BY <1>1, <1>2, <2>2, <3>1 DEF InWindow
  <2> QED BY <1>1, <2>1, <2>2
<1>4. ASSUME v < c.beta, IsLoss(v) PROVE TruthHere(c) <= v
  <2>1. v < f.beta
    BY <1>1, <1>4, CallIs, SizesAre DEF InWindow, IsLoss, mate_in
  <2> QED BY <1>4, <2>1 DEF Proven
<1> QED BY <1>3, <1>4 DEF Proven

-----------------------------------------------------------------------------
(* Returning *)

Returning(f, v) == [f EXCEPT !.pc = "returned", !.value = v]
\* How a step returns.
LEMMA ReturnIs ==
  ASSUME NEW f, NEW v, Return(f, v)
  PROVE  frame' = Returning(f, v)
  BY DEF Return, Returning

\* A call may return any value that is proven, once it has undone what it did.
LEMMA ReturnInv ==
  ASSUME NEW c \in NodeSetups, NEW f, FrameType(c, f), WriteProven(f.written, c), f.made = 0, ~f.nmp,
         NEW v \in Int, Whole(c) => Proven(v, TruthHere(c), c.alpha, c.beta)
  PROVE  FrameInv(c, Returning(f, v))
<1> DEFINE g == [f EXCEPT !.pc = "returned", !.value = v]
<1>1. /\ g.pc = "returned" /\ g.value = v /\ g.made = f.made /\ g.nmp = f.nmp /\ g.written = f.written
  BY DEF FrameType
<1>2. FrameType(c, g)
  BY DEF FrameType, Pcs
<1> HIDE DEF g
<1>3. Returned(c, g)
  BY <1>1 DEF Returned
<1>4. FrameInv(c, g)
  BY <1>1, <1>2, <1>3 DEF FrameInv
<1> QED BY <1>4 DEF g, Returning

\* In particular one that is not decisive.
LEMMA ReturnPlain ==
  ASSUME NEW c \in NodeSetups, NEW f, FrameType(c, f), WriteProven(f.written, c), f.made = 0, ~f.nmp,
         NEW v \in Int, ~IsDecisive(v)
  PROVE  FrameInv(c, Returning(f, v))
<1>1. Proven(v, TruthHere(c), c.alpha, c.beta)
  BY PlainClaimsNothing
<1> QED BY <1>1, ReturnInv

\* What is written keeps the rest of the locals.
LEMMA WrittenType ==
  ASSUME NEW c, NEW f, FrameType(c, f), NEW v \in Int, NEW b \in Bounds, NEW m \in DOMAIN c.truth \cup {NoneMove}
  PROVE  /\ FrameType(c, Written(f, v, b, m))
         /\ Written(f, v, b, m).written = [value |-> v, bound |-> b, move |-> m]
         /\ Written(f, v, b, m).made = f.made /\ Written(f, v, b, m).nmp = f.nmp
         /\ \A i \in {"pc", "alpha", "beta", "bestValue", "maxValue", "bestMove", "count", "todo", "move", "value"} :
              Written(f, v, b, m)[i] = f[i]
  BY DEF FrameType, Written

\* A call that returns a value may write what is proven of it first.
LEMMA WriteAndReturn ==
  ASSUME NEW c \in NodeSetups, NEW f, FrameType(c, f), f.made = 0, ~f.nmp,
         NEW v \in Int, NEW b \in Bounds, NEW m \in DOMAIN c.truth \cup {NoneMove},
         (b \in LowerBounds /\ IsWin(v)) => TruthOf(c) >= v,
         (b \in UpperBounds /\ IsLoss(v)) => TruthAllowed(c) <= v,
         NEW w \in Int, Whole(c) => Proven(w, TruthHere(c), c.alpha, c.beta)
  PROVE  FrameInv(c, Returning(Written(f, v, b, m), w))
<1>1. /\ FrameType(c, Written(f, v, b, m))
      /\ Written(f, v, b, m).written = [value |-> v, bound |-> b, move |-> m]
      /\ Written(f, v, b, m).made = 0 /\ ~Written(f, v, b, m).nmp
  BY WrittenType
<1>2. WriteProven(Written(f, v, b, m).written, c)
  BY <1>1 DEF WriteProven, TruthAllowed
<1> QED BY <1>1, <1>2, ReturnInv

-----------------------------------------------------------------------------
(* Going on *)

Going(f, pc) == [f EXCEPT !.pc = pc]
Narrowed(f, a, b) == [f EXCEPT !.alpha = a, !.beta = b]
\* How a step goes on.
LEMMA GotoIs ==
  ASSUME NEW f, NEW pc, Goto(f, pc)
  PROVE  frame' = Going(f, pc)
  BY DEF Goto, Going

\* The types of the locals.
LEMMA FrameIs ==
  ASSUME NEW c \in NodeSetups, NEW f, FrameType(c, f)
  PROVE  /\ f.pc \in Pcs /\ f.alpha \in Int /\ f.beta \in Int /\ f.bestValue \in Int /\ f.maxValue \in Int
         /\ -NodeInf <= f.bestValue /\ f.bestValue < NodeInf /\ f.maxValue \in {NodeInf, -NodeWin}
         /\ f.bestMove \in DOMAIN c.truth \cup {NoneMove} /\ f.count \in Nat
         /\ f.todo \subseteq Candidates(c) /\ f.todo \subseteq DOMAIN c.truth /\ f.nmp \in BOOLEAN /\ f.value \in Int /\ f.made \in Int
         /\ f.move \in DOMAIN c.truth \cup {NoneMove} /\ f.whole \in BOOLEAN
<1>1. f.bestValue \in -NodeInf .. NodeInf - 1
  BY DEF FrameType
<1>2. f.bestValue \in Int /\ -NodeInf <= f.bestValue /\ f.bestValue < NodeInf
  BY <1>1, SizesAre
<1>3. f.maxValue \in {NodeInf, -NodeWin}
  BY DEF FrameType
<1>4. f.maxValue \in Int
  BY <1>3, SizesAre
<1> QED BY <1>2, <1>3, <1>4, CallIs DEF FrameType

\* From one stage of the search to another.
LEMMA GotoInv ==
  ASSUME NEW c \in NodeSetups, NEW f, FrameType(c, f), WriteProven(f.written, c), Running(c, f),
         f.pc \notin {"made", "verify", "returned"}, ~c.draw,
         NEW pc \in Pcs \ {"enter", "made", "verify", "returned"},
         pc \in BeforeMoves => f.pc \in BeforeMoves,
         pc \in {"tables", "prune", "probcut"} => ~Quiet(c),
         pc \in {"end", "qend"} => f.todo \subseteq {c.excluded},
         (Quiet(c) /\ ~c.inCheck /\ pc \notin BeforeMoves) => ~IsLoss(f.bestValue)
  PROVE  FrameInv(c, Going(f, pc))
<1> DEFINE g == [f EXCEPT !.pc = pc]
<1>1. /\ g.pc = pc /\ g.written = f.written /\ g.alpha = f.alpha /\ g.beta = f.beta /\ g.bestValue = f.bestValue
      /\ g.maxValue = f.maxValue /\ g.bestMove = f.bestMove /\ g.count = f.count /\ g.todo = f.todo
      /\ g.move = f.move /\ g.made = f.made /\ g.nmp = f.nmp /\ g.value = f.value
  BY DEF FrameType
<1>2. FrameType(c, g)
  BY DEF FrameType
<1> HIDE DEF g
<1>3. InWindow(c, g) /\ BestProven(c, g)
  BY <1>1 DEF Running, InWindow, BestProven
<1>4. LossProven(c, g)
  BY <1>1 DEF Running, LossProven
<1>5. InMoves(c, g) /\ Standing(c, g)
  BY <1>1 DEF Running, InMoves, Standing
<1>6. MadeProven(c, g) /\ Undoing(g)
  BY <1>1 DEF Running, MadeProven, Undoing
<1>7. FrameInv(c, g)
  BY <1>1, <1>2, <1>3, <1>4, <1>5, <1>6 DEF FrameInv, Running
<1> QED BY <1>7 DEF g, Going

\* A window may be narrowed by a proven value, by one that is not decisive, and by the mate in two.
LEMMA NarrowInv ==
  ASSUME NEW c \in NodeSetups, NEW f, FrameType(c, f), Running(c, f), f.pc \in BeforeMoves,
         NEW a \in Int, NEW b \in Int, c.alpha <= a, a < b, b <= f.beta, b # c.beta => b = mate_in(2),
         (a > c.alpha /\ IsWin(a)) => TruthHere(c) >= a,
         NEW g, g = Narrowed(f, a, b)
  PROVE  /\ FrameType(c, g) /\ Running(c, g)
         /\ g.written = f.written /\ g.alpha = a /\ g.beta = b
         /\ g.pc = f.pc /\ g.bestValue = f.bestValue /\ g.todo = f.todo /\ g.made = f.made /\ g.nmp = f.nmp
<1>1. /\ g.pc = f.pc /\ g.written = f.written /\ g.alpha = a /\ g.beta = b /\ g.bestValue = f.bestValue
      /\ g.maxValue = f.maxValue /\ g.bestMove = f.bestMove /\ g.count = f.count /\ g.todo = f.todo
      /\ g.move = f.move /\ g.made = f.made /\ g.nmp = f.nmp /\ g.value = f.value
  BY DEF FrameType, Narrowed
<1>2. FrameType(c, g)
  BY DEF FrameType, Narrowed
<1>a. f.beta \in Int /\ f.bestValue \in Int /\ f.beta <= c.beta /\ c.beta \in Int
  BY FrameIs, CallIs DEF Running, InWindow
<1>3. InWindow(c, g)
  BY <1>1, <1>a DEF InWindow
<1>4. BestProven(c, g)
  BY <1>1 DEF Running, BestProven, InMoves
<1>5. LossProven(c, g)
  BY <1>1, <1>a DEF Running, LossProven
<1>6. InMoves(c, g)
  BY <1>1, <1>a DEF Running, InMoves
<1>7. Standing(c, g)
  BY <1>1 DEF Running, Standing
<1>8. MadeProven(c, g) /\ Undoing(g)
  BY <1>1 DEF Running, MadeProven, Undoing, BeforeMoves
<1> QED
  BY <1>1, <1>2, <1>3, <1>4, <1>5, <1>6, <1>7, <1>8 DEF Running

\* What holds before a step of a call that has not returned.
LEMMA AtStep ==
  ASSUME NodeInv, frame.pc # "returned"
  PROVE  /\ callee \in NodeSetups /\ EntryProven(callee.entry, TruthOf(callee))
         /\ FrameType(callee, frame) /\ Running(callee, frame) /\ WriteProven(frame.written, callee)
         /\ frame.pc # "enter" => ~callee.draw
         /\ frame.pc \notin {"made", "verify"} => frame.made = 0 /\ ~frame.nmp
         /\ stopped \in BOOLEAN
<1>1. FrameInv(callee, frame) /\ callee \in NodeSetups /\ EntryProven(callee.entry, TruthOf(callee)) /\ stopped \in BOOLEAN
  BY DEF NodeInv
<1>2. FrameType(callee, frame) /\ Running(callee, frame) /\ WriteProven(frame.written, callee)
  BY <1>1 DEF FrameInv
<1>3. InMoves(callee, frame) /\ Undoing(frame)
  BY <1>2 DEF Running
<1>4. frame.pc # "enter" => ~callee.draw
  BY <1>3 DEF InMoves
<1>5. frame.pc \notin {"made", "verify"} => frame.made = 0 /\ ~frame.nmp
  BY <1>3 DEF Undoing
<1> QED BY <1>1, <1>2, <1>4, <1>5

\* Which kinds the quiescence search has.
LEMMA QuietIs == Quiescence <=> Quiet(callee)
  BY DEF Quiescence, Quiet

\* The initial locals.
LEMMA InitInv == NodeInit => NodeInv
<1> SUFFICES ASSUME NodeInit PROVE NodeInv
  OBVIOUS
<1>1. callee \in NodeSetups /\ EntryProven(callee.entry, TruthOf(callee)) /\ stopped = FALSE
  BY DEF NodeInit
<1>2. /\ frame.pc = "enter" /\ frame.alpha = callee.alpha /\ frame.beta = callee.beta /\ frame.bestValue = -NodeInf
      /\ frame.maxValue = NodeInf /\ frame.bestMove = NoneMove /\ frame.count = 0 /\ frame.todo = Candidates(callee)
      /\ frame.move = NoneMove /\ frame.made = 0 /\ frame.nmp = FALSE /\ frame.written = NoEntry
  BY DEF NodeInit, Moves
<1>3. FrameType(callee, frame)
  <2>1. callee.alpha \in Int /\ callee.beta \in Int /\ -NodeInf \in -NodeInf .. NodeInf - 1
    BY <1>1, CallIs, SizesAre
  <2>2. NoEntry \in [value : Int, bound : Bounds, move : DOMAIN callee.truth \cup {NoneMove}]
    BY DEF NoEntry, Bounds
  <2> QED BY <2>1, <2>2 DEF FrameType, NodeInit, Pcs, Moves
<1>4. WriteProven(frame.written, callee)
  BY <1>2 DEF WriteProven, NoEntry, LowerBounds, UpperBounds
<1>5. InWindow(callee, frame)
  BY <1>1, <1>2, CallIs DEF InWindow
<1>6. BestProven(callee, frame)
  BY <1>1, <1>2, CallIs, SizesAre DEF BestProven
<1>7. LossProven(callee, frame)
  BY <1>2 DEF LossProven, Whole
<1>8. InMoves(callee, frame) /\ Standing(callee, frame) /\ MadeProven(callee, frame) /\ Undoing(frame)
  BY <1>2 DEF InMoves, Standing, MadeProven, Undoing, BeforeMoves
<1> QED BY <1>1, <1>2, <1>3, <1>4, <1>5, <1>6, <1>7, <1>8 DEF NodeInv, FrameInv, Running

-----------------------------------------------------------------------------
(* The steps before the moves *)

\* Steps 1 to 3 raise alpha to a draw or the mated value only, and lower beta to the mate in two.
LEMMA EnterInv ==
  ASSUME NodeInv, Enter
  PROVE  FrameInv(callee, frame')
<1> DEFINE c == callee
           T == TruthHere(callee)
<1>1. /\ c \in NodeSetups /\ FrameType(c, frame) /\ Running(c, frame) /\ WriteProven(frame.written, c)
      /\ frame.pc = "enter" /\ frame.made = 0 /\ ~frame.nmp
  BY AtStep DEF Enter, At
<1>2. PICK draw \in DrawValues :
       LET repeats == callee.repeats /\ frame.alpha < 0 /\ ~RootNode
           alpha == IF repeats THEN draw ELSE frame.alpha
           a == Larger(mated_in(1), alpha)
           b == Smaller(mate_in(2), frame.beta)
           next == [frame EXCEPT !.alpha = a, !.beta = b]
       IN  IF repeats /\ alpha >= frame.beta THEN Return(frame, alpha)
           ELSE IF RootNode THEN Goto(frame, "cutoff")
           ELSE IF Quiescence THEN IF callee.draw THEN Return(frame, 0) ELSE Goto([frame EXCEPT !.alpha = alpha], "cutoff")
           ELSE IF stopped \/ callee.draw THEN Return(frame, draw)
           ELSE IF a >= b THEN Return(next, a)
           ELSE Goto(next, "cutoff")
  BY DEF Enter
<1> DEFINE repeats == callee.repeats /\ frame.alpha < 0 /\ ~RootNode
           alpha == IF repeats THEN draw ELSE frame.alpha
           a == Larger(mated_in(1), alpha)
           b == Smaller(mate_in(2), frame.beta)
<1>3. draw \in Int /\ -1 <= draw /\ ~IsDecisive(draw) /\ ~IsDecisive(0)
  BY SizesAre DEF DrawValues, IsDecisive, IsWin, IsLoss
<1>4. frame.alpha \in Int /\ frame.beta \in Int /\ T \in Int /\ c.alpha \in Int /\ c.beta \in Int
  BY <1>1, FrameIs, CallIs, TruthIs
<1>w. InWindow(c, frame)
  BY <1>1 DEF Running
<1>5. alpha \in Int /\ c.alpha <= alpha /\ ((alpha > c.alpha /\ IsWin(alpha)) => T >= alpha)
  <2>1. CASE repeats
    BY <2>1, <1>3, <1>4, <1>w DEF InWindow, IsDecisive
  <2>2. CASE ~repeats
    BY <2>2, <1>4, <1>w DEF InWindow
  <2> QED BY <2>1, <2>2
<1>6. repeats \in BOOLEAN
  OBVIOUS
<1>7. CASE repeats /\ alpha >= frame.beta
  <2>1. alpha = draw
    BY <1>7
  <2>2. Return(frame, alpha)
    BY <1>2, <1>7
  <2> QED BY <1>1, <1>3, <2>1, <2>2, ReturnPlain, ReturnIs
<1>8. CASE ~(repeats /\ alpha >= frame.beta) /\ RootNode
  <2>1. Goto(frame, "cutoff")
    BY <1>2, <1>8
  <2>2. ~c.draw /\ ~Quiet(c)
    BY <1>1, <1>8, CallIs DEF RootNode, Quiet
  <2> HIDE DEF alpha, repeats, a, b
  <2> QED BY <1>1, <2>1, <2>2, GotoInv, GotoIs DEF BeforeMoves, Pcs
<1>9. CASE ~(repeats /\ alpha >= frame.beta) /\ ~RootNode /\ Quiescence
  <2>1. CASE c.draw
    <3>1. Return(frame, 0)
      BY <1>2, <1>9, <2>1
    <3> HIDE DEF alpha, repeats, a, b
    <3> QED BY <1>1, <1>3, <3>1, ReturnPlain, ReturnIs
  <2>2. CASE ~c.draw
    <3>1. Goto([frame EXCEPT !.alpha = alpha], "cutoff")
      BY <1>2, <1>9, <2>2
    <3>2. alpha < frame.beta
      BY <1>5, <1>9, <1>4, <1>w DEF InWindow
    <3>3. [frame EXCEPT !.alpha = alpha] = [frame EXCEPT !.alpha = alpha, !.beta = frame.beta]
      BY <1>1 DEF FrameType
    <3> DEFINE g == [frame EXCEPT !.alpha = alpha, !.beta = frame.beta]
    <3>4. FrameType(c, g) /\ Running(c, g) /\ g.written = frame.written /\ g.pc = frame.pc
      <4>1. frame.beta <= frame.beta /\ (frame.beta # c.beta => frame.beta = mate_in(2))
        BY <1>4, <1>w DEF InWindow
      <4> HIDE DEF alpha, g
      <4>2. g = Narrowed(frame, alpha, frame.beta) BY DEF g, Narrowed
      <4> QED BY <4>2, <1>1, <1>4, <1>5, <3>2, <4>1, NarrowInv DEF BeforeMoves
    <3>5. Goto(g, "cutoff")
      BY <3>1, <3>3
    <3> HIDE DEF g, alpha
    <3> QED BY <1>1, <2>2, <3>4, <3>5, GotoInv, GotoIs DEF BeforeMoves, Pcs
  <2> QED BY <2>1, <2>2, <1>1, CallIs
<1>10. CASE ~(repeats /\ alpha >= frame.beta) /\ ~RootNode /\ ~Quiescence
  <2> DEFINE next == [frame EXCEPT !.alpha = a, !.beta = b]
  <2>1. CASE stopped \/ callee.draw
    <3>1. Return(frame, draw)
      BY <1>2, <1>10, <2>1
    <3> QED BY <1>1, <1>3, <3>1, ReturnPlain, ReturnIs
  <2>2. a \in Int /\ c.alpha <= a /\ ((a > c.alpha /\ IsWin(a)) => T >= a)
    BY <1>4, <1>5, SizesAre DEF Larger, mated_in, IsWin
  <2>3. b \in Int /\ b <= frame.beta /\ (b # c.beta => b = mate_in(2))
    BY <1>4, <1>w, SizesAre DEF Smaller, mate_in, InWindow
  <2>4. CASE ~(stopped \/ callee.draw) /\ a >= b
    <3>1. Return(next, a)
      BY <1>2, <1>10, <2>4
    <3>2. Proven(a, T, c.alpha, c.beta)
      <4>1. ~(a < c.beta /\ IsLoss(a))
        BY <1>4, <2>2, <2>3, <2>4, SizesAre DEF IsLoss, mate_in
      <4> QED BY <2>2, <4>1 DEF Proven
    <3>3. FrameType(c, next) /\ next.written = frame.written /\ next.made = 0 /\ ~next.nmp
      BY <1>1, <2>2, <2>3 DEF FrameType
    <3> HIDE DEF next, a
    <3> QED BY <1>1, <2>2, <3>1, <3>2, <3>3, ReturnInv, ReturnIs
  <2>5. CASE ~(stopped \/ callee.draw) /\ a < b
    <3>1. Goto(next, "cutoff")
      BY <1>2, <1>10, <2>5, <2>2, <2>3
    <3>2. FrameType(c, next) /\ Running(c, next) /\ next.written = frame.written /\ next.pc = frame.pc
      <4> HIDE DEF a, b, next, alpha, repeats
      <4>1. next = Narrowed(frame, a, b) BY DEF next, Narrowed
      <4> QED BY <1>1, <2>2, <2>3, <2>5, <4>1, NarrowInv DEF BeforeMoves
    <3> HIDE DEF next
    <3> QED BY <1>1, <2>5, <3>1, <3>2, GotoInv, GotoIs DEF BeforeMoves, Pcs
  <2> QED BY <2>1, <2>2, <2>3, <2>4, <2>5
<1> QED BY <1>7, <1>8, <1>9, <1>10

\* The entry ends only a search with an empty window, where its bound is what the window asks for.
LEMMA TTCutoffInv ==
  ASSUME NodeInv, TTCutoff
  PROVE  FrameInv(callee, frame')
<1> DEFINE c == callee
           T == TruthHere(callee)
           e == callee.entry
<1>1. /\ c \in NodeSetups /\ FrameType(c, frame) /\ Running(c, frame) /\ WriteProven(frame.written, c)
      /\ frame.pc = "cutoff" /\ frame.made = 0 /\ ~frame.nmp /\ ~c.draw /\ EntryProven(e, TruthOf(c))
  BY AtStep DEF TTCutoff, At
<1>2. /\ frame.alpha \in Int /\ frame.beta \in Int /\ T \in Int /\ c.alpha \in Int /\ c.beta \in Int /\ e.value \in Int
      /\ InWindow(c, frame)
  BY <1>1, FrameIs, CallIs, TruthIs DEF Running
<1>3. CASE /\ ~PvNode /\ e.bound \in (IF e.value >= frame.beta THEN LowerBounds ELSE UpperBounds)
           /\ Return(frame, e.value)
  <2>1. c.alpha = c.beta - 1 /\ c.kind # "root"
    BY <1>1, <1>3, CallIs DEF PvNode
  <2>t. EntryProven(e, T)
    BY <1>1, <2>1, TruthsAre
  <2>2. ASSUME e.value > c.alpha, IsWin(e.value) PROVE T >= e.value
    <3>1. e.value >= frame.beta
      BY <1>2, <2>1, <2>2 DEF InWindow
    <3> QED BY <1>3, <2>2, <2>t, <3>1 DEF EntryProven
  <2>3. ASSUME e.value < c.beta, IsLoss(e.value) PROVE T <= e.value
    <3>1. ~(e.value >= frame.beta)
      BY <1>2, <2>3, SizesAre DEF InWindow, IsLoss, mate_in
    <3> QED BY <1>3, <2>3, <2>t, <3>1 DEF EntryProven
  <2>4. Proven(e.value, T, c.alpha, c.beta)
    BY <2>2, <2>3 DEF Proven
  <2> HIDE DEF e
  <2> QED BY <1>1, <1>2, <1>3, <2>4, ReturnInv, ReturnIs
<1>4. CASE Goto(frame, IF Quiescence THEN "stand" ELSE "tables")
  <2>1. CASE Quiescence
    <3>1. Goto(frame, "stand")
      BY <1>4, <2>1
    <3> QED BY <1>1, <3>1, GotoInv, GotoIs DEF BeforeMoves, Pcs
  <2>2. CASE ~Quiescence
    <3>1. Goto(frame, "tables") /\ ~Quiet(c)
      BY <1>4, <2>2, QuietIs
    <3> QED BY <1>1, <3>1, GotoInv, GotoIs DEF BeforeMoves, Pcs
  <2> QED BY <2>1, <2>2
<1> QED BY <1>3, <1>4 DEF TTCutoff

\* A best value that does not lose may be had before the first move, out of check or outside the quiescence search.
Raised(f, v, a) == [f EXCEPT !.bestValue = v, !.alpha = a]
LEMMA RaisedInv ==
  ASSUME NEW c \in NodeSetups, NEW f, FrameType(c, f), Running(c, f), f.pc \in BeforeMoves, ~(Quiet(c) /\ c.inCheck),
         NEW v \in Int, ~IsLoss(v), v < NodeInf, IsWin(v) => TruthHere(c) >= v,
         NEW a \in Int, c.alpha <= a, a < f.beta, (a > c.alpha /\ IsWin(a)) => TruthHere(c) >= a,
         NEW g, g = Raised(f, v, a)
  PROVE  /\ FrameType(c, g) /\ Running(c, g)
         /\ g.written = f.written /\ g.pc = f.pc /\ g.bestValue = v
<1>1. /\ g.pc = f.pc /\ g.written = f.written /\ g.alpha = a /\ g.beta = f.beta /\ g.bestValue = v
      /\ g.maxValue = f.maxValue /\ g.bestMove = f.bestMove /\ g.count = f.count /\ g.todo = f.todo
      /\ g.move = f.move /\ g.made = f.made /\ g.nmp = f.nmp /\ g.value = f.value
  BY DEF FrameType, Raised
<1>2. FrameType(c, g)
  <2>1. v \in -NodeInf .. NodeInf - 1
    BY SizesAre DEF IsLoss
  <2> QED BY <2>1 DEF FrameType, Raised
<1>3. f.bestMove = NoneMove /\ f.pc \notin {"end", "qend", "made"}
  BY DEF Running, InMoves, BeforeMoves
<1>4. InWindow(c, g)
  BY <1>1 DEF Running, InWindow
<1>5. BestProven(c, g)
  BY <1>1, <1>3 DEF Running, BestProven
<1>6. LossProven(c, g)
  BY <1>1 DEF LossProven
<1>7. InMoves(c, g)
  BY <1>1, <1>3 DEF Running, InMoves
<1>8. Standing(c, g)
  BY <1>1 DEF Running, Standing
<1>9. MadeProven(c, g) /\ Undoing(g)
  BY <1>1, <1>3 DEF Running, MadeProven, Undoing
<1> QED
  BY <1>1, <1>2, <1>4, <1>5, <1>6, <1>7, <1>8, <1>9 DEF Running

\* The tablebases' value ends the search, or bounds the best value from the side it is known from.
LEMMA TBProbeInv ==
  ASSUME NodeInv, TBProbe
  PROVE  FrameInv(callee, frame')
<1> DEFINE c == callee
           T == TruthHere(callee)
           b == IF IsWin(TBValue) THEN "lower" ELSE IF IsLoss(TBValue) THEN "upper" ELSE "exact"
           next == IF callee.inCheck THEN "moves" ELSE "prune"
           known == b = "exact" \/ (b = "lower" /\ TBValue >= frame.beta) \/ (b = "upper" /\ TBValue <= frame.alpha)
<1>1. /\ c \in NodeSetups /\ FrameType(c, frame) /\ Running(c, frame) /\ WriteProven(frame.written, c)
      /\ frame.pc = "tables" /\ frame.made = 0 /\ ~frame.nmp /\ ~c.draw
  BY AtStep DEF TBProbe, At
<1>2. /\ frame.alpha \in Int /\ frame.beta \in Int /\ T \in Int /\ c.alpha \in Int /\ c.beta \in Int
      /\ frame.alpha < frame.beta /\ frame.bestValue \in Int
      /\ InWindow(c, frame) /\ ~Quiet(c)
  BY <1>1, FrameIs, CallIs, TruthIs DEF Running, Standing, InWindow
<1>3. next \in {"moves", "prune"} /\ frame.pc \in BeforeMoves
  BY <1>1 DEF BeforeMoves
<1>4. ASSUME NEW g, FrameType(c, g), Running(c, g), g.written = frame.written, g.pc = frame.pc, Goto(g, next)
      PROVE  FrameInv(c, frame')
  <2> HIDE DEF next
  <2>1. frame' = Going(g, next)
    BY <1>4, GotoIs
  <2>2. next \in Pcs \ {"enter", "made", "verify", "returned"} /\ next \notin {"end", "qend"}
    BY <1>3 DEF Pcs
  <2>3. WriteProven(g.written, c) /\ g.pc \notin {"made", "verify", "returned"} /\ ~c.draw /\ g.pc \in BeforeMoves
    BY <1>1, <1>3, <1>4
  <2> QED BY <1>1, <1>2, <1>4, <2>1, <2>2, <2>3, GotoInv
<1>t. TruthOf(c) \in Int /\ (~RootNode => TruthOf(c) = T /\ TruthAllowed(c) = T)
  BY <1>1, CallIs, TruthsAre DEF RootNode
<1>5. \/ TBValue = NodeWin /\ b = "lower" /\ TruthOf(c) >= NodeWin
      \/ TBValue = -NodeWin /\ b = "upper" /\ TruthOf(c) <= -NodeWin
      \/ TBValue = 0 /\ b = "exact"
  BY <1>t, SizesAre DEF TBValue, tbValue, IsWin, IsLoss
<1>6. TBValue \in Int /\ b \in Bounds
  BY <1>5, SizesAre DEF Bounds
<1>7. CASE ~RootNode /\ known /\ Return(Written(frame, TBValue, b, NoneMove), TBValue)
  <2>1. /\ (b \in LowerBounds /\ IsWin(TBValue)) => TruthOf(c) >= TBValue
        /\ (b \in UpperBounds /\ IsLoss(TBValue)) => TruthAllowed(c) <= TBValue
    BY <1>2, <1>5, <1>7, <1>t, SizesAre DEF IsWin, IsLoss
  <2>2. Proven(TBValue, T, c.alpha, c.beta)
    BY <1>2, <1>5, <1>7, <1>t, SizesAre DEF IsWin, IsLoss, Proven
  <2>3. frame' = Returning(Written(frame, TBValue, b, NoneMove), TBValue)
    BY <1>7, ReturnIs
  <2> HIDE DEF b, known
  <2> QED BY <1>1, <1>6, <2>1, <2>2, <2>3, WriteAndReturn
<1>8. CASE ~RootNode /\ ~known
             /\ Goto(IF ~PvNode THEN frame
                     ELSE IF b = "lower" THEN [frame EXCEPT !.bestValue = TBValue, !.alpha = Larger(@, TBValue)]
                     ELSE [frame EXCEPT !.maxValue = TBValue], next)
  <2>1. CASE ~PvNode
    <3>1. Goto(frame, next)
      BY <1>8, <2>1
    <3> HIDE DEF next
    <3> QED BY <1>1, <1>4, <3>1
  <2>2. CASE PvNode /\ b = "lower"
    <3> DEFINE a == Larger(frame.alpha, TBValue)
               g == Raised(frame, TBValue, a)
    <3>1. Goto(g, next)
      BY <1>8, <2>2 DEF Raised
    <3>2. TBValue = NodeWin /\ T >= NodeWin /\ TBValue < frame.beta
      BY <1>2, <1>5, <1>8, <1>t, <2>2, <1>6
    <3>3. /\ a \in Int /\ c.alpha <= a /\ a < frame.beta
          /\ (a > c.alpha /\ IsWin(a)) => T >= a
      BY <1>2, <3>2, SizesAre DEF Larger, InWindow
    <3>4. ~IsLoss(TBValue) /\ TBValue < NodeInf /\ (IsWin(TBValue) => T >= TBValue)
      BY <3>2, SizesAre DEF IsLoss
    <3>5. FrameType(c, g) /\ Running(c, g) /\ g.written = frame.written /\ g.pc = frame.pc
      <4> HIDE DEF a, b, known, next
      <4>1. g = Raised(frame, TBValue, a)
        OBVIOUS
      <4> HIDE DEF g
      <4> QED BY <1>1, <1>2, <1>3, <1>6, <3>3, <3>4, <4>1, RaisedInv
    <3> HIDE DEF g, next
    <3> QED BY <1>4, <3>1, <3>5
  <2>3. CASE PvNode /\ b # "lower"
    <3> DEFINE g == [frame EXCEPT !.maxValue = TBValue]
    <3>1. Goto(g, next)
      BY <1>8, <2>3
    <3>2. TBValue = -NodeWin /\ T <= -NodeWin
      BY <1>5, <1>8, <1>t, <2>3
    <3>3. /\ g.pc = frame.pc /\ g.written = frame.written /\ g.alpha = frame.alpha /\ g.beta = frame.beta
          /\ g.bestValue = frame.bestValue /\ g.maxValue = TBValue /\ g.bestMove = frame.bestMove /\ g.count = frame.count
          /\ g.todo = frame.todo /\ g.move = frame.move /\ g.made = frame.made /\ g.nmp = frame.nmp /\ g.value = frame.value
      BY <1>1 DEF FrameType
    <3>4. FrameType(c, g)
      BY <1>1, <3>2 DEF FrameType
    <3> HIDE DEF g
    <3>5. InWindow(c, g) /\ LossProven(c, g) /\ InMoves(c, g) /\ Standing(c, g)
      BY <1>1, <3>3 DEF Running, InWindow, LossProven, InMoves, Standing
    <3>6. BestProven(c, g)
      BY <1>1, <3>2, <3>3 DEF Running, BestProven
    <3>7. MadeProven(c, g) /\ Undoing(g)
      BY <1>1, <3>3 DEF Running, MadeProven, Undoing
    <3>8. Running(c, g)
      BY <3>5, <3>6, <3>7 DEF Running
    <3> HIDE DEF next
    <3> QED BY <1>4, <3>1, <3>3, <3>4, <3>8
  <2> QED BY <2>1, <2>2, <2>3
<1>9. CASE Goto(frame, next)
  <2> HIDE DEF next
  <2> QED BY <1>1, <1>4, <1>9
<1>10. known \in BOOLEAN
  OBVIOUS
<1> QED BY <1>7, <1>8, <1>9, <1>10 DEF TBProbe

\* The quiescence search answers for this position.
LEMMA RazoringInv ==
  ASSUME NodeInv, Razoring
  PROVE  FrameInv(callee, frame')
<1> DEFINE c == callee
           T == TruthHere(callee)
<1>1. /\ c \in NodeSetups /\ FrameType(c, frame) /\ Running(c, frame) /\ WriteProven(frame.written, c)
      /\ frame.pc = "prune" /\ frame.made = 0 /\ ~frame.nmp
  BY AtStep DEF Razoring, At
<1>2. PICK r \in SearchesHere(frame.alpha, frame.beta) : r.whole /\ Return(frame, r.value)
  BY DEF Razoring
<1>3. r \in {[value |-> v, whole |-> TRUE] : v \in {x \in NodeValues : Proven(x, TruthHere(callee), frame.alpha, frame.beta)}}
  <2>1. TruthOf(callee) = TruthHere(callee)
    BY <1>1, TruthsAre DEF Razoring, PvNode
  <2> QED BY <1>2, <2>1 DEF SearchesHere, Interrupted
<1>4. r.value \in Int /\ Proven(r.value, T, frame.alpha, frame.beta)
  BY <1>3, SizesAre DEF NodeValues
<1>5. InWindow(c, frame)
  BY <1>1 DEF Running
<1>6. Proven(r.value, T, c.alpha, c.beta)
  BY <1>1, <1>4, <1>5, ProvenForCaller
<1> QED BY <1>1, <1>2, <1>4, <1>6, ReturnInv, ReturnIs

\* An evaluation is an integer.
LEMMA EvalsAre == callee \in NodeSetups => Evals \subseteq Int
  BY CallIs, SizesAre DEF Evals, Plain

\* A mean of beta and the evaluation is not decisive.
LEMMA FutilityPruningInv ==
  ASSUME NodeInv, FutilityPruning
  PROVE  FrameInv(callee, frame')
<1> DEFINE c == callee
<1>1. /\ c \in NodeSetups /\ FrameType(c, frame) /\ Running(c, frame) /\ WriteProven(frame.written, c)
      /\ frame.pc = "prune" /\ frame.made = 0 /\ ~frame.nmp /\ frame.beta \in Int
  BY AtStep, FrameIs DEF FutilityPruning, At
<1>2. PICK eval \in Evals : eval >= frame.beta /\ ~IsWin(eval) /\ \E v \in frame.beta .. eval : Return(frame, v)
  BY DEF FutilityPruning
<1>3. PICK v \in frame.beta .. eval : Return(frame, v)
  BY <1>2
<1>4. eval \in Int
  BY <1>1, <1>2, EvalsAre
<1>5. v \in Int /\ ~IsDecisive(v)
  BY <1>1, <1>2, <1>3, <1>4, SizesAre DEF IsDecisive, IsWin, IsLoss, FutilityPruning
<1> QED BY <1>1, <1>3, <1>5, ReturnPlain, ReturnIs

\* The null move's value is returned if it does not win, or verified.
LEMMA NullMoveInv ==
  ASSUME NodeInv, NullMove
  PROVE  FrameInv(callee, frame')
<1> DEFINE c == callee
           T == TruthHere(callee)
<1>1. /\ c \in NodeSetups /\ FrameType(c, frame) /\ Running(c, frame) /\ WriteProven(frame.written, c)
      /\ frame.pc = "prune" /\ frame.made = 0 /\ ~frame.nmp /\ frame.beta \in Int /\ ~c.draw
  BY AtStep, FrameIs DEF NullMove, At
<1>2. ~Quiet(c) /\ frame.pc \in BeforeMoves
  BY <1>1 DEF Running, Standing, BeforeMoves
<1>3. ASSUME NEW nullValue \in NodeValues, nullValue >= frame.beta, ~IsWin(nullValue),
             \/ Return(frame, nullValue)
             \/ frame' = [frame EXCEPT !.pc = "verify", !.nmp = TRUE, !.value = nullValue]
      PROVE  FrameInv(c, frame')
  <2>1. nullValue \in Int /\ ~IsDecisive(nullValue)
    <3>1. ~IsLoss(frame.beta)
      BY DEF NullMove
    <3> QED BY <1>1, <1>3, <3>1, SizesAre DEF NodeValues, IsDecisive, IsWin, IsLoss
  <2>2. CASE Return(frame, nullValue)
    BY <1>1, <2>1, <2>2, ReturnPlain, ReturnIs
  <2>3. CASE frame' = [frame EXCEPT !.pc = "verify", !.nmp = TRUE, !.value = nullValue]
    <3> DEFINE g == [frame EXCEPT !.pc = "verify", !.nmp = TRUE, !.value = nullValue]
    <3>1. /\ g.pc = "verify" /\ g.written = frame.written /\ g.alpha = frame.alpha /\ g.beta = frame.beta
          /\ g.bestValue = frame.bestValue /\ g.maxValue = frame.maxValue /\ g.bestMove = frame.bestMove
          /\ g.count = frame.count /\ g.todo = frame.todo /\ g.move = frame.move /\ g.made = frame.made /\ g.value = nullValue
      BY <1>1 DEF FrameType
    <3>2. FrameType(c, g)
      BY <1>1, <2>1 DEF FrameType, Pcs
    <3> HIDE DEF g
    <3>3. InWindow(c, g) /\ BestProven(c, g) /\ LossProven(c, g)
      BY <1>1, <3>1 DEF Running, InWindow, BestProven, LossProven
    <3>r. c.kind # "root"
      BY DEF NullMove, PvNode
    <3>4. InMoves(c, g) /\ Standing(c, g)
      BY <1>1, <1>2, <3>1, <3>r DEF Running, InMoves, Standing, BeforeMoves
    <3>5. MadeProven(c, g) /\ Undoing(g)
      BY <1>1, <2>1, <3>1 DEF Running, MadeProven, Undoing
    <3>6. FrameInv(c, g)
      BY <1>1, <3>1, <3>2, <3>3, <3>4, <3>5 DEF FrameInv, Running
    <3> QED BY <2>3, <3>6 DEF g
  <2> QED BY <1>3, <2>2, <2>3
<1>4. CASE Goto(frame, "probcut")
  BY <1>1, <1>2, <1>4, GotoInv, GotoIs DEF Pcs
<1> QED BY <1>3, <1>4 DEF NullMove

\* The verification gives the null moves back, whatever it finds.
LEMMA VerifyNullInv ==
  ASSUME NodeInv, VerifyNull
  PROVE  FrameInv(callee, frame')
<1> DEFINE c == callee
           T == TruthHere(callee)
           next == [frame EXCEPT !.nmp = FALSE]
           g == [[next EXCEPT !.value = 0] EXCEPT !.pc = "probcut"]
<1>1. /\ c \in NodeSetups /\ FrameType(c, frame) /\ Running(c, frame) /\ WriteProven(frame.written, c)
      /\ frame.pc = "verify" /\ ~c.draw
  BY AtStep DEF VerifyNull, At
<1>2. Return(next, frame.value) \/ frame' = g
  <2>1. PICK r \in SearchesHere(frame.beta - 1, frame.beta) :
         IF r.value >= frame.beta THEN Return(next, frame.value) ELSE Goto([next EXCEPT !.value = 0], "probcut")
    BY DEF VerifyNull
  <2> QED BY <2>1 DEF Goto
<1>3. ~IsDecisive(frame.value) /\ frame.value \in Int /\ frame.made = 0
  BY <1>1, FrameIs DEF Running, Undoing
<1>4. CASE Return(next, frame.value)
  <2>1. FrameType(c, next) /\ next.written = frame.written /\ next.made = 0 /\ ~next.nmp
    BY <1>1, <1>3 DEF FrameType
  <2> HIDE DEF next
  <2> QED BY <1>1, <1>3, <1>4, <2>1, ReturnPlain, ReturnIs
<1>5. CASE frame' = g
  <2>1. /\ g.pc = "probcut" /\ g.written = frame.written /\ g.alpha = frame.alpha /\ g.beta = frame.beta
        /\ g.bestValue = frame.bestValue /\ g.maxValue = frame.maxValue /\ g.bestMove = frame.bestMove
        /\ g.count = frame.count /\ g.todo = frame.todo /\ g.move = frame.move /\ g.made = frame.made /\ ~g.nmp
    BY <1>1 DEF FrameType
  <2>2. FrameType(c, g)
    <3> DEFINE h == [next EXCEPT !.value = 0]
    <3>1. FrameType(c, next)
      BY <1>1 DEF FrameType
    <3> HIDE DEF next
    <3>2. FrameType(c, h)
      BY <3>1 DEF FrameType
    <3> HIDE DEF h
    <3>3. FrameType(c, [h EXCEPT !.pc = "probcut"])
      BY <3>2 DEF FrameType, Pcs
    <3> QED BY <3>3 DEF h
  <2> HIDE DEF g
  <2>3. InWindow(c, g) /\ BestProven(c, g) /\ LossProven(c, g)
    BY <1>1, <2>1 DEF Running, InWindow, BestProven, LossProven
  <2>4. InMoves(c, g) /\ Standing(c, g)
    BY <1>1, <2>1 DEF Running, InMoves, Standing, BeforeMoves
  <2>5. MadeProven(c, g) /\ Undoing(g)
    BY <1>1, <1>3, <2>1 DEF Running, MadeProven, Undoing
  <2> QED BY <1>1, <1>5, <2>1, <2>2, <2>3, <2>4, <2>5 DEF FrameInv, Running
<1> QED BY <1>2, <1>4, <1>5

\* Nothing is pruned before the moves.
LEMMA NoPruningInv ==
  ASSUME NodeInv, NoPruning
  PROVE  FrameInv(callee, frame')
<1>1. /\ callee \in NodeSetups /\ FrameType(callee, frame) /\ Running(callee, frame)
      /\ WriteProven(frame.written, callee) /\ frame.pc = "prune" /\ ~callee.draw /\ Goto(frame, "probcut")
  BY AtStep DEF NoPruning, At
<1>2. ~Quiet(callee) /\ frame.pc \in BeforeMoves
  BY <1>1 DEF Running, Standing, BeforeMoves
<1> QED BY <1>1, <1>2, GotoInv, GotoIs DEF Pcs

\* Nor by ProbCut.
LEMMA NoProbCutInv ==
  ASSUME NodeInv, NoProbCut
  PROVE  FrameInv(callee, frame')
<1>1. /\ callee \in NodeSetups /\ FrameType(callee, frame) /\ Running(callee, frame)
      /\ WriteProven(frame.written, callee) /\ frame.pc = "probcut" /\ ~callee.draw /\ Goto(frame, "moves")
  BY AtStep DEF NoProbCut, At
<1>2. ~Quiet(callee)
  BY <1>1 DEF Running, Standing
<1> QED BY <1>1, <1>2, GotoInv, GotoIs DEF Pcs, BeforeMoves

\* What a search below a move proves, for a window whose ends are integers.
LEMMA SearchProves ==
  ASSUME callee \in NodeSetups, NEW m \in DOMAIN callee.truth, NEW a \in Int, NEW b \in Int, NEW r \in Searches(m, a, b)
  PROVE  r.value \in NodeValues /\ r.value \in Int /\ Proven(r.value, -callee.truth[m], a, b) /\ r.whole \in BOOLEAN
<1>t. callee.truth[m] \in Int
  BY CallIs, SizesAre DEF NodeValues
<1>1. CASE r \in Finished(m, a, b)
  <2>1. PICK v \in NodeValues : Proven(-v, callee.truth[m], -b, -a) /\ r = [value |-> v, whole |-> TRUE]
    BY <1>1 DEF Finished
  <2>2. r.value = v /\ r.whole = TRUE /\ v \in Int
    BY <2>1, SizesAre DEF NodeValues
  <2>3. Proven(v, -callee.truth[m], a, b)
    BY <1>t, <2>1, <2>2, SizesAre DEF Proven, IsWin, IsLoss
  <2> QED BY <2>1, <2>2, <2>3
<1>2. CASE r \in Interrupted
  <2>1. PICK v \in DrawValues \cup {0} : r = [value |-> v, whole |-> FALSE]
    BY <1>2 DEF Interrupted
  <2>2. r.value = v /\ r.whole = FALSE /\ v \in Int /\ ~IsDecisive(v) /\ v \in NodeValues
    BY <2>1, SizesAre DEF DrawValues, IsDecisive, IsWin, IsLoss, NodeValues
  <2> QED BY <2>2, PlainClaimsNothing
<1> QED BY <1>1, <1>2 DEF Searches

\* A capture's value is a lower bound; a decisive one is written and does not end the search.
LEMMA ProbCutInv ==
  ASSUME NodeInv, ProbCut
  PROVE  FrameInv(callee, frame')
<1> DEFINE c == callee
           T == TruthOf(callee)
<1>1. /\ c \in NodeSetups /\ FrameType(c, frame) /\ Running(c, frame) /\ WriteProven(frame.written, c)
      /\ frame.pc = "probcut" /\ frame.made = 0 /\ ~frame.nmp /\ frame.beta \in Int /\ ~c.draw
      /\ frame.whole \in BOOLEAN /\ T \in Int
  BY AtStep, FrameIs, TruthsAre DEF ProbCut, At
<1>2. ~Quiet(c)
  BY <1>1 DEF Running, Standing
<1>3. PICK m \in Moves \ {callee.excluded}, p \in frame.beta + 1 .. NodeWin :
       \E r \in Searches(m, p - 1, p) :
         /\ r.value >= p
         /\ LET next == Written([frame EXCEPT !.whole = @ /\ r.whole], r.value, "lower", m)
            IN  IF IsDecisive(r.value) THEN Goto([next EXCEPT !.whole = TRUE], "probcut")
                ELSE Return(next, r.value - (p - frame.beta))
  BY DEF ProbCut
<1>4. PICK r \in Searches(m, p - 1, p) :
         /\ r.value >= p
         /\ LET next == Written([frame EXCEPT !.whole = @ /\ r.whole], r.value, "lower", m)
            IN  IF IsDecisive(r.value) THEN Goto([next EXCEPT !.whole = TRUE], "probcut")
                ELSE Return(next, r.value - (p - frame.beta))
  BY <1>3
<1>5. m \in DOMAIN c.truth /\ p \in Int /\ p - 1 \in Int /\ p > frame.beta
  BY <1>1, <1>3, SizesAre DEF Moves
<1>6. /\ r.value \in Int /\ Proven(r.value, -c.truth[m], p - 1, p) /\ r.whole \in BOOLEAN
  BY <1>1, <1>4, <1>5, SearchProves
<1>7. IsWin(r.value) => T >= r.value
  <2> SUFFICES ASSUME IsWin(r.value) PROVE T >= r.value
    OBVIOUS
  <2>1. -c.truth[m] >= r.value
    BY <1>4, <1>5, <1>6 DEF Proven
  <2>2. T >= -c.truth[m] /\ c.truth[m] \in Int
    BY <1>1, <1>5, TruthsAre, CallIs, SizesAre DEF NodeValues
  <2> QED BY <1>1, <1>6, <2>1, <2>2
<1> DEFINE w == [frame EXCEPT !.whole = @ /\ r.whole]
           next == Written(w, r.value, "lower", m)
           g == [next EXCEPT !.whole = TRUE]
<1>8. /\ FrameType(c, w) /\ w.made = 0 /\ ~w.nmp /\ w.pc = "probcut" /\ w.alpha = frame.alpha /\ w.beta = frame.beta
      /\ w.bestValue = frame.bestValue /\ w.maxValue = frame.maxValue /\ w.bestMove = frame.bestMove
      /\ w.count = frame.count /\ w.todo = frame.todo /\ w.move = frame.move
  BY <1>1, <1>6 DEF FrameType
<1>9. "lower" \in Bounds /\ m \in DOMAIN c.truth \cup {NoneMove}
  BY <1>5 DEF Bounds
<1>10. CASE IsDecisive(r.value)
  <2>1. Goto(g, "probcut")
    BY <1>4, <1>10
  <2>2. /\ FrameType(c, next) /\ next.written = [value |-> r.value, bound |-> "lower", move |-> m]
        /\ next.made = 0 /\ ~next.nmp /\ next.pc = "probcut" /\ next.alpha = frame.alpha /\ next.beta = frame.beta
        /\ next.bestValue = frame.bestValue /\ next.maxValue = frame.maxValue /\ next.bestMove = frame.bestMove
        /\ next.count = frame.count /\ next.todo = frame.todo /\ next.move = frame.move
    <3> HIDE DEF w
    <3> QED BY <1>6, <1>8, <1>9, WrittenType
  <2> HIDE DEF next
  <2>3. /\ FrameType(c, g) /\ g.written = next.written
        /\ g.made = 0 /\ ~g.nmp /\ g.pc = "probcut" /\ g.alpha = frame.alpha /\ g.beta = frame.beta
        /\ g.bestValue = frame.bestValue /\ g.maxValue = frame.maxValue /\ g.bestMove = frame.bestMove
        /\ g.count = frame.count /\ g.todo = frame.todo /\ g.move = frame.move
    BY <2>2 DEF FrameType
  <2> HIDE DEF g
  <2>4. WriteProven(g.written, c)
    BY <1>7, <2>2, <2>3 DEF WriteProven, UpperBounds
  <2>5. InWindow(c, g) /\ BestProven(c, g) /\ LossProven(c, g)
    BY <1>1, <2>3 DEF Running, InWindow, BestProven, LossProven
  <2>6. InMoves(c, g) /\ Standing(c, g)
    BY <1>1, <2>3 DEF Running, InMoves, Standing
  <2>7. MadeProven(c, g) /\ Undoing(g)
    BY <1>1, <2>3 DEF Running, MadeProven, Undoing
  <2>8. Running(c, g)
    BY <2>5, <2>6, <2>7 DEF Running
  <2> QED BY <1>1, <1>2, <2>1, <2>3, <2>4, <2>8, GotoInv, GotoIs DEF Pcs, BeforeMoves
<1>11. CASE ~IsDecisive(r.value)
  <2> DEFINE v == r.value - (p - frame.beta)
  <2>1. Return(next, v)
    BY <1>4, <1>11
  <2>2. v \in Int /\ ~IsDecisive(v)
    BY <1>1, <1>4, <1>5, <1>6, <1>11, SizesAre DEF IsDecisive, IsWin, IsLoss, ProbCut
  <2>3. Proven(v, TruthHere(c), c.alpha, c.beta)
    BY <2>2, PlainClaimsNothing
  <2>4. ("lower" \in LowerBounds /\ IsWin(r.value)) => T >= r.value
    BY <1>7
  <2>5. ("lower" \in UpperBounds /\ IsLoss(r.value)) => TruthAllowed(c) <= r.value
    BY DEF UpperBounds
  <2>6. frame' = Returning(Written(w, r.value, "lower", m), v)
    BY <2>1, ReturnIs
  <2> HIDE DEF v, w
  <2> QED BY <1>1, <1>6, <1>8, <1>9, <2>2, <2>3, <2>4, <2>5, <2>6, WriteAndReturn
<1> QED BY <1>10, <1>11

\* The entry's bound, lowered, is not decisive.
LEMMA SmallProbCutInv ==
  ASSUME NodeInv, SmallProbCut
  PROVE  FrameInv(callee, frame')
<1> DEFINE c == callee
<1>1. /\ c \in NodeSetups /\ FrameType(c, frame) /\ WriteProven(frame.written, c)
      /\ frame.made = 0 /\ ~frame.nmp /\ frame.beta \in Int /\ callee.entry.value \in Int
  BY AtStep, FrameIs, CallIs DEF SmallProbCut, At
<1>2. PICK v \in frame.beta .. callee.entry.value : Return(frame, v)
  BY DEF SmallProbCut
<1>3. v \in Int /\ ~IsDecisive(v)
  BY <1>1, <1>2, SizesAre DEF SmallProbCut, IsDecisive, IsWin, IsLoss
<1> QED BY <1>1, <1>2, <1>3, ReturnPlain, ReturnIs

\* The evaluation ends the search or raises the best value, and is not decisive.
LEMMA StandPatInv ==
  ASSUME NodeInv, StandPat
  PROVE  FrameInv(callee, frame')
<1> DEFINE c == callee
           T == TruthHere(callee)
<1>1. /\ c \in NodeSetups /\ FrameType(c, frame) /\ Running(c, frame) /\ WriteProven(frame.written, c)
      /\ frame.pc = "stand" /\ frame.made = 0 /\ ~frame.nmp /\ ~c.draw
  BY AtStep DEF StandPat, At
<1>2. /\ frame.alpha \in Int /\ frame.beta \in Int /\ T \in Int /\ c.alpha \in Int /\ c.beta \in Int /\ frame.pc \in BeforeMoves
      /\ InWindow(c, frame)
  BY <1>1, FrameIs, CallIs, TruthIs DEF Running, BeforeMoves
<1>3. CASE callee.inCheck
  <2>1. Goto(frame, "moves")
    BY <1>3 DEF StandPat
  <2> QED BY <1>1, <1>3, <2>1, GotoInv, GotoIs DEF Pcs, BeforeMoves
<1>4. CASE ~callee.inCheck
  <2>1. PICK eval \in {v \in Evals : ~IsDecisive(v)} :
            IF eval >= frame.beta
            THEN \E v \in frame.beta .. eval :
                   Return(IF callee.entry.bound = "none" THEN Written(frame, v, "lower", NoneMove) ELSE frame, v)
            ELSE Goto([frame EXCEPT !.bestValue = eval, !.alpha = Larger(@, eval)], "moves")
    BY <1>4 DEF StandPat
  <2>2. eval \in Int /\ ~IsDecisive(eval)
    BY <1>1, <2>1, EvalsAre
  <2>3. CASE eval >= frame.beta
    <3>1. PICK v \in frame.beta .. eval :
                 Return(IF callee.entry.bound = "none" THEN Written(frame, v, "lower", NoneMove) ELSE frame, v)
      BY <2>1, <2>3
    <3>2. v \in Int /\ v <= eval /\ v >= frame.beta
      BY <1>2, <2>2, <3>1
    <3>3. ~IsWin(v)
      BY <2>2, <3>2, SizesAre DEF IsDecisive, IsWin
    <3>4. Proven(v, T, c.alpha, c.beta)
      <4>1. ~(v < c.beta /\ IsLoss(v))
        BY <1>2, <3>2, SizesAre DEF InWindow, IsLoss, mate_in
      <4> QED BY <3>3, <4>1 DEF Proven
    <3>5. CASE callee.entry.bound = "none"
      <4>1. frame' = Returning(Written(frame, v, "lower", NoneMove), v)
        BY <3>1, <3>5, ReturnIs
      <4>2. ("lower" \in UpperBounds /\ IsLoss(v)) => TruthAllowed(c) <= v
        BY DEF UpperBounds
      <4>3. "lower" \in Bounds /\ NoneMove \in DOMAIN c.truth \cup {NoneMove}
        BY DEF Bounds
      <4> QED BY <1>1, <3>2, <3>3, <3>4, <4>1, <4>2, <4>3, WriteAndReturn
    <3>6. CASE callee.entry.bound # "none"
      <4>1. frame' = Returning(frame, v)
        BY <3>1, <3>6, ReturnIs
      <4> QED BY <1>1, <3>2, <3>4, <4>1, ReturnInv
    <3> QED BY <3>5, <3>6
  <2>4. CASE ~(eval >= frame.beta)
    <3> DEFINE a == Larger(frame.alpha, eval)
               g == Raised(frame, eval, a)
    <3>1. Goto(g, "moves")
      BY <2>1, <2>4 DEF Raised
    <3>2. ~IsLoss(eval) /\ eval < NodeInf /\ (IsWin(eval) => T >= eval)
      BY <2>2, SizesAre DEF IsDecisive, IsWin, IsLoss
    <3>3. /\ a \in Int /\ c.alpha <= a /\ a < frame.beta
          /\ (a > c.alpha /\ IsWin(a)) => T >= a
      BY <1>2, <2>2, <2>4 DEF Larger, InWindow, IsDecisive
    <3>4. FrameType(c, g) /\ Running(c, g) /\ g.written = frame.written /\ g.pc = frame.pc /\ g.bestValue = eval
      <4> HIDE DEF a
      <4>1. g = Raised(frame, eval, a)
        OBVIOUS
      <4> HIDE DEF g
      <4> QED BY <1>1, <1>2, <1>4, <2>2, <3>2, <3>3, <4>1, RaisedInv
    <3> HIDE DEF g
    <3>5. ~IsLoss(g.bestValue) /\ WriteProven(g.written, c) /\ g.pc \notin {"made", "verify", "returned"}
      BY <1>1, <3>2, <3>4
    <3> QED BY <1>1, <3>1, <3>4, <3>5, GotoInv, GotoIs DEF Pcs, BeforeMoves
  <2> QED BY <2>3, <2>4
<1> QED BY <1>3, <1>4

-----------------------------------------------------------------------------
(* The moves *)

\* A move is passed over, or goes into the count with a best value that does not lose.
Behind(f, m, v) == [f EXCEPT !.todo = @ \ {m}, !.count = @ + 1, !.bestValue = v]
LEMMA BehindInv ==
  ASSUME NEW c \in NodeSetups, NEW f, FrameType(c, f), WriteProven(f.written, c), Running(c, f), f.pc = "moves",
         NEW m \in f.todo, NEW v \in Int, ~IsLoss(v), f.bestValue <= v, v < NodeInf,
         (v > c.alpha /\ IsWin(v)) => TruthHere(c) >= v,
         Quiet(c) \/ ~IsWin(v) \/ v = f.bestValue
  PROVE  FrameInv(c, Behind(f, m, v))
<1> DEFINE g == Behind(f, m, v)
<1>1. /\ g.pc = f.pc /\ g.written = f.written /\ g.alpha = f.alpha /\ g.beta = f.beta /\ g.bestValue = v
      /\ g.maxValue = f.maxValue /\ g.bestMove = f.bestMove /\ g.count = f.count + 1 /\ g.todo = f.todo \ {m}
      /\ g.move = f.move /\ g.made = f.made /\ g.nmp = f.nmp /\ g.value = f.value
  BY DEF FrameType, Behind
<1>2. FrameType(c, g)
  <2>1. v \in -NodeInf .. NodeInf - 1
    BY SizesAre DEF IsLoss
  <2>2. f.count + 1 \in Nat /\ f.todo \ {m} \in SUBSET Candidates(c)
    BY FrameIs
  <2> QED BY <2>1, <2>2 DEF FrameType, Behind
<1>3. /\ f.bestValue \in Int /\ f.alpha \in Int /\ f.count \in Nat /\ m \in DOMAIN c.truth /\ c.alpha \in Int
      /\ f.pc \notin BeforeMoves /\ f.pc \notin {"end", "qend", "enter", "made", "tables", "prune", "verify", "probcut", "returned"}
  BY FrameIs, CallIs DEF BeforeMoves
<1> HIDE DEF g
<1>4. InWindow(c, g)
  BY <1>1 DEF Running, InWindow
<1>5. BestProven(c, g)
  BY <1>1, <1>3 DEF Running, BestProven
<1>6. LossProven(c, g)
  BY <1>1 DEF LossProven
<1>7. InMoves(c, g)
  BY <1>1, <1>3 DEF Running, InMoves
<1>8. Standing(c, g)
  BY <1>1, <1>3 DEF Running, Standing
<1>9. MadeProven(c, g) /\ Undoing(g)
  BY <1>1, <1>3 DEF Running, MadeProven, Undoing
<1>10. FrameInv(c, g)
  BY <1>1, <1>2, <1>3, <1>4, <1>5, <1>6, <1>7, <1>8, <1>9 DEF FrameInv, Running
<1> QED BY <1>10 DEF g

\* What holds when it is a move's turn.
LEMMA TurnIs ==
  ASSUME NodeInv, NEW m, Turn(m)
  PROVE  /\ callee \in NodeSetups /\ FrameType(callee, frame) /\ Running(callee, frame)
         /\ WriteProven(frame.written, callee) /\ EntryProven(callee.entry, TruthOf(callee))
         /\ frame.pc = "moves" /\ frame.made = 0 /\ ~frame.nmp /\ ~callee.draw
         /\ m \in frame.todo /\ m \in DOMAIN callee.truth
         /\ frame.bestValue \in Int /\ -NodeInf <= frame.bestValue /\ frame.bestValue < NodeInf
         /\ frame.alpha \in Int /\ frame.beta \in Int /\ TruthHere(callee) \in Int /\ callee.alpha \in Int /\ callee.beta \in Int
<1>1. /\ callee \in NodeSetups /\ FrameType(callee, frame) /\ Running(callee, frame)
      /\ WriteProven(frame.written, callee) /\ EntryProven(callee.entry, TruthOf(callee))
      /\ frame.pc = "moves" /\ frame.made = 0 /\ ~frame.nmp /\ ~callee.draw /\ m \in frame.todo
  BY AtStep DEF Turn, At
<1> QED BY <1>1, FrameIs, CallIs, TruthIs

\* The move is passed and the rest is as it was.
LEMMA PassedIs ==
  ASSUME NEW c, FrameType(c, frame), NEW m
  PROVE  Passed(m) = Behind(frame, m, frame.bestValue)
  BY DEF Passed, Behind, FrameType

\* A move is pruned when another one does not lose.
LEMMA PruneMoveInv ==
  ASSUME NodeInv, NEW m \in Moves, PruneMove(m)
  PROVE  FrameInv(callee, frame')
<1> DEFINE c == callee
           T == TruthHere(callee)
<1>t. Turn(m) /\ ~IsLoss(frame.bestValue)
  BY DEF PruneMove
<1>1. /\ c \in NodeSetups /\ FrameType(c, frame) /\ Running(c, frame) /\ WriteProven(frame.written, c)
      /\ frame.pc = "moves" /\ m \in frame.todo /\ frame.bestValue \in Int /\ frame.bestValue < NodeInf
  BY <1>t, TurnIs
<1>2. CASE frame' = Passed(m)
  <2>1. (frame.bestValue > c.alpha /\ IsWin(frame.bestValue)) => T >= frame.bestValue
    BY <1>1 DEF Running, BestProven
  <2>2. frame' = Behind(frame, m, frame.bestValue)
    BY <1>1, <1>2, PassedIs
  <2>3. frame.bestValue <= frame.bestValue
    BY <1>1
  <2> QED BY <1>1, <1>t, <2>1, <2>2, <2>3, BehindInv
<1>3. ASSUME NEW futilityValue \in NodeValues, frame.bestValue <= futilityValue, ~IsWin(futilityValue),
             frame' = [Passed(m) EXCEPT !.bestValue = futilityValue]
      PROVE  FrameInv(c, frame')
  <2>1. futilityValue \in Int /\ futilityValue < NodeInf /\ ~IsLoss(futilityValue)
    BY <1>1, <1>t, <1>3, SizesAre DEF NodeValues, IsLoss
  <2>2. [Passed(m) EXCEPT !.bestValue = futilityValue] = Behind(frame, m, futilityValue)
    BY <1>1 DEF Passed, Behind, FrameType
  <2> QED BY <1>1, <1>3, <2>1, <2>2, BehindInv
<1> QED BY <1>2, <1>3 DEF PruneMove

\* So it is in the quiescence search.
LEMMA PruneCaptureInv ==
  ASSUME NodeInv, NEW m \in Moves, PruneCapture(m)
  PROVE  FrameInv(callee, frame')
<1> DEFINE c == callee
           T == TruthHere(callee)
<1>t. Turn(m) /\ ~IsLoss(frame.bestValue) /\ Quiet(c)
  BY QuietIs DEF PruneCapture
<1>1. /\ c \in NodeSetups /\ FrameType(c, frame) /\ Running(c, frame) /\ WriteProven(frame.written, c)
      /\ frame.pc = "moves" /\ m \in frame.todo /\ frame.bestValue \in Int /\ frame.bestValue < NodeInf
      /\ frame.alpha \in Int /\ T \in Int /\ c.alpha \in Int
  BY <1>t, TurnIs
<1>2. (frame.bestValue > c.alpha /\ IsWin(frame.bestValue)) => T >= frame.bestValue
  BY <1>1 DEF Running, BestProven
<1>3. CASE frame' = Passed(m)
  <2>2. frame' = Behind(frame, m, frame.bestValue)
    BY <1>1, <1>3, PassedIs
  <2>3. frame.bestValue <= frame.bestValue
    BY <1>1
  <2> QED BY <1>1, <1>t, <1>2, <2>2, <2>3, BehindInv
<1>4. ASSUME NEW futilityValue \in NodeValues, ~IsLoss(futilityValue), futilityValue <= frame.alpha,
             frame' = [Passed(m) EXCEPT !.bestValue = Larger(@, futilityValue)]
      PROVE  FrameInv(c, frame')
  <2> DEFINE v == Larger(frame.bestValue, futilityValue)
  <2>1. futilityValue \in Int /\ futilityValue < NodeInf
    BY SizesAre DEF NodeValues
  <2>2. v \in Int /\ v < NodeInf /\ ~IsLoss(v) /\ frame.bestValue <= v
    BY <1>1, <1>t, <1>4, <2>1 DEF Larger
  <2>3. (v > c.alpha /\ IsWin(v)) => T >= v
    <3>1. (futilityValue > c.alpha /\ IsWin(futilityValue)) => T >= futilityValue
      <4>1. (frame.alpha > c.alpha /\ IsWin(frame.alpha)) => T >= frame.alpha
        BY <1>1 DEF Running, InWindow
      <4> QED BY <1>1, <1>4, <2>1, <4>1, SizesAre DEF IsWin
    <3> QED BY <1>2, <3>1 DEF Larger
  <2>4. [Passed(m) EXCEPT !.bestValue = Larger(@, futilityValue)] = Behind(frame, m, v)
    BY <1>1 DEF Passed, Behind, FrameType
  <2> HIDE DEF v
  <2> QED BY <1>1, <1>t, <1>4, <2>2, <2>3, <2>4, BehindInv
<1> QED BY <1>3, <1>4 DEF PruneCapture

\* The search without the entry's move returns what is not decisive.
LEMMA SingularExtensionInv ==
  ASSUME NodeInv, NEW m \in Moves, SingularExtension(m)
  PROVE  FrameInv(callee, frame')
<1> DEFINE c == callee
           T == TruthHere(callee)
           g == [frame EXCEPT !.singular = TRUE]
<1>1. /\ c \in NodeSetups /\ FrameType(c, frame) /\ Running(c, frame) /\ WriteProven(frame.written, c)
      /\ frame.pc = "moves" /\ frame.made = 0 /\ ~frame.nmp
  BY TurnIs DEF SingularExtension
<1>2. PICK v \in NodeValues : IF v >= frame.beta /\ ~IsDecisive(v) THEN Return(frame, v) ELSE frame' = g
  BY DEF SingularExtension
<1>3. CASE v >= frame.beta /\ ~IsDecisive(v)
  <2>1. v \in Int /\ Return(frame, v)
    BY <1>2, <1>3, SizesAre DEF NodeValues
  <2> QED BY <1>1, <1>3, <2>1, ReturnPlain, ReturnIs
<1>4. CASE ~(v >= frame.beta /\ ~IsDecisive(v))
  <2>1. /\ g.pc = frame.pc /\ g.written = frame.written /\ g.alpha = frame.alpha /\ g.beta = frame.beta
        /\ g.bestValue = frame.bestValue /\ g.maxValue = frame.maxValue /\ g.bestMove = frame.bestMove /\ g.count = frame.count
        /\ g.todo = frame.todo /\ g.move = frame.move /\ g.made = frame.made /\ g.nmp = frame.nmp /\ g.value = frame.value
    BY <1>1 DEF FrameType
  <2>2. FrameType(c, g) /\ frame' = g
    BY <1>1, <1>2, <1>4 DEF FrameType
  <2> HIDE DEF g
  <2>3. InWindow(c, g) /\ BestProven(c, g) /\ LossProven(c, g)
    BY <1>1, <2>1 DEF Running, InWindow, BestProven, LossProven
  <2>4. InMoves(c, g) /\ Standing(c, g)
    BY <1>1, <2>1 DEF Running, InMoves, Standing
  <2>5. MadeProven(c, g) /\ Undoing(g)
    BY <1>1, <2>1 DEF Running, MadeProven, Undoing
  <2> QED BY <1>1, <2>1, <2>2, <2>3, <2>4, <2>5 DEF FrameInv, Running
<1> QED BY <1>3, <1>4

\* The value that a move is made for is proven for the window of this node.
LEMMA MoveValuesAre ==
  ASSUME NodeInv, NEW m, Turn(m), NEW r \in MoveValues(m)
  PROVE  /\ r.value \in NodeValues /\ r.value \in Int /\ r.whole \in BOOLEAN
         /\ Proven(r.value, -callee.truth[m], frame.alpha, frame.beta)
<1>1. /\ callee \in NodeSetups /\ m \in DOMAIN callee.truth /\ frame.alpha \in Int /\ frame.alpha + 1 \in Int /\ frame.beta \in Int
  BY TurnIs
<1>2. CASE r \in Searches(m, frame.alpha, frame.beta)
  BY <1>1, <1>2, SearchProves
<1>3. CASE r \in Searches(m, frame.alpha, frame.alpha + 1) /\ r.value <= frame.alpha
  <2>1. r.value \in NodeValues /\ r.value \in Int /\ Proven(r.value, -callee.truth[m], frame.alpha, frame.alpha + 1) /\ r.whole \in BOOLEAN
    BY <1>1, <1>3, SearchProves
  <2> QED BY <1>1, <1>3, <2>1 DEF Proven
<1> QED BY <1>2, <1>3 DEF MoveValues

\* The types of the locals while a move is made.
LEMMA MadeType ==
  ASSUME NEW c, NEW p, FrameType(c, p), p.made \in Int, NEW m \in DOMAIN c.truth, NEW v \in Int, NEW w \in BOOLEAN
  PROVE  FrameType(c, [p EXCEPT !.pc = "made", !.made = @ + 1, !.value = v, !.whole = w, !.move = m])
<1> DEFINE h == [p EXCEPT !.pc = "made"]
           k == [h EXCEPT !.made = @ + 1]
           l == [k EXCEPT !.value = v, !.whole = w, !.move = m]
<1>1. FrameType(c, h) /\ h.made \in Int
  <2>1. "made" \in Pcs
    BY DEF Pcs
  <2> QED BY <2>1 DEF FrameType
<1> HIDE DEF h
<1>2. FrameType(c, k)
  <2>1. h.made + 1 \in Int
    BY <1>1
  <2> QED BY <1>1, <2>1 DEF FrameType
<1> HIDE DEF k
<1>3. FrameType(c, l)
  BY <1>2 DEF FrameType
<1>4. l = [p EXCEPT !.pc = "made", !.made = @ + 1, !.value = v, !.whole = w, !.move = m]
  BY DEF l, k, h, FrameType
<1> QED BY <1>3, <1>4

\* A move that is made is behind, but for its value.
LEMMA MakeMoveInv ==
  ASSUME NodeInv, NEW m \in Moves, MakeMove(m)
  PROVE  FrameInv(callee, frame')
<1> DEFINE c == callee
           T == TruthHere(callee)
<1>1. /\ c \in NodeSetups /\ FrameType(c, frame) /\ Running(c, frame) /\ WriteProven(frame.written, c)
      /\ frame.pc = "moves" /\ frame.made = 0 /\ ~frame.nmp /\ ~c.draw
      /\ m \in frame.todo /\ m \in DOMAIN c.truth /\ Turn(m)
  BY TurnIs DEF MakeMove
<1>2. PICK r \in MoveValues(m) :
       frame' = [Passed(m) EXCEPT !.pc = "made", !.made = @ + 1, !.value = r.value, !.whole = r.whole, !.move = m]
  BY DEF MakeMove
<1>3. /\ r.value \in NodeValues /\ r.value \in Int /\ r.whole \in BOOLEAN
      /\ Proven(r.value, -c.truth[m], frame.alpha, frame.beta)
  BY <1>1, MoveValuesAre
<1> DEFINE p == Passed(m)
           g == [p EXCEPT !.pc = "made", !.made = @ + 1, !.value = r.value, !.whole = r.whole, !.move = m]
<1>4. /\ FrameType(c, p) /\ p.written = frame.written /\ p.alpha = frame.alpha /\ p.beta = frame.beta
      /\ p.bestValue = frame.bestValue /\ p.maxValue = frame.maxValue /\ p.bestMove = frame.bestMove /\ p.count = frame.count + 1
      /\ p.todo = frame.todo \ {m} /\ p.made = 0 /\ p.nmp = frame.nmp
  <2>1. frame.count + 1 \in Nat /\ frame.todo \ {m} \in SUBSET Candidates(c)
    BY <1>1, FrameIs
  <2> QED BY <1>1, <2>1 DEF Passed, FrameType
<1> HIDE DEF p
<1>5. /\ g.pc = "made" /\ g.written = frame.written /\ g.alpha = frame.alpha /\ g.beta = frame.beta
      /\ g.bestValue = frame.bestValue /\ g.maxValue = frame.maxValue /\ g.bestMove = frame.bestMove /\ g.count = frame.count + 1
      /\ g.todo = frame.todo \ {m} /\ g.move = m /\ g.made = 1 /\ g.nmp = frame.nmp /\ g.value = r.value
  BY <1>4 DEF FrameType
<1>6. FrameType(c, g)
  <2>1. FrameType(c, p) /\ p.made \in Int
    BY <1>4
  <2> QED BY <1>1, <1>3, <2>1, MadeType
<1> HIDE DEF g
<1>7. frame.count \in Nat /\ frame.count + 1 > 0 /\ frame.count + 1 # 0 /\ frame.move = NoneMove /\ m # NoneMove
  BY <1>1, FrameIs, CallIs DEF Running, MadeProven
<1>8. InWindow(c, g) /\ BestProven(c, g)
  BY <1>1, <1>5 DEF Running, InWindow, BestProven
<1>9. LossProven(c, g)
  <2>1. Candidates(c) \ (g.todo \cup {g.move}) \subseteq Candidates(c) \ (frame.todo \cup {frame.move})
    BY <1>1, <1>5, <1>7, CallIs
  <2> QED BY <1>1, <1>5, <2>1 DEF Running, LossProven
<1>10. InMoves(c, g)
  <2>1. Candidates(c) # {}
    BY <1>1, FrameIs
  <2> QED BY <1>1, <1>5, <1>7, <2>1 DEF InMoves, BeforeMoves
<1>11. Standing(c, g)
  BY <1>1, <1>5, <1>7 DEF Running, Standing, BeforeMoves
<1>12. MadeProven(c, g) /\ Undoing(g)
  <2>1. m \in Candidates(c)
    BY <1>1, FrameIs
  <2> QED BY <1>1, <1>3, <1>5, <1>7, <2>1 DEF MadeProven, Undoing
<1>13. FrameInv(c, g)
  BY <1>1, <1>5, <1>6, <1>8, <1>9, <1>10, <1>11, <1>12 DEF FrameInv, Running
<1> QED BY <1>2, <1>13 DEF g, p

\* A move that counts is better than alpha, or as good and promoted.
Counts(c, f) == f.value >= f.bestValue /\ (f.value > f.alpha \/ (f.value = f.alpha /\ ~Quiet(c) /\ ~IsWin(f.value)))

\* The move is taken back, and its value counts if it is better.
LEMMA TakenBackInv ==
  ASSUME NEW c \in NodeSetups, NEW f, FrameType(c, f), WriteProven(f.written, c), Running(c, f), f.pc = "made",
         NEW g, FrameType(c, g), g.written = f.written, g.beta = f.beta, g.maxValue = f.maxValue, g.count = f.count,
         g.todo = f.todo, g.move = NoneMove, g.made = 0, g.nmp = f.nmp,
         \/ /\ f.value <= f.bestValue /\ g.bestValue = f.bestValue
            /\ g.bestMove = f.bestMove /\ g.alpha = f.alpha /\ g.pc = "moves"
         \/ /\ f.value > f.bestValue /\ f.value <= f.alpha /\ g.bestValue = f.value
            /\ g.bestMove = f.bestMove /\ g.alpha = f.alpha /\ g.pc = "moves"
         \/ /\ Counts(c, f) /\ f.value >= f.beta /\ g.bestValue = f.value
            /\ g.bestMove = f.move /\ g.alpha = f.alpha /\ g.pc = "end"
         \/ /\ Counts(c, f) /\ f.value < f.beta /\ g.bestValue = f.value
            /\ g.bestMove = f.move /\ g.alpha = f.value /\ g.pc = "moves"
  PROVE  FrameInv(c, g)
<1> DEFINE T == TruthHere(c)
           v == f.value
           m == f.move
<1>1. /\ f.alpha \in Int /\ f.beta \in Int /\ f.bestValue \in Int /\ v \in Int /\ T \in Int
      /\ c.alpha \in Int /\ c.beta \in Int /\ f.count \in Nat /\ f.todo \subseteq DOMAIN c.truth
  BY FrameIs, CallIs, TruthIs
<1>2. InWindow(c, f) /\ BestProven(c, f) /\ LossProven(c, f)
  BY DEF Running
<1>3. m \in DOMAIN c.truth /\ f.count > 0 /\ Proven(v, -c.truth[m], f.alpha, f.beta)
  BY DEF Running, MadeProven
<1>4. ~c.draw /\ Candidates(c) # {} /\ c.truth[m] \in Int /\ T >= -c.truth[m]
  <2>1. ~c.draw /\ m \in Candidates(c)
    BY DEF Running, InMoves, MadeProven
  <2> QED BY <1>3, <2>1, TruthIs, CallIs, SizesAre DEF NodeValues
\* A win above alpha is proven, and below it was before.
<1>5. (v > f.alpha /\ IsWin(v)) => T >= v
  BY <1>1, <1>3, <1>4 DEF Proven
<1>6. (v > c.alpha /\ IsWin(v)) => T >= v
  <2>1. (v > c.alpha /\ IsWin(v) /\ v <= f.alpha) => T >= v
    BY <1>1, <1>2, SizesAre DEF InWindow, IsWin
  <2> QED BY <1>1, <1>5, <2>1
<1>7. (v < f.beta /\ IsLoss(v)) => -c.truth[m] <= v
  BY <1>3 DEF Proven
<1>8. InWindow(c, g)
  <2>1. CASE g.alpha = f.alpha
    BY <1>2, <2>1 DEF InWindow
  <2>2. CASE g.alpha = v /\ v >= f.alpha /\ v < f.beta
    BY <1>1, <1>2, <1>6, <2>2 DEF InWindow
  <2> QED BY <1>1, <2>1, <2>2 DEF Counts
<1>9. BestProven(c, g)
  <2>1. CASE g.bestValue = f.bestValue /\ g.bestMove = f.bestMove /\ g.alpha = f.alpha
    BY <1>2, <2>1 DEF BestProven
  <2>2. CASE g.bestValue = v /\ v > f.bestValue /\ v <= f.alpha /\ g.bestMove = f.bestMove /\ g.alpha = f.alpha
    BY <1>1, <1>2, <1>6, <2>2 DEF BestProven
  <2>3. CASE g.bestValue = v /\ Counts(c, f) /\ g.alpha \in {f.alpha, v}
    <3>1. v > c.alpha \/ (~Quiet(c) /\ ~IsWin(v))
      BY <1>1, <1>2, <2>3 DEF InWindow, Counts
    <3>2. v >= g.alpha
      BY <1>1, <2>3 DEF Counts
    <3> QED BY <1>2, <1>6, <2>3, <3>1, <3>2 DEF BestProven
  <2> QED BY <2>1, <2>2, <2>3
<1>10. LossProven(c, g)
  <2> SUFFICES ASSUME Whole(c), IsLoss(g.bestValue), g.bestValue < f.beta,
                      NEW n \in Candidates(c) \ (f.todo \cup {NoneMove})
               PROVE  -c.truth[n] <= g.bestValue
    BY DEF LossProven
  <2>n. c.truth[n] \in Int
    BY CallIs, SizesAre DEF NodeValues
  <2>g. g.bestValue \in Int /\ v <= g.bestValue /\ f.bestValue <= g.bestValue
    BY <1>1 DEF Counts
  <2>1. CASE n = m
    <3>1. v < f.beta /\ IsLoss(v)
      BY <1>1, <2>g, SizesAre DEF IsLoss
    <3> QED BY <1>1, <1>7, <2>1, <2>g, <2>n, <3>1
  <2>2. CASE n # m
    <3>1. f.bestValue < f.beta /\ IsLoss(f.bestValue)
      BY <1>1, <2>g, SizesAre DEF IsLoss
    <3>2. n \in Candidates(c) \ (f.todo \cup {f.move})
      BY <2>2
    <3>3. -c.truth[n] <= f.bestValue
      BY <1>2, <3>1, <3>2 DEF LossProven
    <3> QED BY <1>1, <2>g, <2>n, <3>3
  <2> QED BY <2>1, <2>2
<1>11. InMoves(c, g)
  <2>1. g.pc = "moves" \/ (g.pc = "end" /\ g.bestValue >= g.beta)
    OBVIOUS
  <2> QED BY <1>1, <1>3, <1>4, <2>1 DEF InMoves, BeforeMoves
<1>12. Standing(c, g)
  <2>1. (Quiet(c) /\ ~c.inCheck) => ~IsLoss(f.bestValue)
    BY DEF Running, Standing, BeforeMoves
  <2>2. f.bestValue <= g.bestValue /\ g.bestValue \in Int /\ g.pc \in {"moves", "end"}
    BY <1>1 DEF Counts
  <2>3. (Quiet(c) /\ ~c.inCheck) => ~IsLoss(g.bestValue)
    BY <1>1, <2>1, <2>2, SizesAre DEF IsLoss
  <2> QED BY <1>1, <1>3, <2>2, <2>3 DEF Standing
<1>13. MadeProven(c, g) /\ Undoing(g)
  <2>1. ~f.nmp /\ g.pc \in {"moves", "end"}
    BY DEF Running, Undoing
  <2> QED BY <2>1 DEF MadeProven, Undoing
<1>14. g.pc # "returned"
  OBVIOUS
<1> QED BY <1>8, <1>9, <1>10, <1>11, <1>12, <1>13, <1>14 DEF FrameInv, Running

\* The move is taken back on every way out.
LEMMA TakeBackInv ==
  ASSUME NodeInv, TakeBack
  PROVE  FrameInv(callee, frame')
<1> DEFINE c == callee
           T == TruthHere(callee)
           undone == [frame EXCEPT !.made = @ - 1, !.value = 0, !.move = NoneMove]
           v == frame.value
           m == frame.move
<1>1. /\ c \in NodeSetups /\ FrameType(c, frame) /\ Running(c, frame) /\ WriteProven(frame.written, c) /\ frame.pc = "made"
  BY AtStep DEF TakeBack, At
<1>2. IF stopped /\ ~Quiescence THEN Return(undone, 0)
      ELSE \E inc \in Increments :
             IF v + inc <= frame.bestValue THEN Goto(undone, "moves")
             ELSE IF v + inc <= frame.alpha THEN Goto([undone EXCEPT !.bestValue = v], "moves")
             ELSE IF v >= frame.beta THEN Goto([undone EXCEPT !.bestValue = v, !.bestMove = m], "end")
             ELSE Goto([undone EXCEPT !.bestValue = v, !.bestMove = m, !.alpha = v], "moves")
  BY DEF TakeBack
<1>3. /\ frame.made = 1 /\ ~frame.nmp /\ v \in Int /\ v \in -NodeInf .. NodeInf - 1 /\ m \in DOMAIN c.truth \cup {NoneMove}
      /\ frame.bestValue \in Int /\ frame.alpha \in Int /\ frame.beta \in Int
  <2>1. frame.made = 1 /\ ~frame.nmp /\ v \in NodeValues
    BY <1>1 DEF Running, Undoing, MadeProven
  <2>2. v \in Int /\ v \in -NodeInf .. NodeInf - 1
    BY <2>1, SizesAre DEF NodeValues
  <2> QED BY <1>1, <2>1, <2>2, FrameIs
<1>4. /\ FrameType(c, undone) /\ undone.made = 0 /\ undone.move = NoneMove /\ undone.written = frame.written
      /\ undone.nmp = frame.nmp /\ undone.beta = frame.beta /\ undone.alpha = frame.alpha /\ undone.maxValue = frame.maxValue
      /\ undone.count = frame.count /\ undone.todo = frame.todo /\ undone.bestValue = frame.bestValue
      /\ undone.bestMove = frame.bestMove
  <2> DEFINE h == [frame EXCEPT !.made = @ - 1]
             k == [h EXCEPT !.value = 0, !.move = NoneMove]
  <2>1. frame.made - 1 = 0 /\ frame.made - 1 \in Int
    BY <1>3
  <2>2. /\ FrameType(c, h) /\ h.made = 0 /\ h.written = frame.written
        /\ h.nmp = frame.nmp /\ h.beta = frame.beta /\ h.alpha = frame.alpha /\ h.maxValue = frame.maxValue
        /\ h.count = frame.count /\ h.todo = frame.todo /\ h.bestValue = frame.bestValue /\ h.bestMove = frame.bestMove
    BY <1>1, <2>1 DEF FrameType
  <2>3. undone = k
    BY <1>1 DEF FrameType
  <2> HIDE DEF h, undone
  <2>4. /\ FrameType(c, k) /\ k.made = 0 /\ k.move = NoneMove /\ k.written = frame.written
        /\ k.nmp = frame.nmp /\ k.beta = frame.beta /\ k.alpha = frame.alpha /\ k.maxValue = frame.maxValue
        /\ k.count = frame.count /\ k.todo = frame.todo /\ k.bestValue = frame.bestValue /\ k.bestMove = frame.bestMove
    BY <2>2 DEF FrameType
  <2> HIDE DEF k
  <2> QED BY <2>3, <2>4
<1> HIDE DEF undone
<1>5. CASE Return(undone, 0)
  <2>1. ~IsDecisive(0)
    BY SizesAre DEF IsDecisive, IsWin, IsLoss
  <2> QED BY <1>1, <1>3, <1>4, <1>5, <2>1, ReturnPlain, ReturnIs
<1> DEFINE to(h, pc) == [h EXCEPT !.pc = pc]
<1>6. "moves" \in Pcs /\ "end" \in Pcs
  BY DEF Pcs
<1>7. CASE v <= frame.bestValue /\ Goto(undone, "moves")
  <2> DEFINE g == to(undone, "moves")
  <2>1. /\ FrameType(c, g) /\ g.pc = "moves" /\ g.written = undone.written /\ g.beta = undone.beta /\ g.maxValue = undone.maxValue
        /\ g.count = undone.count /\ g.todo = undone.todo /\ g.move = NoneMove /\ g.made = 0 /\ g.nmp = undone.nmp
        /\ g.bestValue = undone.bestValue /\ g.bestMove = undone.bestMove /\ g.alpha = undone.alpha
    BY <1>4, <1>6 DEF FrameType
  <2>2. frame' = g
    BY <1>7 DEF Goto
  <2> HIDE DEF g
  <2>3. FrameInv(c, g)
    BY <1>1, <1>4, <1>7, <2>1, TakenBackInv
  <2> QED BY <2>2, <2>3
<1>8. CASE v > frame.bestValue /\ v <= frame.alpha /\ Goto([undone EXCEPT !.bestValue = v], "moves")
  <2> DEFINE h == [undone EXCEPT !.bestValue = v]
             g == to(h, "moves")
  <2>1. /\ FrameType(c, h) /\ h.written = undone.written /\ h.beta = undone.beta /\ h.maxValue = undone.maxValue
        /\ h.count = undone.count /\ h.todo = undone.todo /\ h.move = NoneMove /\ h.made = 0 /\ h.nmp = undone.nmp
        /\ h.bestValue = v /\ h.bestMove = undone.bestMove /\ h.alpha = undone.alpha
    BY <1>3, <1>4 DEF FrameType
  <2>2. frame' = g
    BY <1>8 DEF Goto
  <2> HIDE DEF h
  <2>3. /\ FrameType(c, g) /\ g.pc = "moves" /\ g.written = h.written /\ g.beta = h.beta /\ g.maxValue = h.maxValue
        /\ g.count = h.count /\ g.todo = h.todo /\ g.move = NoneMove /\ g.made = 0 /\ g.nmp = h.nmp
        /\ g.bestValue = v /\ g.bestMove = h.bestMove /\ g.alpha = h.alpha
    BY <1>6, <2>1 DEF FrameType
  <2> HIDE DEF g
  <2>4. FrameInv(c, g)
    BY <1>1, <1>4, <1>8, <2>1, <2>3, TakenBackInv
  <2> QED BY <2>2, <2>4
<1>9. CASE Counts(c, frame) /\ v >= frame.beta /\ Goto([undone EXCEPT !.bestValue = v, !.bestMove = m], "end")
  <2> DEFINE h == [undone EXCEPT !.bestValue = v, !.bestMove = m]
             g == to(h, "end")
  <2>1. /\ FrameType(c, h) /\ h.written = undone.written /\ h.beta = undone.beta /\ h.maxValue = undone.maxValue
        /\ h.count = undone.count /\ h.todo = undone.todo /\ h.move = NoneMove /\ h.made = 0 /\ h.nmp = undone.nmp
        /\ h.bestValue = v /\ h.bestMove = m /\ h.alpha = undone.alpha
    BY <1>3, <1>4 DEF FrameType
  <2>2. frame' = g
    BY <1>9 DEF Goto
  <2> HIDE DEF h
  <2>3. /\ FrameType(c, g) /\ g.pc = "end" /\ g.written = h.written /\ g.beta = h.beta /\ g.maxValue = h.maxValue
        /\ g.count = h.count /\ g.todo = h.todo /\ g.move = NoneMove /\ g.made = 0 /\ g.nmp = h.nmp
        /\ g.bestValue = v /\ g.bestMove = m /\ g.alpha = h.alpha
    BY <1>6, <2>1 DEF FrameType
  <2> HIDE DEF g
  <2>4. FrameInv(c, g)
    BY <1>1, <1>4, <1>9, <2>1, <2>3, TakenBackInv
  <2> QED BY <2>2, <2>4
<1>10. CASE /\ Counts(c, frame) /\ v < frame.beta
            /\ Goto([undone EXCEPT !.bestValue = v, !.bestMove = m, !.alpha = v], "moves")
  <2> DEFINE h == [undone EXCEPT !.bestValue = v, !.bestMove = m, !.alpha = v]
             g == to(h, "moves")
  <2>1. /\ FrameType(c, h) /\ h.written = undone.written /\ h.beta = undone.beta /\ h.maxValue = undone.maxValue
        /\ h.count = undone.count /\ h.todo = undone.todo /\ h.move = NoneMove /\ h.made = 0 /\ h.nmp = undone.nmp
        /\ h.bestValue = v /\ h.bestMove = m /\ h.alpha = v
    BY <1>3, <1>4 DEF FrameType
  <2>2. frame' = g
    BY <1>10 DEF Goto
  <2> HIDE DEF h
  <2>3. /\ FrameType(c, g) /\ g.pc = "moves" /\ g.written = h.written /\ g.beta = h.beta /\ g.maxValue = h.maxValue
        /\ g.count = h.count /\ g.todo = h.todo /\ g.move = NoneMove /\ g.made = 0 /\ g.nmp = h.nmp
        /\ g.bestValue = v /\ g.bestMove = m /\ g.alpha = v
    BY <1>6, <2>1 DEF FrameType
  <2> HIDE DEF g
  <2>4. FrameInv(c, g)
    BY <1>1, <1>4, <1>10, <2>1, <2>3, TakenBackInv
  <2> QED BY <2>2, <2>4
<1>11. CASE v = frame.bestValue /\ v + 1 <= frame.alpha /\ Goto([undone EXCEPT !.bestValue = v], "moves")
  <2>1. [undone EXCEPT !.bestValue = v] = undone
    BY <1>4, <1>11 DEF FrameType
  <2> QED BY <1>3, <1>7, <1>11, <2>1
<1>12. ASSUME NEW inc \in Increments,
              IF v + inc <= frame.bestValue THEN Goto(undone, "moves")
              ELSE IF v + inc <= frame.alpha THEN Goto([undone EXCEPT !.bestValue = v], "moves")
              ELSE IF v >= frame.beta THEN Goto([undone EXCEPT !.bestValue = v, !.bestMove = m], "end")
              ELSE Goto([undone EXCEPT !.bestValue = v, !.bestMove = m, !.alpha = v], "moves")
       PROVE  FrameInv(c, frame')
  <2> HIDE DEF to
  <2>1. inc = 0 \/ (inc = 1 /\ v = frame.bestValue /\ ~Quiet(c) /\ ~IsWin(v))
    <3>1. inc = 0 \/ (inc = 1 /\ v = frame.bestValue /\ ~Quiescence /\ ~IsWin(Larger(v, -v) + 1))
      BY DEF Increments
    <3>2. ~IsWin(Larger(v, -v) + 1) => ~IsWin(v)
      BY <1>3, SizesAre DEF Larger, IsWin
    <3> QED BY <3>1, <3>2, QuietIs
  <2>2. CASE inc = 0
    <3>1. v + inc = v
      BY <1>3, <2>2
    <3>2. v > frame.bestValue /\ v > frame.alpha => Counts(c, frame)
      BY <1>3 DEF Counts
    <3> QED BY <1>3, <1>7, <1>8, <1>9, <1>10, <1>12, <3>1, <3>2
  <2>3. CASE inc = 1 /\ v = frame.bestValue /\ ~Quiet(c) /\ ~IsWin(v)
    <3>1. ~(v + inc <= frame.bestValue)
      BY <1>3, <2>3
    <3>2. CASE v + 1 <= frame.alpha
      BY <1>11, <1>12, <2>3, <3>1, <3>2
    <3>3. CASE ~(v + 1 <= frame.alpha)
      <4>1. Counts(c, frame)
        BY <1>3, <2>3, <3>3 DEF Counts
      <4>2. v >= frame.beta \/ v < frame.beta
        BY <1>3
      <4> QED BY <1>9, <1>10, <1>12, <2>3, <3>1, <3>3, <4>1, <4>2
    <3> QED BY <3>2, <3>3
  <2> QED BY <2>1, <2>2, <2>3
<1> QED
  <2> HIDE DEF to
  <2> QED BY <1>2, <1>5, <1>12

\* After the last move.
LEMMA NoMoveLeftInv ==
  ASSUME NodeInv, NoMoveLeft
  PROVE  FrameInv(callee, frame')
<1>1. /\ callee \in NodeSetups /\ FrameType(callee, frame) /\ Running(callee, frame)
      /\ WriteProven(frame.written, callee) /\ frame.pc = "moves" /\ ~callee.draw
      /\ frame.todo \subseteq {callee.excluded}
      /\ Goto(frame, IF Quiescence THEN "qend" ELSE "end")
  BY AtStep DEF NoMoveLeft, At
<1>2. PICK pc \in {"qend", "end"} : Goto(frame, pc)
  BY <1>1
<1>3. (Quiet(callee) /\ ~callee.inCheck) => ~IsLoss(frame.bestValue)
  BY <1>1 DEF Running, Standing, BeforeMoves
<1>4. pc \in Pcs \ {"enter", "made", "verify", "returned"} /\ pc \notin BeforeMoves
  BY <1>2 DEF Pcs, BeforeMoves
<1> QED BY <1>1, <1>2, <1>3, <1>4, GotoInv, GotoIs

-----------------------------------------------------------------------------
(* The ends of the search *)

\* A losing best value that is below beta at the end is above the value of no move.
LEMMA AllBehind ==
  ASSUME NEW c \in NodeSetups, NEW f, FrameType(c, f), Running(c, f), f.pc \in {"end", "qend"}, Whole(c),
         IsLoss(f.bestValue), f.bestValue < f.beta, Candidates(c) # {}
  PROVE  /\ TruthHere(c) <= f.bestValue
         /\ \A m \in Candidates(c) : -c.truth[m] <= f.bestValue
<1>1. f.bestValue \in Int /\ f.beta \in Int /\ f.todo \subseteq DOMAIN c.truth /\ TruthHere(c) \in Int
  BY FrameIs, TruthIs
<1>2. f.todo \subseteq {NoneMove}
  BY <1>1 DEF Running, InMoves, Whole
<1>3. f.todo = {} /\ f.move = NoneMove /\ ~c.draw
  <2>1. NoneMove \notin DOMAIN c.truth
    BY CallIs
  <2> QED BY <1>1, <1>2, <2>1 DEF Running, MadeProven, InMoves
<1>4. \A m \in Candidates(c) : -c.truth[m] <= f.bestValue
  <2> TAKE m \in Candidates(c)
  <2>1. m \in Candidates(c) \ (f.todo \cup {f.move})
    BY <1>3, CallIs
  <2> QED BY <2>1 DEF Running, LossProven
<1>5. PICK m \in Candidates(c) : TruthHere(c) = -c.truth[m]
  BY <1>3, TruthIs
<1> QED BY <1>4, <1>5

\* Without a move behind it, a whole search is at mate or stalemate.
LEMMA NoMoves ==
  ASSUME NEW c \in NodeSetups, NEW f, FrameType(c, f), Running(c, f), f.pc \in {"end", "qend"}, Whole(c), f.count = 0
  PROVE  Candidates(c) = {} /\ TruthHere(c) = IF c.inCheck THEN mated_in(1) ELSE 0
<1>1. f.todo = Candidates(c) /\ f.todo \subseteq {NoneMove} /\ ~c.draw
  BY DEF Running, InMoves, Whole
<1>2. Candidates(c) = {}
  BY <1>1, CallIs
<1> QED BY <1>1, <1>2 DEF TruthHere, TruthAmong

\* A value that is proven where it wins above the caller's alpha, and where it loses below beta.
LEMMA EndsProven ==
  ASSUME NEW c \in NodeSetups, NEW f, FrameType(c, f), Running(c, f), NEW v \in Int,
         (IsWin(v) /\ v > c.alpha) => TruthHere(c) >= v,
         (IsLoss(v) /\ v < f.beta) => TruthHere(c) <= v
  PROVE  Proven(v, TruthHere(c), c.alpha, c.beta)
<1>1. f.beta \in Int /\ c.beta \in Int /\ InWindow(c, f)
  BY FrameIs, CallIs DEF Running
<1>2. (IsLoss(v) /\ v < c.beta) => v < f.beta
  BY <1>1, SizesAre DEF InWindow, IsLoss, mate_in
<1> QED BY <1>2 DEF Proven

\* Step 21: mate, stalemate, the mean of a fail high, the tablebases' upper bound, and what is written.
LEMMA EndSearchInv ==
  ASSUME NodeInv, EndSearch
  PROVE  FrameInv(callee, frame')
<1> DEFINE c == callee
           T == TruthHere(callee)
           means == IF frame.bestValue >= frame.beta /\ ~IsDecisive(frame.bestValue) /\ ~IsDecisive(frame.alpha)
                    THEN Smaller(frame.beta, frame.bestValue) .. frame.bestValue ELSE {frame.bestValue}
           found(adjusted) == IF frame.count > 0 THEN adjusted
                    ELSE IF callee.excluded # NoneMove THEN frame.alpha ELSE IF callee.inCheck THEN mated_in(1) ELSE 0
           value(x) == IF PvNode THEN Smaller(x, frame.maxValue) ELSE x
           bound(x) == IF x >= frame.beta THEN "lower" ELSE IF PvNode /\ frame.bestMove # NoneMove THEN "exact" ELSE "upper"
<1>1. /\ c \in NodeSetups /\ FrameType(c, frame) /\ Running(c, frame) /\ WriteProven(frame.written, c)
      /\ frame.pc = "end" /\ frame.made = 0 /\ ~frame.nmp
  BY AtStep DEF EndSearch, At
<1>2. /\ frame.alpha \in Int /\ frame.beta \in Int /\ T \in Int /\ c.alpha \in Int /\ c.beta \in Int
      /\ frame.bestValue \in Int /\ -NodeInf <= frame.bestValue /\ frame.bestValue < NodeInf /\ frame.count \in Nat
      /\ frame.maxValue \in {NodeInf, -NodeWin} /\ frame.bestMove \in DOMAIN c.truth \cup {NoneMove}
      /\ c.alpha < frame.beta /\ BestProven(c, frame)
      /\ -NodeInf <= c.alpha
  BY <1>1, FrameIs, CallIs, TruthIs DEF Running, InWindow
<1>3. PICK adjusted \in means :
       Return(IF callee.excluded # NoneMove \/ (RootNode /\ callee.skipped # {}) THEN frame
              ELSE Written(frame, value(found(adjusted)), bound(value(found(adjusted))), frame.bestMove), value(found(adjusted)))
  BY DEF EndSearch
<1> DEFINE x == found(adjusted)
           v == value(x)
           b == bound(v)
<1>4. /\ adjusted \in Int
      /\ adjusted = frame.bestValue \/ (adjusted >= frame.beta /\ ~IsWin(adjusted) /\ adjusted <= frame.bestValue)
  <2>1. CASE frame.bestValue >= frame.beta /\ ~IsDecisive(frame.bestValue) /\ ~IsDecisive(frame.alpha)
    <3>1. adjusted \in frame.beta .. frame.bestValue
      BY <1>2, <2>1 DEF Smaller
    <3> QED BY <1>2, <2>1, <3>1, SizesAre DEF IsDecisive, IsWin
  <2>2. CASE ~(frame.bestValue >= frame.beta /\ ~IsDecisive(frame.bestValue) /\ ~IsDecisive(frame.alpha))
    BY <1>2, <2>2
  <2> QED BY <2>1, <2>2
<1> HIDE DEF means
<1>5. x \in Int
  BY <1>2, <1>4, SizesAre DEF mated_in
<1>6. v \in Int
  BY <1>2, <1>5, SizesAre DEF Smaller
<1>7. CASE callee.excluded # NoneMove
  <2>1. Return(frame, v)
    BY <1>3, <1>7
  <2>2. ~Whole(c)
    BY <1>7 DEF Whole
  <2> HIDE DEF v
  <2> QED BY <1>1, <1>6, <2>1, <2>2, ReturnInv, ReturnIs
<1>8. CASE callee.excluded = NoneMove
  <2>2. Whole(c)
    BY <1>8 DEF Whole
  <2>3. frame.count = 0 => T = x
    <3>1. ASSUME frame.count = 0 PROVE T = IF c.inCheck THEN mated_in(1) ELSE 0
      BY <1>1, <2>2, <3>1, NoMoves
    <3> QED BY <1>8, <3>1
  \* What wins is the best value, or there is no move.
  <2>4. IsWin(v) => v = x /\ (frame.count = 0 \/ v = frame.bestValue)
    <3> SUFFICES ASSUME IsWin(v) PROVE v = x /\ (frame.count = 0 \/ v = frame.bestValue)
      OBVIOUS
    <3>1. frame.count # 0 => x = adjusted
      BY <1>2
    <3>2. x < NodeInf \/ v = x
      <4>1. frame.count # 0 => x < NodeInf
        BY <1>2, <1>4, <3>1, SizesAre
      <4>2. frame.count = 0 => x < NodeInf
        BY <1>8, SizesAre DEF mated_in
      <4> QED BY <4>1, <4>2
    <3>3. v = x
      <4> HIDE DEF x
      <4> QED BY <1>2, <1>5, <3>2, SizesAre DEF Smaller, IsWin
    <3> HIDE DEF x, v
    <3>4. frame.count # 0 => v = frame.bestValue
      BY <1>4, <3>1, <3>3
    <3> QED BY <3>3, <3>4
  <2>5. (IsWin(v) /\ v > c.alpha) => T >= v
    <3> HIDE DEF x, v
    <3> QED BY <1>2, <2>3, <2>4 DEF BestProven
  \* What loses below beta is the tablebases' bound, the best value, or mate.
  <2>6. (IsLoss(v) /\ v < frame.beta) => T <= v
    <3> SUFFICES ASSUME IsLoss(v), v < frame.beta PROVE T <= v
      OBVIOUS
    <3>1. CASE v # x
      <4>1. v = -NodeWin /\ frame.maxValue = -NodeWin
        <5> HIDE DEF x
        <5> QED BY <1>2, <1>5, <3>1, SizesAre DEF Smaller, IsLoss
      <4> QED BY <1>2, <4>1 DEF BestProven
    <3>2. CASE v = x /\ frame.count = 0
      <4> HIDE DEF x, v
      <4> QED BY <1>2, <2>3, <3>2
    <3>3. CASE v = x /\ frame.count # 0
      <4>1. v = adjusted
        BY <1>2, <3>3
      <4>2. v = frame.bestValue
        <5> HIDE DEF v, x
        <5> QED BY <1>2, <1>4, <1>6, <4>1
      <4>3. Candidates(c) # {}
        BY <1>1, <1>2, <3>3 DEF Running, InMoves
      <4> HIDE DEF v, x
      <4>4. frame.pc \in {"end", "qend"} /\ IsLoss(frame.bestValue) /\ frame.bestValue < frame.beta
        BY <1>1, <4>2
      <4> QED BY <1>1, <2>2, <4>2, <4>3, <4>4, AllBehind
    <3> QED BY <3>1, <3>2, <3>3
  <2>7. Proven(v, T, c.alpha, c.beta)
    <3> HIDE DEF v
    <3> QED BY <1>1, <1>6, <2>5, <2>6, EndsProven
  <2>8. (b \in LowerBounds /\ IsWin(v)) => T >= v
    <3> SUFFICES ASSUME b \in LowerBounds, IsWin(v) PROVE T >= v
      OBVIOUS
    <3>1. CASE v >= frame.beta
      <4> HIDE DEF v, b
      <4> QED BY <1>2, <1>6, <2>5, <3>1
    <3>2. CASE ~(v >= frame.beta)
      <4>1. frame.bestMove # NoneMove
        <5> HIDE DEF v
        <5> QED BY <3>2 DEF LowerBounds
      <4> HIDE DEF v, b, x
      <4>2. frame.bestValue > c.alpha \/ ~IsWin(frame.bestValue)
        BY <1>2, <4>1 DEF BestProven
      <4> QED BY <1>2, <2>3, <2>4, <2>5, <4>2
    <3> QED BY <3>1, <3>2
  <2>9. (b \in UpperBounds /\ IsLoss(v)) => T <= v
    <3>1. b \in UpperBounds => ~(v >= frame.beta)
      <4> HIDE DEF v
      <4> QED BY DEF UpperBounds
    <3> HIDE DEF v, b
    <3> QED BY <1>2, <1>6, <2>6, <3>1
  <2>10. b \in Bounds
    BY DEF Bounds
  \* A later line of the root writes nothing.
  <2>11. CASE RootNode /\ callee.skipped # {}
    <3>1. Return(frame, v)
      BY <1>3, <2>11
    <3> HIDE DEF v
    <3> QED BY <1>1, <1>6, <2>7, <3>1, ReturnInv, ReturnIs
  \* What another call writes is proven for all moves that are not barred.
  <2>12. CASE ~(RootNode /\ callee.skipped # {})
    <3>1. Return(Written(frame, v, b, frame.bestMove), v)
      BY <1>3, <1>8, <2>12
    <3>2. callee.skipped = {}
      BY <1>1, <2>12, CallIs DEF RootNode
    <3>3. TruthOf(c) \in Int /\ TruthOf(c) >= T /\ TruthAllowed(c) = T
      BY <1>1, <3>2, TruthsAre
    <3> HIDE DEF v, b
    <3>4. (b \in LowerBounds /\ IsWin(v)) => TruthOf(c) >= v
      BY <1>2, <1>6, <2>8, <3>3
    <3>5. (b \in UpperBounds /\ IsLoss(v)) => TruthAllowed(c) <= v
      BY <2>9, <3>3
    <3> QED BY <1>1, <1>2, <1>6, <2>7, <2>10, <3>1, <3>4, <3>5, WriteAndReturn, ReturnIs
  <2> QED BY <2>11, <2>12
<1> QED BY <1>7, <1>8

\* The same for the quiescence search.
LEMMA EndQuiescenceInv ==
  ASSUME NodeInv, EndQuiescence
  PROVE  FrameInv(callee, frame')
<1> DEFINE c == callee
           T == TruthHere(callee)
<1>1. /\ c \in NodeSetups /\ FrameType(c, frame) /\ Running(c, frame) /\ WriteProven(frame.written, c)
      /\ frame.pc \in {"qend", "end"} /\ frame.made = 0 /\ ~frame.nmp /\ Quiet(c)
  BY AtStep, QuietIs DEF EndQuiescence
<1>2. /\ frame.alpha \in Int /\ frame.beta \in Int /\ T \in Int /\ c.alpha \in Int /\ c.beta \in Int
      /\ frame.bestValue \in Int /\ frame.count \in Nat /\ frame.bestMove \in DOMAIN c.truth \cup {NoneMove}
      /\ c.alpha < frame.beta /\ BestProven(c, frame) /\ -NodeInf < frame.beta
  BY <1>1, FrameIs, CallIs, TruthIs, SizesAre DEF Running, InWindow
<1>3. Whole(c)
  BY <1>1, CallIs DEF Quiet, Whole
<1>4. /\ frame.count > 0 => Candidates(c) # {}
      /\ Candidates(c) = DOMAIN c.truth /\ TruthOf(c) = T /\ TruthAllowed(c) = T
  <2>1. c.kind # "root" /\ c.skipped = {}
    BY <1>1, CallIs DEF Quiet
  <2> QED BY <1>1, <2>1, TruthsAre DEF Running, InMoves
<1>5. CASE callee.inCheck /\ frame.bestValue = -NodeInf
  <2>1. Return(frame, mated_in(1))
    BY <1>5 DEF EndQuiescence
  <2>2. Candidates(c) = {}
    <3> SUFFICES ASSUME Candidates(c) # {} PROVE FALSE
      OBVIOUS
    <3>1. IsLoss(frame.bestValue) /\ frame.bestValue < frame.beta
      BY <1>2, <1>5, SizesAre DEF IsLoss
    <3>2. \A m \in Candidates(c) : -c.truth[m] <= -NodeInf
      BY <1>1, <1>3, <1>5, <3>1, AllBehind
    <3>3. PICK m \in Candidates(c) : TRUE
      OBVIOUS
    <3>4. c.truth[m] \in NodeValues /\ -c.truth[m] <= -NodeInf
      BY <1>1, <3>2, <3>3, CallIs
    <3> QED BY <3>4, SizesAre DEF NodeValues
  <2>3. T = mated_in(1)
    <3>1. frame.count = 0
      BY <1>2, <1>4, <2>2
    <3> QED BY <1>1, <1>3, <1>5, <3>1, NoMoves
  <2>4. mated_in(1) \in Int /\ Proven(mated_in(1), T, c.alpha, c.beta)
    BY <2>3, SizesAre DEF mated_in, Proven
  <2> QED BY <1>1, <2>1, <2>4, ReturnInv, ReturnIs
<1>6. CASE ~(callee.inCheck /\ frame.bestValue = -NodeInf)
  <2>1. PICK mean \in IF ~IsDecisive(frame.bestValue) /\ frame.bestValue > frame.beta
                      THEN frame.beta .. frame.bestValue ELSE {frame.bestValue} :
            \E bestValue \in IF Moves = {} /\ ~callee.inCheck THEN {mean, 0} ELSE {mean} :
              Return(Written(frame, bestValue, IF bestValue >= frame.beta THEN "lower" ELSE "upper", frame.bestMove), bestValue)
    BY <1>6 DEF EndQuiescence
  <2>2. PICK v \in IF Moves = {} /\ ~callee.inCheck THEN {mean, 0} ELSE {mean} :
              Return(Written(frame, v, IF v >= frame.beta THEN "lower" ELSE "upper", frame.bestMove), v)
    BY <2>1
  <2>3. /\ mean \in Int
        /\ mean = frame.bestValue \/ (mean >= frame.beta /\ ~IsWin(mean))
    <3>1. CASE ~IsDecisive(frame.bestValue) /\ frame.bestValue > frame.beta
      <4>1. mean \in frame.beta .. frame.bestValue
        BY <2>1, <3>1
      <4> QED BY <1>2, <3>1, <4>1, SizesAre DEF IsDecisive, IsWin
    <3>2. CASE ~(~IsDecisive(frame.bestValue) /\ frame.bestValue > frame.beta)
      BY <1>2, <2>1, <3>2
    <3> QED BY <3>1, <3>2
  <2>4. v \in Int /\ (v = frame.bestValue \/ (v >= frame.beta /\ ~IsWin(v)) \/ v = 0)
    BY <2>2, <2>3
  <2>5. ~IsWin(0) /\ ~IsLoss(0)
    BY SizesAre DEF IsWin, IsLoss
  <2>6. (IsWin(v) /\ v > c.alpha) => T >= v
    BY <1>2, <2>4, <2>5 DEF BestProven
  <2>7. (IsLoss(v) /\ v < frame.beta) => T <= v
    <3> SUFFICES ASSUME IsLoss(v), v < frame.beta PROVE T <= v
      OBVIOUS
    <3>1. v = frame.bestValue
      BY <1>2, <2>4, <2>5
    <3>2. Candidates(c) # {}
      <4> SUFFICES ASSUME frame.count = 0 PROVE FALSE
        BY <1>2, <1>4
      <4>1. c.inCheck
        BY <1>1, <3>1 DEF Running, Standing, BeforeMoves
      <4>2. frame.bestValue = -NodeInf
        BY <1>1, <4>1 DEF Running, Standing
      <4> QED BY <1>6, <4>1, <4>2
    <3> QED BY <1>1, <1>3, <3>1, <3>2, AllBehind
  <2>8. Proven(v, T, c.alpha, c.beta)
    BY <1>1, <2>4, <2>6, <2>7, EndsProven
  <2> DEFINE b == IF v >= frame.beta THEN "lower" ELSE "upper"
  <2>9. (b \in LowerBounds /\ IsWin(v)) => T >= v
    <3>1. b \in LowerBounds => v >= frame.beta
      BY DEF LowerBounds
    <3> HIDE DEF b
    <3> QED BY <1>2, <2>4, <2>6, <3>1
  <2>10. (b \in UpperBounds /\ IsLoss(v)) => T <= v
    <3>1. b \in UpperBounds => ~(v >= frame.beta)
      BY DEF UpperBounds
    <3> HIDE DEF b
    <3> QED BY <1>2, <2>4, <2>7, <3>1
  <2>11. b \in Bounds
    BY DEF Bounds
  <2>12. frame' = Returning(Written(frame, v, b, frame.bestMove), v)
    BY <2>2, ReturnIs
  <2> HIDE DEF b
  <2> QED BY <1>1, <1>2, <1>4, <2>4, <2>8, <2>9, <2>10, <2>11, <2>12, WriteAndReturn
<1> QED BY <1>5, <1>6

-----------------------------------------------------------------------------
(* The theorem *)

\* Every step of a call keeps the invariant.
LEMMA NextInv ==
  ASSUME NodeInv, [NodeNext]_nodeVars
  PROVE  NodeInv'
<1>1. ASSUME Kept, FrameInv(callee, frame') PROVE NodeInv'
  <2>1. callee' = callee /\ stopped' = stopped
    BY <1>1 DEF Kept
  <2>2. FrameInv(callee', frame')
    BY <1>1, <2>1
  <2>3. callee' \in NodeSetups /\ EntryProven(callee'.entry, TruthOf(callee')) /\ stopped' \in BOOLEAN
    BY <2>1 DEF NodeInv
  <2> QED BY <2>2, <2>3 DEF NodeInv
<1>2. CASE Enter
  BY <1>1, <1>2, EnterInv DEF Enter
<1>3. CASE TTCutoff
  BY <1>1, <1>3, TTCutoffInv DEF TTCutoff
<1>4. CASE TBProbe
  BY <1>1, <1>4, TBProbeInv DEF TBProbe
<1>5. CASE Razoring
  BY <1>1, <1>5, RazoringInv DEF Razoring
<1>6. CASE FutilityPruning
  BY <1>1, <1>6, FutilityPruningInv DEF FutilityPruning
<1>7. CASE NullMove
  BY <1>1, <1>7, NullMoveInv DEF NullMove
<1>8. CASE VerifyNull
  BY <1>1, <1>8, VerifyNullInv DEF VerifyNull
<1>9. CASE NoPruning
  BY <1>1, <1>9, NoPruningInv DEF NoPruning
<1>10. CASE ProbCut
  BY <1>1, <1>10, ProbCutInv DEF ProbCut
<1>11. CASE NoProbCut
  BY <1>1, <1>11, NoProbCutInv DEF NoProbCut
<1>12. CASE SmallProbCut
  BY <1>1, <1>12, SmallProbCutInv DEF SmallProbCut
<1>13. CASE TakeBack
  BY <1>1, <1>13, TakeBackInv DEF TakeBack
<1>14. CASE NoMoveLeft
  BY <1>1, <1>14, NoMoveLeftInv DEF NoMoveLeft
<1>15. CASE EndSearch
  BY <1>1, <1>15, EndSearchInv DEF EndSearch
<1>16. CASE StandPat
  BY <1>1, <1>16, StandPatInv DEF StandPat
<1>17. CASE EndQuiescence
  BY <1>1, <1>17, EndQuiescenceInv DEF EndQuiescence
<1>18. CASE StopRaised
  BY <1>18 DEF StopRaised, NodeInv
<1>19. ASSUME NEW m \in Moves, PruneMove(m) \/ PruneCapture(m) \/ SingularExtension(m) \/ MakeMove(m) PROVE NodeInv'
  <2>1. Kept
    BY <1>19 DEF PruneMove, PruneCapture, SingularExtension, MakeMove, Turn
  <2> QED BY <1>1, <1>19, <2>1, PruneMoveInv, PruneCaptureInv, SingularExtensionInv, MakeMoveInv
<1>20. CASE UNCHANGED nodeVars
  BY <1>20 DEF nodeVars, NodeInv
<1> QED
  BY <1>2, <1>3, <1>4, <1>5, <1>6, <1>7, <1>8, <1>9, <1>10, <1>11, <1>12, <1>13, <1>14, <1>15, <1>16, <1>17, <1>18, <1>19, <1>20
     DEF NodeNext

\* A search only prunes what it may prune, and unwinds all it has done on every one of its
\* ways out: the decisive values that search and qsearch return or write are proven,
\* whatever the window, the entry, the margins and the stop.
THEOREM DecisiveValuesProven == NodeSpec => []ValuesProven
<1>1. NodeInv => ValuesProven
  <2> SUFFICES ASSUME NodeInv PROVE ValuesProven
    OBVIOUS
  <2>1. FrameInv(callee, frame)
    BY DEF NodeInv
  <2>2. WriteProven(frame.written, callee) /\ (frame.pc = "returned" => Returned(callee, frame))
    BY <2>1 DEF FrameInv
  <2> QED BY <2>2 DEF ValuesProven, DecisiveIsProven, LeavesAsFound, At, Returned, Whole
<1> QED BY <1>1, InitInv, NextInv, PTL DEF NodeSpec

-----------------------------------------------------------------------------
(* Numbers, functions that are defined step by step, and sorting.          *)

\* What Max and Min choose, of numbers that are bounded.
LEMMA MaxChooses ==
  ASSUME NEW T, T \subseteq Int, NEW x \in T, \A y \in T : y <= x
  PROVE  Max(T) = x
<1>1. x \in T /\ \A y \in T : x >= y
  OBVIOUS
<1>2. Max(T) \in T /\ \A y \in T : Max(T) >= y
  BY <1>1 DEF Max
<1>3. Max(T) \in Int /\ x \in Int /\ Max(T) <= x /\ x <= Max(T)
  BY <1>1, <1>2
<1>4. QED
  BY <1>3

LEMMA MaxExists ==
  ASSUME NEW T, T \subseteq Int, T # {}, NEW b \in Int, \A y \in T : y <= b
  PROVE  Max(T) \in T /\ \A y \in T : y <= Max(T)
<1> DEFINE D == {b - y : y \in T}
<1>0. PICK y0 \in T : TRUE
  OBVIOUS
<1>1. D \subseteq Nat /\ D # {}
  <2>1. b - y0 \in D
    BY <1>0
  <2>2. ASSUME NEW d \in D PROVE d \in Nat
    OBVIOUS
  <2>3. QED
    BY <2>1, <2>2
<1>2. PICK d \in D : \A e \in D : d <= e
  <2> HIDE DEF D
  <2> QED BY <1>1, LeastNumber
<1>3. PICK x \in T : d = b - x
  OBVIOUS
<1>4. \A y \in T : b - x <= b - y
  BY <1>2, <1>3
<1>5. \A y \in T : y <= x
  BY <1>3, <1>4
<1>6. Max(T) = x
  BY <1>5, MaxChooses
<1>7. QED
  BY <1>5, <1>6

LEMMA MinExists ==
  ASSUME NEW T, T \subseteq Nat, T # {}
  PROVE  Min(T) \in T /\ \A y \in T : Min(T) <= y
<1>1. PICK x \in T : \A y \in T : x <= y
  BY LeastNumber
<1>2. QED
  BY <1>1 DEF Min

\* A function defined from each place to the next exists.
StepsFrom(s0, F, n, g) == g = [k \in 0 .. n |-> IF k = 0 THEN s0 ELSE F[<<k, g[k - 1]>>]]

LEMMA Iterates ==
  ASSUME NEW S, NEW s0 \in S, NEW n \in Nat, NEW F, F \in [(1 .. n) \X S -> S]
  PROVE  \E g \in [0 .. n -> S] : StepsFrom(s0, F, n, g)
<1> DEFINE runs(m, g) == g \in [0 .. m -> S] /\ g[0] = s0 /\ \A k \in 1 .. m : g[k] = F[<<k, g[k - 1]>>]
           Bad == {m \in 0 .. n : ~ \E g : runs(m, g)}
<1>1. SUFFICES Bad = {}
  <2>1. PICK g : runs(n, g)
    BY <1>1
  <2>2. g \in [0 .. n -> S] /\ g = [k \in 0 .. n |-> IF k = 0 THEN s0 ELSE F[<<k, g[k - 1]>>]]
    BY <2>1
  <2>3. QED
    BY <2>2 DEF StepsFrom
<1>2. SUFFICES ASSUME Bad # {} PROVE FALSE
  OBVIOUS
<1>3. PICK m \in Bad : \A y \in Bad : m <= y
  <2>1. Bad \subseteq Nat
    OBVIOUS
  <2> HIDE DEF Bad
  <2> QED BY <1>2, <2>1, LeastNumber
<1>4. m \in 0 .. n /\ ~ \E g : runs(m, g)
  OBVIOUS
<1>5. CASE m = 0
  <2>1. runs(0, [k \in 0 .. 0 |-> s0])
    OBVIOUS
  <2>2. QED
    BY <1>4, <1>5, <2>1
<1>6. CASE m # 0
  <2>1. m - 1 \in 0 .. n /\ m - 1 \notin Bad
    <3>1. m - 1 \in 0 .. n /\ ~(m <= m - 1)
      BY <1>4, <1>6
    <3>2. QED
      BY <1>3, <3>1
  <2>2. PICK g : runs(m - 1, g)
    BY <2>1
  <2> DEFINE h == [k \in 0 .. m |-> IF k = m THEN F[<<m, g[m - 1]>>] ELSE g[k]]
  <2>3. m \in 1 .. n /\ g[m - 1] \in S
    BY <1>4, <1>6, <2>2
  <2>4. F[<<m, g[m - 1]>>] \in S
    BY <2>3
  <2>5. h \in [0 .. m -> S]
    BY <2>2, <2>3, <2>4
  <2>6. h[0] = s0
    BY <2>2, <2>3
  <2>7. ASSUME NEW k \in 1 .. m PROVE h[k] = F[<<k, h[k - 1]>>]
    <3>1. k - 1 \in 0 .. m /\ k - 1 # m /\ k \in 0 .. m /\ m \in 0 .. m
      BY <2>3
    <3>2. h[k - 1] = g[k - 1]
      BY <3>1
    <3>3. CASE k = m
      BY <3>1, <3>2, <3>3
    <3>4. CASE k # m
      <4>1. k \in 1 .. m - 1 /\ h[k] = g[k]
        BY <3>1, <3>4, <2>3
      <4>2. g[k] = F[<<k, g[k - 1]>>]
        BY <2>2, <4>1
      <4>3. QED
        BY <3>2, <4>1, <4>2
    <3>5. QED
      BY <3>3, <3>4
  <2>8. runs(m, h)
    BY <2>5, <2>6, <2>7
  <2>9. QED
    BY <1>4, <2>8
<1>7. QED
  BY <1>5, <1>6

\* The order of the sort is a strict total order of the places.
LEMMA StablyOrders ==
  ASSUME NEW first \in Int, NEW last \in Int, NEW rows,
         \A i \in first .. last : rows[i].score \in Int /\ rows[i].previousScore \in Int,
         NEW i \in first .. last, NEW j \in first .. last, NEW k \in first .. last
  PROVE  /\ ~StablyBefore(rows, i, i)
         /\ StablyBefore(rows, i, j) => ~StablyBefore(rows, j, i)
         /\ i # j => StablyBefore(rows, i, j) \/ StablyBefore(rows, j, i)
         /\ StablyBefore(rows, i, j) /\ StablyBefore(rows, j, k) => StablyBefore(rows, i, k)
  BY DEF StablyBefore, Before

\* Of finite sets of the same size an injection is a surjection.
LEMMA InjectionsCover ==
  ASSUME NEW a \in Int, NEW b \in Int, NEW f \in [a .. b -> a .. b],
         \A i, j \in a .. b : f[i] = f[j] => i = j
  PROVE  \A m \in a .. b : \E i \in a .. b : f[i] = m
<1>1. IsFiniteSet(a .. b)
  BY FS_Interval
<1>2. f \in Injection(a .. b, a .. b)
  BY DEF Injection, IsInjective
<1>3. f \in Surjection(a .. b, a .. b)
  BY <1>1, <1>2, FS_Injection
<1>4. QED
  BY <1>3 DEF Surjection

\* A sort exists: the places of the rows are how many are stably before each.
LEMMA SortOrderExists ==
  ASSUME NEW first \in Int, NEW last \in Int, NEW rows,
         \A i \in first .. last : rows[i].score \in Int /\ rows[i].previousScore \in Int
  PROVE  \E p \in [first .. last -> first .. last] :
           \A i, j \in first .. last : i < j => StablyBefore(rows, p[i], p[j])
<1> DEFINE I == first .. last
           Ahead(i) == {j \in I : StablyBefore(rows, j, i)}
           place == [i \in I |-> first + Cardinality(Ahead(i))]
<1>1. IsFiniteSet(I)
  BY FS_Interval
<1>2. ASSUME NEW i \in I
      PROVE  IsFiniteSet(Ahead(i)) /\ Cardinality(Ahead(i)) \in Nat /\ place[i] \in I
  <2>1. Ahead(i) \in SUBSET I /\ i \in I /\ i \notin Ahead(i)
    BY StablyOrders
  <2>2. IsFiniteSet(Ahead(i)) /\ Cardinality(Ahead(i)) <= Cardinality(I) /\ Cardinality(I) # Cardinality(Ahead(i))
    <3> HIDE DEF Ahead, I
    <3> QED BY <1>1, <2>1, FS_Subset
  <2>3. Cardinality(Ahead(i)) \in Nat
    BY <2>2, FS_CardinalityType
  <2>4. Cardinality(I) = last - first + 1
    BY FS_Interval
  <2>5. place[i] = first + Cardinality(Ahead(i))
    OBVIOUS
  <2>6. QED
    <3> HIDE DEF Ahead, place
    <3> QED BY <2>2, <2>3, <2>4, <2>5
<1>3. ASSUME NEW i \in I, NEW j \in I, StablyBefore(rows, i, j)
      PROVE  place[i] < place[j]
  <2>1. Ahead(i) \in SUBSET Ahead(j)
    <3>1. ASSUME NEW k \in I, StablyBefore(rows, k, i) PROVE StablyBefore(rows, k, j)
      BY <1>3, <3>1, StablyOrders
    <3>2. QED
      BY <3>1
  <2>2. i \in Ahead(j) /\ i \notin Ahead(i)
    BY <1>3, StablyOrders
  <2>3. IsFiniteSet(Ahead(i)) /\ IsFiniteSet(Ahead(j)) /\ Cardinality(Ahead(i)) \in Nat /\ Cardinality(Ahead(j)) \in Nat
    BY <1>2
  <2>4. Cardinality(Ahead(i)) <= Cardinality(Ahead(j)) /\ Cardinality(Ahead(i)) # Cardinality(Ahead(j))
    <3> HIDE DEF Ahead
    <3> QED BY <2>1, <2>2, <2>3, FS_Subset
  <2>5. place[i] = first + Cardinality(Ahead(i)) /\ place[j] = first + Cardinality(Ahead(j))
    OBVIOUS
  <2>6. QED
    <3> HIDE DEF Ahead, place
    <3> QED BY <2>3, <2>4, <2>5
<1>4. place \in [I -> I]
  <2> DOMAIN place = I /\ place = [i \in I |-> place[i]]
    OBVIOUS
  <2> QED BY <1>2
<1> HIDE DEF place, Ahead
<1>5. ASSUME NEW i \in I, NEW j \in I, place[i] = place[j] PROVE i = j
  <2>1. SUFFICES ASSUME i # j PROVE FALSE
    OBVIOUS
  <2>2. StablyBefore(rows, i, j) \/ StablyBefore(rows, j, i)
    BY <2>1, StablyOrders
  <2>3. place[i] \in Int /\ place[j] \in Int
    BY <1>4
  <2>4. QED
    BY <1>3, <1>5, <2>2, <2>3
<1>6. \A m \in I : \E i \in I : place[i] = m
  BY <1>4, <1>5, InjectionsCover
<1> DEFINE p == [m \in I |-> CHOOSE i \in I : place[i] = m]
<1>7. ASSUME NEW m \in I PROVE p[m] \in I /\ place[p[m]] = m
  BY <1>6
<1>8. p \in [I -> I]
  BY <1>7
<1> HIDE DEF p
<1>9. ASSUME NEW i \in I, NEW j \in I, i < j PROVE StablyBefore(rows, p[i], p[j])
  <2>1. p[i] \in I /\ p[j] \in I /\ place[p[i]] = i /\ place[p[j]] = j
    BY <1>7
  <2>2. p[i] # p[j] /\ ~(place[p[j]] < place[p[i]])
    BY <1>9, <2>1
  <2>3. StablyBefore(rows, p[i], p[j]) \/ StablyBefore(rows, p[j], p[i])
    BY <2>1, <2>2, StablyOrders
  <2>4. QED
    BY <1>3, <2>1, <2>2, <2>3
<1>10. QED
  BY <1>8, <1>9

\* The sort of a part leaves the rest, permutes the part, and leaves its scores descending.
LEMMA SortSorts ==
  ASSUME NEW first \in Int, NEW last \in Int, NEW n \in Nat, NEW rows, DOMAIN rows = 1 .. n,
         1 <= first, last <= n,
         \A i \in 1 .. n : rows[i].score \in Int /\ rows[i].previousScore \in Int
  PROVE  \E p \in [first .. last -> first .. last] :
           /\ DOMAIN stable_sort(rows, first, last) = 1 .. n
           /\ \A i \in 1 .. n : i \notin first .. last => stable_sort(rows, first, last)[i] = rows[i]
           /\ \A i \in first .. last : stable_sort(rows, first, last)[i] = rows[p[i]]
           /\ \A m \in first .. last : \E i \in first .. last : p[i] = m
           /\ \A i, j \in first .. last :
                i < j => stable_sort(rows, first, last)[i].score >= stable_sort(rows, first, last)[j].score
<1> DEFINE p == SortOrder(rows, first, last)  sorted == stable_sort(rows, first, last)
<1>1. first .. last \subseteq 1 .. n
  OBVIOUS
<1>2. \A i \in first .. last : rows[i].score \in Int /\ rows[i].previousScore \in Int
  BY <1>1
<1>3. /\ p \in [first .. last -> first .. last]
      /\ \A i, j \in first .. last : i < j => StablyBefore(rows, p[i], p[j])
  BY <1>2, SortOrderExists DEF SortOrder
<1>4. sorted = [i \in 1 .. n |-> IF i \in first .. last THEN rows[p[i]] ELSE rows[i]]
  BY DEF stable_sort
<1> HIDE DEF p, sorted
<1>5. \A i, j \in first .. last : p[i] = p[j] => i = j
  <2> SUFFICES ASSUME NEW i \in first .. last, NEW j \in first .. last, p[i] = p[j], i # j PROVE FALSE
    OBVIOUS
  <2>1. i < j \/ j < i
    OBVIOUS
  <2>2. p[i] \in first .. last /\ StablyBefore(rows, p[i], p[i])
    BY <1>3, <2>1
  <2>3. QED
    BY <1>2, <2>2, StablyOrders
<1>6. \A m \in first .. last : \E i \in first .. last : p[i] = m
  BY <1>3, <1>5, InjectionsCover
<1>7. ASSUME NEW i \in first .. last, NEW j \in first .. last, i < j
      PROVE  sorted[i].score >= sorted[j].score
  <2>1. StablyBefore(rows, p[i], p[j]) /\ p[i] \in first .. last /\ p[j] \in first .. last
    BY <1>3, <1>7
  <2>2. sorted[i] = rows[p[i]] /\ sorted[j] = rows[p[j]]
    BY <1>1, <1>4
  <2>3. rows[p[i]].score \in Int /\ rows[p[j]].score \in Int
    BY <1>2, <2>1
  <2>4. rows[p[i]].score >= rows[p[j]].score
    BY <1>2, <2>1, <2>3 DEF StablyBefore, Before
  <2>5. QED
    BY <2>2, <2>4
<1>8. /\ DOMAIN sorted = 1 .. n
      /\ \A i \in 1 .. n : i \notin first .. last => sorted[i] = rows[i]
      /\ \A i \in first .. last : sorted[i] = rows[p[i]]
  BY <1>1, <1>4
<1>9. QED
  BY <1>3, <1>6, <1>7, <1>8 DEF sorted

-----------------------------------------------------------------------------
(* The shape of a worker.                                                  *)

RowOf(s) == [move : ToSet(s.moves) \cup {NoMove}, score : -Inf .. Inf, previousScore : -Inf .. Inf, exact : BOOLEAN,
             averaged : BOOLEAN]
RowsOf(s) == [1 .. Len(s.moves) -> RowOf(s)]
FoundBy(s) == [move : ToSet(s.moves) \cup {NoMove}, score : -Inf .. Inf]
WorkersOf(s) ==
  [pc : {"iterate", "search", "line", "end", "done"}, rootDepth : Nat, completedDepth : Nat, rootMoves : RowsOf(s),
   pvIdx : Int, pvFirst : Int, pvLast : Int, alpha : -Inf .. Inf, beta : -Inf .. Inf, delta : Nat,
   lastBest : FoundBy(s), results : Seq(FoundBy(s))]

\* What the window of a line may be laid around.
AnyAverage == setup.values \cup {-Inf}
RankAt(s, i) == s.rank[s.moves[i]]

\* The rows are the moves, each on a place of its own rank.
Shuffled(s, rows) ==
  /\ \A i \in 1 .. Len(s.moves) : rows[i].move \in ToSet(s.moves) /\ s.rank[rows[i].move] = RankAt(s, i)
  /\ \A m \in ToSet(s.moves) : \E i \in 1 .. Len(s.moves) : rows[i].move = m

\* The places first .. last are all those of one rank.
Block(s, first, last) ==
  /\ 1 <= first /\ first <= last /\ last <= Len(s.moves)
  /\ \A i \in first .. last : RankAt(s, i) = RankAt(s, first)
  /\ first > 1 => RankAt(s, first - 1) # RankAt(s, first)
  /\ last < Len(s.moves) => RankAt(s, last + 1) # RankAt(s, first)

Placed(s, w) ==
  /\ Block(s, w.pvFirst, w.pvLast)
  /\ w.pvFirst <= w.pvIdx /\ w.pvIdx <= w.pvLast /\ w.pvIdx <= s.multiPV
OpenWindow(w) == w.alpha < w.beta /\ w.delta > 0

\* The first k rows have exact scores, and those of a rank are sorted.
ExactTo(rows, k) == \A i \in 1 .. k : rows[i].score # -Inf /\ rows[i].exact
SortedTo(s, rows, k) ==
  \A i, j \in 1 .. k : j <= i /\ RankAt(s, i) = RankAt(s, j) => rows[j].score >= rows[i].score
Lined(s, w) ==
  /\ w.pc = "search" => ExactTo(w.rootMoves, w.pvIdx - 1) /\ SortedTo(s, w.rootMoves, w.pvIdx - 1)
  /\ w.pc = "line" => ExactTo(w.rootMoves, w.pvIdx) /\ SortedTo(s, w.rootMoves, w.pvIdx - 1)
  /\ w.pc = "end" => ExactTo(w.rootMoves, s.multiPV) /\ SortedTo(s, w.rootMoves, s.multiPV)

\* The best move of an earlier iteration has the rank of the first move.
Remembered(s, w) ==
  IF w.lastBest.move = NoMove THEN w.lastBest.score = -Inf /\ w.completedDepth = 0
  ELSE s.rank[w.lastBest.move] = RankAt(s, 1)

WorkerKept(s, w) ==
  /\ w \in WorkersOf(s)
  /\ w.completedDepth <= w.rootDepth
  /\ Remembered(s, w)
  /\ w.pc \in {"search", "line"} => Placed(s, w)
  /\ w.pc = "search" => OpenWindow(w)

\* What the last best move is known by.
Trusted(w) == w.lastBest \in ToSet(w.results) \cup {[move |-> NoMove, score |-> -Inf]}

LEMMA SetupFacts ==
  ASSUME NEW s \in RootSetups
  PROVE  /\ Inf \in Nat /\ Decisive \in 1 .. Inf
         /\ Len(s.moves) \in Nat /\ Len(s.moves) >= 1 /\ DOMAIN s.moves = 1 .. Len(s.moves)
         /\ \A i \in 1 .. Len(s.moves) : s.moves[i] \in ToSet(s.moves) /\ RankAt(s, i) \in Int
         /\ NoMove \notin ToSet(s.moves)
         /\ \A m \in ToSet(s.moves) : s.rank[m] \in Int
         /\ \A i, j \in 1 .. Len(s.moves) : i <= j => RankAt(s, i) >= RankAt(s, j)
         /\ s.multiPV \in 1 .. Len(s.moves) /\ s.depth \in Nat
         /\ s.deltas \subseteq Nat \ {0} /\ s.values \subseteq (1 - Inf) .. (Inf - 1)
<1>1. Len(s.moves) \in Nat /\ Len(s.moves) >= 1 /\ DOMAIN s.moves = 1 .. Len(s.moves)
  BY RootAssumption
<1>2. \A i \in 1 .. Len(s.moves) : s.moves[i] \in ToSet(s.moves)
  BY <1>1 DEF ToSet
<1>3. \A m \in ToSet(s.moves) : s.rank[m] \in Int
  BY RootAssumption
<1>4. \A i \in 1 .. Len(s.moves) : RankAt(s, i) \in Int
  BY <1>2, <1>3 DEF RankAt
<1>5. ASSUME NEW i \in 1 .. Len(s.moves), NEW j \in 1 .. Len(s.moves), i <= j PROVE RankAt(s, i) >= RankAt(s, j)
  <2>1. CASE i = j
    BY <1>4, <2>1
  <2>2. CASE i < j
    BY <1>1, <2>2, RootAssumption DEF RankAt
  <2>3. QED
    BY <1>5, <2>1, <2>2
<1>6. QED
  BY <1>1, <1>2, <1>3, <1>4, <1>5, RootAssumption

-----------------------------------------------------------------------------
(* What sorts and lines do to a worker.                                    *)

LEMMA SortKeeps ==
  ASSUME NEW s \in RootSetups, NEW rows \in RowsOf(s), Shuffled(s, rows),
         NEW a \in Int, NEW b \in Int, 1 <= a, b <= Len(s.moves),
         \A i \in a .. b : RankAt(s, i) = RankAt(s, a)
  PROVE  /\ stable_sort(rows, a, b) \in RowsOf(s)
         /\ Shuffled(s, stable_sort(rows, a, b))
         /\ \A i \in 1 .. a - 1 : i <= Len(s.moves) => stable_sort(rows, a, b)[i] = rows[i]
         /\ \A i \in a .. b : \E j \in a .. b : stable_sort(rows, a, b)[i] = rows[j]
         /\ \A j \in a .. b : \E i \in a .. b : stable_sort(rows, a, b)[i] = rows[j]
         /\ \A i, j \in a .. b : i < j => stable_sort(rows, a, b)[i].score >= stable_sort(rows, a, b)[j].score
<1> DEFINE n == Len(s.moves)  sorted == stable_sort(rows, a, b)
<1>1. n \in Nat /\ (\A i \in 1 .. n : RankAt(s, i) \in Int) /\ Inf \in Nat
  BY SetupFacts
<1>2. DOMAIN rows = 1 .. n /\ \A i \in 1 .. n : rows[i] \in RowOf(s)
  BY DEF RowsOf
<1>3. \A i \in 1 .. n : rows[i].score \in Int /\ rows[i].previousScore \in Int
  BY <1>1, <1>2 DEF RowOf
<1> HIDE DEF n
<1>4. PICK p \in [a .. b -> a .. b] :
        /\ DOMAIN sorted = 1 .. n
        /\ \A i \in 1 .. n : i \notin a .. b => sorted[i] = rows[i]
        /\ \A i \in a .. b : sorted[i] = rows[p[i]]
        /\ \A m \in a .. b : \E i \in a .. b : p[i] = m
        /\ \A i, j \in a .. b : i < j => sorted[i].score >= sorted[j].score
  <2>1. b <= n
    BY DEF n
  <2>2. QED
    BY <1>1, <1>2, <1>3, <2>1, SortSorts
<1>5. sorted = [i \in 1 .. n |-> sorted[i]]
  BY <1>4 DEF stable_sort
<1> HIDE DEF sorted
<1>6. a .. b \subseteq 1 .. n /\ \A i \in a .. b : p[i] \in a .. b
  BY DEF n
<1>7. ASSUME NEW i \in 1 .. n PROVE sorted[i] \in RowOf(s)
  BY <1>2, <1>4, <1>6
<1>8. sorted \in [1 .. n -> RowOf(s)]
  BY <1>5, <1>7
<1>9. ASSUME NEW i \in 1 .. n
      PROVE  sorted[i].move \in ToSet(s.moves) /\ s.rank[sorted[i].move] = RankAt(s, i)
  <2>1. \A j \in 1 .. n : rows[j].move \in ToSet(s.moves) /\ s.rank[rows[j].move] = RankAt(s, j)
    BY DEF Shuffled, n
  <2>2. CASE i \in a .. b
    <3>1. p[i] \in a .. b /\ p[i] \in 1 .. n /\ sorted[i] = rows[p[i]]
      BY <1>4, <1>6, <2>2
    <3>2. RankAt(s, p[i]) = RankAt(s, i)
      BY <2>2, <3>1
    <3>3. QED
      BY <2>1, <3>1, <3>2
  <2>3. CASE i \notin a .. b
    BY <1>4, <2>1, <2>3
  <2>4. QED
    BY <2>2, <2>3
<1>10. ASSUME NEW m \in ToSet(s.moves) PROVE \E i \in 1 .. n : sorted[i].move = m
  <2>1. PICK j \in 1 .. n : rows[j].move = m
    BY DEF Shuffled, n
  <2>2. CASE j \in a .. b
    <3>1. PICK i \in a .. b : p[i] = j
      BY <1>4, <2>2
    <3>2. i \in 1 .. n /\ sorted[i] = rows[j]
      BY <1>4, <1>6, <3>1
    <3>3. QED
      BY <2>1, <3>2
  <2>3. CASE j \notin a .. b
    BY <1>4, <2>1, <2>3
  <2>4. QED
    BY <2>2, <2>3
<1>11. \A i \in 1 .. a - 1 : i <= n => sorted[i] = rows[i]
  BY <1>1, <1>4
<1>12. \A i \in a .. b : \E j \in a .. b : sorted[i] = rows[j]
  BY <1>4, <1>6
<1>13. \A j \in a .. b : \E i \in a .. b : sorted[i] = rows[j]
  BY <1>4
<1>14. sorted \in RowsOf(s) /\ Shuffled(s, sorted)
  BY <1>8, <1>9, <1>10 DEF RowsOf, Shuffled, n
<1>15. QED
  BY <1>4, <1>11, <1>12, <1>13, <1>14 DEF sorted, n

\* A line that begins a block has the block.
LEMMA LineEndEnds ==
  ASSUME setup \in RootSetups, NEW w \in WorkersOf(setup), Shuffled(setup, w.rootMoves),
         NEW first \in 1 .. Len(setup.moves), first > 1 => RankAt(setup, first - 1) # RankAt(setup, first)
  PROVE  LineEnd(w, first) \in Int /\ Block(setup, first, LineEnd(w, first))
<1> DEFINE n == Len(setup.moves)  e == LineEnd(w, first)
           same(i) == \A j \in first .. i : RankAt(setup, j) = RankAt(setup, first)
           L == {i \in first .. n : same(i)}
<1>1. n \in Nat
  BY SetupFacts
<1>2. Len(w.rootMoves) = n
  BY <1>1 DEF WorkersOf, RowsOf, n
<1>3. \A j \in 1 .. n : setup.rank[w.rootMoves[j].move] = RankAt(setup, j)
  BY DEF Shuffled
<1>4. e = Max(L)
  <2>1. ASSUME NEW i \in first .. n
        PROVE  (\A j \in first .. i : setup.rank[w.rootMoves[j].move] = setup.rank[w.rootMoves[first].move]) <=> same(i)
    <3>1. \A j \in first .. i : j \in 1 .. n
      OBVIOUS
    <3>2. setup.rank[w.rootMoves[first].move] = RankAt(setup, first)
      BY <1>3
    <3>3. QED
      BY <1>3, <3>1, <3>2
  <2>2. {i \in first .. n : \A j \in first .. i : setup.rank[w.rootMoves[j].move] = setup.rank[w.rootMoves[first].move]} = L
    BY <2>1
  <2>3. QED
    BY <1>2, <2>2 DEF LineEnd
<1>5. L \subseteq Int /\ first \in L /\ \A i \in L : i <= n
  OBVIOUS
<1>6. e \in L /\ \A i \in L : i <= e
  <2> HIDE DEF L, e, n
  <2>1. L # {}
    BY <1>5
  <2>2. n \in Int
    BY <1>1
  <2>3. Max(L) \in L /\ \A i \in L : i <= Max(L)
    BY <1>5, <2>1, <2>2, MaxExists
  <2>4. QED
    BY <1>4, <2>3
<1> HIDE DEF e
<1>7. e \in first .. n /\ \A j \in first .. e : RankAt(setup, j) = RankAt(setup, first)
  BY <1>6
<1>8. ASSUME e < n PROVE RankAt(setup, e + 1) # RankAt(setup, first)
  <2>1. SUFFICES ASSUME RankAt(setup, e + 1) = RankAt(setup, first) PROVE FALSE
    OBVIOUS
  <2>2. e + 1 \in first .. n /\ ~(e + 1 <= e)
    BY <1>1, <1>7, <1>8
  <2>3. same(e + 1)
    BY <1>7, <2>1
  <2>4. QED
    BY <1>6, <2>2, <2>3
<1>9. QED
  BY <1>1, <1>7, <1>8 DEF Block, e

Begun(w, idx, delta, first, last, low, high) ==
  [w EXCEPT !.pc = "search", !.pvIdx = idx, !.delta = delta, !.pvFirst = first, !.pvLast = last, !.alpha = low, !.beta = high]

HasBegun(v, w, idx, delta, first, last, low, high) ==
  /\ v.pc = "search" /\ v.pvIdx = idx /\ v.delta = delta /\ v.pvFirst = first /\ v.pvLast = last
  /\ v.alpha = low /\ v.beta = high /\ v.rootMoves = w.rootMoves /\ v.lastBest = w.lastBest
  /\ v.results = w.results /\ v.completedDepth = w.completedDepth /\ v.rootDepth = w.rootDepth

LEMMA BegunFields ==
  ASSUME NEW s, NEW w \in WorkersOf(s), NEW idx \in Int, NEW delta \in Nat, NEW first \in Int, NEW last \in Int,
         NEW low \in -Inf .. Inf, NEW high \in -Inf .. Inf
  PROVE  /\ Begun(w, idx, delta, first, last, low, high) \in WorkersOf(s)
         /\ HasBegun(Begun(w, idx, delta, first, last, low, high), w, idx, delta, first, last, low, high)
<1>1. Begun(w, idx, delta, first, last, low, high) \in WorkersOf(s)
  BY DEF WorkersOf, Begun
<1>2. HasBegun(Begun(w, idx, delta, first, last, low, high), w, idx, delta, first, last, low, high)
  BY DEF WorkersOf, Begun, HasBegun
<1>3. QED
  BY <1>1, <1>2

LEMMA BeginLineKeeps ==
  ASSUME setup \in RootSetups, NEW w, Shuffled(setup, w.rootMoves), w \in WorkersOf(setup),
         w.completedDepth <= w.rootDepth, Remembered(setup, w),
         NEW idx \in 1 .. setup.multiPV, NEW delta \in setup.deltas, NEW avg \in AnyAverage,
         idx = 1 \/ (Placed(setup, w) /\ idx = w.pvIdx + 1),
         NEW v, v = BeginLine(w, idx, delta, avg)
  PROVE  /\ v.pc = "search" /\ v.pvIdx = idx /\ v.rootMoves = w.rootMoves
         /\ v.lastBest = w.lastBest /\ v.results = w.results /\ v.completedDepth = w.completedDepth
         /\ WorkerKept(setup, v)
<1> DEFINE n == Len(setup.moves)
           next == idx = 1 \/ idx > w.pvLast
           first == IF next THEN idx ELSE w.pvFirst
           last == IF next THEN LineEnd(w, idx) ELSE w.pvLast
           low == Greatest(avg - delta, -Inf)
           high == Least(avg + delta, Inf)
<1>1. /\ n \in Nat /\ Inf \in Nat /\ Inf >= 1 /\ idx \in 1 .. n /\ idx <= setup.multiPV
      /\ delta \in Nat /\ delta > 0 /\ avg \in -Inf .. (Inf - 1)
  <2>1. /\ n \in Nat /\ Inf \in Nat /\ Decisive \in 1 .. Inf /\ setup.multiPV \in 1 .. n
        /\ setup.deltas \subseteq Nat \ {0} /\ setup.values \subseteq (1 - Inf) .. (Inf - 1)
    BY SetupFacts
  <2>2. Inf >= 1 /\ delta \in Nat \ {0}
    BY <2>1
  <2>3. avg \in -Inf .. (Inf - 1)
    <3>1. avg = -Inf \/ avg \in setup.values
      BY DEF AnyAverage
    <3>2. QED
      BY <2>1, <2>2, <3>1
  <2>4. QED
    BY <2>1, <2>2, <2>3
<1>2. low \in -Inf .. Inf /\ high \in -Inf .. Inf /\ low < high
  BY <1>1 DEF Greatest, Least
<1>3. w.pvFirst \in Int /\ w.pvLast \in Int /\ w.pvIdx \in Int
  BY DEF WorkersOf
<1>4. first \in Int /\ last \in Int /\ Block(setup, first, last) /\ first <= idx /\ idx <= last
  <2>1. CASE next
    <3>1. ASSUME idx > 1 PROVE RankAt(setup, idx - 1) # RankAt(setup, idx)
      <4>1. Block(setup, w.pvFirst, w.pvLast) /\ idx = w.pvLast + 1 /\ w.pvLast < n
        <5>1. idx > w.pvLast /\ idx = w.pvIdx + 1 /\ Placed(setup, w)
          BY <2>1, <3>1
        <5>2. Block(setup, w.pvFirst, w.pvLast) /\ w.pvIdx <= w.pvLast
          BY <5>1 DEF Placed
        <5>3. QED
          BY <1>1, <1>3, <5>1, <5>2
      <4>2. w.pvLast \in w.pvFirst .. w.pvLast
        BY <1>3, <4>1 DEF Block
      <4>3. RankAt(setup, w.pvLast + 1) # RankAt(setup, w.pvFirst) /\ RankAt(setup, w.pvLast) = RankAt(setup, w.pvFirst)
        BY <4>1, <4>2 DEF Block
      <4>4. idx - 1 = w.pvLast
        BY <1>3, <4>1
      <4>5. QED
        BY <4>1, <4>3, <4>4
    <3>2. LineEnd(w, idx) \in Int /\ Block(setup, idx, LineEnd(w, idx))
      BY <1>1, <3>1, LineEndEnds
    <3>3. first = idx /\ last = LineEnd(w, idx)
      BY <2>1
    <3>4. idx <= last
      BY <3>2, <3>3 DEF Block
    <3>5. QED
      BY <1>1, <3>2, <3>3, <3>4
  <2>2. CASE ~next
    <3>1. first = w.pvFirst /\ last = w.pvLast /\ Placed(setup, w) /\ idx = w.pvIdx + 1
      BY <2>2
    <3>2. QED
      BY <1>1, <1>3, <2>2, <3>1 DEF Placed
  <2>3. QED
    BY <2>1, <2>2
<1>5. v = Begun(w, idx, delta, first, last, low, high)
  BY DEF BeginLine, Begun
<1> HIDE DEF first, last, low, high, next
<1>6. /\ v.pc = "search" /\ v.pvIdx = idx /\ v.delta = delta /\ v.pvFirst = first /\ v.pvLast = last
      /\ v.alpha = low /\ v.beta = high /\ v.rootMoves = w.rootMoves /\ v.lastBest = w.lastBest
      /\ v.results = w.results /\ v.completedDepth = w.completedDepth /\ v.rootDepth = w.rootDepth
      /\ v \in WorkersOf(setup)
  <2>1. idx \in Int /\ delta \in Nat /\ first \in Int /\ last \in Int /\ low \in -Inf .. Inf /\ high \in -Inf .. Inf
    BY <1>1, <1>2, <1>4
  <2>2. QED
    <3>1. v \in WorkersOf(setup) /\ HasBegun(v, w, idx, delta, first, last, low, high)
      BY <1>5, <2>1, BegunFields
    <3>2. QED
      BY <3>1 DEF HasBegun
<1>7. Placed(setup, v) /\ OpenWindow(v) /\ Remembered(setup, v)
  BY <1>1, <1>2, <1>4, <1>6 DEF Placed, OpenWindow, Remembered
<1>8. QED
  BY <1>6, <1>7 DEF WorkerKept

\* Everything but the rows, the window and the place in the iteration.
SameProgress(v, w) ==
  /\ v.pvIdx = w.pvIdx /\ v.pvFirst = w.pvFirst /\ v.pvLast = w.pvLast /\ v.lastBest = w.lastBest
  /\ v.results = w.results /\ v.completedDepth = w.completedDepth /\ v.rootDepth = w.rootDepth

WithRows(w, rows) == [w EXCEPT !.rootMoves = rows]
WithWindow(w, alpha, beta, delta) == [w EXCEPT !.beta = beta, !.alpha = alpha, !.delta = delta]

Rowed(v, w, rows) ==
  /\ SameProgress(v, w) /\ v.rootMoves = rows /\ v.pc = w.pc
  /\ v.alpha = w.alpha /\ v.beta = w.beta /\ v.delta = w.delta

LEMMA RowFields ==
  ASSUME NEW s, NEW w \in WorkersOf(s), NEW rows \in RowsOf(s)
  PROVE  WithRows(w, rows) \in WorkersOf(s) /\ Rowed(WithRows(w, rows), w, rows)
<1> DEFINE v == WithRows(w, rows)
<1>1. v \in WorkersOf(s)
  BY DEF WorkersOf, WithRows
<1>2. SameProgress(v, w)
  BY DEF WorkersOf, WithRows, SameProgress
<1>3. v.rootMoves = rows /\ v.pc = w.pc /\ v.delta = w.delta /\ v.alpha = w.alpha /\ v.beta = w.beta
  BY DEF WorkersOf, WithRows
<1>4. QED
  BY <1>1, <1>2, <1>3 DEF Rowed

Windowed(v, w, alpha, beta, delta) ==
  /\ SameProgress(v, w) /\ v.rootMoves = w.rootMoves /\ v.pc = w.pc
  /\ v.alpha = alpha /\ v.beta = beta /\ v.delta = delta

LEMMA WindowFields ==
  ASSUME NEW s, NEW w \in WorkersOf(s), NEW alpha \in -Inf .. Inf, NEW beta \in -Inf .. Inf, NEW delta \in Nat
  PROVE  /\ WithWindow(w, alpha, beta, delta) \in WorkersOf(s)
         /\ Windowed(WithWindow(w, alpha, beta, delta), w, alpha, beta, delta)
<1> DEFINE v == WithWindow(w, alpha, beta, delta)
<1>1. v \in WorkersOf(s)
  BY DEF WorkersOf, WithWindow
<1>2. SameProgress(v, w)
  BY DEF WorkersOf, WithWindow, SameProgress
<1>3. /\ v.rootMoves = w.rootMoves /\ v.pc = w.pc /\ v.delta = delta
      /\ v.alpha = alpha /\ v.beta = beta
  BY DEF WorkersOf, WithWindow
<1>4. QED
  BY <1>1, <1>2, <1>3 DEF Windowed

LEMMA LineEndsFields ==
  ASSUME NEW s, NEW w \in WorkersOf(s), Inf \in Nat
  PROVE  /\ LineEnds(w) \in WorkersOf(s) /\ SameProgress(LineEnds(w), w)
         /\ LineEnds(w).rootMoves = w.rootMoves /\ LineEnds(w).pc = "line"
<1>0. -Inf \in -Inf .. Inf /\ Inf \in -Inf .. Inf
  OBVIOUS
<1>1. LineEnds(w) \in WorkersOf(s)
  BY <1>0 DEF WorkersOf, LineEnds
<1>2. SameProgress(LineEnds(w), w) /\ LineEnds(w).rootMoves = w.rootMoves /\ LineEnds(w).pc = "line"
  BY DEF WorkersOf, LineEnds, SameProgress
<1>3. QED
  BY <1>1, <1>2

\* What a worker keeps that goes on with another window, or from a search to the end of its line.
LEMMA ProgressKeeps ==
  ASSUME NEW s, NEW w, WorkerKept(s, w), w.pc = "search", NEW v \in WorkersOf(s), SameProgress(v, w),
         (v.pc = "search" /\ OpenWindow(v)) \/ v.pc = "line"
  PROVE  WorkerKept(s, v)
<1>1. v.completedDepth <= v.rootDepth /\ Remembered(s, v)
  BY DEF WorkerKept, SameProgress, Remembered
<1>2. Placed(s, v)
  BY DEF WorkerKept, SameProgress, Placed
<1>3. QED
  BY <1>1, <1>2 DEF WorkerKept

\* The window of the next search is open, on whatever side it failed.
LEMMA FailLowKeeps ==
  ASSUME NEW s \in RootSetups, NEW w, WorkerKept(s, w), w.pc = "search",
         NEW best \in (1 - Inf) .. (Inf - 1), best <= w.alpha
  PROVE  /\ WorkerKept(s, FailLow(w, best)) /\ FailLow(w, best).pc = "search"
         /\ FailLow(w, best).rootMoves = w.rootMoves /\ SameProgress(FailLow(w, best), w)
<1> DEFINE a == Greatest(best - w.delta, -Inf)  d == w.delta + w.delta \div 3
<1>1. w \in WorkersOf(s) /\ Inf \in Nat
  BY SetupFacts DEF WorkerKept
<1>2. w.alpha \in -Inf .. Inf /\ w.beta \in -Inf .. Inf /\ w.delta \in Nat
  BY <1>1 DEF WorkersOf
<1>3. w.delta > 0
  BY DEF WorkerKept, OpenWindow
<1>4. a \in -Inf .. Inf /\ a < w.alpha /\ d \in Nat /\ d > 0
  BY <1>1, <1>2, <1>3 DEF Greatest
<1>5. FailLow(w, best) = WithWindow(w, a, w.alpha, d)
  BY <1>2 DEF FailLow, WithWindow
<1> HIDE DEF a, d
<1>6. WithWindow(w, a, w.alpha, d) \in WorkersOf(s) /\ Windowed(WithWindow(w, a, w.alpha, d), w, a, w.alpha, d)
  BY <1>1, <1>2, <1>4, WindowFields
<1>7. OpenWindow(WithWindow(w, a, w.alpha, d))
  BY <1>4, <1>6 DEF OpenWindow, Windowed
<1>8. QED
  BY <1>5, <1>6, <1>7, ProgressKeeps DEF Windowed

LEMMA FailHighKeeps ==
  ASSUME NEW s \in RootSetups, NEW w, WorkerKept(s, w), w.pc = "search",
         NEW best \in (1 - Inf) .. (Inf - 1), best >= w.beta
  PROVE  /\ WorkerKept(s, FailHigh(w, best)) /\ FailHigh(w, best).pc = "search"
         /\ FailHigh(w, best).rootMoves = w.rootMoves /\ SameProgress(FailHigh(w, best), w)
<1> DEFINE a == Greatest(w.beta - w.delta, w.alpha)  b == Least(best + w.delta, Inf)  d == w.delta + w.delta \div 3
<1>1. w \in WorkersOf(s) /\ Inf \in Nat
  BY SetupFacts DEF WorkerKept
<1>2. w.alpha \in -Inf .. Inf /\ w.beta \in -Inf .. Inf /\ w.delta \in Nat
  BY <1>1 DEF WorkersOf
<1>3. w.delta > 0 /\ w.alpha < w.beta
  BY DEF WorkerKept, OpenWindow
<1>4. a \in -Inf .. Inf /\ b \in -Inf .. Inf /\ a < b /\ d \in Nat /\ d > 0
  BY <1>1, <1>2, <1>3 DEF Greatest, Least
<1>5. FailHigh(w, best) = WithWindow(w, a, b, d)
  BY <1>2 DEF FailHigh, WithWindow
<1> HIDE DEF a, b, d
<1>6. WithWindow(w, a, b, d) \in WorkersOf(s) /\ Windowed(WithWindow(w, a, b, d), w, a, b, d)
  BY <1>1, <1>2, <1>4, WindowFields
<1>7. OpenWindow(WithWindow(w, a, b, d))
  BY <1>4, <1>6 DEF OpenWindow, Windowed
<1>8. QED
  BY <1>5, <1>6, <1>7, ProgressKeeps DEF Windowed

-----------------------------------------------------------------------------
(* The search of the moves of a line, one after the other.                 *)

SearchesOf(s) == [rows : RowsOf(s), alpha : -Inf .. Inf, best : -Inf .. (Inf - 1), first : BOOLEAN, cut : BOOLEAN]

\* What is known of the first k moves as long as none was cut off.
SeenTo(w, order, x, k) ==
  /\ x.best < w.beta /\ x.alpha = Greatest(w.alpha, x.best)
  /\ \A j \in 1 .. k : /\ x.rows[order[j]].score <= x.best
                       /\ w.alpha < x.rows[order[j]].score => x.rows[order[j]].exact
  /\ w.alpha < x.best => \E j \in 1 .. k : x.rows[order[j]].score = x.best
\* After the first k moves.
Through(s, w, order, x, k) ==
  /\ x \in SearchesOf(s)
  /\ \A i \in 1 .. Len(s.moves) : x.rows[i].move = w.rootMoves[i].move
  /\ \A i \in 1 .. Len(s.moves) : i \notin w.pvIdx .. w.pvLast => x.rows[i] = w.rootMoves[i]
  /\ x.first => x.best = -Inf
  /\ k >= 1 => x.best > -Inf
  /\ IF x.cut THEN x.best >= w.beta ELSE SeenTo(w, order, x, k)

\* Root moves may be searched in this order.
OrderOf(w, order) ==
  /\ order \in [Places(w) -> w.pvIdx .. w.pvLast]
  /\ \A i, j \in Places(w) : order[i] = order[j] => i = j

\* The row of a move that has the value v.
ScoredRow(x, i, v, beta) ==
  IF x.first \/ v > x.alpha THEN [x.rows[i] EXCEPT !.score = v, !.exact = x.alpha < v /\ v < beta, !.averaged = TRUE]
  ELSE [x.rows[i] EXCEPT !.score = -Inf, !.averaged = TRUE]

LEMMA ScoredRowFields ==
  ASSUME NEW s \in RootSetups, NEW x \in SearchesOf(s), NEW i \in 1 .. Len(s.moves), NEW v \in s.values, NEW beta \in Int
  PROVE  /\ ScoredRow(x, i, v, beta) \in RowOf(s)
         /\ ScoredRow(x, i, v, beta).move = x.rows[i].move
         /\ IF x.first \/ v > x.alpha
            THEN ScoredRow(x, i, v, beta).score = v /\ (ScoredRow(x, i, v, beta).exact <=> x.alpha < v /\ v < beta)
            ELSE ScoredRow(x, i, v, beta).score = -Inf
<1>1. x.rows[i] \in RowOf(s)
  BY DEF SearchesOf, RowsOf
<1>2. Inf \in Nat /\ Inf >= 1 /\ v \in -Inf .. Inf /\ -Inf \in -Inf .. Inf
  <2>1. Inf \in Nat /\ Decisive \in 1 .. Inf /\ s.values \subseteq (1 - Inf) .. (Inf - 1)
    BY SetupFacts
  <2>2. v \in (1 - Inf) .. (Inf - 1)
    BY <2>1
  <2>3. QED
    BY <2>1, <2>2
<1> DEFINE ex == x.alpha < v /\ v < beta
           a == [x.rows[i] EXCEPT !.score = v, !.exact = ex, !.averaged = TRUE]
           b == [x.rows[i] EXCEPT !.score = -Inf, !.averaged = TRUE]
<1>3. ex \in BOOLEAN
  OBVIOUS
<1> HIDE DEF ex
<1>4. a \in RowOf(s) /\ a.move = x.rows[i].move /\ a.score = v /\ a.exact = ex
  BY <1>1, <1>2, <1>3 DEF RowOf
<1>5. b \in RowOf(s) /\ b.move = x.rows[i].move /\ b.score = -Inf
  BY <1>1, <1>2 DEF RowOf
<1>6. ScoredRow(x, i, v, beta) = IF x.first \/ v > x.alpha THEN a ELSE b
  BY DEF ScoredRow, ex
<1> HIDE DEF a, b
<1>7. CASE x.first \/ v > x.alpha
  BY <1>4, <1>6, <1>7 DEF ex
<1>8. CASE ~(x.first \/ v > x.alpha)
  BY <1>5, <1>6, <1>8
<1>9. QED
  BY <1>7, <1>8

\* The state of the search after another move, which was not cut off before.
LEMMA SearchMoveFields ==
  ASSUME NEW s \in RootSetups, NEW x \in SearchesOf(s), ~x.cut, NEW i \in 1 .. Len(s.moves), NEW v \in s.values,
         NEW beta \in -Inf .. Inf, NEW y, y = SearchMove(x, i, v, beta)
  PROVE  /\ y \in SearchesOf(s)
         /\ y.rows = [x.rows EXCEPT ![i] = ScoredRow(x, i, v, beta)]
         /\ y.alpha = IF v > x.alpha /\ v < beta THEN v ELSE x.alpha
         /\ y.best = IF v > x.best THEN v ELSE x.best
         /\ ~y.first /\ (y.cut <=> v >= beta)
<1> DEFINE rows == [x.rows EXCEPT ![i] = ScoredRow(x, i, v, beta)]
           alpha == IF v > x.alpha /\ v < beta THEN v ELSE x.alpha
           best == IF v > x.best THEN v ELSE x.best
           cut == v >= beta
<1>1. Inf \in Nat /\ v \in (1 - Inf) .. (Inf - 1)
  <2>1. Inf \in Nat /\ s.values \subseteq (1 - Inf) .. (Inf - 1)
    BY SetupFacts
  <2>2. QED
    BY <2>1
<1>2. x.rows \in RowsOf(s) /\ x.alpha \in -Inf .. Inf /\ x.best \in -Inf .. (Inf - 1)
  BY DEF SearchesOf
<1>3. rows \in RowsOf(s)
  <2>1. ScoredRow(x, i, v, beta) \in RowOf(s)
    BY ScoredRowFields
  <2>2. QED
    BY <1>2, <2>1 DEF RowsOf
<1>4. alpha \in -Inf .. Inf /\ best \in -Inf .. (Inf - 1) /\ cut \in BOOLEAN
  BY <1>1, <1>2
<1>5. y = [rows |-> rows, alpha |-> alpha, best |-> best, first |-> FALSE, cut |-> cut]
  BY DEF SearchMove, ScoredRow
<1> HIDE DEF rows, alpha, best, cut
<1>6. /\ y \in SearchesOf(s) /\ y.rows = rows /\ y.alpha = alpha /\ y.best = best /\ y.first = FALSE /\ y.cut = cut
  BY <1>3, <1>4, <1>5 DEF SearchesOf
<1>7. QED
  BY <1>6 DEF rows, alpha, best, cut

LEMMA SearchMoveKeeps ==
  ASSUME NEW s \in RootSetups, NEW w, w \in WorkersOf(s), Placed(s, w), OpenWindow(w),
         NEW order, OrderOf(w, order), NEW k \in Places(w), NEW v \in s.values,
         NEW x, Through(s, w, order, x, k - 1), NEW y, y = SearchMove(x, order[k], v, w.beta)
  PROVE  Through(s, w, order, y, k)
<1> DEFINE i == order[k]  n == Len(s.moves)
<1>1. /\ n \in Nat /\ Inf \in Nat /\ v \in (1 - Inf) .. (Inf - 1)
  <2>1. n \in Nat /\ Inf \in Nat /\ s.values \subseteq (1 - Inf) .. (Inf - 1)
    BY SetupFacts
  <2>2. QED
    BY <2>1
<1>2. /\ w.pvIdx \in Int /\ w.pvLast \in Int /\ w.pvFirst \in Int /\ w.alpha \in -Inf .. Inf /\ w.beta \in -Inf .. Inf
  BY DEF WorkersOf
<1>3. /\ i \in w.pvIdx .. w.pvLast /\ i \in 1 .. n /\ k \in Int /\ k >= 1
      /\ \A j \in 1 .. k - 1 : j \in Places(w) /\ order[j] # i /\ order[j] \in w.pvIdx .. w.pvLast /\ order[j] \in 1 .. n
  <2>1. \A j \in Places(w) : order[j] \in w.pvIdx .. w.pvLast
    BY DEF OrderOf
  <2>2. 1 <= w.pvIdx /\ w.pvLast <= n
    BY <1>1, <1>2 DEF Placed, Block
  <2>3. k \in Int /\ k >= 1 /\ \A j \in 1 .. k - 1 : j \in Places(w) /\ j # k
    BY <1>2 DEF Places
  <2>4. \A j \in 1 .. k - 1 : order[j] # i
    BY <2>3 DEF OrderOf
  <2>5. QED
    BY <1>1, <1>2, <2>1, <2>2, <2>3, <2>4
<1>4. x \in SearchesOf(s) /\ x.best \in -Inf .. (Inf - 1) /\ x.alpha \in -Inf .. Inf /\ x.cut \in BOOLEAN
  BY DEF Through, SearchesOf
<1>5. CASE x.cut
  <2>1. y = x
    BY <1>5 DEF SearchMove
  <2>2. x.best > -Inf
    BY <1>1, <1>2, <1>4, <1>5 DEF Through, OpenWindow
  <2>3. QED
    BY <1>5, <2>1, <2>2 DEF Through
<1>6. CASE ~x.cut
  <2> DEFINE row == ScoredRow(x, i, v, w.beta)
  <2>1. /\ y \in SearchesOf(s)
        /\ y.rows = [x.rows EXCEPT ![i] = row]
        /\ y.alpha = IF v > x.alpha /\ v < w.beta THEN v ELSE x.alpha
        /\ y.best = IF v > x.best THEN v ELSE x.best
        /\ ~y.first /\ (y.cut <=> v >= w.beta)
    BY <1>2, <1>3, <1>4, <1>6, SearchMoveFields
  <2>2. /\ row.move = x.rows[i].move
        /\ IF x.first \/ v > x.alpha THEN row.score = v /\ (row.exact <=> x.alpha < v /\ v < w.beta) ELSE row.score = -Inf
    BY <1>2, <1>3, <1>4, ScoredRowFields
  <2>3. SeenTo(w, order, x, k - 1)
    BY <1>6 DEF Through
  <2>4. DOMAIN x.rows = 1 .. n
    BY <1>4 DEF SearchesOf, RowsOf
  <2>5. y.rows[i] = row /\ \A j \in 1 .. n : j # i => y.rows[j] = x.rows[j]
    BY <1>3, <2>1, <2>4
  <2> HIDE DEF row
  <2>6. \A j \in 1 .. n : y.rows[j].move = w.rootMoves[j].move
    BY <2>2, <2>5 DEF Through
  <2>7. \A j \in 1 .. n : j \notin w.pvIdx .. w.pvLast => y.rows[j] = w.rootMoves[j]
    BY <1>3, <2>5 DEF Through
  <2>8. y.best > -Inf
    BY <1>1, <1>4, <2>1
  <2>9. ASSUME ~y.cut PROVE SeenTo(w, order, y, k)
    <3>1. v < w.beta
      BY <1>1, <1>2, <2>1, <2>9
    <3>2. x.best < w.beta /\ x.alpha = Greatest(w.alpha, x.best)
      BY <2>3 DEF SeenTo
    <3>3. y.best < w.beta /\ y.alpha = Greatest(w.alpha, y.best)
      BY <1>1, <1>2, <1>4, <2>1, <3>1, <3>2 DEF Greatest
    <3>4. x.first => x.best = -Inf
      BY DEF Through
    <3>5. row.score <= y.best /\ (w.alpha < row.score => row.exact)
      BY <1>1, <1>2, <1>4, <2>1, <2>2, <3>1, <3>2, <3>4 DEF Greatest
    <3>6. ASSUME NEW j \in 1 .. k - 1
          PROVE  /\ y.rows[order[j]].score <= y.best
                 /\ w.alpha < y.rows[order[j]].score => y.rows[order[j]].exact
      <4>1. order[j] \in 1 .. n /\ order[j] # i
        BY <1>3
      <4>2. y.rows[order[j]] = x.rows[order[j]]
        BY <2>5, <4>1
      <4>3. x.rows[order[j]].score <= x.best /\ (w.alpha < x.rows[order[j]].score => x.rows[order[j]].exact)
        BY <2>3 DEF SeenTo
      <4>4. x.rows[order[j]].score \in Int
        BY <1>1, <1>4, <4>1 DEF SearchesOf, RowsOf, RowOf
      <4>5. QED
        BY <1>1, <1>4, <2>1, <4>2, <4>3, <4>4
    <3>7. ASSUME NEW j \in 1 .. k
          PROVE  /\ y.rows[order[j]].score <= y.best
                 /\ w.alpha < y.rows[order[j]].score => y.rows[order[j]].exact
      <4>1. CASE j = k
        BY <2>5, <3>5, <4>1
      <4>2. CASE j # k
        <5>1. j \in 1 .. k - 1
          BY <1>3, <4>2
        <5>2. QED
          BY <3>6, <5>1
      <4>3. QED
        BY <4>1, <4>2
    <3>8. ASSUME w.alpha < y.best PROVE \E j \in 1 .. k : y.rows[order[j]].score = y.best
      <4>1. CASE v > x.best
        <5>1. y.best = v /\ v > x.alpha
          BY <1>1, <1>2, <1>4, <2>1, <3>2, <3>8, <4>1 DEF Greatest
        <5>2. y.rows[order[k]].score = y.best /\ k \in 1 .. k
          BY <1>3, <2>2, <2>5, <5>1
        <5>3. QED
          BY <5>2
      <4>2. CASE ~(v > x.best)
        <5>1. y.best = x.best
          BY <2>1, <4>2
        <5>2. PICK j \in 1 .. k - 1 : x.rows[order[j]].score = x.best
          BY <2>3, <3>8, <5>1 DEF SeenTo
        <5>3. y.rows[order[j]] = x.rows[order[j]] /\ j \in 1 .. k
          BY <1>3, <2>5
        <5>4. QED
          BY <5>1, <5>2, <5>3
      <4>3. QED
        BY <4>1, <4>2
    <3>9. QED
      BY <3>3, <3>7, <3>8 DEF SeenTo
  <2>10. ASSUME y.cut PROVE y.best >= w.beta
    BY <1>1, <1>2, <1>4, <2>1, <2>10
  <2>11. QED
    BY <2>1, <2>6, <2>7, <2>8, <2>9, <2>10 DEF Through
<1>7. QED
  BY <1>4, <1>5, <1>6

LEMMA NothingSearched ==
  ASSUME NEW s \in RootSetups, NEW w, w \in WorkersOf(s), OpenWindow(w), NEW order
  PROVE  Through(s, w, order, NoneSearched(w), 0)
<1>1. Inf \in Nat /\ Inf >= 1
  BY SetupFacts
<1>2. w.alpha \in -Inf .. Inf /\ w.beta \in -Inf .. Inf /\ w.rootMoves \in RowsOf(s) /\ w.alpha < w.beta
  BY DEF WorkersOf, OpenWindow
<1> DEFINE x == NoneSearched(w)
<1>3. x.rows = w.rootMoves /\ x.alpha = w.alpha /\ x.best = -Inf /\ x.first = TRUE /\ x.cut = FALSE
  BY DEF NoneSearched
<1>4. x \in SearchesOf(s)
  BY <1>1, <1>2 DEF NoneSearched, SearchesOf
<1>5. SeenTo(w, order, x, 0)
  BY <1>1, <1>2, <1>3 DEF SeenTo, Greatest
<1>6. QED
  BY <1>3, <1>4, <1>5 DEF Through

LEMMA SearchedThrough ==
  ASSUME NEW s \in RootSetups, NEW w, w \in WorkersOf(s), Placed(s, w), OpenWindow(w),
         NEW order, OrderOf(w, order), NEW n \in Nat, 1 .. n \subseteq Places(w), NEW value \in [1 .. n -> s.values]
  PROVE  Through(s, w, order, Searched(w, order, value, n), n)
<1> DEFINE S == SearchesOf(s)
           F == [kx \in (1 .. n) \X S |-> SearchMove(kx[2], order[kx[1]], value[kx[1]], w.beta)]
           chosen == CHOOSE x : x = [k \in 0 .. n |-> IF k = 0 THEN NoneSearched(w)
                                                     ELSE SearchMove(x[k - 1], order[k], value[k], w.beta)]
<1>1. NoneSearched(w) \in S /\ Through(s, w, order, NoneSearched(w), 0)
  BY NothingSearched DEF Through
<1>2. \A k \in 1 .. n : order[k] \in 1 .. Len(s.moves) /\ k \in Places(w) /\ value[k] \in s.values
  <2>1. 1 <= w.pvIdx /\ w.pvLast <= Len(s.moves) /\ w.pvIdx \in Int /\ w.pvLast \in Int /\ w.pvFirst \in Int
    BY SetupFacts DEF Placed, Block, WorkersOf
  <2>2. \A k \in 1 .. n : order[k] \in w.pvIdx .. w.pvLast /\ k \in Places(w)
    BY DEF OrderOf
  <2>3. QED
    BY <2>1, <2>2, SetupFacts
<1>3. ASSUME NEW k \in 1 .. n, NEW x \in S PROVE SearchMove(x, order[k], value[k], w.beta) \in S
  <2>1. w.beta \in -Inf .. Inf /\ x.cut \in BOOLEAN
    BY DEF WorkersOf, SearchesOf
  <2>2. CASE x.cut
    BY <2>2 DEF SearchMove
  <2>3. CASE ~x.cut
    BY <1>2, <2>1, <2>3, SearchMoveFields
  <2>4. QED
    BY <2>1, <2>2, <2>3
<1>4. F \in [(1 .. n) \X S -> S]
  BY <1>3
<1>5. \A k \in 1 .. n, x \in S : F[<<k, x>>] = SearchMove(x, order[k], value[k], w.beta)
  OBVIOUS
<1> HIDE DEF F
<1>6. PICK g \in [0 .. n -> S] : StepsFrom(NoneSearched(w), F, n, g)
  <2> HIDE DEF S
  <2>1. NoneSearched(w) \in S
    BY <1>1
  <2>2. QED
    BY <1>4, <2>1, Iterates
<1>7. g = [k \in 0 .. n |-> IF k = 0 THEN NoneSearched(w) ELSE SearchMove(g[k - 1], order[k], value[k], w.beta)]
  <2>1. ASSUME NEW k \in 0 .. n, k # 0 PROVE F[<<k, g[k - 1]>>] = SearchMove(g[k - 1], order[k], value[k], w.beta)
    <3>1. k \in 1 .. n /\ k - 1 \in 0 .. n
      BY <2>1
    <3>2. g[k - 1] \in S
      BY <1>6, <3>1
    <3>3. QED
      BY <1>5, <3>1, <3>2
  <2>2. QED
    BY <1>6, <2>1 DEF StepsFrom
<1>8. chosen = [k \in 0 .. n |-> IF k = 0 THEN NoneSearched(w) ELSE SearchMove(chosen[k - 1], order[k], value[k], w.beta)]
  BY <1>7, Zenon
<1>9. Searched(w, order, value, n) = chosen[n]
  BY Zenon DEF Searched
<1> HIDE DEF chosen
<1> DEFINE Bad == {k \in 0 .. n : ~Through(s, w, order, chosen[k], k)}
<1>10. SUFFICES Bad = {}
  BY <1>9
<1>11. SUFFICES ASSUME Bad # {} PROVE FALSE
  OBVIOUS
<1>12. PICK k \in Bad : \A y \in Bad : k <= y
  <2>1. Bad \subseteq Nat
    OBVIOUS
  <2> HIDE DEF Bad
  <2> QED BY <1>11, <2>1, LeastNumber
<1>13. k \in 0 .. n /\ ~Through(s, w, order, chosen[k], k)
  OBVIOUS
<1>14. k # 0
  <2>1. chosen[0] = NoneSearched(w)
    BY <1>8
  <2>2. QED
    BY <1>1, <1>13, <2>1
<1>15. k \in 1 .. n /\ k - 1 \in 0 .. n /\ ~(k <= k - 1)
  BY <1>13, <1>14
<1>16. Through(s, w, order, chosen[k - 1], k - 1)
  BY <1>12, <1>15
<1>17. chosen[k] = SearchMove(chosen[k - 1], order[k], value[k], w.beta)
  BY <1>8, <1>14, <1>15
<1>18. k \in Places(w) /\ value[k] \in s.values
  BY <1>2, <1>15
<1>19. Through(s, w, order, chosen[k], k)
  BY <1>16, <1>17, <1>18, SearchMoveKeeps
<1>20. QED
  BY <1>13, <1>19

LEMMA OrderFacts ==
  ASSUME NEW s, NEW w \in WorkersOf(s), Placed(s, w), NEW order \in Orders(w)
  PROVE  OrderOf(w, order) /\ Len(order) \in Nat /\ Len(order) >= 1 /\ 1 .. Len(order) = Places(w)
<1>1. w.pvIdx \in Int /\ w.pvLast \in Int /\ w.pvIdx <= w.pvLast
  BY DEF WorkersOf, Placed
<1>2. order \in [Places(w) -> w.pvIdx .. w.pvLast] /\ \A i, j \in DOMAIN order : order[i] = order[j] => i = j
  BY DEF Orders, IsInjective
<1> DEFINE m == w.pvLast - w.pvIdx + 1
<1>3. Places(w) = 1 .. m /\ m \in Nat /\ m >= 1
  BY <1>1 DEF Places
<1>4. DOMAIN order = 1 .. m
  BY <1>2, <1>3
<1> HIDE DEF m
<1>5. Len(order) = m
  BY <1>2, <1>3, <1>4
<1>6. OrderOf(w, order)
  BY <1>2 DEF OrderOf
<1>7. QED
  BY <1>3, <1>5, <1>6

LEMMA OrderCovers ==
  ASSUME NEW s, NEW w \in WorkersOf(s), NEW order, OrderOf(w, order)
  PROVE  \A i \in w.pvIdx .. w.pvLast : \E j \in Places(w) : order[j] = i
<1> DEFINE a == w.pvIdx  b == w.pvLast  f == [i \in a .. b |-> order[i - a + 1]]
<1>1. a \in Int /\ b \in Int
  BY DEF WorkersOf
<1>2. Places(w) = 1 .. b - a + 1
  BY DEF Places
<1>3. order \in [Places(w) -> a .. b] /\ \A i, j \in Places(w) : order[i] = order[j] => i = j
  BY DEF OrderOf
<1> HIDE DEF a, b
<1>4. \A i \in a .. b : i - a + 1 \in Places(w)
  BY <1>1, <1>2
<1>5. f \in [a .. b -> a .. b]
  BY <1>3, <1>4
<1>6. \A i, j \in a .. b : f[i] = f[j] => i = j
  <2> SUFFICES ASSUME NEW i \in a .. b, NEW j \in a .. b, f[i] = f[j] PROVE i = j
    OBVIOUS
  <2>1. i - a + 1 = j - a + 1
    BY <1>3, <1>4
  <2>2. QED
    BY <1>1, <2>1
<1> HIDE DEF f
<1>7. \A m \in a .. b : \E i \in a .. b : f[i] = m
  BY <1>1, <1>5, <1>6, InjectionsCover
<1>8. ASSUME NEW m \in a .. b PROVE \E j \in Places(w) : order[j] = m
  <2>1. PICK i \in a .. b : f[i] = m
    BY <1>7
  <2>2. order[i - a + 1] = m
    BY <2>1 DEF f
  <2>3. QED
    BY <1>4, <2>2
<1>9. QED
  BY <1>8 DEF a, b

\* The rows after a search and its sort; the first of the line is the best if the window held.
LEMMA SortedSearch ==
  ASSUME NEW s \in RootSetups, NEW w, WorkerKept(s, w), w.pc = "search", Shuffled(s, w.rootMoves),
         NEW order, OrderOf(w, order), NEW n \in Nat, 1 .. n \subseteq Places(w), NEW value \in [1 .. n -> s.values],
         NEW x, x = Searched(w, order, value, n), NEW rows, rows = stable_sort(x.rows, w.pvIdx, w.pvLast)
  PROVE  /\ rows \in RowsOf(s) /\ Shuffled(s, rows)
         /\ \A i \in 1 .. w.pvIdx - 1 : rows[i] = w.rootMoves[i]
         /\ x.best \in -Inf .. (Inf - 1) /\ (n >= 1 => x.best > -Inf)
         /\ 1 .. n = Places(w) /\ w.alpha < x.best /\ x.best < w.beta =>
              rows[w.pvIdx].score # -Inf /\ rows[w.pvIdx].exact
<1> DEFINE a == w.pvIdx  b == w.pvLast  m == Len(s.moves)
<1>1. w \in WorkersOf(s) /\ Placed(s, w) /\ OpenWindow(w)
  BY DEF WorkerKept
<1>2. /\ a \in Int /\ b \in Int /\ m \in Nat /\ 1 <= a /\ a <= b /\ b <= m /\ w.pvFirst \in Int /\ w.pvFirst <= a
      /\ w.alpha \in -Inf .. Inf /\ w.beta \in -Inf .. Inf /\ Inf \in Nat
  BY <1>1, SetupFacts DEF WorkersOf, Placed, Block
<1>3. Through(s, w, order, x, n)
  BY <1>1, SearchedThrough
<1>4. /\ x \in SearchesOf(s) /\ x.rows \in RowsOf(s) /\ x.best \in -Inf .. (Inf - 1) /\ x.cut \in BOOLEAN
      /\ \A i \in 1 .. m : x.rows[i].move = w.rootMoves[i].move
      /\ \A i \in 1 .. m : i \notin a .. b => x.rows[i] = w.rootMoves[i]
  BY <1>3 DEF Through, SearchesOf
<1>5. Shuffled(s, x.rows)
  BY <1>4 DEF Shuffled
<1>6. \A i \in a .. b : RankAt(s, i) = RankAt(s, a)
  <2>1. \A i \in w.pvFirst .. b : RankAt(s, i) = RankAt(s, w.pvFirst)
    BY <1>1 DEF Placed, Block
  <2>2. \A i \in a .. b : i \in w.pvFirst .. b
    BY <1>2
  <2>3. a \in a .. b
    BY <1>2
  <2>4. QED
    BY <2>1, <2>2, <2>3
<1> HIDE DEF a, b, m
<1>7. /\ rows \in RowsOf(s) /\ Shuffled(s, rows)
      /\ \A i \in 1 .. a - 1 : i <= m => rows[i] = x.rows[i]
      /\ \A i \in a .. b : \E j \in a .. b : rows[i] = x.rows[j]
      /\ \A j \in a .. b : \E i \in a .. b : rows[i] = x.rows[j]
      /\ \A i, j \in a .. b : i < j => rows[i].score >= rows[j].score
  <2>1. b <= Len(s.moves) /\ rows = stable_sort(x.rows, a, b) /\ m = Len(s.moves)
    BY <1>2 DEF a, b, m
  <2> DEFINE r == x.rows  t == stable_sort(r, a, b)
  <2>2. r \in RowsOf(s) /\ Shuffled(s, r)
    BY <1>4, <1>5
  <2> HIDE DEF r
  <2>3. /\ t \in RowsOf(s) /\ Shuffled(s, t)
        /\ \A i \in 1 .. a - 1 : i <= Len(s.moves) => t[i] = r[i]
        /\ \A i \in a .. b : \E j \in a .. b : t[i] = r[j]
        /\ \A j \in a .. b : \E i \in a .. b : t[i] = r[j]
        /\ \A i, j \in a .. b : i < j => t[i].score >= t[j].score
    BY <1>2, <1>6, <2>1, <2>2, SortKeeps
  <2>4. rows = t
    BY <2>1 DEF r
  <2> HIDE DEF t
  <2>5. QED
    BY <2>1, <2>3, <2>4 DEF r
<1>8. \A i \in 1 .. a - 1 : rows[i] = w.rootMoves[i]
  <2> SUFFICES ASSUME NEW i \in 1 .. a - 1 PROVE rows[i] = w.rootMoves[i]
    OBVIOUS
  <2>1. i \in 1 .. m /\ i <= m /\ i \notin a .. b
    BY <1>2
  <2>2. QED
    BY <1>4, <1>7, <2>1
<1>9. ASSUME 1 .. n = Places(w), w.alpha < x.best, x.best < w.beta
      PROVE  rows[a].score # -Inf /\ rows[a].exact
  <2>1. SeenTo(w, order, x, n)
    BY <1>2, <1>3, <1>4, <1>9 DEF Through
  <2>2. PICK j \in 1 .. n : x.rows[order[j]].score = x.best
    BY <1>9, <2>1 DEF SeenTo
  <2>3. order[j] \in a .. b
    BY <1>9 DEF OrderOf, a, b
  <2>4. PICK k \in a .. b : rows[k] = x.rows[order[j]]
    BY <1>7, <2>3
  <2>5. a \in a .. b /\ a \in 1 .. m /\ k \in 1 .. m
    BY <1>2
  <2>6. rows[a].score \in Int /\ rows[k].score \in Int
    <3>1. \A i \in 1 .. m : rows[i] \in RowOf(s)
      BY <1>7 DEF RowsOf, m
    <3>2. \A r \in RowOf(s) : r.score \in Int
      BY <1>2 DEF RowOf
    <3>3. QED
      BY <2>5, <3>1, <3>2
  <2>7. rows[a].score >= x.best
    <3>1. CASE k = a
      BY <2>2, <2>4, <2>6, <3>1
    <3>2. CASE k # a
      <4>1. a < k
        BY <1>2, <3>2
      <4>2. rows[a].score >= rows[k].score
        BY <1>7, <2>5, <4>1
      <4>3. QED
        BY <2>2, <2>4, <4>2
    <3>3. QED
      BY <3>1, <3>2
  <2>8. PICK l \in a .. b : rows[a] = x.rows[l]
    BY <1>7, <2>5
  <2>9. PICK h \in 1 .. n : order[h] = l
    BY <1>1, <1>9, OrderCovers DEF a, b
  <2>10. x.rows[l].score <= x.best /\ (w.alpha < x.rows[l].score => x.rows[l].exact)
    BY <2>1, <2>9 DEF SeenTo
  <2>11. QED
    BY <1>2, <1>4, <1>9, <2>6, <2>7, <2>8, <2>10
<1>10. x.best \in -Inf .. (Inf - 1) /\ (n >= 1 => x.best > -Inf)
  BY <1>3, <1>4 DEF Through
<1>11. QED
  BY <1>7, <1>8, <1>9, <1>10 DEF a

-----------------------------------------------------------------------------
(* What each action does to its worker.                                    *)

\* A step that does not end an iteration.
GoesOn(s, w, v) ==
  /\ WorkerKept(s, v) /\ Shuffled(s, v.rootMoves) /\ v.pc \in {"search", "line", "end"}
  /\ v.lastBest = w.lastBest /\ v.results = w.results /\ v.completedDepth = w.completedDepth

LEMMA LinedRows ==
  ASSUME NEW s, NEW a, NEW b, NEW k \in Int, \A i \in 1 .. k : a[i] = b[i]
  PROVE  (ExactTo(a, k) => ExactTo(b, k)) /\ (SortedTo(s, a, k) => SortedTo(s, b, k))
  BY DEF ExactTo, SortedTo

LEMMA SearchRootWorker ==
  ASSUME NEW s \in RootSetups, NEW w, WorkerKept(s, w), w.pc = "search", Shuffled(s, w.rootMoves), NEW halt \in BOOLEAN,
         NEW order \in Orders(w), NEW n \in IF halt THEN 0 .. Len(order) ELSE {Len(order)},
         NEW value \in [1 .. n -> s.values], NEW x, x = Searched(w, order, value, n),
         NEW sorted, sorted = WithRows(w, stable_sort(x.rows, w.pvIdx, w.pvLast)),
         NEW v, v = IF halt THEN LineEnds(sorted)
                    ELSE IF x.best <= w.alpha THEN FailLow(sorted, x.best)
                    ELSE IF x.best >= w.beta THEN FailHigh(sorted, x.best)
                    ELSE LineEnds(sorted)
  PROVE  GoesOn(s, w, v) /\ (~halt /\ Lined(s, w) => Lined(s, v))
<1> DEFINE rows == stable_sort(x.rows, w.pvIdx, w.pvLast)
<1>1. w \in WorkersOf(s) /\ Placed(s, w) /\ OpenWindow(w) /\ Inf \in Nat
  BY SetupFacts DEF WorkerKept
<1>2. OrderOf(w, order) /\ Len(order) \in Nat /\ Len(order) >= 1 /\ 1 .. Len(order) = Places(w)
  BY <1>1, OrderFacts
<1>3. n \in Nat /\ 1 .. n \subseteq Places(w) /\ (~halt => n >= 1 /\ 1 .. n = Places(w))
  BY <1>2
<1>4. /\ rows \in RowsOf(s) /\ Shuffled(s, rows)
      /\ \A i \in 1 .. w.pvIdx - 1 : rows[i] = w.rootMoves[i]
      /\ x.best \in -Inf .. (Inf - 1) /\ (n >= 1 => x.best > -Inf)
      /\ 1 .. n = Places(w) /\ w.alpha < x.best /\ x.best < w.beta =>
           rows[w.pvIdx].score # -Inf /\ rows[w.pvIdx].exact
  BY <1>2, <1>3, SortedSearch
<1>5. sorted = WithRows(w, rows)
  OBVIOUS
<1> HIDE DEF rows
<1>6. sorted \in WorkersOf(s) /\ Rowed(sorted, w, rows)
  BY <1>1, <1>4, <1>5, RowFields
<1>7. SameProgress(sorted, w) /\ sorted.rootMoves = rows /\ sorted.pc = "search" /\ OpenWindow(sorted)
      /\ sorted.alpha = w.alpha /\ sorted.beta = w.beta
  BY <1>1, <1>6 DEF Rowed, OpenWindow
<1>8. WorkerKept(s, sorted)
  BY <1>6, <1>7, ProgressKeeps
<1>9. w.alpha \in Int /\ w.beta \in Int /\ w.pvIdx \in Int /\ w.pvIdx >= 1
  BY <1>1 DEF WorkersOf, Placed, Block
<1>10. \/ v = LineEnds(sorted) /\ (~halt => w.alpha < x.best /\ x.best < w.beta)
       \/ ~halt /\ x.best \in (1 - Inf) .. (Inf - 1) /\ x.best <= sorted.alpha /\ v = FailLow(sorted, x.best)
       \/ ~halt /\ x.best \in (1 - Inf) .. (Inf - 1) /\ x.best >= sorted.beta /\ v = FailHigh(sorted, x.best)
  BY <1>1, <1>3, <1>4, <1>7, <1>9
<1>11. ASSUME SameProgress(v, sorted), v.rootMoves = sorted.rootMoves, WorkerKept(s, v), v.pc \in {"search", "line"}
       PROVE  GoesOn(s, w, v)
  BY <1>4, <1>7, <1>11 DEF GoesOn, SameProgress
<1>12. ASSUME SameProgress(v, sorted), v.rootMoves = sorted.rootMoves, ~halt, Lined(s, w)
       PROVE  /\ v.pvIdx = w.pvIdx /\ v.rootMoves = rows
              /\ ExactTo(rows, w.pvIdx - 1) /\ SortedTo(s, rows, w.pvIdx - 1)
  <2>1. ExactTo(w.rootMoves, w.pvIdx - 1) /\ SortedTo(s, w.rootMoves, w.pvIdx - 1)
    BY <1>12 DEF Lined
  <2>2. w.pvIdx - 1 \in Int
    BY <1>9
  <2>3. ExactTo(rows, w.pvIdx - 1) /\ SortedTo(s, rows, w.pvIdx - 1)
    BY <1>4, <2>1, <2>2, LinedRows
  <2>4. v.pvIdx = w.pvIdx /\ v.rootMoves = rows
    BY <1>7, <1>12 DEF SameProgress
  <2>5. QED
    BY <2>3, <2>4
<1>13. CASE v = LineEnds(sorted) /\ (~halt => w.alpha < x.best /\ x.best < w.beta)
  <2>1. v \in WorkersOf(s) /\ SameProgress(v, sorted) /\ v.rootMoves = sorted.rootMoves /\ v.pc = "line"
    BY <1>1, <1>6, <1>13, LineEndsFields
  <2>2. WorkerKept(s, v)
    BY <1>7, <1>8, <2>1, ProgressKeeps
  <2>3. ASSUME ~halt, Lined(s, w) PROVE Lined(s, v)
    <3>1. /\ v.pvIdx = w.pvIdx /\ v.rootMoves = rows
          /\ ExactTo(rows, w.pvIdx - 1) /\ SortedTo(s, rows, w.pvIdx - 1)
      BY <1>12, <2>1, <2>3
    <3>2. rows[w.pvIdx].score # -Inf /\ rows[w.pvIdx].exact
      BY <1>3, <1>4, <1>13, <2>3
    <3>3. ExactTo(rows, w.pvIdx)
      <4>1. \A i \in 1 .. w.pvIdx : i = w.pvIdx \/ i \in 1 .. w.pvIdx - 1
        BY <1>9
      <4>2. QED
        BY <3>1, <3>2, <4>1 DEF ExactTo
    <3>4. QED
      BY <2>1, <3>1, <3>3 DEF Lined
  <2>4. QED
    BY <1>11, <2>1, <2>2, <2>3
<1>14. ASSUME ~halt, WorkerKept(s, v), v.pc = "search", v.rootMoves = sorted.rootMoves, SameProgress(v, sorted)
       PROVE  GoesOn(s, w, v) /\ (~halt /\ Lined(s, w) => Lined(s, v))
  <2>1. ASSUME Lined(s, w) PROVE Lined(s, v)
    <3>1. /\ v.pvIdx = w.pvIdx /\ v.rootMoves = rows
          /\ ExactTo(rows, w.pvIdx - 1) /\ SortedTo(s, rows, w.pvIdx - 1)
      BY <1>12, <1>14, <2>1
    <3>2. QED
      BY <1>14, <3>1 DEF Lined
  <2>2. QED
    BY <1>11, <1>14, <2>1
<1>15. CASE ~halt /\ x.best \in (1 - Inf) .. (Inf - 1) /\ x.best <= sorted.alpha /\ v = FailLow(sorted, x.best)
  BY <1>7, <1>8, <1>14, <1>15, FailLowKeeps
<1>16. CASE ~halt /\ x.best \in (1 - Inf) .. (Inf - 1) /\ x.best >= sorted.beta /\ v = FailHigh(sorted, x.best)
  BY <1>7, <1>8, <1>14, <1>16, FailHighKeeps
<1>17. QED
  BY <1>10, <1>13, <1>15, <1>16

LEMMA BlockRanks ==
  ASSUME NEW s, NEW first \in Int, NEW last \in Int, Block(s, first, last),
         NEW a \in Int, NEW b \in Int, first <= a, b <= last
  PROVE  \A i \in a .. b : RankAt(s, i) = RankAt(s, a)
<1> SUFFICES ASSUME NEW i \in a .. b PROVE RankAt(s, i) = RankAt(s, a)
  OBVIOUS
<1>1. i \in first .. last /\ a \in first .. last
  OBVIOUS
<1>2. QED
  BY <1>1 DEF Block

LEMMA CutOffWorker ==
  ASSUME NEW s \in RootSetups, NEW w, WorkerKept(s, w), w.pc = "search", Shuffled(s, w.rootMoves),
         NEW best \in s.values, best >= w.beta,
         NEW v, v = FailHigh(WithRows(w, stable_sort(w.rootMoves, w.pvIdx, w.pvLast)), best)
  PROVE  GoesOn(s, w, v) /\ (Lined(s, w) => Lined(s, v))
<1> DEFINE a == w.pvIdx  b == w.pvLast  r == w.rootMoves  rows == stable_sort(r, a, b)  sorted == WithRows(w, rows)
<1>1. w \in WorkersOf(s) /\ Placed(s, w) /\ OpenWindow(w) /\ Inf \in Nat /\ s.values \subseteq (1 - Inf) .. (Inf - 1)
  BY SetupFacts DEF WorkerKept
<1>2. /\ a \in Int /\ b \in Int /\ 1 <= a /\ a <= b /\ b <= Len(s.moves) /\ w.pvFirst \in Int /\ w.pvFirst <= a
      /\ r \in RowsOf(s) /\ w.beta \in Int
  BY <1>1, SetupFacts DEF WorkersOf, Placed, Block
<1>3. \A i \in a .. b : RankAt(s, i) = RankAt(s, a)
  BY <1>1, <1>2, BlockRanks DEF Placed
<1>4. Shuffled(s, r)
  OBVIOUS
<1>5. v = FailHigh(sorted, best) /\ sorted = WithRows(w, rows)
  OBVIOUS
<1>6. a = w.pvIdx /\ r = w.rootMoves
  OBVIOUS
<1> HIDE DEF a, b, r
<1>7. /\ rows \in RowsOf(s) /\ Shuffled(s, rows)
      /\ \A i \in 1 .. a - 1 : i <= Len(s.moves) => rows[i] = r[i]
  BY <1>2, <1>3, <1>4, SortKeeps
<1>8. \A i \in 1 .. a - 1 : r[i] = rows[i]
  <2>1. Len(s.moves) \in Nat
    BY SetupFacts
  <2>2. \A i \in 1 .. a - 1 : i <= Len(s.moves)
    BY <1>2, <2>1
  <2>3. QED
    BY <1>7, <2>2
<1> HIDE DEF rows, sorted
<1>9. sorted \in WorkersOf(s) /\ Rowed(sorted, w, rows)
  BY <1>1, <1>5, <1>7, RowFields
<1>10. SameProgress(sorted, w) /\ sorted.rootMoves = rows /\ sorted.pc = "search" /\ OpenWindow(sorted) /\ sorted.beta = w.beta
  BY <1>1, <1>9 DEF Rowed, OpenWindow
<1>11. WorkerKept(s, sorted)
  BY <1>9, <1>10, ProgressKeeps
<1>12. best \in (1 - Inf) .. (Inf - 1) /\ best >= sorted.beta
  BY <1>1, <1>10
<1>13. WorkerKept(s, v) /\ v.pc = "search" /\ v.rootMoves = rows /\ SameProgress(v, sorted)
  BY <1>5, <1>10, <1>11, <1>12, FailHighKeeps
<1>14. GoesOn(s, w, v) /\ v.pvIdx = a
  BY <1>6, <1>7, <1>10, <1>13 DEF GoesOn, SameProgress
<1>15. ASSUME Lined(s, w) PROVE Lined(s, v)
  <2>1. ExactTo(r, a - 1) /\ SortedTo(s, r, a - 1)
    BY <1>6, <1>15 DEF Lined
  <2>2. ExactTo(rows, a - 1) /\ SortedTo(s, rows, a - 1)
    BY <1>2, <1>8, <2>1, LinedRows
  <2>3. QED
    BY <1>13, <1>14, <2>2 DEF Lined
<1>16. QED
  BY <1>14, <1>15

\* The sort of the lines of a rank sorts all lines so far.
LEMMA LinesSort ==
  ASSUME NEW s \in RootSetups, NEW r \in RowsOf(s), Shuffled(s, r),
         NEW first \in Int, NEW last \in Int, NEW k \in Int, Block(s, first, last), first <= k, k <= last,
         ExactTo(r, k), SortedTo(s, r, k - 1), NEW rows, rows = stable_sort(r, first, k)
  PROVE  ExactTo(rows, k) /\ SortedTo(s, rows, k)
<1> DEFINE n == Len(s.moves)
<1>1. n \in Nat /\ 1 <= first /\ k <= n /\ last <= n /\ \A i \in 1 .. n : RankAt(s, i) \in Int
  BY SetupFacts DEF Block
<1>2. \A i \in first .. k : RankAt(s, i) = RankAt(s, first)
  BY BlockRanks
<1>3. /\ rows \in RowsOf(s)
      /\ \A i \in 1 .. first - 1 : i <= n => rows[i] = r[i]
      /\ \A i \in first .. k : \E j \in first .. k : rows[i] = r[j]
      /\ \A i, j \in first .. k : i < j => rows[i].score >= rows[j].score
  <2> DEFINE sorted == stable_sort(r, first, k)
  <2>1. /\ sorted \in RowsOf(s)
        /\ \A i \in 1 .. first - 1 : i <= Len(s.moves) => sorted[i] = r[i]
        /\ \A i \in first .. k : \E j \in first .. k : sorted[i] = r[j]
        /\ \A i, j \in first .. k : i < j => sorted[i].score >= sorted[j].score
    <3>1. k <= Len(s.moves) /\ 1 <= first
      BY <1>1
    <3>2. QED
      BY ONLY s \in RootSetups, r \in RowsOf(s), Shuffled(s, r), first \in Int, k \in Int, <1>2, <3>1, SortKeeps
  <2>2. rows = sorted
    OBVIOUS
  <2> HIDE DEF sorted
  <2>3. QED
    BY <2>1, <2>2
<1>4. \A i \in 1 .. n : rows[i].score \in Int
  <2>1. Inf \in Nat
    BY SetupFacts
  <2>2. \A i \in 1 .. n : rows[i] \in RowOf(s)
    BY <1>3 DEF RowsOf
  <2>3. QED
    BY <2>1, <2>2 DEF RowOf
<1> HIDE DEF n
<1>5. ASSUME NEW i \in 1 .. k PROVE rows[i].score # -Inf /\ rows[i].exact
  <2>1. CASE i < first
    <3>1. i \in 1 .. first - 1 /\ i <= n
      BY <1>1, <2>1
    <3>2. QED
      BY <1>3, <3>1 DEF ExactTo
  <2>2. CASE i >= first
    <3>1. i \in first .. k
      BY <2>2
    <3>2. PICK j \in first .. k : rows[i] = r[j]
      BY <1>3, <3>1
    <3>3. j \in 1 .. k
      BY <1>1
    <3>4. QED
      BY <3>2, <3>3 DEF ExactTo
  <2>3. QED
    BY <2>1, <2>2
<1>6. ASSUME NEW i \in 1 .. k, NEW j \in 1 .. k, j <= i, RankAt(s, i) = RankAt(s, j)
      PROVE  rows[j].score >= rows[i].score
  <2>1. i \in 1 .. n /\ j \in 1 .. n
    BY <1>1
  <2>2. CASE i < first
    <3>1. i \in 1 .. first - 1 /\ j \in 1 .. first - 1 /\ i <= n /\ j <= n /\ i \in 1 .. k - 1 /\ j \in 1 .. k - 1
      BY <1>1, <1>6, <2>2
    <3>2. rows[i] = r[i] /\ rows[j] = r[j]
      BY <1>3, <3>1
    <3>3. r[j].score >= r[i].score
      BY <1>6, <3>1 DEF SortedTo
    <3>4. QED
      BY <3>2, <3>3
  <2>3. CASE j >= first
    <3>1. i \in first .. k /\ j \in first .. k
      BY <1>6, <2>3
    <3>2. CASE i = j
      BY <1>4, <2>1, <3>2
    <3>3. CASE i # j
      <4>1. j < i
        BY <1>6, <3>3
      <4>2. QED
        BY <1>3, <3>1, <4>1
    <3>4. QED
      BY <3>2, <3>3
  <2>4. CASE j < first /\ i >= first
    <3>1. /\ first > 1 /\ first - 1 \in 1 .. n /\ first \in 1 .. n /\ first - 1 <= first /\ j <= first - 1
          /\ i \in first .. k
      BY <1>1, <2>4
    <3>2. RankAt(s, first - 1) # RankAt(s, first)
      BY <3>1 DEF Block
    <3>3. RankAt(s, j) >= RankAt(s, first - 1) /\ RankAt(s, first - 1) >= RankAt(s, first)
      BY <2>1, <3>1, SetupFacts DEF n
    <3>4. RankAt(s, i) = RankAt(s, first)
      BY <1>2, <3>1
    <3>5. QED
      BY <1>1, <1>6, <2>1, <3>1, <3>2, <3>3, <3>4
  <2>5. QED
    BY <2>2, <2>3, <2>4
<1>7. QED
  BY <1>5, <1>6 DEF ExactTo, SortedTo

WithPc(w, pc) == [w EXCEPT !.pc = pc]

LEMMA PcFields ==
  ASSUME NEW s, NEW w \in WorkersOf(s), NEW pc \in {"iterate", "end", "done"}
  PROVE  /\ WithPc(w, pc) \in WorkersOf(s) /\ SameProgress(WithPc(w, pc), w)
         /\ WithPc(w, pc).rootMoves = w.rootMoves /\ WithPc(w, pc).pc = pc
<1>1. WithPc(w, pc) \in WorkersOf(s)
  BY DEF WorkersOf, WithPc
<1>2. SameProgress(WithPc(w, pc), w)
  BY DEF WorkersOf, WithPc, SameProgress
<1>3. WithPc(w, pc).rootMoves = w.rootMoves /\ WithPc(w, pc).pc = pc
  BY DEF WorkersOf, WithPc
<1>4. QED
  BY <1>1, <1>2, <1>3

LEMMA PcKeeps ==
  ASSUME NEW s, NEW w, WorkerKept(s, w), NEW pc \in {"iterate", "end", "done"}, NEW v, v = WithPc(w, pc)
  PROVE  /\ WorkerKept(s, v) /\ v.pc = pc /\ v.rootMoves = w.rootMoves
         /\ v.lastBest = w.lastBest /\ v.results = w.results /\ v.completedDepth = w.completedDepth
<1>1. w \in WorkersOf(s)
  BY DEF WorkerKept
<1>2. v \in WorkersOf(s) /\ SameProgress(v, w) /\ v.rootMoves = w.rootMoves /\ v.pc = pc
  BY <1>1, PcFields
<1>3. v.completedDepth <= v.rootDepth /\ Remembered(s, v)
  BY <1>2 DEF WorkerKept, SameProgress, Remembered
<1>4. WorkerKept(s, v)
  BY <1>2, <1>3 DEF WorkerKept
<1>5. QED
  BY <1>2, <1>4 DEF SameProgress

LEMMA EndLineWorker ==
  ASSUME setup \in RootSetups, NEW w, WorkerKept(setup, w), w.pc = "line", Shuffled(setup, w.rootMoves),
         NEW halt \in BOOLEAN, NEW sorted, sorted = WithRows(w, stable_sort(w.rootMoves, w.pvFirst, w.pvIdx)), NEW v,
         \/ (halt \/ w.pvIdx = setup.multiPV) /\ v = WithPc(sorted, "end")
         \/ /\ ~halt /\ w.pvIdx # setup.multiPV
            /\ \E delta \in setup.deltas, avg \in AnyAverage : v = BeginLine(sorted, w.pvIdx + 1, delta, avg)
  PROVE  GoesOn(setup, w, v) /\ (~halt /\ Lined(setup, w) => Lined(setup, v))
<1> DEFINE s == setup  r == w.rootMoves  a == w.pvFirst  k == w.pvIdx  rows == stable_sort(r, a, k)
<1>1. s \in RootSetups /\ w \in WorkersOf(s) /\ Placed(s, w) /\ Inf \in Nat /\ s.multiPV \in 1 .. Len(s.moves)
      /\ Len(s.moves) \in Nat
  BY SetupFacts DEF WorkerKept
<1>2. /\ a \in Int /\ k \in Int /\ w.pvLast \in Int /\ r \in RowsOf(s)
      /\ 1 <= a /\ a <= k /\ k <= w.pvLast /\ w.pvLast <= Len(s.moves) /\ Block(s, a, w.pvLast) /\ k <= s.multiPV
  BY <1>1 DEF WorkersOf, Placed, Block
<1>3. \A i \in a .. k : RankAt(s, i) = RankAt(s, a)
  BY <1>2, BlockRanks
<1>4. Shuffled(s, r) /\ sorted = WithRows(w, rows) /\ r = w.rootMoves /\ k = w.pvIdx
  OBVIOUS
<1> HIDE DEF r, a, k
<1>5. rows \in RowsOf(s) /\ Shuffled(s, rows)
  <2>1. k <= Len(s.moves)
    BY <1>1, <1>2
  <2>2. QED
    BY <1>1, <1>2, <1>3, <1>4, <2>1, SortKeeps
<1>6. ASSUME Lined(s, w) PROVE ExactTo(rows, k) /\ SortedTo(s, rows, k)
  <2>1. ExactTo(r, k) /\ SortedTo(s, r, k - 1)
    BY <1>4, <1>6 DEF Lined
  <2>2. QED
    BY <1>1, <1>2, <1>4, <2>1, LinesSort
<1> HIDE DEF rows
<1>7. sorted \in WorkersOf(s) /\ Rowed(sorted, w, rows)
  BY <1>1, <1>4, <1>5, RowFields
<1>8. SameProgress(sorted, w) /\ sorted.rootMoves = rows /\ sorted.pc = "line"
  BY <1>7 DEF Rowed
<1>9. sorted.completedDepth <= sorted.rootDepth /\ Remembered(s, sorted) /\ Placed(s, sorted)
  BY <1>1, <1>8 DEF WorkerKept, SameProgress, Remembered, Placed
<1>10. WorkerKept(s, sorted)
  BY <1>7, <1>8, <1>9 DEF WorkerKept
<1>11. CASE (halt \/ w.pvIdx = s.multiPV) /\ v = WithPc(sorted, "end")
  <2>1. /\ WorkerKept(s, v) /\ v.pc = "end" /\ v.rootMoves = rows
        /\ v.lastBest = sorted.lastBest /\ v.results = sorted.results /\ v.completedDepth = sorted.completedDepth
    BY <1>8, <1>10, <1>11, PcKeeps
  <2>2. GoesOn(s, w, v)
    BY <1>5, <1>8, <2>1 DEF GoesOn, SameProgress
  <2>3. ASSUME ~halt, Lined(s, w) PROVE Lined(s, v)
    <3>1. k = s.multiPV
      BY <1>4, <1>11, <2>3
    <3>2. QED
      BY <1>6, <2>1, <2>3, <3>1 DEF Lined
  <2>4. QED
    BY <2>2, <2>3
<1>12. CASE /\ ~halt /\ w.pvIdx # s.multiPV
            /\ \E delta \in s.deltas, avg \in AnyAverage : v = BeginLine(sorted, w.pvIdx + 1, delta, avg)
  <2>1. PICK delta \in s.deltas, avg \in AnyAverage : v = BeginLine(sorted, k + 1, delta, avg)
    BY <1>4, <1>12
  <2>2. k = sorted.pvIdx
    BY <1>4, <1>8 DEF SameProgress
  <2>3. k + 1 \in 1 .. s.multiPV
    BY <1>1, <1>2, <1>4, <1>12
  <2>4. Shuffled(s, sorted.rootMoves)
    BY <1>5, <1>8
  <2>5. /\ v.pc = "search" /\ v.pvIdx = k + 1 /\ v.rootMoves = sorted.rootMoves
        /\ v.lastBest = sorted.lastBest /\ v.results = sorted.results /\ v.completedDepth = sorted.completedDepth
        /\ WorkerKept(s, v)
    BY <1>1, <1>7, <1>9, <2>1, <2>2, <2>3, <2>4, BeginLineKeeps
  <2>6. GoesOn(s, w, v)
    BY <1>8, <2>4, <2>5 DEF GoesOn, SameProgress
  <2>7. ASSUME Lined(s, w) PROVE Lined(s, v)
    <3>1. v.pvIdx - 1 = k
      BY <1>2, <2>5
    <3>2. QED
      BY <1>6, <1>8, <2>5, <2>7, <3>1 DEF Lined
  <2>8. QED
    BY <2>6, <2>7
<1>13. QED
  BY <1>11, <1>12

LEMMA DeepenedFields ==
  ASSUME NEW s, NEW w \in WorkersOf(s), NEW v, v = Deepened(w)
  PROVE  /\ v \in WorkersOf(s) /\ v.rootDepth = w.rootDepth + 1 /\ v.completedDepth = w.completedDepth
         /\ v.lastBest = w.lastBest /\ v.results = w.results
         /\ \A i \in 1 .. Len(s.moves) : v.rootMoves[i].move = w.rootMoves[i].move
<1> DEFINE rows == [i \in DOMAIN w.rootMoves |-> [w.rootMoves[i] EXCEPT !.previousScore = w.rootMoves[i].score]]
           n == Len(s.moves)
<1>1. w.rootMoves \in [1 .. n -> RowOf(s)] /\ w.rootDepth \in Nat /\ DOMAIN w.rootMoves = 1 .. n
  BY DEF WorkersOf, RowsOf
<1>2. ASSUME NEW r \in RowOf(s)
      PROVE  [r EXCEPT !.previousScore = r.score] \in RowOf(s) /\ [r EXCEPT !.previousScore = r.score].move = r.move
  BY DEF RowOf
<1> HIDE DEF n
<1>3. rows \in [1 .. n -> RowOf(s)] /\ \A i \in 1 .. n : rows[i].move = w.rootMoves[i].move
  BY <1>1, <1>2
<1>4. rows \in RowsOf(s)
  BY <1>3 DEF RowsOf, n
<1>5. v = [w EXCEPT !.rootDepth = w.rootDepth + 1, !.rootMoves = rows]
  BY DEF Deepened, WorkersOf
<1> HIDE DEF rows
<1>6. w.rootDepth + 1 \in Nat
  BY <1>1
<1>7. v \in WorkersOf(s)
  BY <1>4, <1>5, <1>6 DEF WorkersOf
<1>8. /\ v.rootDepth = w.rootDepth + 1 /\ v.completedDepth = w.completedDepth
      /\ v.lastBest = w.lastBest /\ v.results = w.results /\ v.rootMoves = rows
  BY <1>5 DEF WorkersOf
<1>9. QED
  BY <1>3, <1>7, <1>8 DEF n

LEMMA IterateWorker ==
  ASSUME setup \in RootSetups, NEW w, WorkerKept(setup, w), Shuffled(setup, w.rootMoves),
         NEW delta \in setup.deltas, NEW avg \in AnyAverage, NEW v, v = BeginLine(Deepened(w), 1, delta, avg)
  PROVE  GoesOn(setup, w, v) /\ Lined(setup, v)
<1> DEFINE u == Deepened(w)
<1>1. w \in WorkersOf(setup) /\ w.completedDepth <= w.rootDepth /\ Remembered(setup, w)
  BY DEF WorkerKept
<1>2. /\ u \in WorkersOf(setup) /\ u.rootDepth = w.rootDepth + 1 /\ u.completedDepth = w.completedDepth
      /\ u.lastBest = w.lastBest /\ u.results = w.results
      /\ \A i \in 1 .. Len(setup.moves) : u.rootMoves[i].move = w.rootMoves[i].move
  BY <1>1, DeepenedFields
<1>3. v = BeginLine(u, 1, delta, avg)
  OBVIOUS
<1> HIDE DEF u
<1>4. w.completedDepth \in Nat /\ w.rootDepth \in Nat
  BY <1>1 DEF WorkersOf
<1>5. u.completedDepth <= u.rootDepth /\ Remembered(setup, u)
  BY <1>1, <1>2, <1>4 DEF Remembered
<1>6. Shuffled(setup, u.rootMoves)
  BY <1>2 DEF Shuffled
<1>7. 1 \in 1 .. setup.multiPV
  BY SetupFacts
<1>8. /\ v.pc = "search" /\ v.pvIdx = 1 /\ v.rootMoves = u.rootMoves
      /\ v.lastBest = u.lastBest /\ v.results = u.results /\ v.completedDepth = u.completedDepth
      /\ WorkerKept(setup, v)
  BY <1>2, <1>3, <1>5, <1>6, <1>7, BeginLineKeeps
<1>9. GoesOn(setup, w, v)
  BY <1>2, <1>6, <1>8 DEF GoesOn
<1>10. Lined(setup, v)
  BY <1>8 DEF Lined, ExactTo, SortedTo
<1>11. QED
  BY <1>9, <1>10

\* A move that is brought to the front passes only moves of its own rank.
LEMMA FrontKeeps ==
  ASSUME NEW s \in RootSetups, NEW rows \in RowsOf(s), Shuffled(s, rows),
         NEW m \in ToSet(s.moves), s.rank[m] = RankAt(s, 1), NEW front, front = move_to_front(rows, m)
  PROVE  front \in RowsOf(s) /\ Shuffled(s, front) /\ front[1].move = m
<1> DEFINE n == Len(s.moves)  found == {i \in DOMAIN rows : rows[i].move = m}  k == Min(found)
<1>1. n \in Nat /\ n >= 1
  BY SetupFacts
<1>2. DOMAIN rows = 1 .. n /\ \A i \in 1 .. n : rows[i] \in RowOf(s)
  BY DEF RowsOf
<1>3. found \subseteq Nat /\ found # {}
  <2>1. PICK i \in 1 .. n : rows[i].move = m
    BY DEF Shuffled
  <2>2. QED
    BY <1>2, <2>1
<1>4. k \in found
  <2> HIDE DEF found
  <2> QED BY <1>3, MinExists
<1>5. k \in 1 .. n /\ rows[k].move = m
  BY <1>2, <1>4
<1>6. front = Rotated(rows, k)
  BY <1>3 DEF move_to_front
<1> HIDE DEF found, k, n
<1>7. front = [i \in 1 .. n |-> IF i = 1 THEN rows[k] ELSE IF i <= k THEN rows[i - 1] ELSE rows[i]]
  BY <1>2, <1>6 DEF Rotated
<1>8. \A i \in 1 .. n : rows[i].move \in ToSet(s.moves) /\ s.rank[rows[i].move] = RankAt(s, i)
  BY DEF Shuffled, n
<1>9. ASSUME NEW i \in 1 .. n, i <= k PROVE RankAt(s, i) = RankAt(s, 1)
  <2>1. RankAt(s, k) = RankAt(s, 1)
    BY <1>5, <1>8
  <2>2. 1 \in 1 .. n /\ 1 <= i
    BY <1>1
  <2>3. RankAt(s, 1) >= RankAt(s, i) /\ RankAt(s, i) >= RankAt(s, k) /\ RankAt(s, i) \in Int /\ RankAt(s, 1) \in Int
    BY <1>5, <1>9, <2>2, SetupFacts DEF n
  <2>4. QED
    BY <2>1, <2>3
<1>10. ASSUME NEW i \in 1 .. n
       PROVE  /\ front[i] \in RowOf(s) /\ front[i].move \in ToSet(s.moves)
              /\ s.rank[front[i].move] = RankAt(s, i)
  <2>1. CASE i = 1
    BY <1>2, <1>5, <1>7, <1>8, <1>9, <2>1
  <2>2. CASE i # 1 /\ i <= k
    <3>1. i - 1 \in 1 .. n /\ i - 1 <= k /\ front[i] = rows[i - 1]
      BY <1>1, <1>5, <1>7, <2>2
    <3>2. RankAt(s, i - 1) = RankAt(s, i)
      BY <1>9, <2>2, <3>1
    <3>3. QED
      BY <1>2, <1>8, <3>1, <3>2
  <2>3. CASE i # 1 /\ ~(i <= k)
    BY <1>2, <1>7, <1>8, <2>3
  <2>4. QED
    BY <2>1, <2>2, <2>3
<1>11. ASSUME NEW o \in ToSet(s.moves) PROVE \E i \in 1 .. n : front[i].move = o
  <2>1. PICK j \in 1 .. n : rows[j].move = o
    BY DEF Shuffled, n
  <2>2. CASE j = k
    BY <1>1, <1>7, <2>1, <2>2
  <2>3. CASE j < k
    <3>1. j + 1 \in 1 .. n /\ j + 1 # 1 /\ j + 1 <= k /\ j + 1 - 1 = j
      BY <1>1, <1>5, <2>3
    <3>2. front[j + 1] = rows[j]
      BY <1>7, <3>1
    <3>3. QED
      BY <2>1, <3>1, <3>2
  <2>4. CASE j > k
    <3>1. j # 1 /\ ~(j <= k)
      BY <1>5, <2>4
    <3>2. front[j] = rows[j]
      BY <1>7, <3>1
    <3>3. QED
      BY <2>1, <3>2
  <2>5. QED
    BY <1>5, <2>2, <2>3, <2>4
<1>12. front[1].move = m
  BY <1>1, <1>5, <1>7
<1>13. front \in [1 .. n -> RowOf(s)]
  BY <1>7, <1>10
<1>14. QED
  BY <1>10, <1>11, <1>12, <1>13 DEF RowsOf, Shuffled, n

\* The first row takes what is remembered.
LEMMA RestoredRows ==
  ASSUME NEW s \in RootSetups, NEW w, w \in WorkersOf(s), Remembered(s, w), Shuffled(s, w.rootMoves),
         NEW v, v = Restored(w)
  PROVE  /\ v \in WorkersOf(s) /\ SameProgress(v, w) /\ v.pc = w.pc
         /\ v.rootMoves[1].move = w.lastBest.move /\ v.rootMoves[1].score = w.lastBest.score
         /\ IF w.lastBest.move = NoMove THEN w.lastBest.score = -Inf /\ w.completedDepth = 0 ELSE Shuffled(s, v.rootMoves)
<1> DEFINE m == w.lastBest.move  sc == w.lastBest.score  r == w.rootMoves  front == move_to_front(r, m)
           row == [front[1] EXCEPT !.move = m, !.score = sc]
           rows == [front EXCEPT ![1] = row]
<1>1. r \in RowsOf(s) /\ m \in ToSet(s.moves) \cup {NoMove} /\ sc \in -Inf .. Inf
  BY DEF WorkersOf, FoundBy
<1>2. Len(s.moves) \in Nat /\ 1 \in 1 .. Len(s.moves) /\ NoMove \notin ToSet(s.moves)
  BY SetupFacts
<1>3. front \in RowsOf(s) /\ (m # NoMove => Shuffled(s, front) /\ front[1].move = m)
  <2>1. CASE m = NoMove
    <3>1. DOMAIN r = 1 .. Len(s.moves)
      BY <1>1 DEF RowsOf
    <3>2. \A i \in DOMAIN r : r[i].move # m
      BY <1>2, <2>1, <3>1 DEF Shuffled
    <3>3. front = r
      BY <3>2 DEF move_to_front
    <3>4. QED
      BY <1>1, <2>1, <3>3
  <2>2. CASE m # NoMove
    <3>1. m \in ToSet(s.moves) /\ s.rank[m] = RankAt(s, 1) /\ Shuffled(s, r)
      BY <1>1, <2>2 DEF Remembered
    <3>2. front \in RowsOf(s) /\ Shuffled(s, front) /\ front[1].move = m
      <4> HIDE DEF r, m
      <4> QED BY <1>1, <3>1, FrontKeeps
    <3>3. QED
      BY <3>2
  <2>3. QED
    BY <2>1, <2>2
<1>4. v = WithRows(w, rows)
  BY DEF Restored, WithRows
<1> HIDE DEF r, front, m, sc
<1>5. front[1] \in RowOf(s)
  BY <1>2, <1>3 DEF RowsOf
<1>6. row \in RowOf(s) /\ row.move = m /\ row.score = sc
  BY <1>1, <1>5 DEF RowOf
<1> HIDE DEF row
<1>7. rows \in RowsOf(s) /\ rows[1] = row /\ \A i \in 1 .. Len(s.moves) : i # 1 => rows[i] = front[i]
  BY <1>2, <1>3, <1>6 DEF RowsOf
<1> HIDE DEF rows
<1>8. v \in WorkersOf(s) /\ Rowed(v, w, rows)
  BY <1>4, <1>7, RowFields
<1>9. SameProgress(v, w) /\ v.pc = w.pc /\ v.rootMoves = rows
  BY <1>8 DEF Rowed
<1>10. ASSUME m # NoMove PROVE Shuffled(s, rows)
  <2>1. \A i \in 1 .. Len(s.moves) : rows[i].move = front[i].move
    BY <1>3, <1>6, <1>7, <1>10
  <2>2. QED
    BY <1>3, <1>10, <2>1 DEF Shuffled
<1>11. v.rootMoves[1].move = m /\ v.rootMoves[1].score = sc
  BY <1>6, <1>7, <1>9
<1>12. QED
  BY <1>8, <1>9, <1>10, <1>11 DEF Remembered, m, sc

FinishedIteration(w) == [w EXCEPT !.completedDepth = w.rootDepth, !.results = Append(@, Best(w))]
WithLast(w, best) == [w EXCEPT !.lastBest = best]

LEMMA BestFields ==
  ASSUME NEW s \in RootSetups, NEW w, w \in WorkersOf(s), Shuffled(s, w.rootMoves)
  PROVE  /\ Best(w) \in FoundBy(s) /\ Best(w).move = w.rootMoves[1].move /\ Best(w).score = w.rootMoves[1].score
         /\ w.rootMoves[1].move \in ToSet(s.moves) /\ w.rootMoves[1].move # NoMove
         /\ s.rank[w.rootMoves[1].move] = RankAt(s, 1)
<1>1. 1 \in 1 .. Len(s.moves) /\ NoMove \notin ToSet(s.moves)
  BY SetupFacts
<1>2. w.rootMoves[1] \in RowOf(s)
  BY <1>1 DEF WorkersOf, RowsOf
<1>3. w.rootMoves[1].move \in ToSet(s.moves) /\ s.rank[w.rootMoves[1].move] = RankAt(s, 1)
  BY <1>1 DEF Shuffled
<1>4. w.rootMoves[1].score \in -Inf .. Inf
  BY <1>2 DEF RowOf
<1>5. QED
  BY <1>1, <1>3, <1>4 DEF Best, FoundBy

LEMMA CountedFields ==
  ASSUME NEW s, NEW w \in WorkersOf(s), Best(w) \in FoundBy(s), NEW v, v = FinishedIteration(w)
  PROVE  /\ v \in WorkersOf(s) /\ v.completedDepth = w.rootDepth /\ v.rootDepth = w.rootDepth
         /\ v.results = Append(w.results, Best(w)) /\ v.lastBest = w.lastBest /\ v.rootMoves = w.rootMoves
<1>1. w.rootDepth \in Nat /\ w.results \in Seq(FoundBy(s))
  BY DEF WorkersOf
<1>2. Append(w.results, Best(w)) \in Seq(FoundBy(s))
  BY <1>1
<1> DEFINE res == Append(w.results, Best(w))
<1>3. v = [w EXCEPT !.completedDepth = w.rootDepth, !.results = res]
  BY DEF FinishedIteration, WorkersOf
<1>4. res \in Seq(FoundBy(s))
  BY <1>2
<1> HIDE DEF res
<1>5. v \in WorkersOf(s)
  BY <1>1, <1>3, <1>4 DEF WorkersOf
<1>6. /\ v.completedDepth = w.rootDepth /\ v.rootDepth = w.rootDepth
      /\ v.results = res /\ v.lastBest = w.lastBest /\ v.rootMoves = w.rootMoves
  BY <1>3 DEF WorkersOf
<1>7. QED
  BY <1>5, <1>6 DEF res

LEMMA LastFields ==
  ASSUME NEW s, NEW w \in WorkersOf(s), NEW best \in FoundBy(s), NEW v, v = WithLast(w, best)
  PROVE  /\ v \in WorkersOf(s) /\ v.completedDepth = w.completedDepth /\ v.rootDepth = w.rootDepth
         /\ v.results = w.results /\ v.lastBest = best /\ v.rootMoves = w.rootMoves
<1>1. v \in WorkersOf(s)
  BY DEF WorkersOf, WithLast
<1>2. /\ v.completedDepth = w.completedDepth /\ v.rootDepth = w.rootDepth
      /\ v.results = w.results /\ v.lastBest = best /\ v.rootMoves = w.rootMoves
  BY DEF WorkersOf, WithLast
<1>3. QED
  BY <1>1, <1>2

LEMMA ResultsGrow ==
  ASSUME NEW S, NEW q \in Seq(S), NEW e \in S
  PROVE  e \in ToSet(Append(q, e)) /\ ToSet(q) \subseteq ToSet(Append(q, e))
<1>1. /\ DOMAIN q = 1 .. Len(q) /\ Len(q) \in Nat /\ DOMAIN Append(q, e) = 1 .. Len(q) + 1
      /\ Append(q, e)[Len(q) + 1] = e /\ \A i \in 1 .. Len(q) : Append(q, e)[i] = q[i]
  OBVIOUS
<1>2. Len(q) + 1 \in DOMAIN Append(q, e) /\ \A i \in DOMAIN q : i \in DOMAIN Append(q, e)
  BY <1>1
<1>3. QED
  BY <1>1, <1>2 DEF ToSet

\* The end of an iteration: nothing is lost but, of a helper, a first move that it does not trust.
LEMMA EndIterationWorker ==
  ASSUME setup \in RootSetups, stop \in BOOLEAN, aborted \in BOOLEAN, aborted => stop,
         NEW w, WorkerKept(setup, w), w.pc = "end", Shuffled(setup, w.rootMoves), Trusted(w),
         NEW counted, counted = IF stop THEN w ELSE FinishedIteration(w),
         NEW u, u = IF UnprovenLoss(w) THEN Restored(counted)
                    ELSE IF Best(w).move # w.lastBest.move THEN WithLast(counted, Best(w)) ELSE counted,
         NEW v, v = WithPc(u, "iterate")
  PROVE  /\ WorkerKept(setup, v) /\ v.pc = "iterate" /\ v.completedDepth >= w.completedDepth
         /\ \/ Shuffled(setup, v.rootMoves)
            \/ aborted /\ v.rootMoves[1].move = NoMove /\ v.rootMoves[1].score = -Inf /\ v.completedDepth = 0
         /\ ~stop => Trusted(v)
         /\ aborted /\ ProvenLoss(v.rootMoves[1].score) => Best(v) \in ToSet(v.results)
<1> DEFINE s == setup
<1>1. w \in WorkersOf(s) /\ w.completedDepth <= w.rootDepth /\ Remembered(s, w) /\ Inf \in Nat
  BY SetupFacts DEF WorkerKept
<1>2. /\ Best(w) \in FoundBy(s) /\ Best(w).move = w.rootMoves[1].move /\ Best(w).score = w.rootMoves[1].score
      /\ w.rootMoves[1].move \in ToSet(s.moves) /\ w.rootMoves[1].move # NoMove
      /\ s.rank[w.rootMoves[1].move] = RankAt(s, 1)
  BY <1>1, BestFields
<1>3. /\ w.rootDepth \in Nat /\ w.completedDepth \in Nat /\ w.lastBest \in FoundBy(s) /\ w.results \in Seq(FoundBy(s))
  BY <1>1 DEF WorkersOf
<1>4. /\ counted \in WorkersOf(s) /\ counted.rootDepth = w.rootDepth /\ counted.lastBest = w.lastBest
      /\ counted.rootMoves = w.rootMoves
      /\ IF stop THEN counted.completedDepth = w.completedDepth /\ counted.results = w.results
         ELSE counted.completedDepth = w.rootDepth /\ counted.results = Append(w.results, Best(w))
  <2>1. CASE stop
    BY <1>1, <2>1
  <2>2. CASE ~stop
    BY <1>1, <1>2, <2>2, CountedFields
  <2>3. QED
    BY <2>1, <2>2
<1>5. counted.completedDepth <= counted.rootDepth /\ counted.completedDepth >= w.completedDepth
  BY <1>1, <1>3, <1>4
<1>6. Trusted(counted)
  <2>1. CASE stop
    BY <1>4, <2>1 DEF Trusted
  <2>2. CASE ~stop
    <3>1. ToSet(w.results) \subseteq ToSet(Append(w.results, Best(w)))
      BY <1>2, <1>3, ResultsGrow
    <3>2. counted.results = Append(w.results, Best(w)) /\ counted.lastBest = w.lastBest
      BY <1>4, <2>2
    <3>3. QED
      BY <3>1, <3>2 DEF Trusted
  <2>3. QED
    BY <2>1, <2>2
<1>7. \A y : y \in WorkersOf(s) /\ y.completedDepth <= y.rootDepth /\ Remembered(s, y) /\ v = WithPc(y, "iterate") =>
        /\ WorkerKept(s, v) /\ v.pc = "iterate" /\ v.rootMoves = y.rootMoves
        /\ v.lastBest = y.lastBest /\ v.results = y.results /\ v.completedDepth = y.completedDepth
  <2> SUFFICES ASSUME NEW y, y \in WorkersOf(s), y.completedDepth <= y.rootDepth, Remembered(s, y), v = WithPc(y, "iterate")
               PROVE  /\ WorkerKept(s, v) /\ v.pc = "iterate" /\ v.rootMoves = y.rootMoves
                      /\ v.lastBest = y.lastBest /\ v.results = y.results /\ v.completedDepth = y.completedDepth
    OBVIOUS
  <2>1. v \in WorkersOf(s) /\ SameProgress(v, y) /\ v.rootMoves = y.rootMoves /\ v.pc = "iterate"
    BY PcFields
  <2>2. v.completedDepth <= v.rootDepth /\ Remembered(s, v)
    BY <2>1 DEF SameProgress, Remembered
  <2>3. QED
    BY <2>1, <2>2 DEF WorkerKept, SameProgress
<1>8. CASE UnprovenLoss(w)
  <2>1. stop /\ aborted /\ u = Restored(counted)
    BY <1>8 DEF UnprovenLoss
  <2>2. counted = w
    BY <2>1
  <2>3. /\ u \in WorkersOf(s) /\ SameProgress(u, w) /\ u.pc = w.pc
        /\ u.rootMoves[1].move = w.lastBest.move /\ u.rootMoves[1].score = w.lastBest.score
        /\ IF w.lastBest.move = NoMove THEN w.lastBest.score = -Inf /\ w.completedDepth = 0 ELSE Shuffled(s, u.rootMoves)
    BY <1>1, <2>1, <2>2, RestoredRows
  <2>4. u.completedDepth <= u.rootDepth /\ Remembered(s, u)
    BY <1>1, <2>3 DEF SameProgress, Remembered
  <2>5. /\ WorkerKept(s, v) /\ v.pc = "iterate" /\ v.rootMoves = u.rootMoves
        /\ v.lastBest = u.lastBest /\ v.results = u.results /\ v.completedDepth = u.completedDepth
    BY <1>7, <2>3, <2>4
  <2>6. v.completedDepth = w.completedDepth /\ v.lastBest = w.lastBest /\ v.results = w.results
    BY <2>3, <2>5 DEF SameProgress
  <2>7. \/ Shuffled(s, v.rootMoves)
        \/ aborted /\ v.rootMoves[1].move = NoMove /\ v.rootMoves[1].score = -Inf /\ v.completedDepth = 0
    BY <2>1, <2>3, <2>5, <2>6
  <2>8. ASSUME ProvenLoss(v.rootMoves[1].score) PROVE Best(v) \in ToSet(v.results)
    <3>1. Best(v) = w.lastBest
      BY <1>3, <2>3, <2>5 DEF Best, FoundBy
    <3>2. w.lastBest.score # -Inf
      BY <2>3, <2>5, <2>8 DEF ProvenLoss
    <3>3. w.lastBest \in ToSet(w.results)
      BY <3>2 DEF Trusted
    <3>4. QED
      BY <2>6, <3>1, <3>3
  <2>9. QED
    BY <1>3, <2>1, <2>5, <2>6, <2>7, <2>8
<1>9. CASE ~UnprovenLoss(w)
  <2>1. u = IF Best(w).move # w.lastBest.move THEN WithLast(counted, Best(w)) ELSE counted
    BY <1>9
  <2>2. /\ u \in WorkersOf(s) /\ u.rootDepth = counted.rootDepth /\ u.completedDepth = counted.completedDepth
        /\ u.results = counted.results /\ u.rootMoves = w.rootMoves
        /\ \/ u.lastBest = Best(w)
           \/ u.lastBest = w.lastBest /\ Best(w).move = w.lastBest.move
    <3>1. CASE Best(w).move # w.lastBest.move
      BY <1>2, <1>4, <2>1, <3>1, LastFields
    <3>2. CASE Best(w).move = w.lastBest.move
      BY <1>4, <2>1, <3>2
    <3>3. QED
      BY <3>1, <3>2
  <2>3. u.lastBest.move # NoMove /\ s.rank[u.lastBest.move] = RankAt(s, 1)
    BY <1>2, <2>2
  <2>4. u.completedDepth <= u.rootDepth /\ Remembered(s, u)
    BY <1>5, <2>2, <2>3 DEF Remembered
  <2>5. /\ WorkerKept(s, v) /\ v.pc = "iterate" /\ v.rootMoves = u.rootMoves
        /\ v.lastBest = u.lastBest /\ v.results = u.results /\ v.completedDepth = u.completedDepth
    BY <1>7, <2>2, <2>4
  <2>6. v.completedDepth >= w.completedDepth /\ Shuffled(s, v.rootMoves)
    BY <1>5, <2>2, <2>5
  <2>7. ASSUME ~stop PROVE Trusted(v)
    <3>1. v.results = Append(w.results, Best(w)) /\ Best(w) \in ToSet(Append(w.results, Best(w)))
      BY <1>2, <1>3, <1>4, <2>2, <2>5, <2>7, ResultsGrow
    <3>2. CASE u.lastBest = Best(w)
      BY <2>5, <3>1, <3>2 DEF Trusted
    <3>3. CASE u.lastBest = w.lastBest
      BY <1>4, <1>6, <2>2, <2>5, <3>3 DEF Trusted
    <3>4. QED
      BY <2>2, <3>2, <3>3
  <2>8. ~(aborted /\ ProvenLoss(v.rootMoves[1].score))
    BY <1>9, <2>2, <2>5 DEF UnprovenLoss, ProvenLoss
  <2>9. QED
    BY <2>5, <2>6, <2>7, <2>8
<1>10. QED
  BY <1>8, <1>9

-----------------------------------------------------------------------------
(* The inductive invariant: the root moves of a worker stay on places of   *)
(* their rank, its window is open, its finished lines are sorted, and the  *)
(* best move it remembers is one that it may go back to; only a helper     *)
(* whose first iteration was aborted by the clock may lose its first move. *)

EmptiedWorker(w) ==
  /\ w.rootMoves[1].move = NoMove /\ w.rootMoves[1].score = -Inf
  /\ w.pc \in {"iterate", "done"} /\ w.completedDepth = 0

FlagsKept ==
  /\ setup \in RootSetups /\ stop \in BOOLEAN /\ aborted \in BOOLEAN
  /\ aborted => stop /\ worker[Main].completedDepth >= 1

WorkerRight(t) ==
  /\ WorkerKept(setup, worker[t])
  /\ Shuffled(setup, worker[t].rootMoves) \/ (EmptiedWorker(worker[t]) /\ aborted /\ t # Main)
  /\ stop \/ Lined(setup, worker[t])
  /\ worker[t].pc \in {"search", "line", "end"} \/ (worker[t].pc = "iterate" /\ ~stop) => Trusted(worker[t])

RootInv == FlagsKept /\ worker = [t \in Threads |-> worker[t]] /\ \A t \in Threads : WorkerRight(t)

LEMMA MainIsThread ==
  ASSUME setup \in RootSetups
  PROVE  Main \in Threads /\ Threads \subseteq RootThreads
<1>1. setup.threads \in Seq(RootThreads) /\ setup.threads # <<>>
  BY RootAssumption
<1>2. 1 \in DOMAIN setup.threads /\ \A i \in DOMAIN setup.threads : setup.threads[i] \in RootThreads
  BY <1>1
<1>3. QED
  BY <1>2 DEF Main, Threads, ToSet

LEMMA RootInitInv ==
  ASSUME RootInit
  PROVE  RootInv
<1> DEFINE s == setup  n == Len(s.moves)  rows == [i \in DOMAIN s.moves |-> RootMove(s.moves[i])]
           last == [move |-> NoMove, score |-> -Inf]
<1>1. /\ s \in RootSetups /\ stop = FALSE /\ aborted = FALSE /\ worker = [t \in Threads |-> Worker(s)]
  BY DEF RootInit, Threads
<1>2. /\ n \in Nat /\ DOMAIN s.moves = 1 .. n /\ Inf \in Nat
      /\ \A i \in 1 .. n : s.moves[i] \in ToSet(s.moves)
  BY <1>1, SetupFacts
<1>3. -Inf \in -Inf .. Inf /\ Inf \in -Inf .. Inf
  BY <1>2
<1>4. \A m \in ToSet(s.moves) : RootMove(m) \in RowOf(s) /\ RootMove(m).move = m
  BY <1>3 DEF RootMove, RowOf
<1>5. rows \in RowsOf(s) /\ \A i \in 1 .. n : rows[i].move = s.moves[i]
  BY <1>2, <1>4 DEF RowsOf
<1>6. Shuffled(s, rows)
  BY <1>2, <1>5 DEF Shuffled, RankAt, ToSet
<1>7. last \in FoundBy(s)
  BY <1>3 DEF FoundBy
<1>8. <<>> \in Seq(FoundBy(s))
  OBVIOUS
<1>9. Worker(s) = [pc |-> "iterate", rootDepth |-> 0, completedDepth |-> 0, rootMoves |-> rows,
         pvIdx |-> 1, pvFirst |-> 1, pvLast |-> 1, alpha |-> -Inf, beta |-> Inf, delta |-> 0,
         lastBest |-> last, results |-> <<>>]
  BY DEF Worker
<1> HIDE DEF rows, last, s
<1>10. Worker(s) \in WorkersOf(s)
  BY <1>3, <1>5, <1>7, <1>8, <1>9 DEF WorkersOf
<1>11. /\ Worker(s).pc = "iterate" /\ Worker(s).rootDepth = 0 /\ Worker(s).completedDepth = 0
       /\ Worker(s).rootMoves = rows /\ Worker(s).lastBest = last
  BY <1>9
<1>12. last.move = NoMove /\ last.score = -Inf
  BY DEF last
<1>13. WorkerKept(s, Worker(s))
  BY <1>10, <1>11, <1>12 DEF WorkerKept, Remembered
<1>14. Lined(s, Worker(s))
  BY <1>11 DEF Lined
<1>15. Trusted(Worker(s))
  BY <1>11 DEF Trusted, last
<1>16. ASSUME NEW t \in Threads PROVE WorkerRight(t)
  <2>1. worker[t] = Worker(s)
    BY <1>1
  <2>2. Shuffled(s, worker[t].rootMoves)
    BY <1>6, <1>11, <2>1
  <2>3. QED
    BY <1>1, <1>13, <1>14, <1>15, <2>1, <2>2 DEF WorkerRight, s
<1>17. QED
  BY <1>1, <1>16 DEF RootInv, FlagsKept, s

\* A step of one worker, which leaves the others alone.
LEMMA WorkerSteps ==
  ASSUME RootInv, setup' = setup, aborted' = aborted, stop' \in BOOLEAN, stop => stop',
         NEW t \in Threads, NEW v, worker' = [worker EXCEPT ![t] = v],
         v.completedDepth >= worker[t].completedDepth, WorkerKept(setup, v),
         Shuffled(setup, v.rootMoves) \/ (EmptiedWorker(v) /\ aborted /\ t # Main),
         stop' \/ Lined(setup, v),
         v.pc \in {"search", "line", "end"} \/ (v.pc = "iterate" /\ ~stop') => Trusted(v)
  PROVE  RootInv'
<1>1. Threads' = Threads /\ Main' = Main /\ Main \in Threads
  BY MainIsThread DEF RootInv, FlagsKept, Threads, Main
<1>2. DOMAIN worker = Threads
  BY DEF RootInv
<1>3. worker'[t] = v /\ \A u \in Threads : u # t => worker'[u] = worker[u]
  BY <1>2
<1>4. worker' = [u \in Threads' |-> worker'[u]]
  BY <1>1, <1>2
<1>5. FlagsKept'
  <2>1. v.completedDepth \in Int
    BY DEF WorkerKept, WorkersOf
  <2>2. worker[t].completedDepth \in Int /\ worker[Main].completedDepth \in Int
    BY <1>1 DEF RootInv, WorkerRight, WorkerKept, WorkersOf
  <2>3. worker[Main].completedDepth <= worker'[Main].completedDepth
    BY <1>1, <1>3, <2>1, <2>2
  <2>4. worker'[Main].completedDepth \in Int
    BY <1>1, <1>3, <2>1, <2>2
  <2>5. aborted => worker'[Main].completedDepth >= 1
    BY <2>2, <2>3, <2>4 DEF RootInv, FlagsKept
  <2>6. QED
    BY <1>1, <2>5 DEF RootInv, FlagsKept
<1>6. ASSUME NEW u \in Threads PROVE WorkerRight(u)'
  <2>1. CASE u = t
    <3>1. worker'[u] = v
      BY <1>3, <2>1
    <3>2. QED
      BY <1>1, <2>1, <3>1 DEF WorkerRight
  <2>2. CASE u # t
    <3>1. worker'[u] = worker[u] /\ WorkerRight(u)
      BY <1>3, <2>2 DEF RootInv
    <3>2. QED
      BY <1>1, <3>1 DEF WorkerRight
  <2>3. QED
    BY <2>1, <2>2
<1>7. QED
  BY <1>1, <1>4, <1>5, <1>6 DEF RootInv

-----------------------------------------------------------------------------
(* Every step keeps the invariant.                                         *)

LEMMA BusyWorker ==
  ASSUME RootInv, NEW t \in Threads, worker[t].pc \in {"search", "line", "end"}
  PROVE  /\ WorkerKept(setup, worker[t]) /\ Shuffled(setup, worker[t].rootMoves) /\ Trusted(worker[t])
         /\ stop \/ Lined(setup, worker[t])
         /\ setup \in RootSetups /\ stop \in BOOLEAN
  BY DEF RootInv, FlagsKept, WorkerRight, EmptiedWorker

LEMMA GoneOn ==
  ASSUME RootInv, UNCHANGED <<setup, stop, aborted>>, NEW t \in Threads, worker[t].pc \in {"search", "line"},
         NEW v, worker' = [worker EXCEPT ![t] = v], GoesOn(setup, worker[t], v), stop \/ Lined(setup, v)
  PROVE  RootInv'
<1>1. Trusted(worker[t]) /\ WorkerKept(setup, worker[t]) /\ stop \in BOOLEAN
  BY BusyWorker
<1>2. Trusted(v)
  BY <1>1 DEF GoesOn, Trusted
<1>3. v.completedDepth = worker[t].completedDepth /\ worker[t].completedDepth \in Int
  BY <1>1 DEF GoesOn, WorkerKept, WorkersOf
<1>4. v.completedDepth >= worker[t].completedDepth
  BY <1>3
<1>5. WorkerKept(setup, v) /\ Shuffled(setup, v.rootMoves)
  BY DEF GoesOn
<1>6. setup' = setup /\ aborted' = aborted /\ stop' \in BOOLEAN /\ (stop => stop')
  BY <1>1
<1>7. stop' \/ Lined(setup, v)
  OBVIOUS
<1>8. Shuffled(setup, v.rootMoves) \/ (EmptiedWorker(v) /\ aborted /\ t # Main)
  BY <1>5
<1>9. v.pc \in {"search", "line", "end"} \/ (v.pc = "iterate" /\ ~stop') => Trusted(v)
  BY <1>2
<1>10. QED
  BY <1>4, <1>5, <1>6, <1>7, <1>8, <1>9, WorkerSteps

\* The worker after a search of n moves.
After(w, order, value, n, halt) ==
  LET x == Searched(w, order, value, n)
      sorted == WithRows(w, stable_sort(x.rows, w.pvIdx, w.pvLast))
  IN  IF halt THEN LineEnds(sorted)
      ELSE IF x.best <= w.alpha THEN FailLow(sorted, x.best)
      ELSE IF x.best >= w.beta THEN FailHigh(sorted, x.best)
      ELSE LineEnds(sorted)

LEMMA SearchRootGoesOn ==
  ASSUME RootInv, NEW t \in Threads, SearchRoot(t)
  PROVE  \E v : /\ worker' = [worker EXCEPT ![t] = v]
                /\ GoesOn(setup, worker[t], v) /\ (stop \/ Lined(setup, v))
<1> DEFINE w == worker[t]
<1>1. w.pc = "search"
  BY DEF SearchRoot
<1>2. /\ WorkerKept(setup, w) /\ Shuffled(setup, w.rootMoves) /\ (stop \/ Lined(setup, w))
      /\ setup \in RootSetups /\ stop \in BOOLEAN
  BY <1>1, BusyWorker
<1>3. PICK order \in Orders(w) :
        \E n \in IF stop THEN 0 .. Len(order) - (IF aborted /\ t = Main THEN 1 ELSE 0) ELSE {Len(order)} :
          \E value \in [1 .. n -> setup.values] :
            worker' = [worker EXCEPT ![t] = After(w, order, value, n, stop)]
  BY DEF SearchRoot, After, WithRows
<1>4. PICK n \in IF stop THEN 0 .. Len(order) - (IF aborted /\ t = Main THEN 1 ELSE 0) ELSE {Len(order)} :
        \E value \in [1 .. n -> setup.values] :
          worker' = [worker EXCEPT ![t] = After(w, order, value, n, stop)]
  BY <1>3
<1>5. PICK value \in [1 .. n -> setup.values] :
        worker' = [worker EXCEPT ![t] = After(w, order, value, n, stop)]
  BY <1>4
<1> DEFINE x == Searched(w, order, value, n)
           sorted == WithRows(w, stable_sort(x.rows, w.pvIdx, w.pvLast))
           v == After(w, order, value, n, stop)
<1>6. n \in IF stop THEN 0 .. Len(order) ELSE {Len(order)}
  <2>1. Len(order) \in Nat
    BY <1>1, <1>2, OrderFacts DEF WorkerKept
  <2>2. QED
    BY <1>4, <2>1
<1>7. UNCHANGED <<setup, stop, aborted>>
  BY DEF SearchRoot
<1>8. GoesOn(setup, w, v) /\ (~stop /\ Lined(setup, w) => Lined(setup, v))
  <2> HIDE DEF w, x, sorted, v
  <2>1. x = Searched(w, order, value, n) /\ sorted = WithRows(w, stable_sort(x.rows, w.pvIdx, w.pvLast))
    BY DEF x, sorted
  <2>2. v = IF stop THEN LineEnds(sorted)
            ELSE IF x.best <= w.alpha THEN FailLow(sorted, x.best)
            ELSE IF x.best >= w.beta THEN FailHigh(sorted, x.best)
            ELSE LineEnds(sorted)
    BY DEF v, After, x, sorted
  <2>3. QED
    BY <1>1, <1>2, <1>6, <2>1, <2>2, SearchRootWorker
<1>11. worker' = [worker EXCEPT ![t] = v]
  BY <1>5
<1> HIDE DEF x, sorted, v
<1>9. stop \/ Lined(setup, v)
  BY <1>2, <1>8
<1>10. GoesOn(setup, worker[t], v)
  BY <1>8
<1>12. QED
  BY <1>9, <1>10, <1>11

LEMMA SearchRootInv ==
  ASSUME RootInv, NEW t \in Threads, SearchRoot(t)
  PROVE  RootInv'
<1>1. PICK v : worker' = [worker EXCEPT ![t] = v] /\ GoesOn(setup, worker[t], v) /\ (stop \/ Lined(setup, v))
  BY SearchRootGoesOn
<1>2. worker[t].pc \in {"search", "line"} /\ UNCHANGED <<setup, stop, aborted>>
  BY DEF SearchRoot
<1>3. QED
  BY <1>1, <1>2, GoneOn

LEMMA CutOffAtRootInv ==
  ASSUME RootInv, NEW t \in Threads, CutOffAtRoot(t)
  PROVE  RootInv'
<1> DEFINE w == worker[t]
<1>1. w.pc = "search" /\ ~stop
  BY DEF CutOffAtRoot
<1>2. WorkerKept(setup, w) /\ Shuffled(setup, w.rootMoves) /\ Lined(setup, w) /\ setup \in RootSetups
  BY <1>1, BusyWorker
<1>3. PICK best \in {y \in setup.values : y >= w.beta /\ ~is_win(y)} :
        worker' = [worker EXCEPT ![t] = FailHigh([w EXCEPT !.rootMoves = stable_sort(@, w.pvIdx, w.pvLast)], best)]
  BY DEF CutOffAtRoot
<1> DEFINE v == FailHigh(WithRows(w, stable_sort(w.rootMoves, w.pvIdx, w.pvLast)), best)
<1>4. worker' = [worker EXCEPT ![t] = v]
  BY <1>3 DEF WithRows
<1>5. UNCHANGED <<setup, stop, aborted>>
  BY DEF CutOffAtRoot
<1>6. GoesOn(setup, w, v) /\ Lined(setup, v)
  <2>1. best \in setup.values /\ best >= w.beta
    BY <1>3
  <2>2. v = FailHigh(WithRows(w, stable_sort(w.rootMoves, w.pvIdx, w.pvLast)), best)
    OBVIOUS
  <2> HIDE DEF w, v
  <2>3. QED
    BY <1>1, <1>2, <2>1, <2>2, CutOffWorker
<1> HIDE DEF v
<1>7. QED
  BY <1>1, <1>4, <1>5, <1>6, GoneOn

LEMMA EndLineInv ==
  ASSUME RootInv, NEW t \in Threads, EndLine(t)
  PROVE  RootInv'
<1> DEFINE w == worker[t]
           sorted == WithRows(w, stable_sort(w.rootMoves, w.pvFirst, w.pvIdx))
           ends(v) == (stop \/ w.pvIdx = setup.multiPV) /\ v = WithPc(sorted, "end")
           goes(v) == /\ ~stop /\ w.pvIdx # setup.multiPV
                      /\ \E delta \in setup.deltas, avg \in AnyAverage : v = BeginLine(sorted, w.pvIdx + 1, delta, avg)
<1>1. w.pc = "line" /\ UNCHANGED <<setup, stop, aborted>>
  BY DEF EndLine
<1>2. /\ WorkerKept(setup, w) /\ Shuffled(setup, w.rootMoves) /\ (stop \/ Lined(setup, w))
      /\ setup \in RootSetups /\ stop \in BOOLEAN
  BY <1>1, BusyWorker
<1>3. PICK v : worker' = [worker EXCEPT ![t] = v] /\ (ends(v) \/ goes(v))
  <2>1. CASE stop \/ w.pvIdx = setup.multiPV
    BY <2>1 DEF EndLine, WithRows, WithPc
  <2>2. CASE ~(stop \/ w.pvIdx = setup.multiPV)
    <3>1. PICK delta \in setup.deltas, avg \in AnyAverage :
            worker' = [worker EXCEPT ![t] = BeginLine(sorted, w.pvIdx + 1, delta, avg)]
      BY <2>2 DEF EndLine, WithRows, Averages, AnyAverage
    <3>2. goes(BeginLine(sorted, w.pvIdx + 1, delta, avg))
      BY <2>2
    <3>3. QED
      BY <3>1, <3>2
  <2>3. QED
    BY <2>1, <2>2
<1>4. GoesOn(setup, w, v) /\ (~stop /\ Lined(setup, w) => Lined(setup, v))
  <2>1. sorted = WithRows(w, stable_sort(w.rootMoves, w.pvFirst, w.pvIdx))
    OBVIOUS
  <2> HIDE DEF w, sorted
  <2>2. QED
    BY <1>1, <1>2, <1>3, <2>1, EndLineWorker
<1>5. QED
  BY <1>1, <1>2, <1>3, <1>4, GoneOn

LEMMA IterateInv ==
  ASSUME RootInv, NEW t \in Threads, Iterate(t)
  PROVE  RootInv'
<1> DEFINE w == worker[t]
<1>1. w.pc = "iterate" /\ setup' = setup /\ aborted' = aborted
  BY DEF Iterate
<1>2. /\ WorkerKept(setup, w) /\ setup \in RootSetups /\ stop \in BOOLEAN /\ (aborted => stop)
      /\ Shuffled(setup, w.rootMoves) \/ (EmptiedWorker(w) /\ aborted /\ t # Main)
      /\ ~stop => Trusted(w)
  BY <1>1 DEF RootInv, FlagsKept, WorkerRight
<1>3. w.completedDepth \in Int
  BY <1>2 DEF WorkerKept, WorkersOf
<1>4. CASE stop \/ Deepest(t)
  <2> DEFINE v == WithPc(w, "done")
  <2>1. worker' = [worker EXCEPT ![t] = v] /\ stop' = (stop \/ t = Main)
    BY <1>4 DEF Iterate, WithPc
  <2>2. stop' \in BOOLEAN /\ (stop => stop')
    BY <1>2, <2>1
  <2>3. v = WithPc(w, "done")
    OBVIOUS
  <2> HIDE DEF v
  <2>4. WorkerKept(setup, v) /\ v.pc = "done" /\ v.rootMoves = w.rootMoves /\ v.completedDepth = w.completedDepth
    BY <1>2, <2>3, PcKeeps
  <2>5. v.completedDepth >= w.completedDepth
    BY <1>3, <2>4
  <2>6. Shuffled(setup, v.rootMoves) \/ (EmptiedWorker(v) /\ aborted /\ t # Main)
    BY <1>2, <2>4 DEF EmptiedWorker
  <2>7. stop' \/ Lined(setup, v)
    BY <2>4 DEF Lined
  <2>8. v.pc \in {"search", "line", "end"} \/ (v.pc = "iterate" /\ ~stop') => Trusted(v)
    BY <2>4
  <2>9. QED
    BY <1>1, <2>1, <2>2, <2>4, <2>5, <2>6, <2>7, <2>8, WorkerSteps
<1>5. CASE ~(stop \/ Deepest(t))
  <2>1. Shuffled(setup, w.rootMoves) /\ Trusted(w)
    BY <1>2, <1>5
  <2>2. PICK delta \in setup.deltas, avg \in AnyAverage :
          worker' = [worker EXCEPT ![t] = BeginLine(Deepened(w), 1, delta, avg)]
    BY <1>5 DEF Iterate, Averages, AnyAverage
  <2>3. stop' = stop
    BY <1>5 DEF Iterate
  <2> DEFINE v == BeginLine(Deepened(w), 1, delta, avg)
  <2>4. GoesOn(setup, w, v) /\ Lined(setup, v)
    <3>1. v = BeginLine(Deepened(w), 1, delta, avg)
      OBVIOUS
    <3> HIDE DEF w, v
    <3>2. QED
      BY <1>2, <2>1, <3>1, IterateWorker
  <2>5. worker' = [worker EXCEPT ![t] = v]
    BY <2>2
  <2> HIDE DEF v
  <2>6. WorkerKept(setup, v) /\ Shuffled(setup, v.rootMoves) /\ Trusted(v) /\ v.completedDepth = w.completedDepth
    BY <2>1, <2>4 DEF GoesOn, Trusted
  <2>7. v.completedDepth >= w.completedDepth
    BY <1>3, <2>6
  <2>8. stop' \in BOOLEAN /\ (stop => stop') /\ (stop' \/ Lined(setup, v))
    BY <1>2, <2>3, <2>4
  <2>9. Shuffled(setup, v.rootMoves) \/ (EmptiedWorker(v) /\ aborted /\ t # Main)
    BY <2>6
  <2>10. v.pc \in {"search", "line", "end"} \/ (v.pc = "iterate" /\ ~stop') => Trusted(v)
    BY <2>6
  <2>11. QED
    BY <1>1, <2>5, <2>6, <2>7, <2>8, <2>9, <2>10, WorkerSteps
<1>6. QED
  BY <1>4, <1>5

\* The last worker of an iteration, by the definition of EndIteration.
Ended(w) ==
  LET counted == IF stop THEN w ELSE FinishedIteration(w)
  IN  WithPc(IF UnprovenLoss(w) THEN Restored(counted)
             ELSE IF Best(w).move # w.lastBest.move THEN WithLast(counted, Best(w)) ELSE counted, "iterate")

LEMMA EndIterationEnds ==
  ASSUME RootInv, NEW t \in Threads, EndIteration(t)
  PROVE  /\ worker' = [worker EXCEPT ![t] = Ended(worker[t])]
         /\ WorkerKept(setup, Ended(worker[t])) /\ Ended(worker[t]).pc = "iterate"
         /\ Ended(worker[t]).completedDepth >= worker[t].completedDepth
         /\ \/ Shuffled(setup, Ended(worker[t]).rootMoves)
            \/ /\ aborted /\ Ended(worker[t]).rootMoves[1].move = NoMove
               /\ Ended(worker[t]).rootMoves[1].score = -Inf /\ Ended(worker[t]).completedDepth = 0
         /\ ~stop => Trusted(Ended(worker[t]))
         /\ aborted /\ ProvenLoss(Ended(worker[t]).rootMoves[1].score) => Best(Ended(worker[t])) \in ToSet(Ended(worker[t]).results)
<1> DEFINE w == worker[t]
           counted == IF stop THEN w ELSE FinishedIteration(w)
           u == IF UnprovenLoss(w) THEN Restored(counted)
                ELSE IF Best(w).move # w.lastBest.move THEN WithLast(counted, Best(w)) ELSE counted
           v == WithPc(u, "iterate")
<1>1. w.pc = "end"
  BY DEF EndIteration
<1>2. WorkerKept(setup, w) /\ Shuffled(setup, w.rootMoves) /\ Trusted(w) /\ setup \in RootSetups /\ stop \in BOOLEAN
  BY <1>1, BusyWorker
<1>3. aborted \in BOOLEAN /\ (aborted => stop)
  BY DEF RootInv, FlagsKept
<1>4. worker' = [worker EXCEPT ![t] = v]
  BY DEF EndIteration, FinishedIteration, WithLast, WithPc
<1>5. v = Ended(w)
  BY DEF Ended
<1>6. counted = (IF stop THEN w ELSE FinishedIteration(w)) /\ v = WithPc(u, "iterate")
      /\ u = (IF UnprovenLoss(w) THEN Restored(counted)
              ELSE IF Best(w).move # w.lastBest.move THEN WithLast(counted, Best(w)) ELSE counted)
  OBVIOUS
<1> HIDE DEF v, u, counted, w
<1>7. /\ WorkerKept(setup, v) /\ v.pc = "iterate" /\ v.completedDepth >= w.completedDepth
      /\ \/ Shuffled(setup, v.rootMoves)
         \/ aborted /\ v.rootMoves[1].move = NoMove /\ v.rootMoves[1].score = -Inf /\ v.completedDepth = 0
      /\ ~stop => Trusted(v)
      /\ aborted /\ ProvenLoss(v.rootMoves[1].score) => Best(v) \in ToSet(v.results)
  BY <1>1, <1>2, <1>3, <1>6, EndIterationWorker
<1>8. QED
  BY <1>4, <1>5, <1>7 DEF w

LEMMA EndIterationInv ==
  ASSUME RootInv, NEW t \in Threads, EndIteration(t)
  PROVE  RootInv'
<1> DEFINE w == worker[t]  v == Ended(worker[t])
<1>1. worker' = [worker EXCEPT ![t] = v]
  BY EndIterationEnds
<1>2. /\ WorkerKept(setup, v) /\ v.pc = "iterate" /\ v.completedDepth >= w.completedDepth
      /\ \/ Shuffled(setup, v.rootMoves)
         \/ aborted /\ v.rootMoves[1].move = NoMove /\ v.rootMoves[1].score = -Inf /\ v.completedDepth = 0
      /\ ~stop => Trusted(v)
  BY EndIterationEnds
<1>3. /\ setup' = setup /\ aborted' = aborted /\ stop' \in IF t = Main THEN {stop, TRUE} ELSE {stop}
  BY DEF EndIteration
<1>4. stop \in BOOLEAN /\ (aborted => stop /\ worker[Main].completedDepth >= 1)
  BY DEF RootInv, FlagsKept
<1>5. stop' \in BOOLEAN /\ (stop => stop') /\ (~stop' => ~stop)
  BY <1>3, <1>4
<1> HIDE DEF v
<1>6. Shuffled(setup, v.rootMoves) \/ (EmptiedWorker(v) /\ aborted /\ t # Main)
  <2>1. SUFFICES ASSUME ~Shuffled(setup, v.rootMoves) PROVE EmptiedWorker(v) /\ aborted /\ t # Main
    OBVIOUS
  <2>2. EmptiedWorker(v) /\ aborted /\ v.completedDepth = 0
    BY <1>2, <2>1 DEF EmptiedWorker
  <2>3. w.completedDepth \in Int
    BY DEF RootInv, WorkerRight, WorkerKept, WorkersOf
  <2>4. ~(w.completedDepth >= 1)
    BY <1>2, <2>2, <2>3
  <2>5. QED
    BY <1>4, <2>2, <2>4
<1>7. stop' \/ Lined(setup, v)
  BY <1>2 DEF Lined
<1>8. v.pc \in {"search", "line", "end"} \/ (v.pc = "iterate" /\ ~stop') => Trusted(v)
  BY <1>2, <1>5
<1>9. v.completedDepth >= worker[t].completedDepth
  BY <1>2
<1> HIDE DEF w
<1>10. QED
  BY <1>1, <1>2, <1>3, <1>5, <1>6, <1>7, <1>8, <1>9, WorkerSteps

LEMMA FlagsInv ==
  ASSUME RootInv, StopSearch \/ check_time \/ UNCHANGED rootVars
  PROVE  RootInv'
<1>1. setup' = setup /\ worker' = worker /\ Threads' = Threads /\ Main' = Main
  BY DEF StopSearch, check_time, rootVars, Threads, Main
<1>2. /\ stop' \in BOOLEAN /\ aborted' \in BOOLEAN /\ (stop => stop') /\ (aborted => aborted')
      /\ aborted' => stop' /\ worker[Main].completedDepth >= 1
  <2>1. /\ stop \in BOOLEAN /\ aborted \in BOOLEAN
        /\ aborted => stop /\ worker[Main].completedDepth >= 1
    BY DEF RootInv, FlagsKept
  <2>2. CASE StopSearch
    BY <2>1, <2>2 DEF StopSearch
  <2>3. CASE check_time
    BY <2>1, <2>3 DEF check_time
  <2>4. CASE UNCHANGED rootVars
    BY <2>1, <2>4 DEF rootVars
  <2>5. QED
    BY <2>2, <2>3, <2>4
<1>3. FlagsKept'
  BY <1>1, <1>2 DEF RootInv, FlagsKept
<1>4. ASSUME NEW t \in Threads PROVE WorkerRight(t)'
  <2>1. WorkerRight(t) /\ stop \in BOOLEAN
    BY DEF RootInv, FlagsKept
  <2>2. QED
    BY <1>1, <1>2, <2>1 DEF WorkerRight
<1>5. QED
  BY <1>1, <1>3, <1>4 DEF RootInv

LEMMA RootStepInv ==
  ASSUME RootInv, [RootNext]_rootVars
  PROVE  RootInv'
<1>1. CASE \E t \in Threads : RootStep(t)
  <2>1. PICK t \in Threads : RootStep(t)
    BY <1>1
  <2>2. QED
    BY <2>1, IterateInv, SearchRootInv, CutOffAtRootInv, EndLineInv, EndIterationInv DEF RootStep
<1>2. CASE StopSearch \/ check_time \/ UNCHANGED rootVars
  BY <1>2, FlagsInv
<1>3. QED
  BY <1>1, <1>2 DEF RootNext

LEMMA RootAlways ==
  RootSpec => []RootInv
<1>1. RootInit => RootInv
  BY RootInitInv
<1>2. RootInv /\ [RootNext]_rootVars => RootInv'
  BY RootStepInv
<1>3. QED
  BY <1>1, <1>2, PTL DEF RootSpec

-----------------------------------------------------------------------------
(* What the invariant says.                                                *)

LEMMA MovesKept ==
  ASSUME RootInv
  PROVE  RootTypeOK /\ WindowOpen /\ RootMovesKept /\ RanksKept /\ LinesSorted
<1> DEFINE n == Len(setup.moves)
<1>1. /\ setup \in RootSetups /\ n \in Nat /\ n >= 1 /\ Inf \in Nat /\ setup.multiPV \in 1 .. n
      /\ \A i, j \in 1 .. n : i <= j => RankAt(setup, i) >= RankAt(setup, j)
  BY SetupFacts DEF RootInv, FlagsKept
<1>2. ASSUME NEW t \in Threads
      PROVE  WorkerRight(t) /\ worker[t] \in WorkersOf(setup) /\ DOMAIN worker[t].rootMoves = 1 .. n
  BY DEF RootInv, WorkerRight, WorkerKept, WorkersOf, RowsOf
<1>3. RootTypeOK
  <2>1. stop \in BOOLEAN /\ aborted \in BOOLEAN /\ (aborted => stop)
    BY DEF RootInv, FlagsKept
  <2>2. ASSUME NEW t \in Threads
        PROVE  /\ worker[t].pc \in {"iterate", "search", "line", "end", "done"}
               /\ worker[t].completedDepth <= worker[t].rootDepth
               /\ worker[t].pc = "search" => worker[t].pvIdx \in worker[t].pvFirst .. worker[t].pvLast
    BY <1>2 DEF WorkerRight, WorkerKept, WorkersOf, Placed
  <2>3. QED
    BY <2>1, <2>2 DEF RootTypeOK
<1>4. WindowOpen
  <2>1. ASSUME NEW t \in Threads, worker[t].pc = "search"
        PROVE  -Inf <= worker[t].alpha /\ worker[t].alpha < worker[t].beta /\ worker[t].beta <= Inf
    <3>1. worker[t].alpha \in -Inf .. Inf /\ worker[t].beta \in -Inf .. Inf
      BY <1>2 DEF WorkersOf
    <3>2. worker[t].alpha < worker[t].beta
      BY <1>2, <2>1 DEF WorkerRight, WorkerKept, OpenWindow
    <3>3. QED
      BY <1>1, <3>1, <3>2
  <2>2. QED
    BY <2>1 DEF WindowOpen
<1>5. RootMovesKept
  <2>1. ASSUME NEW t \in Threads, Shuffled(setup, worker[t].rootMoves)
        PROVE  RootMovesOf(t) = ToSet(setup.moves)
    <3>1. /\ \A i \in 1 .. n : worker[t].rootMoves[i].move \in ToSet(setup.moves)
          /\ \A m \in ToSet(setup.moves) : \E i \in 1 .. n : worker[t].rootMoves[i].move = m
      BY <2>1 DEF Shuffled
    <3>2. QED
      BY <1>2, <3>1 DEF RootMovesOf
  <2>2. ASSUME NEW t \in Threads, EmptiedWorker(worker[t])
        PROVE  worker[t].completedDepth = 0 /\ MoveOf(t) = NoMove
    BY <2>2 DEF EmptiedWorker, MoveOf
  <2>3. QED
    BY <1>2, <2>1, <2>2 DEF RootMovesKept, WorkerRight
<1>6. RanksKept
  <2>1. ASSUME NEW t \in Threads, NEW i \in 1 .. n, NEW j \in 1 .. n, i < j, MoveOf(t) # NoMove
        PROVE  setup.rank[worker[t].rootMoves[i].move] >= setup.rank[worker[t].rootMoves[j].move]
    <3>1. Shuffled(setup, worker[t].rootMoves)
      BY <1>2, <2>1 DEF WorkerRight, EmptiedWorker, MoveOf
    <3>2. /\ setup.rank[worker[t].rootMoves[i].move] = RankAt(setup, i)
          /\ setup.rank[worker[t].rootMoves[j].move] = RankAt(setup, j)
      BY <3>1 DEF Shuffled
    <3>3. RankAt(setup, i) >= RankAt(setup, j)
      BY <1>1, <2>1
    <3>4. QED
      BY <3>2, <3>3
  <2>2. QED
    BY <1>2, <2>1 DEF RanksKept
<1>7. LinesSorted
  <2>1. ASSUME NEW t \in Threads, worker[t].pc = "end", ~stop, NEW i \in 1 .. setup.multiPV
        PROVE  /\ worker[t].rootMoves[i].score # -Inf /\ worker[t].rootMoves[i].exact
               /\ \A j \in 1 .. i :
                    setup.rank[worker[t].rootMoves[i].move] = setup.rank[worker[t].rootMoves[j].move] =>
                      worker[t].rootMoves[j].score >= worker[t].rootMoves[i].score
    <3> DEFINE r == worker[t].rootMoves
    <3>1. ExactTo(r, setup.multiPV) /\ SortedTo(setup, r, setup.multiPV) /\ Shuffled(setup, r)
      BY <1>2, <2>1 DEF WorkerRight, Lined, EmptiedWorker
    <3>2. \A k \in 1 .. n : setup.rank[r[k].move] = RankAt(setup, k)
      BY <3>1 DEF Shuffled
    <3> HIDE DEF r
    <3>3. r[i].score # -Inf /\ r[i].exact
      BY <3>1 DEF ExactTo
    <3>4. ASSUME NEW j \in 1 .. i, setup.rank[r[i].move] = setup.rank[r[j].move] PROVE r[j].score >= r[i].score
      <4>1. i \in 1 .. n /\ j \in 1 .. n /\ j \in 1 .. setup.multiPV /\ j <= i
        BY <1>1
      <4>2. RankAt(setup, i) = RankAt(setup, j)
        BY <3>2, <3>4, <4>1
      <4>3. QED
        BY <3>1, <4>1, <4>2 DEF SortedTo
    <3>5. QED
      BY <3>3, <3>4 DEF r
  <2>2. QED
    BY <2>1 DEF LinesSorted
<1>8. QED
  BY <1>3, <1>4, <1>5, <1>6, <1>7

-----------------------------------------------------------------------------
(* The vote of the threads. Whatever the votes are, of a thread that won   *)
(* or lost only its score counts.                                          *)

LEMMA BetterFacts ==
  ASSUME Inf \in Nat, Decisive \in 1 .. Inf, NEW best, NEW t, NEW long, Better(best, t, long),
         Score(best) \in -Inf .. Inf, Score(t) \in -Inf .. Inf
  PROVE  /\ Score(t) # -Inf
         /\ is_win(Score(best)) => is_win(Score(t)) /\ Score(t) > Score(best)
         /\ ProvenLoss(Score(best)) => ProvenLoss(Score(t))
<1>1. CASE is_win(Score(best))
  BY <1>1 DEF Better, is_win, is_loss, ProvenLoss
<1>2. CASE ~is_win(Score(best)) /\ ProvenLoss(Score(best))
  <2>1. ProvenLoss(Score(t)) /\ Score(t) < Score(best)
    BY <1>2 DEF Better
  <2>2. QED
    BY <1>2, <2>1 DEF ProvenLoss
<1>3. CASE ~is_win(Score(best)) /\ ~ProvenLoss(Score(best))
  <2>1. is_win(Score(t)) \/ ProvenLoss(Score(t)) \/ ~is_loss(Score(t))
    BY <1>3 DEF Better
  <2>2. Score(t) # -Inf
    BY <2>1 DEF is_win, is_loss, ProvenLoss
  <2>3. QED
    BY <1>3, <2>2
<1>4. QED
  BY <1>1, <1>2, <1>3

\* A thread that won or lost is preferred to one that did neither.
LEMMA DecidedBetter ==
  ASSUME NEW best, NEW t, NEW long, ~Better(best, t, long)
  PROVE  /\ is_win(Score(best)) => ~(Score(t) > Score(best))
         /\ ~is_win(Score(best)) /\ ~ProvenLoss(Score(best)) => ~is_win(Score(t)) /\ ~ProvenLoss(Score(t))
  BY DEF Better

\* get_best_thread goes from thread to thread.
LEMMA BestThreads ==
  ASSUME setup \in RootSetups, NEW long
  PROVE  \E best \in [0 .. Len(setup.threads) -> Threads] :
           /\ best[0] = Main /\ get_best_thread(long) = best[Len(setup.threads)]
           /\ \A k \in 1 .. Len(setup.threads) :
                best[k] = IF Better(best[k - 1], setup.threads[k], long) THEN setup.threads[k] ELSE best[k - 1]
<1> DEFINE n == Len(setup.threads)
           F == [kb \in (1 .. n) \X Threads |-> IF Better(kb[2], setup.threads[kb[1]], long) THEN setup.threads[kb[1]] ELSE kb[2]]
           chosen == CHOOSE best : best = [k \in 0 .. n |->
                       IF k = 0 THEN Main
                       ELSE IF Better(best[k - 1], setup.threads[k], long) THEN setup.threads[k] ELSE best[k - 1]]
<1>1. Main \in Threads
  BY MainIsThread
<1>2. n \in Nat /\ \A k \in 1 .. n : setup.threads[k] \in Threads
  <2>1. setup.threads \in Seq(RootThreads)
    BY RootAssumption
  <2>2. QED
    BY <2>1 DEF Threads, ToSet
<1>3. get_best_thread(long) = chosen[n]
  BY Zenon DEF get_best_thread
<1>4. F \in [(1 .. n) \X Threads -> Threads]
  <2>1. ASSUME NEW kb \in (1 .. n) \X Threads
        PROVE  (IF Better(kb[2], setup.threads[kb[1]], long) THEN setup.threads[kb[1]] ELSE kb[2]) \in Threads
    BY <1>2
  <2>2. QED
    BY <2>1
<1>5. \A k \in 1 .. n, b \in Threads : F[<<k, b>>] = IF Better(b, setup.threads[k], long) THEN setup.threads[k] ELSE b
  OBVIOUS
<1> HIDE DEF F
<1>6. PICK g \in [0 .. n -> Threads] : StepsFrom(Main, F, n, g)
  <2> HIDE DEF n
  <2> QED BY <1>1, <1>2, <1>4, Iterates
<1>7. g = [k \in 0 .. n |-> IF k = 0 THEN Main
                           ELSE IF Better(g[k - 1], setup.threads[k], long) THEN setup.threads[k] ELSE g[k - 1]]
  <2> HIDE DEF n
  <2>1. g = [k \in 0 .. n |-> IF k = 0 THEN Main ELSE F[<<k, g[k - 1]>>]]
    BY <1>6 DEF StepsFrom
  <2>2. ASSUME NEW k \in 0 .. n, k # 0
        PROVE  F[<<k, g[k - 1]>>] = IF Better(g[k - 1], setup.threads[k], long) THEN setup.threads[k] ELSE g[k - 1]
    <3>1. k \in 1 .. n /\ k - 1 \in 0 .. n /\ g[k - 1] \in Threads
      BY <1>2, <1>6, <2>2
    <3>2. QED
      BY <1>5, <3>1
  <2>3. QED
    BY <2>1, <2>2
<1>8. chosen = [k \in 0 .. n |-> IF k = 0 THEN Main
                  ELSE IF Better(chosen[k - 1], setup.threads[k], long) THEN setup.threads[k] ELSE chosen[k - 1]]
  BY <1>7 
<1> HIDE DEF chosen
<1>9. \A k \in 0 .. n : chosen[k] \in Threads
  <2> DEFINE Bad == {k \in 0 .. n : chosen[k] \notin Threads}
  <2>1. SUFFICES ASSUME Bad # {} PROVE FALSE
    OBVIOUS
  <2>2. Bad \subseteq Nat
    OBVIOUS
  <2>3. PICK m \in Bad : \A y \in Bad : m <= y
    <3> HIDE DEF Bad
    <3> QED BY <2>1, <2>2, LeastNumber
  <2>4. m \in 0 .. n /\ chosen[m] \notin Threads
    OBVIOUS
  <2>5. CASE m = 0
    BY <1>1, <1>8, <2>4, <2>5
  <2>6. CASE m # 0
    <3>1. m \in 1 .. n /\ m - 1 \in 0 .. n /\ ~(m <= m - 1)
      BY <1>2, <2>4, <2>6
    <3>2. chosen[m - 1] \in Threads
      BY <2>3, <3>1
    <3>3. chosen[m] = IF Better(chosen[m - 1], setup.threads[m], long) THEN setup.threads[m] ELSE chosen[m - 1]
      BY <1>8, <2>4, <2>6
    <3>4. QED
      BY <1>2, <2>4, <3>1, <3>2, <3>3
  <2>7. QED
    BY <2>5, <2>6
<1>10. chosen \in [0 .. n -> Threads] /\ chosen[0] = Main
  <2> HIDE DEF n
  <2>1. 0 \in 0 .. n
    BY <1>2
  <2>2. chosen[0] = Main
    BY <1>8, <2>1
  <2>3. DOMAIN chosen = 0 .. n /\ chosen = [k \in 0 .. n |-> chosen[k]]
    BY <1>8
  <2>4. QED
    BY <1>9, <2>2, <2>3
<1>11. ASSUME NEW k \in 1 .. n
       PROVE  chosen[k] = IF Better(chosen[k - 1], setup.threads[k], long) THEN setup.threads[k] ELSE chosen[k - 1]
  <2>1. k \in 0 .. n /\ k # 0
    BY <1>2
  <2>2. QED
    BY <1>8, <2>1
<1>12. QED
  BY <1>3, <1>10, <1>11

LEMMA VoteRight ==
  ASSUME RootInv
  PROVE  BestThreadRight
<1> DEFINE n == Len(setup.threads)
           wins == {t \in Threads : is_win(Score(t))}
           losses == {t \in Threads : ProvenLoss(Score(t))}
<1>1. SUFFICES ASSUME MoveOf(Main) # NoMove, NEW long \in SUBSET Threads
               PROVE  /\ MoveOf(get_best_thread(long)) # NoMove
                      /\ wins # {} /\ losses = {} => Score(get_best_thread(long)) = Max({Score(t) : t \in Threads})
                      /\ losses # {} /\ wins = {} => get_best_thread(long) \in losses
  BY DEF BestThreadRight
<1>2. setup \in RootSetups /\ Inf \in Nat /\ Decisive \in 1 .. Inf /\ Main \in Threads
  BY SetupFacts, MainIsThread DEF RootInv, FlagsKept
<1>3. n \in Nat /\ n >= 1 /\ (\A k \in 1 .. n : setup.threads[k] \in Threads) /\ (\A t \in Threads : \E k \in 1 .. n : setup.threads[k] = t)
  <2>1. setup.threads \in Seq(RootThreads) /\ setup.threads # <<>>
    BY <1>2, RootAssumption
  <2>2. n \in Nat /\ n >= 1 /\ DOMAIN setup.threads = 1 .. n
    BY <2>1
  <2>3. QED
    BY <2>2 DEF Threads, ToSet
<1>4. ASSUME NEW t \in Threads
      PROVE  Score(t) \in -Inf .. Inf /\ (MoveOf(t) = NoMove => Score(t) = -Inf)
  <2>1. /\ worker[t] \in WorkersOf(setup)
        /\ Shuffled(setup, worker[t].rootMoves) \/ EmptiedWorker(worker[t])
    BY DEF RootInv, WorkerRight, WorkerKept
  <2>2. 1 \in 1 .. Len(setup.moves) /\ NoMove \notin ToSet(setup.moves)
    BY <1>2, SetupFacts
  <2>3. Score(t) \in -Inf .. Inf
    BY <2>1, <2>2 DEF Score, WorkersOf, RowsOf, RowOf
  <2>4. MoveOf(t) = NoMove => Score(t) = -Inf
    BY <2>1, <2>2 DEF Score, MoveOf, Shuffled, EmptiedWorker
  <2>5. QED
    BY <2>3, <2>4
<1>5. PICK best \in [0 .. n -> Threads] :
        /\ best[0] = Main /\ get_best_thread(long) = best[n]
        /\ \A k \in 1 .. n : best[k] = IF Better(best[k - 1], setup.threads[k], long) THEN setup.threads[k] ELSE best[k - 1]
  BY <1>2, BestThreads
<1> DEFINE Kth(k) ==
             /\ MoveOf(best[k]) # NoMove
             /\ losses = {} => \A j \in 1 .. k : is_win(Score(setup.threads[j])) =>
                                 is_win(Score(best[k])) /\ Score(best[k]) >= Score(setup.threads[j])
             /\ wins = {} => \A j \in 1 .. k : ProvenLoss(Score(setup.threads[j])) => ProvenLoss(Score(best[k]))
<1>6. Kth(0)
  BY <1>1, <1>5
<1>7. ASSUME NEW k \in 1 .. n, Kth(k - 1) PROVE Kth(k)
  <2> DEFINE b == best[k - 1]  t == setup.threads[k]
  <2>1. k - 1 \in 0 .. n /\ k \in 0 .. n /\ b \in Threads /\ t \in Threads
    <3> HIDE DEF n, wins, losses, Kth
    <3>1. k - 1 \in 0 .. n /\ k \in 0 .. n
      BY <1>3
    <3>2. b \in Threads
      BY <1>5, <3>1
    <3>3. t \in Threads
      BY <1>3
    <3>4. QED
      BY <3>1, <3>2, <3>3
  <2>2. best[k] = IF Better(b, t, long) THEN t ELSE b
    BY <1>5
  <2>3. Score(b) \in -Inf .. Inf /\ Score(t) \in -Inf .. Inf /\ (MoveOf(t) = NoMove => Score(t) = -Inf)
    BY <1>4, <2>1
  <2>4. \A j \in 1 .. k : j \in 1 .. k - 1 \/ j = k
    BY <1>3
  <2>5. \A j \in 1 .. k : setup.threads[j] \in Threads /\ Score(setup.threads[j]) \in Int
    BY <1>2, <1>3, <1>4
  <2>6. (losses = {} => ~ProvenLoss(Score(b))) /\ (wins = {} => ~is_win(Score(b)))
    BY <2>1
  <2>7. /\ MoveOf(b) # NoMove
        /\ losses = {} => \A j \in 1 .. k - 1 : is_win(Score(setup.threads[j])) =>
                            is_win(Score(b)) /\ Score(b) >= Score(setup.threads[j])
        /\ wins = {} => \A j \in 1 .. k - 1 : ProvenLoss(Score(setup.threads[j])) => ProvenLoss(Score(b))
    BY <1>7
  <2>8. CASE Better(b, t, long)
    <3>1. /\ Score(t) # -Inf
          /\ is_win(Score(b)) => is_win(Score(t)) /\ Score(t) > Score(b)
          /\ ProvenLoss(Score(b)) => ProvenLoss(Score(t))
      BY <1>2, <2>3, <2>8, BetterFacts
    <3>2. best[k] = t
      BY <2>2, <2>8
    <3> HIDE DEF b, wins, losses
    <3>3. MoveOf(t) # NoMove
      BY <2>3, <3>1
    <3>4. ASSUME losses = {}, NEW j \in 1 .. k, is_win(Score(setup.threads[j]))
          PROVE  is_win(Score(t)) /\ Score(t) >= Score(setup.threads[j])
      BY <1>2, <2>3, <2>4, <2>5, <2>7, <3>1, <3>4
    <3>5. ASSUME wins = {}, NEW j \in 1 .. k, ProvenLoss(Score(setup.threads[j]))
          PROVE  ProvenLoss(Score(t))
      BY <2>4, <2>7, <3>1, <3>5
    <3> HIDE DEF t
    <3>6. QED
      BY <3>2, <3>3, <3>4, <3>5
  <2>9. CASE ~Better(b, t, long)
    <3>1. /\ is_win(Score(b)) => ~(Score(t) > Score(b))
          /\ ~is_win(Score(b)) /\ ~ProvenLoss(Score(b)) => ~is_win(Score(t)) /\ ~ProvenLoss(Score(t))
      BY <2>9, DecidedBetter
    <3>2. best[k] = b
      BY <2>2, <2>9
    <3> HIDE DEF b, wins, losses
    <3>3. ASSUME losses = {}, NEW j \in 1 .. k, is_win(Score(setup.threads[j]))
          PROVE  is_win(Score(b)) /\ Score(b) >= Score(setup.threads[j])
      BY <1>2, <2>3, <2>4, <2>5, <2>6, <2>7, <3>1, <3>3
    <3>4. ASSUME wins = {}, NEW j \in 1 .. k, ProvenLoss(Score(setup.threads[j]))
          PROVE  ProvenLoss(Score(b))
      BY <2>4, <2>6, <2>7, <3>1, <3>4
    <3>5. QED
      BY <2>7, <3>2, <3>3, <3>4
  <2>10. QED
    BY <2>8, <2>9
<1>8. Kth(n)
  <2> HIDE DEF Kth, n, wins, losses
  <2> DEFINE Bad == {k \in 0 .. n : ~Kth(k)}
  <2>1. SUFFICES ASSUME Bad # {} PROVE FALSE
    BY <1>3
  <2>2. Bad \subseteq Nat
    OBVIOUS
  <2>3. PICK m \in Bad : \A y \in Bad : m <= y
    <3> HIDE DEF Bad
    <3> QED BY <2>1, <2>2, LeastNumber
  <2>4. m \in 0 .. n /\ ~Kth(m)
    OBVIOUS
  <2>5. m # 0
    BY <1>6, <2>4
  <2>6. m \in 1 .. n /\ m - 1 \in 0 .. n /\ ~(m <= m - 1)
    BY <1>3, <2>4, <2>5
  <2>7. Kth(m - 1)
    BY <2>3, <2>6
  <2>8. QED
    BY <1>7, <2>4, <2>6, <2>7
<1> DEFINE last == best[n]
<1>9. n \in 0 .. n /\ last \in Threads /\ get_best_thread(long) = last
  BY <1>3, <1>5
<1>10. /\ MoveOf(last) # NoMove
       /\ losses = {} => \A t \in wins : is_win(Score(last)) /\ Score(last) >= Score(t)
       /\ wins = {} => \A t \in losses : ProvenLoss(Score(last))
  BY <1>3, <1>8
<1> HIDE DEF last
<1>11. ASSUME wins # {}, losses = {} PROVE Score(last) = Max({Score(t) : t \in Threads})
  <2>1. is_win(Score(last)) /\ Score(last) \in Int
    BY <1>2, <1>4, <1>9, <1>10, <1>11
  <2>2. ASSUME NEW t \in Threads PROVE Score(t) \in Int /\ Score(t) <= Score(last)
    <3>1. Score(t) \in Int
      BY <1>2, <1>4
    <3>2. CASE t \in wins
      BY <1>10, <1>11, <2>1, <3>1, <3>2
    <3>3. CASE t \notin wins
      BY <1>2, <2>1, <3>1, <3>3 DEF is_win
    <3>4. QED
      BY <3>1, <3>2, <3>3
  <2> DEFINE T == {Score(t) : t \in Threads}
  <2>3. T \subseteq Int /\ Score(last) \in T /\ \A y \in T : y <= Score(last)
    BY <1>9, <2>2
  <2> HIDE DEF T
  <2>4. Max(T) = Score(last)
    BY <2>3, MaxChooses
  <2>5. QED
    BY <2>4 DEF T
<1>12. ASSUME losses # {}, wins = {} PROVE last \in losses
  BY <1>9, <1>10, <1>12
<1>13. QED
  BY <1>9, <1>10, <1>11, <1>12

-----------------------------------------------------------------------------

\* LinesRight of every pool and every position: the sorts of iterative_deepening and of the root search
\* never lose a root move nor put it before one of a better tablebase rank, finished lines are exact and
\* in order, the aspiration window stays open, and get_best_thread chooses a thread that has a move.
THEOREM RootLinesRight ==
  RootSpec => []LinesRight
<1>1. RootInv => LinesRight
  BY MovesKept, VoteRight DEF LinesRight
<1>2. QED
  BY <1>1, RootAlways, PTL

\* ProvenLossOnly of every pool and every position: what iterative_deepening keeps at the end of an
\* iteration of a search that the clock aborted is a loss only if a finished iteration found it.
THEOREM ProvenLossesOnly ==
  RootSpec => ProvenLossOnly
<1>1. ASSUME RootInv, RootNext,
             NEW t \in RootThreads, t \in Threads, worker[t].pc = "end", worker'[t].pc = "iterate", aborted, ProvenLoss(Score(t)')
      PROVE  Best(worker'[t]) \in ToSet(worker'[t].results)
  <2>1. DOMAIN worker = Threads
    BY <1>1 DEF RootInv
  <2>2. ASSUME NEW u \in Threads, u # t, RootStep(u) PROVE FALSE
    BY <1>1, <2>1, <2>2 DEF RootStep, Iterate, SearchRoot, CutOffAtRoot, EndLine, EndIteration
  <2>3. worker' # worker
    BY <1>1
  <2>4. RootStep(t)
    BY <1>1, <2>2, <2>3 DEF RootNext, StopSearch, check_time
  <2>5. EndIteration(t)
    BY <1>1, <2>4 DEF RootStep, Iterate, SearchRoot, CutOffAtRoot, EndLine
  <2> DEFINE v == Ended(worker[t])
  <2>6. /\ worker' = [worker EXCEPT ![t] = v]
        /\ aborted /\ ProvenLoss(v.rootMoves[1].score) => Best(v) \in ToSet(v.results)
    BY <1>1, <2>5, EndIterationEnds
  <2> HIDE DEF v
  <2>7. worker'[t] = v
    BY <1>1, <2>1, <2>6
  <2>8. Score(t)' = v.rootMoves[1].score
    BY <2>7 DEF Score
  <2>9. QED
    BY <1>1, <2>6, <2>7, <2>8
<1>2. RootInv /\ [RootNext]_rootVars =>
        [\A t \in RootThreads :
           t \in Threads /\ worker[t].pc = "end" /\ worker'[t].pc = "iterate" /\ aborted /\ ProvenLoss(Score(t)')
             => Best(worker'[t]) \in ToSet(worker'[t].results)]_rootVars
  BY <1>1
<1>3. QED
  BY <1>2, RootAlways, PTL DEF RootSpec, ProvenLossOnly
=============================================================================
