------------------------------ MODULE UciEngine ------------------------------
(***************************************************************************)
(* The thread structure of the Stockfish engine: the UCI thread that reads *)
(* commands, the pool of worker threads parked in Thread::idle_loop, the   *)
(* one condition variable of each Thread, and the life of one search from  *)
(* "go" to "bestmove".                                                     *)
(*                                                                         *)
(* An actor is the UCI thread or a worker.  What an actor still has to do  *)
(* is a program, a sequence of operations; the head is executed in one     *)
(* step, which is the code between two points where another thread can be  *)
(* seen (a lock, a condition variable, an atomic).  Spurious wake-ups only *)
(* test the predicate again and are left out.                              *)
(***************************************************************************)
EXTENDS Integers, Sequences, FiniteSets

CONSTANTS MaxThreads, \* bound on the option "Threads"
          MaxPly,     \* MAX_PLY: no iteration reaches this depth
          LimitSet,   \* the limits a "go" may carry
          MaxGo,      \* bound on the "go" commands of a session
          MaxOther    \* bound on the other commands that change the engine

Limits == [infinite : BOOLEAN, ponderMode : BOOLEAN, time : BOOLEAN,
           budget : BOOLEAN, mate : BOOLEAN, depth : Nat]

ASSUME ThreadsAssumption == MaxThreads \in Nat \ {0}
ASSUME PlyAssumption == MaxPly \in Nat \ {0, 1}
ASSUME LimitsAssumption == LimitSet \subseteq Limits
ASSUME BoundsAssumption == MaxGo \in Nat /\ MaxOther \in Nat

UCI == 0
Main == 1
Workers == 1 .. MaxThreads
Actors == {UCI} \cup Workers

VARIABLES
  pc,             \* where each native thread is in idle_loop
  searching, exit, jobFunc, \* the fields of the Thread objects
  worker,         \* whether Thread::worker has been allocated
  cv,             \* the actors blocked on each Thread's condition variable
  size,           \* threads.size()
  prog,           \* what each actor still has to do
  stop, abortedSearch, stopOnPonderhit, ponder,
  request,        \* the local 'limits' of UCIEngine::go and start_thinking
  limits,         \* the main worker's copy of them
  noMoves,        \* rootMoves.empty(): the position is mate or stalemate
  rootDepth, completedDepth,
  states, setupStates, posList, rootList, nextList, \* owners of StateInfo lists
  uci,            \* the UCI loop: "loop", "quit", "done"
  goes, bestmoves, others,
  released        \* the GUI has sent "stop" or "ponderhit" since its last "go" 

idleVars == <<pc, searching, exit, jobFunc, worker, cv, size>>
flagVars == <<stop, abortedSearch, stopOnPonderhit, ponder>>
goVars   == <<request, limits, noMoves, rootDepth, completedDepth>>
listVars == <<states, setupStates, posList, rootList, nextList>>
sessVars == <<uci, goes, bestmoves, others, released>>
vars == <<idleVars, prog, flagVars, goVars, listVars, sessVars>>

-----------------------------------------------------------------------------
(* Programs.                                                               *)

\* Mutant: the job is posted without a notification.
RunJobSilent(t, f) == <<<<"run", t, f>>>>

RunJob(t, f) == <<<<"run", t, f>>, <<"notify", t, "">>>> \* run_custom_job

WaitFor(t)   == <<<<"wait", t, "">>>>       \* Thread::wait_for_search_finished
Op(kind)     == <<<<kind, 0, "">>>>

\* The operations P(i), ..., P(n) one after the other; all are equally long.
Each(P(_), i, n) ==
  LET w == Len(P(i))
  IN  [j \in 1 .. (n - i + 1) * w |-> P(i + ((j - 1) \div w))[1 + ((j - 1) % w)]]

\* ThreadPool::clear: every worker clears itself, then all are waited for.
PoolClear(n) == Each(LAMBDA t : RunJob(t, "clear"), 1, n) \o Each(WaitFor, 1, n)

\* TranspositionTable::clear hands a slice of the table to every thread.
TTClear(n) == Each(LAMBDA t : RunJob(t, "zero"), 1, n) \o Each(WaitFor, 1, n)

\* Thread::Thread: the native thread starts, parks, and allocates the worker.
Construct(t) == <<<<"spawn", t, "">>>> \o WaitFor(t)
                  \o RunJob(t, "construct") \o WaitFor(t)

\* Thread::~Thread
Destroy(t) == <<<<"exit", t, "">>>> \o RunJob(t, "search") \o <<<<"join", t, "">>>>

\* ThreadPool::set for the option value n when the pool holds old threads.
PoolSet(old, n) ==
  (IF old > 0 THEN WaitFor(Main) \o Each(Destroy, 1, old) ELSE <<>>)
    \o Each(Construct, 1, n) \o PoolClear(n) \o WaitFor(Main)

\* Engine::set_tt_size
SetTTSize(n) == WaitFor(Main) \o TTClear(n)

\* Engine::resize_threads
ResizeThreads(old, n) ==
  (IF old > 0 THEN Each(WaitFor, 2, old) ELSE <<>>) \o PoolSet(old, n) \o SetTTSize(n)

\* Engine::search_clear, for "ucinewgame" and the button "Clear Hash"
SearchClear(n) == WaitFor(Main) \o TTClear(n) \o PoolClear(n)

\* Mutant: start_thinking does not wait for the search before it.
StartThinkingOver(n) ==
  Op("reset") \o Each(LAMBDA t : RunJob(t, "setup"), 1, n)
    \o Each(WaitFor, 1, n) \o RunJob(Main, "search")

\* ThreadPool::start_thinking
StartThinking(n) ==
  WaitFor(Main) \o Op("reset") \o Each(LAMBDA t : RunJob(t, "setup"), 1, n)
    \o Each(WaitFor, 1, n) \o RunJob(Main, "search")

\* Engine::~Engine and then ThreadPool::~ThreadPool
TearDown(n) == WaitFor(Main) \o WaitFor(Main) \o Each(Destroy, 1, n)

\* Mutant: the main thread waits for the others without stopping them.
JobProgramUnstopped(t, f) ==
  IF f = "search" /\ t = Main
  THEN (IF noMoves THEN <<>>
        ELSE Each(LAMBDA u : RunJob(u, "search"), 2, size) \o Op("iterate"))
         \o Op("hold") \o Each(WaitFor, 2, size) \o Op("bestmove")
  ELSE IF f = "search" THEN Op("iterate") ELSE Op(f)

\* What a worker executes for a job.  The search of the main thread is
\* Worker::start_searching; the other workers iterate only.
JobProgram(t, f) ==
  IF f = "search" /\ t = Main
  THEN (IF noMoves THEN <<>>
        ELSE Each(LAMBDA u : RunJob(u, "search"), 2, size) \o Op("iterate"))
         \o Op("hold") \o Op("raise") \o Each(WaitFor, 2, size) \o Op("bestmove")
  ELSE IF f = "search" THEN Op("iterate") ELSE Op(f)

-----------------------------------------------------------------------------
(* Helpers for the steps.                                                  *)

AtOp(a, kind) == prog[a] # <<>> /\ Head(prog[a])[1] = kind
Target(a) == Head(prog[a])[2]
Pop(a) == prog' = [prog EXCEPT ![a] = Tail(@)]

\* notify_one: whom it wakes is the scheduler's choice.
NotifyOne(waiters) ==
  IF waiters = {} THEN {{}} ELSE {waiters \ {w} : w \in waiters}

\* A search asked for by "go" has not been answered yet.
Thinking == goes > bestmoves
\* Such a search is answered only after "stop" or "ponderhit".
HoldsBack(l) == l.ponderMode \/ l.infinite
Held == HoldsBack(request) /\ ~released

Init ==
  /\ pc = [t \in Workers |-> "absent"]
  /\ searching = [t \in Workers |-> FALSE]
  /\ exit = [t \in Workers |-> FALSE]
  /\ jobFunc = [t \in Workers |-> "none"]
  /\ worker = [t \in Workers |-> FALSE]
  /\ cv = [t \in Workers |-> {}]
  /\ size = 0
  /\ prog = [a \in Actors |-> IF a = UCI THEN ResizeThreads(0, 1) ELSE <<>>]
  /\ stop = FALSE /\ abortedSearch = FALSE
  /\ stopOnPonderhit = FALSE /\ ponder = FALSE
  /\ request = [infinite |-> FALSE, ponderMode |-> FALSE, time |-> FALSE,
                budget |-> FALSE, mate |-> FALSE, depth |-> 0]
  /\ limits = request /\ noMoves = FALSE
  /\ rootDepth = [t \in Workers |-> 0] /\ completedDepth = [t \in Workers |-> 0]
  /\ states = 1 /\ setupStates = 0 /\ posList = 1 /\ nextList = 2
  /\ rootList = [t \in Workers |-> 0]
  /\ uci = "loop" /\ goes = 0 /\ bestmoves = 0 /\ others = 0 /\ released = FALSE

-----------------------------------------------------------------------------
(* Thread::idle_loop.                                                      *)

\* Lock, searching = false, notify_one, and wait.
IdleTop(t) ==
  /\ pc[t] = "top"
  /\ searching' = [searching EXCEPT ![t] = FALSE]
  /\ \E w \in NotifyOne(cv[t]) : cv' = [cv EXCEPT ![t] = w \cup {t}]
  /\ pc' = [pc EXCEPT ![t] = "parked"]
  /\ UNCHANGED <<exit, jobFunc, worker, size, prog, flagVars, goVars, listVars, sessVars>>

\* A notified thread tests the predicate: it parks again, leaves, or takes the job.
Wake(t) ==
  /\ pc[t] = "parked" /\ t \notin cv[t]
  /\ \/ /\ ~searching[t]
        /\ cv' = [cv EXCEPT ![t] = @ \cup {t}]
        /\ UNCHANGED <<pc, jobFunc, prog>>
     \/ /\ searching[t] /\ exit[t]
        /\ pc' = [pc EXCEPT ![t] = "exited"]
        /\ UNCHANGED <<cv, jobFunc, prog>>
     \/ /\ searching[t] /\ ~exit[t]
        /\ pc' = [pc EXCEPT ![t] = "running"]
        /\ jobFunc' = [jobFunc EXCEPT ![t] = "none"]
        /\ prog' = [prog EXCEPT ![t] = JobProgram(t, jobFunc[t])]
        /\ UNCHANGED cv
  /\ UNCHANGED <<searching, exit, worker, size, flagVars, goVars, listVars, sessVars>>

\* The job returns and the loop starts over.
JobEnd(t) ==
  /\ pc[t] = "running" /\ prog[t] = <<>>
  /\ pc' = [pc EXCEPT ![t] = "top"]
  /\ UNCHANGED <<searching, exit, jobFunc, worker, cv, size, prog, flagVars, goVars, listVars, sessVars>>

-----------------------------------------------------------------------------
(* What an actor does to another thread.                                   *)

\* The head waits until the target is not searching: it blocks, or goes on.
Block(a) ==
  /\ AtOp(a, "run") \/ AtOp(a, "wait")
  /\ a \notin cv[Target(a)] /\ searching[Target(a)]
  /\ cv' = [cv EXCEPT ![Target(a)] = @ \cup {a}]
  /\ UNCHANGED <<pc, searching, exit, jobFunc, worker, size, prog, flagVars, goVars, listVars, sessVars>>

\* Thread::wait_for_search_finished returns.
WaitForSearchFinished(a) ==
  /\ AtOp(a, "wait")
  /\ a \notin cv[Target(a)] /\ ~searching[Target(a)]
  /\ Pop(a)
  /\ UNCHANGED <<idleVars, flagVars, goVars, listVars, sessVars>>

\* Thread::run_custom_job up to the end of its critical section.
RunCustomJob(a) ==
  /\ AtOp(a, "run")
  /\ a \notin cv[Target(a)] /\ ~searching[Target(a)]
  /\ jobFunc' = [jobFunc EXCEPT ![Target(a)] = Head(prog[a])[3]]
  /\ searching' = [searching EXCEPT ![Target(a)] = TRUE]
  /\ Pop(a)
  /\ UNCHANGED <<pc, exit, worker, cv, size, flagVars, goVars, listVars, sessVars>>

\* The notify_one of run_custom_job, outside the critical section.
NotifyJob(a) ==
  /\ AtOp(a, "notify")
  /\ \E w \in NotifyOne(cv[Target(a)]) : cv' = [cv EXCEPT ![Target(a)] = w]
  /\ Pop(a)
  /\ UNCHANGED <<pc, searching, exit, jobFunc, worker, size, flagVars, goVars, listVars, sessVars>>

\* The constructor starts the native thread; searching is already true.  The
\* pool counts the thread from here on: nothing reads its size before the
\* constructor has returned.
SpawnThread ==
  /\ AtOp(UCI, "spawn")
  /\ LET t == Target(UCI) IN
       /\ pc' = [pc EXCEPT ![t] = "top"]
       /\ searching' = [searching EXCEPT ![t] = TRUE]
       /\ exit' = [exit EXCEPT ![t] = FALSE]
       /\ jobFunc' = [jobFunc EXCEPT ![t] = "none"]
       /\ size' = t
  /\ Pop(UCI)
  /\ UNCHANGED <<worker, cv, flagVars, goVars, listVars, sessVars>>

\* exit = true in ~Thread, without the lock.
SetExit ==
  /\ AtOp(UCI, "exit")
  /\ exit' = [exit EXCEPT ![Target(UCI)] = TRUE]
  /\ Pop(UCI)
  /\ UNCHANGED <<pc, searching, jobFunc, worker, cv, size, flagVars, goVars, listVars, sessVars>>

\* stdThread.join(), after which the Thread and its worker are freed.
Join ==
  /\ AtOp(UCI, "join")
  /\ LET t == Target(UCI) IN
       /\ pc[t] = "exited"
       /\ pc' = [pc EXCEPT ![t] = "absent"]
       /\ searching' = [searching EXCEPT ![t] = FALSE]
       /\ worker' = [worker EXCEPT ![t] = FALSE]
       /\ size' = IF t = size THEN 0 ELSE size
  /\ Pop(UCI)
  /\ UNCHANGED <<exit, jobFunc, cv, flagVars, goVars, listVars, sessVars>>

-----------------------------------------------------------------------------
(* Jobs other than the search.                                             *)

\* The worker is allocated in its own thread; clearing it and zeroing its
\* slice of the table touch nothing this module keeps.
PlainJob(t) ==
  /\ AtOp(t, "construct") \/ AtOp(t, "clear") \/ AtOp(t, "zero")
  /\ worker' = [worker EXCEPT ![t] = @ \/ AtOp(t, "construct")]
  /\ Pop(t)
  /\ UNCHANGED <<pc, searching, exit, jobFunc, cv, size, flagVars, goVars, listVars, sessVars>>

\* The job of start_thinking reads the caller's locals by reference.
SetupJob(t) ==
  /\ AtOp(t, "setup")
  /\ limits' = IF t = Main THEN request ELSE limits
  /\ rootDepth' = [rootDepth EXCEPT ![t] = 0]
  /\ completedDepth' = [completedDepth EXCEPT ![t] = 0]
  /\ rootList' = [rootList EXCEPT ![t] = setupStates]
  /\ Pop(t)
  /\ UNCHANGED <<idleVars, flagVars, request, noMoves, states, setupStates, posList, nextList, sessVars>>

\* Mutant: the stop of the search before is not withdrawn.
ResetAllButStop ==
  /\ AtOp(UCI, "reset")
  /\ abortedSearch' = FALSE /\ stopOnPonderhit' = FALSE
  /\ ponder' = request.ponderMode
  /\ noMoves' \in BOOLEAN
  /\ IF states # 0
     THEN setupStates' = states /\ states' = 0
     ELSE UNCHANGED <<states, setupStates>>
  /\ Pop(UCI)
  /\ UNCHANGED <<idleVars, stop, request, limits, rootDepth, completedDepth, posList, rootList, nextList, sessVars>>

\* start_thinking resets the flags, lists the root moves and takes the states.
ResetSearch ==
  /\ AtOp(UCI, "reset")
  /\ stop' = FALSE /\ abortedSearch' = FALSE /\ stopOnPonderhit' = FALSE
  /\ ponder' = request.ponderMode
  /\ noMoves' \in BOOLEAN
  /\ IF states # 0
     THEN setupStates' = states /\ states' = 0
     ELSE UNCHANGED <<states, setupStates>>
  /\ Pop(UCI)
  /\ UNCHANGED <<idleVars, request, limits, rootDepth, completedDepth, posList, rootList, nextList, sessVars>>

-----------------------------------------------------------------------------
(* Worker::iterative_deepening, as far as it decides when to stop.         *)

MayDeepen(t) ==
  /\ rootDepth[t] + 1 < MaxPly
  /\ ~stop
  /\ ~(limits.depth > 0 /\ t = Main /\ rootDepth[t] + 1 > limits.depth)

\* The loop test of iterative_deepening, which increments rootDepth.
Deepen(t) ==
  /\ AtOp(t, "iterate")
  /\ rootDepth' = [rootDepth EXCEPT ![t] = @ + 1]
  /\ prog' = [prog EXCEPT ![t] =
                IF MayDeepen(t) THEN Op("depth") \o Tail(@) ELSE Tail(@)]
  /\ UNCHANGED <<idleVars, flagVars, request, limits, noMoves, completedDepth, listVars, sessVars>>

\* The end of an iteration; the main thread may find its mate or its time up.
EndIteration(t) ==
  /\ AtOp(t, "depth")
  /\ completedDepth' = IF stop THEN completedDepth
                       ELSE [completedDepth EXCEPT ![t] = rootDepth[t]]
  /\ \E mateFound, timeUp \in BOOLEAN :
       /\ mateFound => t = Main /\ limits.mate
       /\ timeUp => t = Main /\ limits.time /\ ~stop /\ ~mateFound /\ ~stopOnPonderhit
       /\ stop' = (stop \/ mateFound \/ (timeUp /\ ~ponder))
       /\ stopOnPonderhit' = (stopOnPonderhit \/ (timeUp /\ ponder))
  /\ prog' = [prog EXCEPT ![t] = Op("iterate") \o Tail(@)]
  /\ UNCHANGED <<idleVars, abortedSearch, ponder, request, limits, noMoves, rootDepth, listVars, sessVars>>

\* SearchManager::check_time, called from the nodes of the main thread.
CheckTime ==
  /\ AtOp(Main, "depth")
  /\ ~ponder
  /\ completedDepth[Main] >= 1
  /\ limits.time \/ limits.budget
  /\ stop' = TRUE /\ abortedSearch' = TRUE
  /\ UNCHANGED <<idleVars, prog, stopOnPonderhit, ponder, goVars, listVars, sessVars>>

\* A root search that fails low withdraws the decision to stop on ponderhit.
FailLow ==
  /\ AtOp(Main, "depth") /\ ~stop
  /\ stopOnPonderhit
  /\ stopOnPonderhit' = FALSE
  /\ UNCHANGED <<idleVars, prog, stop, abortedSearch, ponder, goVars, listVars, sessVars>>

\* The busy wait: no best move before "stop" or "ponderhit".
Hold ==
  /\ AtOp(Main, "hold")
  /\ stop \/ ~(ponder \/ limits.infinite)
  /\ Pop(Main)
  /\ UNCHANGED <<idleVars, flagVars, goVars, listVars, sessVars>>

\* threads.stop = true, so that the other workers finish.
RaiseStop ==
  /\ AtOp(Main, "raise")
  /\ stop' = TRUE
  /\ Pop(Main)
  /\ UNCHANGED <<idleVars, abortedSearch, stopOnPonderhit, ponder, goVars, listVars, sessVars>>

\* The end of Worker::start_searching: onBestmove.
BestMove ==
  /\ AtOp(Main, "bestmove")
  /\ bestmoves' = bestmoves + 1
  /\ Pop(Main)
  /\ UNCHANGED <<idleVars, flagVars, goVars, listVars, uci, goes, others, released>>

-----------------------------------------------------------------------------
(* UCIEngine::loop.                                                        *)

Reading == uci = "loop" /\ prog[UCI] = <<>>

\* The GUI keeps the UCI protocol: while the engine may only be released by
\* "stop" or "ponderhit" it sends no command that waits for the search.
MaySendBlocking == ~Thinking \/ ~Held

\* "go"
CmdGo(l) ==
  /\ Reading /\ MaySendBlocking /\ goes < MaxGo
  /\ request' = l
  /\ prog' = [prog EXCEPT ![UCI] = StartThinking(size)]
  /\ goes' = goes + 1
  /\ released' = FALSE
  /\ UNCHANGED <<idleVars, flagVars, limits, noMoves, rootDepth, completedDepth, listVars, uci, bestmoves, others>>

\* "stop": Engine::stop
CmdStop ==
  /\ Reading
  /\ stop' = TRUE
  /\ released' = TRUE
  /\ UNCHANGED <<idleVars, prog, abortedSearch, stopOnPonderhit, ponder, goVars, listVars, uci, goes, bestmoves, others>>

\* "ponderhit": Engine::set_ponderhit
CmdPonderhit ==
  /\ Reading
  /\ ponder' = FALSE
  /\ released' = (released \/ ~request.infinite)
  /\ UNCHANGED <<idleVars, prog, stop, abortedSearch, stopOnPonderhit, goVars, listVars, uci, goes, bestmoves, others>>

\* A command that waits for the search and then rebuilds part of the engine.
Blocking(program) ==
  /\ Reading /\ MaySendBlocking /\ others < MaxOther
  /\ others' = others + 1
  /\ prog' = [prog EXCEPT ![UCI] = program]
  /\ UNCHANGED <<idleVars, flagVars, goVars, listVars, uci, goes, bestmoves, released>>

CmdNewGame    == Blocking(SearchClear(size))
\* UCIEngine::setoption waits first, then runs the option's callback.
CmdThreads(n) == Blocking(WaitFor(Main) \o ResizeThreads(size, n))
\* "NumaPolicy" recreates the threads, as many as there are.
CmdNumaPolicy == Blocking(WaitFor(Main) \o ResizeThreads(size, size))
CmdHash       == Blocking(WaitFor(Main) \o SetTTSize(size))
CmdEvalFile   == Blocking(WaitFor(Main) \o PoolClear(size))

\* "position": Engine::set_position replaces the list of states and sets pos.
CmdPosition ==
  /\ Reading /\ others < MaxOther
  /\ others' = others + 1
  /\ states' = nextList /\ posList' = nextList /\ nextList' = nextList + 1
  /\ UNCHANGED <<idleVars, prog, flagVars, goVars, setupStates, rootList, uci, goes, bestmoves, released>>

\* "quit" or the end of the input.
CmdQuit ==
  /\ Reading
  /\ stop' = TRUE
  /\ uci' = "quit"
  /\ released' = TRUE
  /\ prog' = [prog EXCEPT ![UCI] = TearDown(size)]
  /\ UNCHANGED <<idleVars, abortedSearch, stopOnPonderhit, ponder, goVars, listVars, goes, bestmoves, others>>

\* main() returns.
Exit ==
  /\ uci = "quit" /\ prog[UCI] = <<>>
  /\ uci' = "done"
  /\ UNCHANGED <<idleVars, prog, flagVars, goVars, listVars, goes, bestmoves, others, released>>

Command ==
  \/ \E l \in LimitSet : CmdGo(l)
  \/ CmdStop
  \/ CmdPonderhit
  \/ CmdNewGame
  \/ \E n \in Workers : CmdThreads(n)
  \/ CmdNumaPolicy
  \/ CmdHash
  \/ CmdEvalFile
  \/ CmdPosition
  \/ CmdQuit

Done == uci = "done" /\ UNCHANGED vars

ActorStep(a) ==
  Block(a) \/ WaitForSearchFinished(a) \/ RunCustomJob(a) \/ NotifyJob(a)

ThreadStep(t) ==
  \/ IdleTop(t)
  \/ Wake(t)
  \/ JobEnd(t)
  \/ PlainJob(t)
  \/ SetupJob(t)
  \/ Deepen(t)

UciStep == SpawnThread \/ SetExit \/ Join \/ ResetSearch \/ Exit
MainStep == Hold \/ RaiseStop \/ BestMove

Next ==
  \/ \E a \in Actors : ActorStep(a)
  \/ \E t \in Workers : ThreadStep(t) \/ EndIteration(t)
  \/ UciStep
  \/ MainStep
  \/ CheckTime
  \/ FailLow
  \/ Command
  \/ Done

\* Threads run; the clock reaches a limit.  An iteration is sure to end only
\* when the search is stopped, at depth 1, or under a depth limit: a deeper
\* one may take as long as anybody waits.  No command is ever promised.
MustEnd(t) == stop \/ rootDepth[t] = 1 \/ (t = Main /\ limits.depth > 0)

Fairness ==
  /\ \A a \in Actors : WF_vars(ActorStep(a))
  /\ \A t \in Workers : WF_vars(ThreadStep(t))
  /\ \A t \in Workers : WF_vars(MustEnd(t) /\ EndIteration(t))
  /\ WF_vars(UciStep) /\ WF_vars(MainStep)
  /\ WF_vars(CheckTime)

Spec == Init /\ [][Next]_vars /\ Fairness

-----------------------------------------------------------------------------
(* Properties.                                                             *)

\* Every variable keeps its type.
EngineTypeOK ==
  /\ pc \in [Workers -> {"absent", "top", "parked", "running", "exited"}]
  /\ searching \in [Workers -> BOOLEAN] /\ exit \in [Workers -> BOOLEAN]
  /\ jobFunc \in [Workers -> {"none", "construct", "clear", "zero", "setup", "search"}]
  /\ worker \in [Workers -> BOOLEAN]
  /\ cv \in [Workers -> SUBSET Actors]
  /\ size \in 0 .. MaxThreads
  /\ stop \in BOOLEAN /\ abortedSearch \in BOOLEAN
  /\ stopOnPonderhit \in BOOLEAN /\ ponder \in BOOLEAN /\ noMoves \in BOOLEAN
  /\ request \in Limits /\ limits \in Limits
  /\ rootDepth \in [Workers -> 0 .. MaxPly]
  /\ completedDepth \in [Workers -> 0 .. MaxPly]
  /\ uci \in {"loop", "quit", "done"}
  /\ goes \in 0 .. MaxGo /\ bestmoves \in 0 .. goes /\ others \in 0 .. MaxOther
  /\ released \in BOOLEAN

\* No wake-up is lost.  Each Thread has one condition variable for two
\* predicates and wakes one waiter: a parked thread with a job has a
\* notification on its way, a blocked actor waits for a thread that is busy,
\* and no two actors are ever blocked on the same thread, where notify_one
\* could wake the wrong one.
WakeupsArrive ==
  \A t \in Workers :
    /\ pc[t] = "parked" /\ t \in cv[t] /\ searching[t] =>
         \E a \in Actors : AtOp(a, "notify") /\ Target(a) = t
    /\ \A a, b \in cv[t] \ {t} : a = b /\ searching[t]

\* The assertions of ~Thread and of the two functions that start a job on the
\* worker: a Thread is destroyed only when it is idle, with nobody blocked on
\* it, and only a Thread whose worker exists is given work.
DestroyedWhenIdle ==
  /\ AtOp(UCI, "exit") =>
       LET t == Target(UCI) IN ~searching[t] /\ cv[t] \subseteq {t}
  /\ \A a \in Actors :
       AtOp(a, "run") /\ Head(prog[a])[3] \in {"search", "clear"} => worker[Target(a)]

\* The jobs of start_thinking, of the thread constructor and of the hash table
\* refer to locals of the function that posted them, or to the pool it is
\* rebuilding: none is still to run when the UCI thread reads on.
JobsEndBeforeTheirCaller ==
  Reading => \A t \in Workers :
               /\ jobFunc[t] \in {"none", "search"}
               /\ ~(AtOp(t, "setup") \/ AtOp(t, "construct") \/ AtOp(t, "zero") \/ AtOp(t, "clear"))

\* A worker that searches reads earlier positions through the list of states
\* its root was set from, and so does the engine's position: the owner of the
\* list is never replaced under them.
StateListsAlive ==
  /\ posList \in {states, setupStates}
  /\ \A t \in Workers :
       pc[t] = "running" /\ (AtOp(t, "iterate") \/ AtOp(t, "depth") \/ AtOp(t, "bestmove"))
         => rootList[t] = setupStates /\ setupStates # 0

\* One search at a time: while the main thread is in a search no flag of the
\* next one is set up, and when it answers every other worker has left its
\* own search, whose result the answer reads.
AnswerReadsFinishedWorkers ==
  AtOp(Main, "bestmove") =>
    \A t \in Workers \ {Main} : t <= size => prog[t] = <<>> /\ ~searching[t] /\ jobFunc[t] = "none"

\* Nothing that threads share is used after its life (ThreadPool::set, start_thinking, ~Thread,
\* Engine's states and options): threads, jobs, position lists and the results of workers.
LifetimesKept ==
  EngineTypeOK /\ DestroyedWhenIdle /\ JobsEndBeforeTheirCaller /\ StateListsAlive /\ AnswerReadsFinishedWorkers

\* The searches that end: those with a limit, and those that were told to stop.
Bounded(l) == l.time \/ l.budget \/ l.depth > 0
Ending == ~Held /\ (Bounded(request) \/ request.infinite)

\* Every "go" whose search is to end is answered, whatever the GUI sends.
EveryGoAnswered ==
  \A n \in 1 .. MaxGo : (goes = n /\ Ending) ~> (bestmoves >= n)

\* "quit" ends the program: no thread is left waiting for another.
QuitEnds == (uci = "quit") ~> (uci = "done")

\* Commands and searches all come to their end.
SearchesEnd == EveryGoAnswered /\ QuitEnds

-----------------------------------------------------------------------------
(* The search commands, seen as the promise of the protocol.               *)

\* The requests not answered yet, oldest first: is the answer held back?
queueBar ==
  CASE goes = bestmoves     -> <<>>
    [] goes = bestmoves + 1 -> <<Held>>
    [] OTHER                -> <<FALSE, Held>>

Promise == INSTANCE UciPromise WITH queue <- queueBar
KeepsUciPromise == Promise!Spec
=============================================================================
