# Verification of the Brilliant Movee repository

TLA+ models of the two programs this repository holds: the Flutter app under
`src/lib` (reviews of chess games, the reading of PGN texts, the list of played
games) and the chess engine it ships, Stockfish, under `src/Stockfish-sf_18/src`
(threads, memory shared between threads and processes, endgame tables, positions,
search).  TLC checks small instances; TLAPS proves what is stated as a theorem for
every value of the constants.  Paths and line numbers refer to the repository.

## 1. The system

### The app

The app shows the games of a chess.com account, reviews them move by move, marks
"brilliant" moves and keeps them for replay.  It is one Dart isolate: code between
two `await`s is atomic, and everything else interleaves (timers, microtasks, taps,
frames, answers of the network).  There are no threads and no locks, and nothing
waits on anything but a timer, a stream or a request.

| part | state it keeps | operations | what is hard | correct when |
|---|---|---|---|---|
| review analysis, `features/review/analysis/review_notifier.dart` | `ReviewState`: game, boards, ply, ratings, spinner, bar, alert, totals | loadGame, navigation, `_startAnalysis`, alert | a coroutine with three kinds of awaits, no guard against a second run, `mounted` tested at two places only, one notifier shared by stacked screens | a finished analysis has rated every board; ratings, alert, totals and spinner agree; a closed review is left alone |
| engine stub, `engine/stockfish_isolate.dart` | a broadcast stream for all reviews | start (50 ms), analyze (100 + 10·depth ms), stop (nothing) | answers of one review reach another; ids name a ply only; timeouts of 15 and 10 s | an answer is used for the position it was computed for |
| move classifier, `engine/move_classifier.dart` | none | classify, fromClassifications | a cascade of early returns, thresholds on depth and evaluation | the totals count each rating once and for its colour |
| brilliant replays, `core/services/storage_service.dart`, `features/profile/brilliant_games_screen.dart` | a list in the preferences | saveBrilliantGame, list, CLEAR ALL | written by runs whose review may be gone | ply and PGN belong together |
| review screen and router, `features/review/review_screen.dart`, `core/router/app_router.dart` | the navigation stack, what the last frame showed | open, close, tap, frame | a tap meets the widgets of the last frame, two quick taps push two screens | the ply shown has a board |
| PGN parser, `engine/pgn_parser.dart` | none | parse | a chain of regular expressions over free text | it reads the moves of the game and no other, each with its number and colour |
| board states, `features/review/board/board_state.dart` | none | buildFromPgn | stops at the first illegal move | the boards are those of the leading legal moves |
| game history, `data/repositories/game_repository.dart`, `data/sources/chess_com_api.dart`, `features/history/history_screen.dart` | a provider's value, a cache by account | getRecentGames, refresh, retry | overlapping fetches, rate limits, timeouts, partial failures, account changes meanwhile | an account sees its own games, all of the newest months |
| player profiles, video export, audio, settings, engine download, start-up, neural pipeline, lessons, texts, widgets | see section 6 | | | not modelled |

How they interact: a screen's first frame calls `loadGame`; that calls the parser
and the board builder and, if the settings say so, `_startAnalysis`; a run asks
the engine, listens to its stream with a filter on an id, classifies, stores a
brilliant move and publishes a new `ReviewState`; frames and taps follow from the
state.  The history screen watches a provider that calls the repository, which
calls the API client, whose interceptor repeats requests through itself.

### The engine

The engine is a process of many threads.  The UCI thread reads commands; a pool of
workers searches the same position and shares one transposition table, histories
and network weights, almost all of it without locks.  Several engine processes
share one copy of the weights.

| part (under `Stockfish-sf_18/src`) | state it keeps | operations | what is hard | correct when |
|---|---|---|---|---|
| UCI front end and threads, `uci.cpp`, `engine.cpp`, `thread.cpp`, `search.cpp` 143–235 | per thread `searching`, `exit`, `jobFunc`; flags `stop`, `ponder`, …; lists of `StateInfo` | go, stop, ponderhit, position, ucinewgame, setoption, quit; idle loop, jobs | one condition variable for two kinds of waiters; a busy wait on flags reset by another thread; a pool rebuilt by an option | no wake-up is lost, nothing is freed while a thread uses it, each go gets one bestmove, in order |
| root search, `search.cpp` 236–560, `thread.cpp` get_best_thread | root moves with scores, previous scores, windows | iterative deepening, aspiration, MultiPV, choice of a thread | stopped anywhere by one thread for all | what is reported and played comes from what was finished |
| search of a node, `search.cpp` 620–1760 | one frame of the recursion | search, qsearch | a stopped search returns any value through every level; pruning near mates; writes to the table | a decisive value that is returned or written is proven |
| move picking, `movepick.cpp` | one array partitioned in place | next_move, skip_quiet_moves | stages left early and skipped | each move once, in the promised order |
| histories, `history.h` | entries shared by the threads of a node | `<<`, clear | unlocked reads and writes | every entry within its range |
| transposition table, `tt.cpp` | clusters of entries, a generation | probe, save, new_search, clear | fields read and written one by one without locks; ages modulo a byte | data found belongs to the key or was being written meanwhile; the youngest survive |
| positions and moves, `position.cpp`, `movegen.cpp`, `bitboard.cpp` | boards, keys, pins, rights | set, do_move, undo_move, legal, pseudo_legal, see_ge, repetitions | everything is changed by differences | equal to a position set up anew |
| accumulators, `nnue/nnue_accumulator.cpp`, `nnue/features` | a stack of sums, a cache by king square | push, pop, evaluate, refresh | brought up to date from the nearest computed ply, both ways, two moves at once | the sum of the features of the board |
| endgame tables, `syzygy/tbprobe.cpp` | a hash of tables, mapped files | init, mapped, do_probe_table, decompress_pairs, probe, rank_root_moves | double-checked locking; numbering; variable-length symbols; 50-move rule | each table found and mapped once, each position its own number, a won game is won |
| NUMA, `numa.h` | configurations, copies of the networks | parse, bundle, distribute, replicate | topologies of every shape; lazy copies without a lock | each processor in one node, each thread a node with a network that is current |
| shared memory, `shm.h`, `shm_linux.h` | a named region, its lock and sentinels | open, close, cleanup by signal | processes die anywhere; names are unlinked and created again | readers find a whole network; the name lives as long as its users |

How they interact: the UCI thread posts jobs to the workers' condition variables;
the main worker starts and awaits the others, each of which deepens at its root,
asks the pickers for moves, makes them on its position, evaluates through the
accumulators and probes the tables.  Networks reach a worker through the
replication per node, and the nodes' weights through the shared region.

## 2. Modules

The models of the app and of the engine do not touch; within each the modules below
compose.  A composite module has one variable `part` that says which of its models
runs while the others rest: what it composes shares a run and a theme, not state,
except where "extends" is said.

| module | models | composed with |
|---|---|---|
| `MoveClassifier` | the label of one move and the totals, as operators | used by `ReviewAnalysis` |
| `ReviewAnalysis` | notifier, runs, engine stub, timers, screens, settings, replays | extends `MoveClassifier` |
| `ReviewPromise` | abstract: ratings come one by one, none is withdrawn, the end leaves none out | refined by `ReviewAnalysis` |
| `MCReviewAnalysis` | small games, the refinement mapping | extends `ReviewAnalysis`, instantiates `ReviewPromise` |
| `PgnParser` | the text to moves function, over lexemes | used by `PgnText` |
| `PgnText` | whoever writes the text, piece by piece | extends `PgnParser` |
| `GameHistory` | provider, repository, interceptor, cache, chess.com | – |
| `MCAppServices` | the app's two sources of games | extends `PgnText`, `GameHistory` |
| `UciEngine` | UCI thread, thread pool, idle loop, flags, one search from go to bestmove, quit | – |
| `UciPromise` | abstract: a queue of requests, answered in order, none before its time | refined by `UciEngine` |
| `MCUciEngine` | three kinds of go | extends `UciEngine` |
| `Board`, `Position`, `MoveGen` | squares, pieces and attacks; a position and its moves; generation and legality | each extends the one before |
| `ChessGame`, `MCChessGame` | games from a set of positions; what the rules say of them | extends `MoveGen` |
| `MovePick` | the picker of one node | – |
| `RootSearch` | deepening by several threads | – |
| `SearchNode` | one call of search or qsearch | – |
| `Accumulators` | the network's first layer along a line of moves | extends `MoveGen` |
| `MCEngineTree` | a search of the tree | extends the last four |
| `TBTables` | the hash of tables, the mapping of files by threads | – |
| `TBMaterial` | which tables there are | – |
| `TBEncoding` | the number of a position in its table | – |
| `TBPairs` | the reading of compressed values | – |
| `TBRank`, `TBProbe` | ranks of root moves; probing, and whole games played by rank | `TBProbe` extends `TBRank` |
| `TTable` | one cluster, threads that probe and save, the arithmetic of addresses | – |
| `MCEngineTables` | what a search looks up | extends the tablebase modules but `TBTables`, and `TTable` |
| `SharedMemory` | objects, processes, the region's file, its lock, sentinels | – |
| `NumaConfig` | configurations and the distribution of threads | – |
| `NumaReplication` | copies per node, tokens, histories' slices, commands | extends `NumaConfig` |
| `History` | entries shared by threads, their update and clearing | – |
| `MCEngineMemory` | what threads and processes share | extends the last four and `TBTables` |
| `NumberLemmas` | lemmas about numbers and about functions defined from one number to the next | – |
| `ReviewProofs`, `GameHistoryProofs`, `EngineMemoryProofs`, `TablesProofs`, `UciEngineProofs`, `SearchProofs`, `PickProofs` | theorems | each extends its module, `TLAPS` and, all but two, `NumberLemmas`; `EngineMemoryProofs` extends `History`, `NumaReplication` and `SharedMemory`, `TablesProofs` `TBTables`, `TBProbe` and `TTable`, `SearchProofs` `SearchNode` and `RootSearch` |

### ReviewAnalysis

| variable | in the code |
|---|---|
| `state[n]` | the `ReviewState` of the n-th `ReviewNotifier`; ply p of the model is index p of `boardStates`, and its rating is index p - 1 of `classifications` |
| `current`, `screens` | which notifier the autoDispose provider holds, and how many screens watch it; 0 screens: it is disposed |
| `button` | RUN DEEP ANALYSIS was enabled in the last frame |
| `task[t]` | the t-th run of `_startAnalysis`: program counter, its local copy of the list, the plies left, the game and ply it is at, the answers |
| `timers` | pending `Future.delayed` of the engine, in the order they were set |
| `settings`, `saved` | SharedPreferences |

A run has one action per segment between awaits: `EngineStarted` (after
`engine.start()`, down to the first request), `EngineAnswers` and
`AnswerTimesOut` (what ends an await), `AskAfter` (between the two requests) and
`RatePly` (classification, storing, publishing, and on to the next request or the
end).  Microtasks run before any timer, tap or frame: every other action waits
until `Quiet`.  Two timers fire in the order of their deadlines as far as delays
and the order of setting fix it (`Due`); when they do not, either may fire.  The
order in which two resumed runs go on is left open, a small over-approximation.

Only the facts about a move that the code looks at are kept: its label
(`isWhite`), whether it captures, whether the book knows it.  A move counts as a
sacrifice when the labelled colour has less material after it, which can only
happen for a capture with the wrong label (`IsSacrifice`), since a legal move
never takes material from its own side.  The stub engine answers one line
without moves and with evaluation 0.  `SlowEngine = TRUE` replaces the stub by an
engine that answers in any order or never, as a real one would; only then do the
timeouts fire.

### PgnParser, PgnText, GameHistory

A line is a sequence of lexemes: spaces, brackets, numbers with their dots,
moves, results, NAGs, `!`-like marks.  `Parse` follows the code's order:
headers, comments, variations, glued numbers, tokens, and the loop that labels
moves.  A move carries its place in the game, which the parser cannot see, so
that a property can tell what was read.  `PgnText` writes texts as a player, a
server or a pasting user would; the parser is asked after every piece.

`fetch[f]` is the f-th computation of `_historyGamesProvider`; its requests (one
for the archives, one per month) go through `RateLimited`, `SendAgain` and
`TimesOut`, the branches of the interceptor.  `latest` is the fetch the provider
still waits for, `shown` what the screen has.  `promised` and `failed` are
history variables for the properties.  Two paths of the repository that nothing
calls (an unforced fetch, `clearAll`) are left out.

### UciEngine

What an actor (the UCI thread or a worker) still has to do is a program, a sequence
of operations that follows the bodies of the functions it executes (`go`,
`set_threads`, `clear`, `start_thinking`, the searching of the main worker and of a
helper, `~Thread`); its head is executed in one step, the code between two points
where another thread can be seen.  `cv[t]` is the set of actors blocked on the
condition variable of `Thread` t, of which `notify_one` wakes any one; spurious
wake-ups only test a predicate again and are left out.  `searching`, `exit`,
`jobFunc`, `stop`, `ponder`, `stopOnPonderhit` are the fields of those names;
`states`, `setupStates` and the lists are owners of `StateInfo` lists, by which use
after free is told.  `released` is a history variable: the GUI has sent stop or
ponderhit since its go.  One assumption about the GUI is made, and it is the
protocol's: while a search is held back (infinite or pondering, not yet released),
it sends no command that waits for that search (go, setoption, ucinewgame), which
would block the only thread that can read its stop.  `limits` are the kinds of go
the code tells apart; a depth limit of `MaxPly` stands for none.

### Board, Position, MoveGen, ChessGame

A position is the board (a partial function of occupied squares), the side to move,
`gamePly` and the state record `st` with the fields of `StateInfo`.  A Zobrist key is
the set of the tokens whose random numbers are combined, so that the exclusive or is
the symmetric difference and a collision of random numbers, which the code accepts,
cannot happen.  `do_move`, `undo_move`, `do_null_move` and their inverses change what
the code changes, by the same differences; `Set` builds a position from the fields of
a FEN.  Squares and pieces keep the code's numbers.  `MoveGen` has `generate` for each
kind, `legal` and `pseudo_legal`.  `ChessGame` plays moves, undoes them and compares
with definitions from the rules of chess: `Attacks` by walking, legality by making
the move and looking, repetition by comparing boards, the exchange by a game tree
(`ExchangeValue`, which takes the attackers of a square and the pinned pieces from the
operators `see_ge` uses too: the order and the sign of the exchange are checked
independently, these rules are not).  Printing, setting from an endgame code,
prefetches and the vector variants of the same loops are left out.

### SearchNode, RootSearch, MovePick, Accumulators

`SearchNode` is one call at ply 1.  Its contract is what it may rely on and what it
has to deliver: a decisive value (mate or tablebase) that comes from inside the
window, or that the table bounds, is proven.  The searches below it, the entry it
finds and the tablebases return anything that keeps this contract; margins, depths and
statistics, which only say whether a pruning step is tried, are left open.  At the
root `barred` are the moves that `searchmoves` takes away or that have a worse
tablebase rank, `skipped` those of earlier lines of a multi-line search; ProbCut tries
any legal capture all the same.  A value that is returned is held to the moves that
were asked about, one that is written to the position (`WriteProven`).  `frame.pc`
names the steps the comments of `search` number, `frame.written` is what has been
stored, `writtenWhole` whether it came from a finished search.

`RootSearch` is iterative deepening by several threads that share `stop` and
`abortedSearch`.  `worker[t]` keeps a thread's root moves with score,
previousScore and whether the score is exact, its window and depth.  The value of
a root move is any of the setup's; a stop may come at any node; `setup.depth` is
`limits.depth` and binds the main thread alone, the helpers go on to `LastDepth`.

`MovePick` keeps the code's array, its pointers and `stage` in `picker`, returns one
move per step and collects them in `emitted`; scores are inputs.

`Accumulators` keeps the stack (`dp`, `dts` and a set of features per ply and
perspective, `NoSum` when not computed) and the cache by king square.  A sum of
weight rows is the set of the features that were added; adding one twice or
removing one that is absent yields `NoSum`, which no right sum is.  One of the two
networks, the one with all feature sets, is modelled.

### Endgame tables

`TBTables`:  `hashTable` is the Robin Hood table, which `insert` fills entry by entry
(`entry`, `bucket`, `homeBucket` are its locals); `ready`, `addressed` and `filled`
are the fields of a table that `mapped` sets one after the other, under `tbMutex`.
Threads look, lock, look again, map and publish in steps of their own.  `TBMaterial`
puts any material on the board and asks for its table.  `TBEncoding` builds the maps
of the code (`MapA1D1D4`, `MapPawns`, `Binomial`, …) and computes the index of a
position as `do_probe_table` does; the flip of colours and the sorting of pieces are
abstracted to a choice of position.  `TBPairs` writes a file of blocks with canonical
codes (external: the generator) and reads a value at an index with `decompress_pairs`.
`TBProbe` fills tables for every small game graph by backward analysis (external, with
any value where the comments say "don't care", and for distances within `Longest`,
which `MAX_DTZ` leaves room for), probes them with captures and en passant and plays
by rank.  Missing files and the fallbacks of a failed probe are left out of `TBProbe`;
a file that is missing or bad is in `TBTables`.

### TTable

One cluster; an entry has the fields of `TTEntry`.  A probe compares one key per
step, then looks whether the entry is occupied, then reads it; a save writes one
field per step in the code's order, with other threads in between.  A move or value
is the position it was saved for.  `searches` and `born` count searches without a
modulus and `writers` notes who wrote an entry since the table was cleared; they
are history variables.  New searches and clears wait until no thread searches, as
the UCI thread does.  `ClusterOf` and `Slice` are the arithmetic of `first_entry`
and `clear`.

### SharedMemory, NumaConfig, NumaReplication, History

In `SharedMemory` the name leads to `region`; a region has a `content` (new, sized,
written, ready), a lock on its file (`flocked`) and the mutex inside it (`mutexed`);
`sentinels` are the files by which a process says that it lives.  Each object goes
through `open` and `close` (`shmpc`, with the fields and locals of those names).  A
process may be killed at any step, and signalled at any step: `handle_signal` then
closes what is registered, also while the interrupted thread is in the middle of `open`
or `close` (`Handled`), and keeps the region mapped for the searches that still run
(`skip_unmap`).  A call of the system may fail, `flock` included (`NoFileLock`,
`NoCloseLock`).  One call per process is under way at a time besides the handler's.
`NumaConfig` takes one input, from the system or from the user, per behaviour.
`NumaReplication` runs the commands that load a network, set the policy or the
number of threads, search and export, and lets the workers look for their copies
step by step.  `History` splits `operator<<` into its read and its write.

## 3. What the runs check

A property that is a conjunction is named for the whole; its parts are in the module,
each with its own comment.

| run | question | properties |
|---|---|---|
| `review_single` | one review, an automatic analysis repeated twice, navigation at any moment, a game with an illegal tail and one without moves | `TypeOK`; `DoneMeansComplete`: a finished analysis rated every board; `IndicatorsTrue`: alert, totals and spinner are true of the ratings and runs; `OneRequestAtATime`; `KeepsPromise`: the refinement of `ReviewPromise` |
| `review_reopened` | two runs of one review after a double tap; a review closed in the middle and another opened, from the history or from storage, settings changed, data wiped | `ReplayOpensOnSacrifice`: a stored replay opens at a sacrifice of its own game; `PlyHasBoard`; `DoneMeansComplete`; `ClosedReviewsLeftAlone`: runs of a closed review take no ply and write nothing |
| `review_slow_engine` | an engine that is late, out of order or silent | `DoneMeansComplete`: a full bar leaves no ply unrated though answers were missed; `EveryRunEnds` |
| `app_services` | two accounts with overlapping fetches that fail, are limited and time out; PGN texts of every style, with variations inside variations | `ShownAreOwn`: no account sees another's games; `RefreshShowsAll`: after a whole refresh nothing of the newest months is missing; `EveryFetchEnds`; `ReadsGame`: from a text whose moves the parser knows, with nothing glued to them, the result and every move of the game are read, and nothing else unless a variation stands inside another; `ReadsPartOfMainLine`: if every move is numbered, what is read of the game keeps its labels though other moves were not understood |
| `engine_search` | two searches and two other commands on one and two threads, from start to quit | `WakeupsArrive`: no notification is lost or taken by the wrong waiter; `LifetimesKept`: threads, jobs, state lists and results are used within their lives; `SearchesEnd`; `KeepsUciPromise`: the refinement of `UciPromise` |
| `engine_memory` | regions shared by two processes that are killed, signalled in the middle of a call and refused locks; topologies of six processors; copies per node; files mapped by two threads; histories | `RegionsSafe`; `ConfigRight`; `CopiesRight`; `TablesFound`; `HistoryInRange`; `EveryCallEnds` |
| `engine_tables` | every material of up to seven men, five encodings, four code books, thousands of small games; two threads in one cluster beyond a cycle of generations | `PositionsNumbered`: no two positions of a table share a number; `PairsRight`: the value written is the value read; `ProbesRight`: what a probe says is the truth of the game, and playing by rank keeps a certain win; `HashRight` |
| `engine_board` | games from positions made for en passant pins, both kinds of castling, promotions, exchanges and repetitions | `StateInfoRight`: what is changed by differences is what a new position has, and is undone; `MovesRight`; `RepetitionsRight`; `ExchangesRight` |
| `engine_tree` | one node's picker, one call of search, the root with one and two threads, lines of moves | `PicksRight`: each move once, none lost, the promising first; `LinesRight`: lines reported and the thread chosen are the best of what was finished; `ValuesProven`: decisive values are proven (what that means for a root restricted by `searchmoves`, see below), the call leaves the position as it found it; `AccumulatorsRight`; `RootPromises`: a proven loss is only believed when searched, windows end |
| `review_stuck_spinner` | a second game opened while the review of a shorter one is still on the stack | violated: `SpinnerMeansWork` |
| `review_stale_answer` | an answer still under way for a closed review | violated: `AnswerIsForPosition` |
| `engine_probcut_stop` | a stop during ProbCut | violated: `InterruptedNotWritten` |

The three violations are behaviour of the code that disagrees with its comments or
documents:

- **Stale answers** (`src/lib/features/review/analysis/review_notifier.dart:271`).  A
  request is called `ply_3`; engine and stream are shared.  Close a review, open
  another within the delay of an answer, and the second review may go on with the
  first one's answer.  With the stub all answers are alike, so only a real engine
  would make it visible.
- **Stuck spinner** (`src/lib/features/review/analysis/review_notifier.dart:347`).  Two
  quick taps on games of the history push two screens, which share the one notifier.
  The run of the first, shorter game publishes its short list of ratings into the state
  of the second game; a run that then copies that list indexes past its end.  Nobody
  catches the `RangeError`, and the spinner switched on at line 216 stays on with no
  run at work.  `FLOWCHARTS.md` (146–152) leads the loop over the moves to "Analysis
  Complete".
- **ProbCut and stop** (`src/Stockfish-sf_18/src/search.cpp:973`).  Step 11 does not
  look at `threads.stop` after the search below a capture, so the draw value of a
  stopped search may be stored as a lower bound when beta is low enough.  The
  comment at line 1298 says that nothing is written after a stop.

### Observations

Divergences and limits met while modelling, without a run of their own.

In the app: the router gives every game from the history or from pasted text the id
`''`, and the duplicate test of `storage_service.dart:150–151` is a substring test, so
after the first stored brilliant game no other is stored (the model does the same).
The retry of `chess_com_api.dart:40–51` is sent by the same client through the same
interceptor, which retries it in turn for as long as the server is busy;
`EveryFetchEnds` therefore needs a server that is not busy for ever.  The pattern at
`pgn_parser.dart:130–131` ends in `.*`, so of numbers glued to moves (`1.e4 e5 2.Nf3`)
only the first is separated and the later tokens are dropped.  A variation inside a
variation is cut at the first `)`, so that what is left of the outer one is read as
moves of the game: `PgnText` writes such texts, and `ReadsGame` and
`ReadsPartOfMainLine` say what is still right of them (no move of the game is lost or
out of its order, and a numbered one keeps its label) and leave out what is not (that nothing else is read, and, of moves
without numbers, their labels).  `e8=Q` and `O-O+` match no pattern, and the boards
end there.  At the only depth this version uses (18; `updateEngineProfile` has no
caller) no line is deep enough for a brilliant move (20).  A list that cannot be
fetched is shown as an account without games, so the error branch of the history
screen is never reached.  With two screens on one notifier a run of the first game
stores its ply with the PGN of the second (`review_notifier.dart:339`):
`ReplayOpensOnSacrifice` is checked and proved with `MaxScreens = 1` only.

In the engine: with `go ponder mate` the best move is printed while still pondering
(`search.cpp` 211, 471).  With MultiPV a line other than the one being searched is
reported as exact though it was stopped in a failed window.  A helper that is
stopped in its first iteration keeps no first move; it is never chosen.  A search
restricted by `searchmoves` writes the root's restricted result to the table
(`search.cpp` 1465 asks for `pvIdx` only), so that the table may hold a mate against a
position that is not mated; `ValuesProven` claims of a written loss that it is one for
the moves that are not barred, which is what the code does.  `tbprobe.cpp` 1551 calls
the entry of a position with a capture en passant "plain wrong" and returns before it
is read, but only if that capture wins or no other move is left; otherwise such an
entry is read, and its distance may be wrong (`ReadsPastEp` names these positions, and
`ProbesRight` says nothing of their distance; their value is right).

In `shm_linux.h` a failing `flock`, in `open` as in `close`, leaves the name behind;
`unclean` notes it and `NothingLeftBehind` claims nothing then.  A call can take away
the name of a region in use, in two ways that `LockedUnlinkIsSafe` therefore does not
exclude.  A creator may lose the race for the lock of its new file to a second process,
which finds the file unfinished, unlinks it, creates another under the same name and
uses it; when the creator, whose region has no name any more, fails (276–277) or closes
later, it unlinks the name of the other region.  And `close` takes a directory it cannot
read for one without sentinels.  Nobody reads wrong data after that: the region lives on
without a name, and newcomers make another.  The signal handler waits for ever if the
thread it interrupts holds the registry's mutex; the model has the thread hold it in a
step of its own but leaves this wait out, and likewise a handler that waits for the lock
of a file that the interrupted call holds, which takes two objects of one name in one
process.  Two such objects share one sentinel.  In `numa.h` (1592 ff.) the unlocked
look at a copy races with its store when the networks are reloaded meanwhile, and
copies are made during a search that follows a save of the network.

### Bounds, and why they are enough

- Reviews: at most two notifiers and two runs (three in `review_single` and
  `review_stuck_spinner`).  One screen watches a notifier (`MaxScreens = 1`), except in
  `review_stuck_spinner`, where a second one with another game is what goes wrong;
  `PromptFrames` puts a frame between two taps, except there and in `review_reopened`.
  Every hazard is between one thing and the next (a review and its successor, a run
  and the one after it).  Games have up to four moves, both colours, a capture, a
  book move, an illegal tail; the window of four plies then has plies before and
  behind it.  `Depths` holds 18 and 26, below and above the threshold.
- `AppServices`: two accounts, two fetches (one delivers while the other is under
  way), one month: that the newest of several months are the ones taken is not seen by
  TLC but proved (`RefreshesAreComplete`, for any months and any `MaxArchives`); three
  plies of text, variations two deep (`MaxNesting`).
- `EngineSearch`: two workers (a main and a helper), two go and two other commands,
  so that each follows each; depth up to 2 (`MaxPly` 3); an infinite, a pondering
  and a bounded go.
- `EngineMemory`: two objects in two processes with three regions, three opens, one
  crash or signal and one failing call: an opener meets a creator, a user, a corpse
  and a name that was taken away and given again.  Six processors and every grouping
  of them of the kinds the system reports, four threads; four configurations of up to
  three nodes and four commands; six keys in four buckets with collisions, a good, a
  bad and a missing file; two threads in two tables of histories.
- `EngineTables`: all 3003 materials; the 50-move rule scaled from 100 to 10 plies
  (`Rule50`), so that lines pass the limit; words of 4 bits for 32 and a buffer of 8
  for 64, so that refills happen between and inside symbols; a cycle of two
  generations for 32, and two searches: an age passes the cycle.
- `EngineBoard`: about a hundred positions, one to nine plies; `Rule50` is 100.
- `EngineTree`: three captures and three quiet moves of all values that the stages
  tell apart; windows from full to null; values just inside and just outside the
  decisive range; up to three root moves and lines, three iterations (`LastDepth`), of
  which the main thread of two takes one or two, as `limits.depth` binds it alone;
  lines of up to three plies over few squares, no null move among them.
- `CHECK_DEADLOCK FALSE` stands where the bounded inputs can be used up: a text ends
  with its result, fetches, commands, opens, searches and plies are counted.  In
  the review runs and in `engine_search` deadlock is checked.

### Fairness

In the app, weak fairness on timers and microtasks (`Started`, `Answered`, `Resumes`,
`AnswerTimesOut`): the Dart event loop serves them.  None on taps, frames or a slow
engine's answers.  In `GameHistory`, weak fairness on the merge and on sending again
(a timer), and strong fairness on a request being answered or failing: a server
that is asked again and again is not busy for ever.

In the engine, weak fairness on each thread's own steps: the operating system runs it.
The clock is checked again and again, and an iteration ends when the search is
stopped, at depth 1, or under a depth limit; without these a search may run for ever,
and nothing is claimed of it.  None on commands.  For `SharedMemory` and `TBTables`,
weak fairness on a call that can go on and strong fairness on getting a lock that
others release again and again; a killed process takes no step, the system frees its
lock.  A signal stops, in the middle of a call or not, what the thread it interrupts
was doing: no fairness then for the calls of this process but those the handler makes
itself; the process does end (`DieOfSignal`), which is what the waits of the handler
named under Observations would prevent.  Strong fairness on a request hides the server
that is busy for ever (the hazard at `chess_com_api.dart:40`).

## 4. What is proved

For every value of the constants that satisfies the named assumptions of the
modules, which TLC evaluates in every run.

| theorem | module | states | assumption |
|---|---|---|---|
| `TypeCorrectness` | `ReviewProofs` | `TypeOK` of the review | – |
| `ClosedReviewsUntouched` | `ReviewProofs` | `ClosedReviewsLeftAlone` | – |
| `ReplaysOpenOnSacrifices` | `ReviewProofs` | `ReplayOpensOnSacrifice` | `MaxScreens = 1` |
| `PliesOnBoards` | `ReviewProofs` | `PlyHasBoard` | `MaxScreens = 1` |
| `DoneIsComplete` | `ReviewProofs` | `DoneMeansComplete` | `MaxScreens = 1`, `PromptFrames` |
| `ReviewKeepsPromise` | `ReviewProofs` | `KeepsPromise` | `MaxScreens = 1`, `PromptFrames` |
| `RequestsOneAtATime` | `ReviewProofs` | `OneRequestAtATime` | the same, `MaxNotifiers = 1`, no `SlowEngine` |
| `IndicatorsAreTrue` | `ReviewProofs` | `IndicatorsTrue` | the same, `MaxNotifiers = 1`, no `SlowEngine` |
| `HistoryTypeCorrectness` | `GameHistoryProofs` | `TypeOK` of the game history | – |
| `AccountsSeeOwnGames` | `GameHistoryProofs` | `ShownAreOwn` | – |
| `RefreshesAreComplete` | `GameHistoryProofs` | `RefreshShowsAll` | – |
| `HistoriesInRange` | `EngineMemoryProofs` | `HistoryInRange` | – |
| `CopiesAreRight` | `EngineMemoryProofs` | `CopiesRight` | `ConfigsAssumption`, `CommandsAssumption` |
| `ConfigsAreRight` | `EngineMemoryProofs` | `ConfigRight` | `CpusAssumption`, `NumaBoundsAssumption` |
| `ThreadsSpreadEvenly` | `EngineMemoryProofs` | the distribution of any number of threads over the nodes of a configuration is `Even` | no node empty |
| `TablesAreFound` | `TablesProofs` | `TablesFound` | – |
| `TablesProbedRight` | `TablesProofs` | `ProbesRight` | `Rule50Assumption`, `PositionsAssumption`, `GamesAssumption`, `DistancesAssumption` |
| `RegionsAreSafe` | `EngineMemoryProofs` | `RegionsSafe` | – |
| `HashIsRight` | `TablesProofs` | `HashRight` | – |
| `NoWakeupLost` | `UciEngineProofs` | `WakeupsArrive` | – |
| `NothingOutlived` | `UciEngineProofs` | `LifetimesKept` | – |
| `EngineKeepsPromise` | `UciEngineProofs` | `KeepsUciPromise` | `OnlyReleaseEnds` of the limits |
| `DecisiveValuesProven` | `SearchProofs` | `ValuesProven` | `NodeAssumption` |
| `RootLinesRight` | `SearchProofs` | `LinesRight` | `RootAssumption` |
| `ProvenLossesOnly` | `SearchProofs` | `ProvenLossOnly`, half of `RootPromises` | `RootAssumption` |
| `MovesPickedRight` | `PickProofs` | `PicksRight` | `PickAssumption` |
| `SlicesPartition`, `FirstEntryInTable` | `TablesProofs` | the slices that threads clear cover the table, each entry once; a key's cluster lies in the table | – |

*Review types.*  `TypeInv` is `TypeOK` with what it needs to be inductive: tasks and
timers refer to notifiers and tasks that exist, and a screen to a notifier that was
made (`WellBound`).  The theorem about closed reviews is an action property: each
step is shown to keep to it under `TypeInv`.

*Replays.*  `saveBrilliantGame` stores the notifier's current PGN with the ply of
the run, so the stored pair is right only if the run's game is still the
notifier's.  `ReplayInv` adds that to the types: `RunsKeepTheirGame` (the game of a
run at a request is its notifier's, and its ply has a board), `PliesHaveBoards` (of
every notifier, because `loadGame` takes a replay's ply over unchecked), and
`ReplayOpensOnSacrifice` itself.  Each needs the others.  With more than one screen
on a notifier the first part is false, hence `MaxScreens = 1`.

*Work of an analysis.*  `WorkInv` relates the runs, which go on in the background, to
what the screen shows.  A run that works has the ratings of its review and, of the
plies a board can show, each is rated, still before the run, or the one in hand
(`Holds`); no two runs work on one review (`OneRunEach`), because the spinner shows
from the tap on (`RunsShown`, `SpinnerTracksWork`) and a frame takes the button away
before the next tap; a timer sets off only runs that wait for their start
(`Pending`); totals are those of the ratings, and a full bar without spinner leaves
no ply out (`Fit`).  From it follow that a full bar is honest and, step by step,
the refinement of `ReviewPromise`.With one review more holds: every answer is for
the position of its run, on a prompt engine no second request is ever open, and,
since the depth of the settings cannot change while the review is open
(`OneDepth`), a ply is rated the same each time, so that the alert stays true.
That every answer is for its position is a part of this invariant, not a theorem of its
own: with one game and one notifier the id of a request names its position, and with a
second review `review_stale_answer` shows the answer for another game.  `MaxScreens = 1`
is needed, as `review_stuck_spinner` shows; `PromptFrames` is needed for the invariant,
since without the frame between two taps two runs are at work on one review, where TLC
finds a full bar still honest (`review_reopened`).

*Accounts.*  `HistoryInv` adds to the types and to `ShownAreOwn`: a fetch that was
begun has found games of its own account only (`FetchesAreOwn`), the cache holds for
each account games of it (`CacheIsOwn`, because a failed fetch falls back to it), and
the fetch the provider waits for is for the connected account (`LatestIsForUser`).
`RefreshInv` follows what a fetch promised when it began: each promised game is in a
month that will be asked for, then is asked for, then was got (`Keeps`).  The current
month is asked for whether it is listed or not, and a list without it makes no other
month less new (`NewestAreTargets`); games played meanwhile are of that month.

*Histories.*  An update moves an entry towards its limit by a share of the bonus:
the new value is a weighted mean of the old value and the clamped bonus.  Since the
old value that was read was in range, so is what is written, whoever wrote between;
that an unlocked update is lost does no harm to the range.

*Configurations.*  The members of a finite set in a total order are numbered once each
(`InOrderNumbers`), so that removing empty nodes (`RemoveKeeps`) and cutting nodes
where the processor group changes (`SplitKeeps`) keep every processor in one node, and
an accepted text gives each list its node (`StringsNameNodes`).  A range of the text
is a maximal run of processors; every processor is in one because a node is finite
(`RunsEnd`, `RangesName`).  A pass over the caches keeps bundles and leaves either
fewer of them or the same, and the same only when no neighbours fit (`PassKeeps`); as
many passes as there are caches are therefore enough (`MergeKeeps`).  `NumaInv` adds
to `ConfigRight` that the nodes are finite, disjoint and not all empty, which
`ThreadsSpreadEvenly` needs.

*Replicated networks.*  That a thread finds a right copy rests on where threads are
placed.  `RepInv` says that the copies are those of the configuration in force and
each is missing or of the present network (`CopiesKnown`); that threads stand on the
nodes that the distribution gave them and have their own slices of the histories
there (`ThreadsPlaced`, `SlicesCounted`); what each phase of a command has done
(`PhasesKept`); that whoever is between lock and store holds the lock and has seen
its copy missing (`LockKept`), so that none is made twice; and that a search
starts when every thread has looked (`CopiesReady`).  The distribution is the
recursive function of `distribute_threads_among_numa_nodes`: the node with the
smallest share exists by going back to the first counterexample
(`FirstLeastExists`), and by the same argument over threads no node is fuller, for
its size, than another would be with one thread more (`ThreadsSpreadEvenly`).

*Endgame tables.*  `TBHashInv` for the hash: the homes of the entries between an
entry's home and its bucket are no further on than its own and none of these
buckets is empty (`WaysAreFull`, and `WayOfEntry` for the entry in hand), so a key
that is not met before a richer entry or an empty bucket is nowhere; the last bucket
stays empty; and every entry of an added table is in the table, in hand or pending.
`FileInv` for the files: the mutex lets one thread at a time past the second look,
which says of each place what `ready`, `addressed` and `filled` are, so that a file
is opened once and read after it was published.

*Probing.*  The proof goes from the analysis over the tables to the play, by `TBPInv`.
What a retrograde analysis of a game ends with is `WellPlayed`: who has a winning move
wins, as fast as the fastest of them; who has none but losing moves loses, as late as
the last of them allows; all else is drawn.  It ends soon enough because among as many
numbers of plies as there are positions, and one more, some number is no position's
(`GapExists`), and beyond a gap there is nothing (`NoneBeyondGap`).  The tables are of
the same game without en passant, which the generator does not know and which can only
make a position better (`WithEnPassant`); where the table may hold anything, a capture
is as good (`StorableIsRight`), so looking at the captures makes up for it
(`SearchFinds`).  The distance shown is the true one or a ply less, by parity when it
is kept in moves (`ReadShown`), and it stays so for the side that has none stored,
whose distance is found one ply deeper (`AllShown`, `ProbesAreShown`).  In the play,
what is still needed (`Needs`, the distance rounded up as the tables may have rounded
it) and the moves counted so far fit under the 50-move rule, and positions visited
twice lie behind: what is needed falls with every move of the highest rank
(`GoodMove`, `RankedBest`), and the other side cannot make it rise.  Nothing is asked
of the games; the assumption on numbers is that `MAX_DTZ` is far beyond the 50-move
rule, and `Generate` makes no tables of games whose distances are beyond what
`MAX_DTZ` leaves room for.

*Shared regions.*  `ShmInv` has seven parts: the types; `FieldsInv`, what the place of
an object in its call says of its fields; `LocksInv`, that it holds the lock exactly
between lock and unlock; `ContentInv`, that the content of a region progresses with
its only creator; `FillingInv`, that nobody else has mapped a region before its creator
has finished it, so that a creator that gives up takes the name from nobody;
`MarksInv`, that a process that uses a region has its sentinel and who found none is
right to unlink the region it has locked; and `LeftInv`, that as long as the name exists
somebody who will remove it is left, unless a process died within a call or was refused
a lock (`unclean`).

*Transposition table.*  `HashInv` has four parts: the types; `LocalsInv`, what each
place in probe and save says of the locals, in particular that an occupied entry
stays occupied until the table is cleared, which waits for all searches; `AgesInv`,
that the byte of an entry is 8 times the search it was born in, modulo the cycle,
plus three low bits (with lemmas about remainders, from which the age follows by
arithmetic); and `OwnInv`, that of an entry which one thread wrote alone it is known
at each store which fields already belong to its key.

*Threads of the engine.*  What an actor still has to do is data (`prog`), so the
invariant has to say which programs are sound.  A `View` is what the UCI thread may
rely on: which threads are alive, have a worker or are leaving, to whom it gave a job
it has not waited for, whom it has to notify, whether the main thread is known to be
out of a search, how far its `go` is.  `May` and `After` say which operation a view
allows and what is known after it, and `Leads` that a program goes by allowed
operations to a view at rest.  `Hunt`, `HMay`, `HAfter` and `HLeads` are the same for
the main thread in a search.  That the programs of all commands lead to rest, for any
number of threads, is proved once (`CommandLeads`, `StartLeads`, `SearchLeads`), by
going down from the last thread (`Downward`).  The invariant `SafeInv` says that there
are a view and a hunt which are true of the threads (`ThreadsOK`, `PoolOK`,
`SearchOK`), account for everybody who is blocked (`WaitersOK`), for the owners of
the lists (`ListsOK`), for the depths and for the searches not answered
(`CountOK`), and by which the programs go on (`ProgOK`); there is a lemma per action.
None of the parts stands alone: that a notification arrives depends on who may wait
for whom, this on the programs, and these on what was waited for.

For the refinement of `UciPromise` a second invariant, `Kept`, is enough: once its
flags are reset, the last search is neither stopped nor past the busy wait before
its release.  It is false for a search that is to be held back and carries a limit
that ends it earlier (`go infinite nodes 1000`, `go ponder mate 3`), hence the
hypothesis `OnlyReleaseEnds`: `check_time` and the mate limit do not look at
`infinite`, the mate limit not at `ponder` either.

*Search of a node.*  `NodeInv` says what lets a search prune.  The window lies in the
caller's, and what narrowed it is proven or not decisive (`InWindow`: draws, the
mated value, the tablebases' win, a better move; beta comes down to a mate only); a
best value that wins is proven (`BestProven`); and as long as the best value loses,
no move was passed over (`LossProven`), so that at the end it bounds them all: all that
are not barred, at a root that `searchmoves` or a tablebase rank restricts.  A tie may
promote the move that made it, with the value of the tie for its best value
(`Increments`), but never a win.  This
is where the guard of the pruning steps is needed: without `!is_loss(bestValue)` the
proof of the step stops.  That the value of the hash cut is proven uses the empty
window of a node off the principal variation, which `search` asserts.  The values
below the moves are those the same contract allows; that a whole tree keeps it by
induction on the depth is not stated.

*Root search.*  What is proved of a worker rests on three things that hold together.
Every row of `rootMoves` stands on a place of its own tablebase rank and the rows are
the moves (`Shuffled`); the places `pvFirst .. pvLast` of a line are all those of one
rank (`Block`), so that a sort within them, and the return of the last best move to the
front, keep to the ranks (`SortKeeps`, `FrontKeeps`); and the lines before the one in
hand are exact and sorted (`Lined`), which a search of the later places cannot spoil,
and to which the sort at the end of a line adds one.  Why the first of a line is exact
when the window held: the best value of a search lies on the place of some move, the
first that reached it (`Through`), and the sort brings it in front (`SortedSearch`).
`Trusted` says that the last best move is one a finished iteration found, and
`EmptiedWorker` names the one worker without a first move: a helper that the clock
stopped in its first iteration.  Two steps are easy to overlook.  Main does not become
such a worker because `check_time` only aborts once main has finished an iteration
(`FlagsKept`).  And the window stays open because values lie strictly between the
infinite ones, so that a window that failed leaves room on the other side
(`FailLowKeeps`, `FailHighKeeps`).  That a stable sort of the rows exists is
proved too (`SortOrderExists`: the place of a row is the number of rows stably before
it).  The choice of the thread is the loop of `get_best_thread` with the votes left
opaque (`VoteRight`): whatever they are, it never leaves a proven win for less, nor a
proven loss for anything but another one, which is what the property asks.

*Order of moves.*  A picker is in one of six situations (`PickerInv`): before its
first list, in a single list, or in one of the four stages of a main search.  Each
says where in the one array which moves lie and how they are sorted: during the good
captures, the bad ones passed lie in front, and they and what is ahead fall in value
(`Kept`), which the swap of a bad capture with a good one given before does not
disturb; from then on the bad captures stay in front and the quiet moves behind the
captures (`InBad`).  From the situation follows what is still to come (`Todo`), the
quiet moves only as long as they are not skipped.  The contract of `next_move` is
`Gives`: one move of `Todo`, which precedes all the others of it and leaves just
them, or none when `Todo` is empty.  A stage that finds no more leaves to the next one
the same `Todo`, so each stage is proved from the one after it.  `PickInv` puts
together that what was given is not to come, that what is wanted was given, is to
come or was skipped, and the order.  `partial_insertion_sort` and the setting aside
of bad captures are functions from one place to the next: that every step has a value
and keeps that the array holds the same moves, each once, is proved by going up an
interval (`StepsExist`, `Ascends`), and so is that the sort is sorted down to its limit
with everything worth less behind (`SortSorts`).  `PickAssumption` says of the
lists how `generate` fills them: no move twice, captures apart from quiet moves,
evasions in check only (`MoveGen`, which models a list as a set, checks which moves
they are).

Only model-checked: liveness under fairness (`EveryRunEnds`, `EveryFetchEnds`,
`SearchesEnd`, `EveryCallEnds`, half of `RootPromises`), which the prover does not do;
what recursive functions and folds compute (the parser, the index of a position,
decompression, the exchange), which needs induction over data; and the invariants of
the board and of `Accumulators`.  Recursive functions whose properties are proved (the
distribution of threads, the bundling of caches, the sort, the retrograde analysis) go
up one number at a time, so that the first exception to a claim can be looked at.

## 5. Hazards

`PROJECT.json` lists at its line what is hard to test in this code, with the
properties that would catch it.  One entry has no property: the duplicate test of
the stored replays, whose collision is certain with the ids that callers pass.

## 6. Not modelled

Of what is modelled in part:

- *Review*: retry mode, the estimated evaluation bar and `isLoading` (set and cleared
  within one segment); sounds; headers other than Result; sorting by date.  The
  legality of moves is the external package `chess`, the opening book a table: both
  are inputs.
- *UCI and threads*: options that only set a number, the texts of answers, `bench`,
  `eval`, `d` and the like.
- *Search*: the amounts by which depths are reduced and windows widened, the
  statistics that sort and prune, skill levels, the formulas of the clock.  They
  choose among behaviours that the models leave open.
- *Transposition table*: `hashfull`, the allocation in large pages.
- *Position*: printing, `set` from an endgame code; magic bitboards and vector
  variants, which compute the same sets.
- *Networks*: null moves along a line, which push nothing on the stack of accumulators
  (`search.cpp` 570); the arithmetic of the layers and of the accumulators' numbers, the
  smaller network, the reading of a network file.
- *Endgame tables*: the distance of a position whose table entry ignores a capture en
  passant (`ReadsPastEp`, see Observations); what a failed probe falls back to; the
  map of DTZ values; the generator is external.
- *NUMA and shared memory*: reading sysfs, binding threads, the Windows variants
  (a named mutex instead of locks of files; `WAIT_ABANDONED` is not released there),
  the counter of users that nothing reads.

Not at all:

- *Time management, tune, options, benchmarks, memory allocation*: formulas, text and
  wrappers of the operating system.
- *Network layers* (`nnue/layers`): products of matrices, without state.
- *Video export*: a straight line of plugin calls (screen capture, FFmpeg, gallery)
  whose answers are not in this repository.  What its lines show: it awaits `play()`,
  which ends with the music, before the first frame; it goes on after its review was
  closed and writes its state without testing `mounted`; a frame without bytes
  leaves a gap in the numbered files, at which FFmpeg stops.
- *Audio*: a map of players of a plugin.  Two sounds of one event before its player
  exists make two players; `reloadPack` and `dispose` iterate across awaits.
- *Settings, engine download, player profiles, start-up, lessons, opening book*: values
  that are read and written one by one, one file that no code loads, two requests
  through the interceptor that `GameHistory` models, one sequence of awaits, bundled
  tables.
- *Neural pipeline*: nothing constructs it.
- *Widgets, themes, texts, generated code, platform shells*: no state to check.
