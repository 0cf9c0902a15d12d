--------------------------- MODULE ReviewAnalysis ---------------------------
(***************************************************************************)
(* The review of a game: lib/features/review/analysis/review_notifier.dart *)
(* on top of lib/engine/stockfish_isolate.dart, with the list of brilliant *)
(* games kept by lib/core/services/storage_service.dart.                   *)
(*                                                                         *)
(* Dart runs one isolate: code between two awaits is atomic, so an action  *)
(* is one such segment.  A ReviewNotifier lives while at least one         *)
(* ReviewScreen watches the autoDispose provider; the engine, its          *)
(* broadcast stream and the preferences outlive it.  _startAnalysis is a   *)
(* coroutine, modelled as a task with a program counter; its awaits are    *)
(* served by Dart timers, which fire in the order of their deadlines.      *)
(***************************************************************************)
EXTENDS MoveClassifier

CONSTANTS
  Games,         \* the games that can be opened; see GamesAssumption
  Depths,        \* depths of engine profiles that may get into storage
  MaxNotifiers,  \* bound: ReviewNotifiers created in a behaviour
  MaxTasks,      \* bound: calls of _startAnalysis in a behaviour
  MaxScreens,    \* bound: ReviewScreens pushed on top of each other
  PromptFrames,  \* TRUE: a frame is rendered between any two taps
  SlowEngine     \* TRUE: an engine that answers at its own pace, or never

\* A parsed game: what PgnParser and BoardStateBuilder make of a PGN.  boards
\* is the length of boardStates: the start, then one per legal leading move.
ASSUME GamesAssumption ==
  /\ Games # {}
  /\ \A g \in Games :
       /\ g.moves \in Seq([isWhite : BOOLEAN, capture : BOOLEAN, book : BOOLEAN])
       /\ g.boards \in 1..(Len(g.moves) + 1)

ASSUME BoundsAssumption ==
  /\ MaxNotifiers \in Nat \ {0}
  /\ MaxTasks \in Nat \ {0}
  /\ MaxScreens \in Nat \ {0}
  /\ PromptFrames \in BOOLEAN
  /\ SlowEngine \in BOOLEAN
  /\ Depths \subseteq Nat

VARIABLES
  state,     \* state[n]: the ReviewState of notifier n
  current,   \* notifiers created so far; the last is the provider's
  screens,   \* ReviewScreens on the navigation stack
  button,    \* RUN DEEP ANALYSIS is enabled in the last rendered frame
  task,      \* task[t]: the t-th run of _startAnalysis
  timers,    \* the pending Dart timers, oldest first
  settings,  \* storage: engineDepth and autoAnalyze
  saved      \* storage: brilliantGamesData, oldest first

vars == <<state, current, screens, button, task, timers, settings, saved>>

Notifiers == 1..MaxNotifiers
Tasks == 1..MaxTasks

\* game == null and boardStates == [] before the first load.
NoGame == [id |-> "", moves |-> <<>>, boards |-> 0]

Nothing == [before |-> FALSE, game |-> NoGame, ply |-> 0, depth |-> 0]

Min2(a, b) == IF a <= b THEN a ELSE b

-----------------------------------------------------------------------------
(* Timers and the engine *)

StartDelay == 50
AnswerDelay(depth) == 100 + depth * 10

StartTimer(t) == [task |-> t, request |-> Nothing, delay |-> StartDelay]
AnswerTimer(r) == [task |-> 0, request |-> r, delay |-> AnswerDelay(r.depth)]

\* A timer set earlier with no longer delay fires first.
Due(i) == \A j \in 1..(i - 1) : timers[j].delay > timers[i].delay

\* The list ts without its i-th element.
Drop(ts, i) == [j \in 1..(Len(ts) - 1) |-> IF j < i THEN ts[j] ELSE ts[j + 1]]

\* 'ply_N' and 'ply_N_after' name a ply and a side of it: not the game.
SameId(r, q) == r.ply = q.ply /\ r.before = q.before

-----------------------------------------------------------------------------
(* ReviewState *)

Zero == <<0, 1>>   \* analysisProgress as a fraction
One == <<1, 1>>

NoTotals == [q \in Quality \ {"forced"} |-> 0]

FreshState ==
  [game |-> NoGame, ply |-> 0, list |-> <<>>, isAnalyzing |-> FALSE,
   progress |-> Zero, alert |-> FALSE, white |-> NoTotals, black |-> NoTotals,
   error |-> FALSE]

ClassificationAt(s, ply) ==
  IF ply <= 0 \/ ply > Len(s.list) THEN Unrated ELSE s.list[ply]

\* loadGame up to the call of _startAnalysis; copyWith keeps what it is not
\* given, so progress, totals and alert survive, and always clears the error.
Loaded(s, g, at) ==
  [s EXCEPT !.game = g, !.ply = at, !.error = FALSE,
            !.list = [p \in 1..Len(g.moves) |-> Unrated]]

Analyzing(s) == [s EXCEPT !.isAnalyzing = TRUE, !.progress = Zero, !.error = FALSE]

Finished(s) == [s EXCEPT !.isAnalyzing = FALSE, !.progress = One, !.error = FALSE]

\* Mutant: the number of boards is taken for the last index.
ClampToLength(ply, s) == IF ply < 0 THEN 0 ELSE Min2(ply, s.game.boards)

\* Mutant: no lower bound.
ClampAbove(ply, s) == Min2(ply, s.game.boards - 1)

\* num.clamp, for a list of boards that is not empty.
Clamp(ply, s) == IF ply < 0 THEN 0 ELSE Min2(ply, s.game.boards - 1)

\* Mutant: moving to another ply leaves the alert up.
AtPlyKeepingAlert(s, ply) ==
  LET to == Clamp(ply, s)
  IN  IF to = s.ply THEN s
      ELSE [s EXCEPT !.ply = to, !.error = FALSE,
                     !.alert = @ \/ (ClassificationAt(s, to) = "brilliant")]

\* _setCurrentPly: moving clears the alert, arriving on a brilliant move sets it.
AtPly(s, ply) ==
  LET to == Clamp(ply, s)
  IN  IF to = s.ply THEN s
      ELSE [s EXCEPT !.ply = to, !.error = FALSE,
                     !.alert = (ClassificationAt(s, to) = "brilliant")]

-----------------------------------------------------------------------------
(* One run of _startAnalysis *)

\* Mutant: a notifier never learns that it was disposed.
NeverDisposed(n) == n \in 1..current

Mounted(n) == screens > 0 /\ n = current

IdleTask ==
  [pc |-> "idle", notifier |-> 0, depth |-> 0, total |-> 0, from |-> 0,
   left |-> {}, list |-> <<>>, analyzed |-> 0, game |-> NoGame, ply |-> 0,
   answer |-> Nothing, answer2 |-> Nothing]

\* orderedPlies: the current ply and the three after it come first.
Window(k) == k.from..Min2(k.from + 3, k.total)
\* Mutant: what comes after the window is analysed, what lies before is not.
PliesFromCurrent(k) == k.from..k.total

OrderedPlies(k) == Window(k) \cup (1..k.total)
Rank(k, p) == IF p \in Window(k) THEN p ELSE k.total + p

\* The plies the loop does not skip, judged by the boards of the moment.
Reviewable(s, k) == {p \in k.left : 1 <= p /\ p < s.game.boards}

NextPly(S, k) == CHOOSE p \in S : \A q \in S : Rank(k, p) <= Rank(k, q)

Request(k, isBefore) ==
  [before |-> isBefore, game |-> k.game, ply |-> k.ply, depth |-> k.depth]

\* A mover never loses material by his own move, so the material of the colour
\* on the label drops only if the move is a capture and the label is wrong.
IsSacrifice(game, ply) ==
  /\ game.moves[ply].capture
  /\ game.moves[ply].isWhite # PlyIsWhite(ply)

\* The stub engine answers one line without moves and with eval 0; a timeout
\* leaves no line, and both evaluations default to 0.
LinesOf(answer) ==
  IF answer = Nothing THEN <<>>
  ELSE <<[first |-> NoMove, eval |-> 0, depth |-> answer.depth]>>

Verdict(k) ==
  Classify(0, 0, k.game.moves[k.ply].book, IsSacrifice(k.game, k.ply),
           LinesOf(k.answer), "san")

\* saveBrilliantGame: an entry that contains the id blocks the save, and every
\* entry contains the empty id.
IsKnown(id) == \E i \in DOMAIN saved : id = "" \/ saved[i].id = id

\* Mutant: the ply after the brilliant move is stored.
SaveNext(game, ply) ==
  saved' = IF IsKnown(game.id) THEN saved
           ELSE Append(saved, [id |-> game.id, game |-> game, ply |-> ply + 1])

Save(game, ply) ==
  saved' = IF IsKnown(game.id) THEN saved
           ELSE Append(saved, [id |-> game.id, game |-> game, ply |-> ply])

\* The part of the loop from its head to the next await, or to the end.  s is
\* the notifiers' states and k the task as this segment has changed them.
Continue(t, s, k, ts) ==
  LET n == k.notifier
      open == IF Mounted(n) THEN Reviewable(s[n], k) ELSE {}
      ply == NextPly(open, k)
      taken == [k EXCEPT !.pc = "before", !.game = s[n].game, !.ply = ply,
                         !.answer = Nothing, !.answer2 = Nothing,
                         !.left = {q \in @ : Rank(k, q) > Rank(k, ply)}]
  IN  IF open = {}
      THEN /\ task' = [task EXCEPT ![t] = [IdleTask EXCEPT !.pc = "done", !.notifier = n]]
           /\ state' = IF Mounted(n) THEN [s EXCEPT ![n] = Finished(@)] ELSE s
           /\ timers' = ts
      ELSE /\ task' = [task EXCEPT ![t] = taken]
           /\ state' = s
           /\ timers' = Append(ts, AnswerTimer(Request(taken, TRUE)))

\* The task that the next call of _startAnalysis becomes.
NextTask(t) == task[t].pc = "idle" /\ \A u \in Tasks : u < t => task[u].pc # "idle"

\* _startAnalysis up to its first await, called on state s of notifier n.
StartAnalysis(t, n, s) ==
  /\ NextTask(t)
  /\ state' = [state EXCEPT ![n] = Analyzing(s)]
  /\ task' = [task EXCEPT ![t] = [IdleTask EXCEPT !.pc = "starting", !.notifier = n]]
  /\ timers' = Append(timers, StartTimer(t))

\* Microtasks run before the next timer, tap or frame.
Quiet == \A t \in Tasks : task[t].pc \notin {"gotBefore", "gotAfter"}

-----------------------------------------------------------------------------
(* Screens and taps *)

DefaultSettings == [depth |-> 18, autoAnalyze |-> TRUE]

\* A ReviewScreen is pushed and its first frame calls loadGame.  The provider
\* makes a new notifier only if none is alive.
OpenReview(g, at) ==
  LET n == IF screens = 0 THEN current + 1 ELSE current
  IN  /\ Quiet
      /\ screens < MaxScreens
      /\ n \in Notifiers
      /\ current' = n
      /\ screens' = screens + 1
      /\ button' = (screens > 0 /\ button)
      /\ IF settings.autoAnalyze
         THEN \E t \in Tasks : StartAnalysis(t, n, Loaded(state[n], g, at))
         ELSE /\ state' = [state EXCEPT ![n] = Loaded(@, g, at)]
              /\ UNCHANGED <<task, timers>>
      /\ UNCHANGED <<settings, saved>>

\* From the history or from pasted text, at the start.
OpenGame == \E g \in Games : OpenReview(g, 0)

\* From BRILLIANT REPLAYS, at the saved ply, taken over unchecked.
OpenReplay == \E i \in DOMAIN saved : OpenReview(saved[i].game, saved[i].ply)

\* A game without PGN text: loadGame reports the error and returns.
OpenEmpty ==
  LET n == IF screens = 0 THEN current + 1 ELSE current
  IN  /\ Quiet
      /\ screens < MaxScreens
      /\ n \in Notifiers
      /\ current' = n
      /\ screens' = screens + 1
      /\ button' = (screens > 0 /\ button)
      /\ state' = [state EXCEPT ![n].error = TRUE]
      /\ UNCHANGED <<task, timers, settings, saved>>

\* Popping the last screen disposes the notifier; engine.stop() does nothing.
CloseReview ==
  /\ Quiet
  /\ screens > 0
  /\ screens' = screens - 1
  /\ UNCHANGED <<state, current, button, task, timers, settings, saved>>

\* Mutant: the button is never disabled.
RunDeepAnalysisAnytime ==
  /\ Quiet
  /\ screens > 0
  /\ state[current].game.boards > 0
  /\ \E t \in Tasks : StartAnalysis(t, current, state[current])
  /\ UNCHANGED <<current, screens, button, settings, saved>>

\* RUN DEEP ANALYSIS, enabled as of the last frame; startAnalysis has no guard.
RunDeepAnalysis ==
  /\ Quiet
  /\ screens > 0
  /\ button
  /\ state[current].game.boards > 0
  /\ PromptFrames => ~state[current].isAnalyzing
  /\ \E t \in Tasks : StartAnalysis(t, current, state[current])
  /\ UNCHANGED <<current, screens, button, settings, saved>>

Frame ==
  /\ Quiet
  /\ screens > 0
  /\ button' = LET s == state[current]
               IN  s.game.boards > 0 /\ ~s.error /\ ~s.isAnalyzing
  /\ button' # button
  /\ UNCHANGED <<state, current, screens, task, timers, settings, saved>>

\* goToStart, goToEnd, goBack, goForward and goToPly all call _setCurrentPly.
Navigate ==
  /\ Quiet
  /\ screens > 0
  /\ LET s == state[current]
     IN  /\ s.game.boards > 0
         /\ ~s.error
         /\ \E ply \in -1..Len(s.game.moves) :
              state' = [state EXCEPT ![current] = AtPly(s, ply)]
  /\ UNCHANGED <<current, screens, button, task, timers, settings, saved>>

DismissBrilliantAlert ==
  /\ Quiet
  /\ screens > 0
  /\ state[current].alert
  /\ state' = [state EXCEPT ![current] = [@ EXCEPT !.alert = FALSE, !.error = FALSE]]
  /\ UNCHANGED <<current, screens, button, task, timers, settings, saved>>

\* toggleAutoAnalyze and updateEngineProfile, which no screen of this version
\* calls: a depth other than the default was stored by another one.  Settings lie
\* below every review, so no review is open.
ChangeSettings ==
  /\ Quiet
  /\ screens = 0
  /\ \E d \in Depths, a \in BOOLEAN : settings' = [depth |-> d, autoAnalyze |-> a]
  /\ settings' # settings
  /\ UNCHANGED <<state, current, screens, button, task, timers, saved>>

\* CLEAR ALL: every preference falls back to its default.
ClearAll ==
  /\ Quiet
  /\ screens = 0
  /\ settings' = DefaultSettings
  /\ saved' = <<>>
  /\ <<settings', saved'>> # <<settings, saved>>
  /\ UNCHANGED <<state, current, screens, button, task, timers>>

-----------------------------------------------------------------------------
(* The segments of the tasks *)

\* The 50 ms of engine.start() are over: read the settings, take a copy of the
\* list, order the plies and enter the loop.
EngineStarted(i) ==
  LET t == timers[i].task
      n == task[t].notifier
      s == state[n]
      k == [task[t] EXCEPT !.depth = settings.depth, !.total = Len(s.game.moves),
                           !.from = s.ply, !.list = s.list]
      ts == Drop(timers, i)
  IN  /\ Quiet
      /\ t # 0
      /\ Due(i)
      /\ IF k.total = 0
         THEN /\ state' = [state EXCEPT ![n] = Finished(@)]
              /\ task' = [task EXCEPT ![t] = [IdleTask EXCEPT !.pc = "done", !.notifier = n]]
              /\ timers' = ts
         ELSE Continue(t, state, [k EXCEPT !.left = OrderedPlies(k)], ts)
      /\ UNCHANGED <<current, screens, button, settings, saved>>

Awaits(k, r) ==
  \/ k.pc = "before" /\ SameId(r, Request(k, TRUE))
  \/ k.pc = "after" /\ SameId(r, Request(k, FALSE))

\* The task k resumed with answer r; Nothing stands for the TimeoutException.
Resumed(k, r) ==
  IF k.pc = "before" THEN [k EXCEPT !.pc = "gotBefore", !.answer = r]
                     ELSE [k EXCEPT !.pc = "gotAfter", !.answer2 = r]

\* The broadcast stream delivers an answer to every task that awaits its id.
EngineAnswers(i) ==
  LET r == timers[i].request
  IN  /\ Quiet
      /\ timers[i].task = 0
      /\ SlowEngine \/ Due(i)
      /\ task' = [t \in Tasks |-> IF Awaits(task[t], r) THEN Resumed(task[t], r)
                                   ELSE task[t]]
      /\ timers' = Drop(timers, i)
      /\ UNCHANGED <<state, current, screens, button, settings, saved>>

\* Mutant: the second await has no timeout.
FirstAwaitTimesOut(t) ==
  /\ Quiet
  /\ SlowEngine
  /\ task[t].pc = "before"
  /\ task' = [task EXCEPT ![t] = Resumed(@, Nothing)]
  /\ UNCHANGED <<state, current, screens, button, timers, settings, saved>>

\* The 15 s and 10 s timeouts outlast the stub engine, not a slow one.
AnswerTimesOut(t) ==
  /\ Quiet
  /\ SlowEngine
  /\ task[t].pc \in {"before", "after"}
  /\ task' = [task EXCEPT ![t] = Resumed(@, Nothing)]
  /\ UNCHANGED <<state, current, screens, button, timers, settings, saved>>

\* Between the two awaits; mounted is not looked at.
AskAfter(t) ==
  LET k == task[t]
  IN  /\ k.pc = "gotBefore"
      /\ task' = [task EXCEPT ![t].pc = "after"]
      /\ timers' = Append(timers, AnswerTimer(Request(k, FALSE)))
      /\ UNCHANGED <<state, current, screens, button, settings, saved>>

\* Mutant: the list shown holds only the rating that just came in.
RatedAlone(s, k, q) ==
  [s EXCEPT !.list = [p \in DOMAIN k.list |-> IF p = k.ply THEN q ELSE Unrated],
            !.progress = <<k.analyzed, k.total>>,
            !.alert = s.alert \/ (s.ply = k.ply /\ q = "brilliant")]

\* Mutant: the bar is not moved by a rating.
RatedKeepingBar(s, k, q) ==
  [s EXCEPT !.list = k.list,
            !.white = FromClassifications(k.list, TRUE),
            !.black = FromClassifications(k.list, FALSE),
            !.alert = s.alert \/ (s.ply = k.ply /\ q = "brilliant"),
            !.error = FALSE]

\* Mutant: a ply without an answer is not shown as rated.
RatedIfAnswered(s, k, q) ==
  IF k.answer = Nothing THEN s
  ELSE [s EXCEPT !.list = k.list, !.progress = <<k.analyzed, k.total>>,
                 !.white = FromClassifications(k.list, TRUE),
                 !.black = FromClassifications(k.list, FALSE),
                 !.alert = s.alert \/ (s.ply = k.ply /\ q = "brilliant"),
                 !.error = FALSE]

\* What a mounted notifier shows once task k has rated its ply as q.
Rated(s, k, q) ==
  [s EXCEPT !.list = k.list, !.progress = <<k.analyzed, k.total>>,
            !.white = FromClassifications(k.list, TRUE),
            !.black = FromClassifications(k.list, FALSE),
            !.alert = s.alert \/ (s.ply = k.ply /\ q = "brilliant"),
            !.error = FALSE]

\* From the second answer to the next request.  A list that is shorter than
\* the ply ends the task with a RangeError, which nobody catches.
RatePly(t) ==
  LET k == task[t]
      n == k.notifier
      q == Verdict(k)
      rated == [k EXCEPT !.list[k.ply] = q, !.analyzed = @ + 1]
  IN  /\ k.pc = "gotAfter"
      /\ IF q = "brilliant" THEN Save(state[n].game, k.ply) ELSE saved' = saved
      /\ IF k.ply > Len(k.list)
         THEN /\ task' = [task EXCEPT ![t] = [IdleTask EXCEPT !.pc = "failed", !.notifier = n]]
              /\ UNCHANGED <<state, timers>>
         ELSE Continue(t, IF Mounted(n) THEN [state EXCEPT ![n] = Rated(@, rated, q)] ELSE state,
                       rated, timers)
      /\ UNCHANGED <<current, screens, button, settings>>

-----------------------------------------------------------------------------
Init ==
  /\ state = [n \in Notifiers |-> FreshState]
  /\ current = 0
  /\ screens = 0
  /\ button = FALSE
  /\ task = [t \in Tasks |-> IdleTask]
  /\ timers = <<>>
  /\ settings = DefaultSettings
  /\ saved = <<>>

Tap ==
  \/ OpenGame \/ OpenReplay \/ OpenEmpty \/ CloseReview \/ RunDeepAnalysis
  \/ Navigate \/ DismissBrilliantAlert \/ ChangeSettings \/ ClearAll

Started == \E i \in DOMAIN timers : EngineStarted(i)
Answered == \E i \in DOMAIN timers : EngineAnswers(i)
Resumes(t) == AskAfter(t) \/ RatePly(t)

Next ==
  \/ Tap
  \/ Frame
  \/ Started
  \/ Answered
  \/ \E t \in Tasks : Resumes(t) \/ AnswerTimesOut(t)

Spec == Init /\ [][Next]_vars

\* Dart timers and microtasks are always served; taps and frames need not come.
\* A slow engine may stay silent, then the timeouts are what fires.
Fairness ==
  /\ WF_vars(Started)
  /\ (~SlowEngine => WF_vars(Answered))
  /\ \A t \in Tasks : WF_vars(Resumes(t)) /\ WF_vars(AnswerTimesOut(t))

FairSpec == Spec /\ Fairness

-----------------------------------------------------------------------------
(* Type invariant *)

GameOrNone == Games \cup {NoGame}
Ratings == Seq(Quality \cup {Unrated})
Totals == [Quality \ {"forced"} -> Nat]
Requests == [before : BOOLEAN, game : GameOrNone, ply : Nat, depth : Nat]

Timers == [task : 0..MaxTasks, request : Requests, delay : Nat]
GameIds == {g.id : g \in GameOrNone}
SavedGames == [id : GameIds, game : GameOrNone, ply : Nat]

ReviewStates ==
  [game : GameOrNone, ply : Nat, list : Ratings, isAnalyzing : BOOLEAN,
   progress : Nat \X Nat, alert : BOOLEAN, white : Totals, black : Totals,
   error : BOOLEAN]

TaskStates ==
  [pc : {"idle", "starting", "before", "gotBefore", "after", "gotAfter", "done", "failed"},
   notifier : 0..MaxNotifiers, depth : Nat, total : Nat, from : Nat,
   left : SUBSET Nat, list : Ratings, analyzed : Nat, game : GameOrNone,
   ply : Nat, answer : Requests, answer2 : Requests]

\* The variables keep the types the Dart declarations give them.
TypeOK ==
  /\ state \in [Notifiers -> ReviewStates]
  /\ current \in 0..MaxNotifiers
  /\ screens \in 0..MaxScreens
  /\ button \in BOOLEAN
  /\ task \in [Tasks -> TaskStates]
  /\ timers \in Seq(Timers)
  /\ settings \in [depth : Nat, autoAnalyze : BOOLEAN]
  /\ saved \in Seq(SavedGames)

-----------------------------------------------------------------------------
(* Properties *)

OnScreen(P(_)) == screens > 0 => P(state[current])

Closed(n) == n < current \/ (n = current /\ screens = 0)

Running(t) == task[t].pc \notin {"idle", "done", "failed"}

\* When the spinner is gone and the bar is full, every position that the board
\* can show has its rating: the window of four plies, the rest, and a restart
\* from any ply together leave none out (review_notifier.dart:236-248, 368).
DoneMeansComplete ==
  OnScreen(LAMBDA s : (s.progress = One /\ ~s.isAnalyzing) =>
             \A p \in 1..(s.game.boards - 1) : ClassificationAt(s, p) # Unrated)

\* The answer a task goes on with was computed for the position it asked about
\* (review_notifier.dart:270 "Request engine analysis for position before move").
AnswerIsForPosition ==
  \A t \in Tasks : \A r \in {task[t].answer, task[t].answer2} :
    r # Nothing => r.game = task[t].game /\ r.ply = task[t].ply

\* The brilliant alert is up only while the move on the board is rated
\* brilliant, through navigation, late ratings and repeated analyses
\* (review_notifier.dart:192, 206, 362).
AlertMeansBrilliant ==
  OnScreen(LAMBDA s : s.alert => ClassificationAt(s, s.ply) = "brilliant")

\* The statistics panel counts every rated ply once and for the colour that moved:
\* the odd plies are White's (move_classifier.dart:82 takes the parity of an index that
\* begins with 0).
TotalsCoverRatings ==
  OnScreen(LAMBDA s :
    \A q \in Quality \ {"forced"} :
      /\ s.white[q] = Cardinality({p \in DOMAIN s.list : p % 2 = 1 /\ s.list[p] = q})
      /\ s.black[q] = Cardinality({p \in DOMAIN s.list : p % 2 = 0 /\ s.list[p] = q}))

\* The spinner turns exactly while some run works for the review on screen.
SpinnerTracksWork ==
  OnScreen(LAMBDA s : s.isAnalyzing <=>
             \E t \in Tasks : Running(t) /\ task[t].notifier = current)

\* What the screen shows of an analysis (alert, statistics, spinner) is true of it at every
\* moment, through navigation, late ratings and repeated analyses.
IndicatorsTrue == AlertMeansBrilliant /\ TotalsCoverRatings /\ SpinnerTracksWork

\* A replay opens on a ply its own game has a board for, and that ply is one the
\* detection can call brilliant (review_notifier.dart:339, review_screen.dart:44).
ReplayOpensOnSacrifice ==
  \A i \in DOMAIN saved :
    /\ saved[i].ply \in 1..(saved[i].game.boards - 1)
    /\ IsSacrifice(saved[i].game, saved[i].ply)

\* The ply shown always has a board, wherever the review was opened from.
PlyHasBoard == OnScreen(LAMBDA s : s.game = NoGame \/ s.ply < s.game.boards)

\* The runs of one review never have two positions with the engine at once, so
\* an answer can only be the one the waiting run has asked for.
OneRequestAtATime == Len(timers) <= 1

\* A run whose review was closed finishes the ply it is at and takes no other
\* (review_notifier.dart:251 "if (!mounted) break").
ClosedRunsTakeNoPly ==
  [][\A t \in Tasks :
       (Running(t) /\ Closed(task[t].notifier) /\ task[t].pc # "before")
          => task'[t].pc # "before"]_vars

\* What a closed review had rated is never written again.
ClosedReviewsKeepRatings ==
  [][\A n \in Notifiers :
       (Closed(n) /\ current' = current)
          => state'[n].list = state[n].list /\ state'[n].ply = state[n].ply]_vars

\* Runs that outlive their review leave it alone (review_notifier.dart:251).
ClosedReviewsLeftAlone == ClosedRunsTakeNoPly /\ ClosedReviewsKeepRatings

\* Every run of the analysis comes to its end.
EveryRunEnds == \A t \in Tasks : Running(t) ~> ~Running(t)

\* While the spinner of an open review turns, some run is at work for it: the loop over
\* the moves leads to "Analysis Complete" (FLOWCHARTS.md:146-152).
SpinnerMeansWork ==
  OnScreen(LAMBDA s : s.isAnalyzing =>
             \E t \in Tasks : Running(t) /\ task[t].notifier = current)

=============================================================================
