---------------------------- MODULE ReviewProofs ----------------------------
(***************************************************************************)
(* What TLAPS proves about the review analysis, for every set of games and *)
(* every bound. First the types, the stored replays and the ply on screen. *)
(* Then the work of an analysis while one screen shows the review and a    *)
(* frame comes between two taps: the spinner, the ratings and the totals   *)
(* are those of the work done, a full bar leaves out no ply, requests come *)
(* one at a time, the alert is true, and the review implements             *)
(* ReviewPromise.                                                          *)
(***************************************************************************)
EXTENDS MCReviewAnalysis, NumberLemmas, FiniteSetTheorems, TLAPS

-----------------------------------------------------------------------------
(* The helpers *)

\* The moves of a game, or of no game, are a sequence, with one board at most
\* per move and one for the start.
LEMMA GameTypes ==
  ASSUME NEW g \in GameOrNone
  PROVE  /\ g.moves \in Seq([isWhite : BOOLEAN, capture : BOOLEAN, book : BOOLEAN])
         /\ Len(g.moves) \in Nat
         /\ g.boards \in 0..(Len(g.moves) + 1)
         /\ g.id \in GameIds
<1>1. g.id \in GameIds
  BY DEF GameIds
<1>2. CASE g \in Games
  <2>1. Len(g.moves) \in Nat
    BY <1>2, GamesAssumption
  <2> QED BY <1>1, <1>2, <2>1, GamesAssumption
<1>3. CASE g = NoGame
  <2>1. g.moves = <<>> /\ g.boards = 0
    BY <1>3 DEF NoGame
  <2>2. <<>> \in Seq([isWhite : BOOLEAN, capture : BOOLEAN, book : BOOLEAN])
    OBVIOUS
  <2>3. Len(<<>>) = 0 /\ 0 \in 0..(0 + 1) /\ 0 \in Nat
    OBVIOUS
  <2> QED BY <1>1, <2>1, <2>2, <2>3, Zenon
<1> QED BY <1>2, <1>3 DEF GameOrNone

\* Taking one element out of a sequence leaves a sequence of its elements.
LEMMA DropType ==
  ASSUME NEW S, NEW ts \in Seq(S), NEW i \in DOMAIN ts
  PROVE  /\ Drop(ts, i) \in Seq(S)
         /\ \A j \in DOMAIN Drop(ts, i) : \E l \in DOMAIN ts : Drop(ts, i)[j] = ts[l]
<1> DEFINE n == Len(ts) - 1
<1>1. n \in Nat /\ DOMAIN ts = 1..(n + 1)
  OBVIOUS
<1>2. \A j \in 1..n : \E l \in 1..(n + 1) : Drop(ts, i)[j] = ts[l]
  <2> TAKE j \in 1..n
  <2>1. CASE j < i
    BY <2>1, <1>1 DEF Drop
  <2>2. CASE ~(j < i)
    BY <2>2, <1>1 DEF Drop
  <2> QED BY <2>1, <2>2
<1>3. Drop(ts, i) \in [1..n -> S]
  BY <1>1, <1>2 DEF Drop
<1> QED BY <1>1, <1>2, <1>3

\* Setting one more timer keeps the others.
LEMMA AppendType ==
  ASSUME NEW S, NEW ts \in Seq(S), NEW x \in S
  PROVE  /\ Append(ts, x) \in Seq(S)
         /\ \A i \in DOMAIN Append(ts, x) :
              Append(ts, x)[i] = x \/ (i \in DOMAIN ts /\ Append(ts, x)[i] = ts[i])
OBVIOUS

\* Setting one rating of a list leaves a list, and its other ratings.
LEMMA RatingType ==
  ASSUME NEW S, NEW l \in Seq(S), NEW i, NEW x \in S
  PROVE  /\ [l EXCEPT ![i] = x] \in Seq(S)
         /\ Len([l EXCEPT ![i] = x]) = Len(l)
<1> DEFINE n == Len(l)
           m == [l EXCEPT ![i] = x]
<1>1. n \in Nat /\ l \in [1..n -> S]
  OBVIOUS
<1>2. m \in [1..n -> S]
  BY <1>1
<1> HIDE DEF n, m
<1>3. m \in Seq(S) /\ Len(m) = n
  BY <1>1, <1>2
<1> QED BY <1>3 DEF m, n

\* The classifier never answers outside its enumeration.
LEMMA ClassifyType ==
  ASSUME NEW a, NEW b, NEW isBook, NEW sac, NEW lines, NEW played
  PROVE  Classify(a, b, isBook, sac, lines, played) \in Quality
BY DEF Classify, Quality

\* The totals are natural numbers: a list is finite.
LEMMA TotalsType ==
  ASSUME NEW list \in Ratings, NEW forWhite \in BOOLEAN
  PROVE  FromClassifications(list, forWhite) \in Totals
<1> SUFFICES ASSUME NEW q \in Quality \ {"forced"}
             PROVE  Cardinality({p \in DOMAIN list :
                      /\ list[p] # Unrated
                      /\ PlyIsWhite(p) = forWhite
                      /\ CountedAs(list[p]) = q}) \in Nat
  BY DEF FromClassifications, Totals
<1>1. IsFiniteSet(DOMAIN list)
  BY FS_Interval DEF Ratings
<1> QED BY <1>1, FS_Subset, FS_CardinalityType

\* Every set of plies that is not empty has one the loop takes next.
LEMMA NextPlyType ==
  ASSUME NEW S \in SUBSET Nat, S # {}, NEW k, k.total \in Nat
  PROVE  NextPly(S, k) \in S
<1> DEFINE R == {Rank(k, p) : p \in S}
<1>1. \A p \in S : Rank(k, p) \in Nat
  BY DEF Rank
<1>2. PICK x \in R : \A y \in R : x <= y
  <2> R \in SUBSET Nat /\ R # {}
    BY <1>1
  <2> QED BY LeastNumber
<1> QED BY <1>2 DEF NextPly

\* What a step makes of a review is a review.
LEMMA ReviewTypes ==
  ASSUME NEW s \in ReviewStates
  PROVE  /\ Analyzing(s) \in ReviewStates
         /\ Finished(s) \in ReviewStates
         /\ \A g \in GameOrNone, at \in Nat : Loaded(s, g, at) \in ReviewStates
         /\ s.game.boards > 0 => \A ply \in Int : AtPly(s, ply) \in ReviewStates
         /\ \A k \in TaskStates, q \in Quality : Rated(s, k, q) \in ReviewStates
<1>1. Analyzing(s) \in ReviewStates /\ Finished(s) \in ReviewStates
  BY DEF Analyzing, Finished, ReviewStates, Zero, One
<1>2. ASSUME NEW g \in GameOrNone, NEW at \in Nat
      PROVE  Loaded(s, g, at) \in ReviewStates
  <2>1. [p \in 1..Len(g.moves) |-> Unrated] \in Ratings
    BY GameTypes DEF Ratings
  <2> QED BY <2>1 DEF Loaded, ReviewStates
<1>3. ASSUME s.game.boards > 0, NEW ply \in Int
      PROVE  AtPly(s, ply) \in ReviewStates
  <2>1. s.game \in GameOrNone
    BY DEF ReviewStates
  <2>2. s.game.boards \in Nat
    BY <2>1, GameTypes
  <2>3. Clamp(ply, s) \in Nat
    BY <1>3, <2>2 DEF Clamp, Min2
  <2> QED BY <2>3 DEF AtPly, ReviewStates
<1>4. ASSUME NEW k \in TaskStates, NEW q \in Quality
      PROVE  Rated(s, k, q) \in ReviewStates
  <2>1. k.list \in Ratings /\ <<k.analyzed, k.total>> \in Nat \X Nat
    BY DEF TaskStates
  <2>2. FromClassifications(k.list, TRUE) \in Totals /\ FromClassifications(k.list, FALSE) \in Totals
    BY <2>1, TotalsType
  <2>3. (s.alert \/ (s.ply = k.ply /\ q = "brilliant")) \in BOOLEAN
    OBVIOUS
  <2> QED BY <2>1, <2>2, <2>3 DEF Rated, ReviewStates
<1> QED BY <1>1, <1>2, <1>3, <1>4

\* Requests and timers are what the engine's types say.
LEMMA TimerTypes ==
  /\ Nothing \in Requests
  /\ \A t \in Tasks : StartTimer(t) \in Timers
  /\ \A r \in Requests : AnswerTimer(r) \in Timers
  /\ \A k \in TaskStates, b \in BOOLEAN : Request(k, b) \in Requests
<1>1. Nothing \in Requests
  BY DEF Nothing, Requests, GameOrNone
<1>2. ASSUME NEW t \in Tasks PROVE StartTimer(t) \in Timers
  BY <1>1, BoundsAssumption DEF StartTimer, Timers, Tasks, StartDelay
<1>3. ASSUME NEW r \in Requests PROVE AnswerTimer(r) \in Timers
  <2>1. AnswerDelay(r.depth) \in Nat
    BY DEF Requests, AnswerDelay
  <2>2. 0 \in 0..MaxTasks
    BY BoundsAssumption
  <2> QED BY <2>1, <2>2 DEF AnswerTimer, Timers
<1>4. ASSUME NEW k \in TaskStates, NEW b \in BOOLEAN PROVE Request(k, b) \in Requests
  BY DEF TaskStates, Request, Requests
<1> QED BY <1>1, <1>2, <1>3, <1>4

\* A run that has not begun, has begun or is over is a run.
LEMMA EndedTypes ==
  /\ IdleTask \in TaskStates
  /\ \A n \in Notifiers : \A pc \in {"starting", "done", "failed"} :
       [IdleTask EXCEPT !.pc = pc, !.notifier = n] \in TaskStates
<1>1. IdleTask \in TaskStates
  <2>1. <<>> \in Ratings /\ {} \in SUBSET Nat /\ 0 \in Nat
    BY DEF Ratings
  <2>2. 0 \in 0..MaxNotifiers
    BY BoundsAssumption
  <2>3. NoGame \in GameOrNone
    BY DEF GameOrNone
  <2> QED BY <2>1, <2>2, <2>3, TimerTypes DEF IdleTask, TaskStates
<1>2. Notifiers \subseteq 0..MaxNotifiers
  BY BoundsAssumption DEF Notifiers
<1> QED BY <1>1, <1>2 DEF TaskStates

-----------------------------------------------------------------------------
(* Type correctness.  The types alone are not inductive: a run works on the *)
(* notifier it was called on, so it has to be known that it has one.       *)

\* Runs belong to notifiers that were created, start timers to runs that were
\* called, screens to a notifier.
WellBound ==
  /\ \A t \in Tasks : task[t].pc # "idle" => task[t].notifier \in 1..current
  /\ \A i \in DOMAIN timers : timers[i].task # 0 => task[timers[i].task].pc # "idle"
  /\ screens > 0 => current # 0

TypeInv == TypeOK /\ WellBound

\* The shared tail of EngineStarted and RatePly.
LEMMA ContinueTypes ==
  ASSUME TypeInv, NEW t \in Tasks, NEW s \in [Notifiers -> ReviewStates],
         NEW k \in TaskStates, k.notifier \in 1..current,
         NEW ts \in Seq(Timers),
         \A i \in DOMAIN ts : ts[i].task # 0 => task[ts[i].task].pc # "idle",
         Continue(t, s, k, ts), UNCHANGED <<current, screens, button, settings>>,
         saved' \in Seq(SavedGames)
  PROVE  TypeInv'
<1> DEFINE n == k.notifier
           open == IF Mounted(n) THEN Reviewable(s[n], k) ELSE {}
           ply == NextPly(open, k)
           taken == [k EXCEPT !.pc = "before", !.game = s[n].game, !.ply = ply,
                              !.answer = Nothing, !.answer2 = Nothing,
                              !.left = {q \in @ : Rank(k, q) > Rank(k, ply)}]
           ended == [IdleTask EXCEPT !.pc = "done", !.notifier = n]
<1>1. n \in Notifiers /\ s[n] \in ReviewStates
  BY BoundsAssumption DEF TypeInv, TypeOK, Notifiers
<1>2. state' \in [Notifiers -> ReviewStates]
  <2>1. Finished(s[n]) \in ReviewStates
    BY <1>1, ReviewTypes
  <2>2. state' = [s EXCEPT ![n] = Finished(@)] \/ state' = s
    BY DEF Continue
  <2> QED BY <1>1, <2>1, <2>2
<1>3. CASE open = {}
  <2>1. ended \in TaskStates
    BY <1>1, EndedTypes
  <2>2. task' = [task EXCEPT ![t] = ended] /\ timers' = ts
    BY <1>3 DEF Continue
  <2>3. TypeOK'
    BY <1>2, <2>1, <2>2 DEF TypeInv, TypeOK
  <2>4. ended.pc # "idle" /\ ended.notifier = n
    BY DEF IdleTask
  <2>5. WellBound'
    BY <2>2, <2>4 DEF TypeInv, TypeOK, WellBound
  <2> QED BY <2>3, <2>5 DEF TypeInv
<1>4. CASE open # {}
  <2>1. open \in SUBSET Nat /\ k.left \in SUBSET Nat
    BY DEF Reviewable, TaskStates
  <2>2. ply \in Nat
    BY <1>4, <2>1, NextPlyType DEF TaskStates
  <2>3. taken \in TaskStates
    BY <1>1, <2>1, <2>2, TimerTypes DEF TaskStates, ReviewStates
  <2>4. AnswerTimer(Request(taken, TRUE)) \in Timers
    BY <2>3, TimerTypes
  <2>5. /\ task' = [task EXCEPT ![t] = taken]
        /\ timers' = Append(ts, AnswerTimer(Request(taken, TRUE)))
    BY <1>4 DEF Continue
  <2>6. timers' \in Seq(Timers) /\ task' \in [Tasks -> TaskStates]
    <3> HIDE DEF taken
    <3>1. timers' \in Seq(Timers)
      BY <2>4, <2>5, AppendType
    <3> QED BY <2>3, <2>5, <3>1 DEF TypeInv, TypeOK
  <2>7. TypeOK'
    BY <1>2, <2>6 DEF TypeInv, TypeOK
  <2>8. taken.pc # "idle" /\ taken.notifier = n /\ AnswerTimer(Request(taken, TRUE)).task = 0
    BY DEF AnswerTimer, TaskStates
  <2> HIDE DEF taken
  <2>9. ASSUME NEW i \in DOMAIN timers', timers'[i].task # 0
        PROVE  \E j \in DOMAIN ts : timers'[i] = ts[j]
    <3> DEFINE timer == AnswerTimer(Request(taken, TRUE))
    <3>1. timer \in Timers /\ timers' = Append(ts, timer)
      BY <2>4, <2>5
    <3> HIDE DEF timer
    <3>2. timers'[i] = timer \/ (i \in DOMAIN ts /\ timers'[i] = ts[i])
      BY <2>9, <3>1, AppendType
    <3> USE DEF timer
    <3> QED BY <2>8, <2>9, <3>2
  <2>10. \A u \in Tasks : task[u].pc # "idle" => task'[u].pc # "idle"
    BY <2>5, <2>8 DEF TypeInv, TypeOK
  <2>11. \A u \in Tasks : task'[u].pc # "idle" => task'[u].notifier \in 1..current'
    BY <2>5, <2>8 DEF TypeInv, TypeOK, WellBound
  <2>12. \A j \in DOMAIN ts : ts[j] \in Timers
    OBVIOUS
  <2>13. \A j \in DOMAIN ts : ts[j].task # 0 => ts[j].task \in Tasks
    BY <2>12, BoundsAssumption DEF Timers, Tasks
  <2>14. WellBound'
    BY <2>9, <2>10, <2>11, <2>13 DEF TypeInv, WellBound
  <2> QED BY <2>7, <2>14 DEF TypeInv
<1> QED BY <1>3, <1>4

\* The call of _startAnalysis, from a screen that opens or from the button.
LEMMA StartTypes ==
  ASSUME TypeInv, NEW t \in Tasks, NEW n \in Notifiers, NEW s \in ReviewStates,
         StartAnalysis(t, n, s), UNCHANGED <<settings, saved>>,
         n = current', current \in {current', current' - 1},
         screens' \in 0..MaxScreens, button' \in BOOLEAN
  PROVE  TypeInv'
<1> DEFINE called == [IdleTask EXCEPT !.pc = "starting", !.notifier = n]
<1>1. /\ state' = [state EXCEPT ![n] = Analyzing(s)]
      /\ task' = [task EXCEPT ![t] = called]
      /\ timers' = Append(timers, StartTimer(t))
  BY DEF StartAnalysis
<1>2. called \in TaskStates /\ called.pc = "starting" /\ called.notifier = n
  BY EndedTypes DEF IdleTask
<1> HIDE DEF called
<1>3. Analyzing(s) \in ReviewStates /\ StartTimer(t) \in Timers /\ StartTimer(t).task = t
  BY ReviewTypes, TimerTypes DEF StartTimer
<1>4. current' \in 1..MaxNotifiers
  BY DEF Notifiers
<1>5. state' \in [Notifiers -> ReviewStates] /\ task' \in [Tasks -> TaskStates]
  BY <1>1, <1>2, <1>3 DEF TypeInv, TypeOK
<1>6. /\ timers' \in Seq(Timers)
      /\ \A i \in DOMAIN timers' :
           timers'[i] = StartTimer(t) \/ (i \in DOMAIN timers /\ timers'[i] = timers[i])
  BY <1>1, <1>3, AppendType DEF TypeInv, TypeOK
<1>7. TypeOK'
  BY <1>4, <1>5, <1>6 DEF TypeInv, TypeOK
<1>8. \A u \in Tasks : task'[u].pc # "idle" => task'[u].notifier \in 1..current'
  BY <1>1, <1>2, <1>4, BoundsAssumption DEF TypeInv, TypeOK, WellBound
<1>9. \A u \in Tasks : task[u].pc # "idle" => task'[u].pc # "idle"
  BY <1>1, <1>2 DEF TypeInv, TypeOK
<1>10. \A j \in DOMAIN timers : timers[j].task # 0 => timers[j].task \in Tasks
  <2>1. \A j \in DOMAIN timers : timers[j] \in Timers
    BY DEF TypeInv, TypeOK
  <2> QED BY <2>1, BoundsAssumption DEF Timers, Tasks
<1>11. task'[t].pc # "idle"
  BY <1>1, <1>2 DEF TypeInv, TypeOK
<1>12. \A i \in DOMAIN timers' : timers'[i].task # 0 => task'[timers'[i].task].pc # "idle"
  BY <1>3, <1>6, <1>9, <1>10, <1>11 DEF TypeInv, WellBound
<1>13. WellBound'
  BY <1>4, <1>8, <1>12 DEF WellBound
<1> QED BY <1>7, <1>13 DEF TypeInv

\* A screen that opens, with or without an analysis.
LEMMA OpenTypes ==
  ASSUME TypeInv, NEW g \in GameOrNone, NEW at \in Nat, OpenReview(g, at)
  PROVE  TypeInv'
<1> DEFINE n == IF screens = 0 THEN current + 1 ELSE current
<1>1. /\ n \in Notifiers /\ current' = n /\ screens' = screens + 1 /\ screens < MaxScreens
      /\ button' = (screens > 0 /\ button) /\ UNCHANGED <<settings, saved>>
  BY DEF OpenReview
<1>2. current \in {n, n - 1} /\ n \in 1..MaxNotifiers /\ screens' \in 0..MaxScreens
  BY <1>1, BoundsAssumption DEF TypeInv, TypeOK, Notifiers
<1>3. button' \in BOOLEAN
  BY <1>1, Zenon
<1>4. Loaded(state[n], g, at) \in ReviewStates
  BY <1>1, ReviewTypes DEF TypeInv, TypeOK
<1>5. CASE settings.autoAnalyze
  <2>1. PICK t \in Tasks : StartAnalysis(t, n, Loaded(state[n], g, at))
    BY <1>5 DEF OpenReview
  <2> HIDE DEF n
  <2> QED BY <1>1, <1>2, <1>3, <1>4, <2>1, StartTypes
<1>6. CASE ~settings.autoAnalyze
  <2>1. state' = [state EXCEPT ![n] = Loaded(@, g, at)] /\ UNCHANGED <<task, timers>>
    BY <1>6 DEF OpenReview
  <2> HIDE DEF n
  <2>2. TypeOK'
    BY <1>1, <1>2, <1>3, <1>4, <2>1 DEF TypeInv, TypeOK
  <2>3. \A u \in Tasks : task[u].pc # "idle" => task[u].notifier \in 1..current'
    BY <1>1, <1>2 DEF TypeInv, TypeOK, WellBound
  <2>4. WellBound'
    BY <1>1, <1>2, <2>1, <2>3 DEF TypeInv, WellBound
  <2> QED BY <2>2, <2>4 DEF TypeInv
<1> QED BY <1>5, <1>6

\* Deleting a timer that fired keeps the others.
LEMMA FiredTypes ==
  ASSUME TypeInv, NEW i \in DOMAIN timers
  PROVE  /\ timers[i] \in Timers
         /\ timers[i].task # 0 => timers[i].task \in Tasks /\ task[timers[i].task].pc # "idle"
         /\ Drop(timers, i) \in Seq(Timers)
         /\ \A j \in DOMAIN Drop(timers, i) :
              Drop(timers, i)[j].task # 0 => task[Drop(timers, i)[j].task].pc # "idle"
<1>1. timers \in Seq(Timers)
  BY DEF TypeInv, TypeOK
<1>2. timers[i] \in Timers
  BY <1>1
<1>3. timers[i].task # 0 => timers[i].task \in Tasks
  BY <1>2, BoundsAssumption DEF Timers, Tasks
<1>4. \A j \in DOMAIN timers : timers[j].task # 0 => task[timers[j].task].pc # "idle"
  BY DEF TypeInv, WellBound
<1>5. \A j \in DOMAIN Drop(timers, i) : \E l \in DOMAIN timers : Drop(timers, i)[j] = timers[l]
  BY <1>1, DropType
<1>6. Drop(timers, i) \in Seq(Timers)
  BY <1>1, DropType
<1> QED BY <1>2, <1>3, <1>4, <1>5, <1>6

\* The engine has started: the run takes its plies and enters the loop.
LEMMA EngineStartedTypes ==
  ASSUME TypeInv, NEW i \in DOMAIN timers, EngineStarted(i)
  PROVE  TypeInv'
<1> DEFINE t == timers[i].task
           n == task[t].notifier
           s == state[n]
           k == [task[t] EXCEPT !.depth = settings.depth, !.total = Len(s.game.moves),
                                !.from = s.ply, !.list = s.list]
           ended == [IdleTask EXCEPT !.pc = "done", !.notifier = n]
           ts == Drop(timers, i)
<1>1. t \in Tasks /\ task[t].pc # "idle"
  BY FiredTypes DEF EngineStarted
<1>2. n \in 1..current /\ n \in Notifiers
  BY <1>1, BoundsAssumption DEF TypeInv, TypeOK, WellBound, Notifiers
<1>3. s \in ReviewStates
  BY <1>2 DEF TypeInv, TypeOK
<1>4. Len(s.game.moves) \in Nat
  BY <1>3, GameTypes DEF ReviewStates
<1>5. task[t] \in TaskStates /\ settings.depth \in Nat
  BY <1>1 DEF TypeInv, TypeOK
<1>6. k \in TaskStates /\ k.notifier = n
  BY <1>3, <1>4, <1>5 DEF TaskStates, ReviewStates
<1>7. /\ ts \in Seq(Timers)
      /\ \A j \in DOMAIN ts : ts[j].task # 0 => task[ts[j].task].pc # "idle"
  BY FiredTypes
<1>8. UNCHANGED <<current, screens, button, settings, saved>>
  BY DEF EngineStarted
<1>9. saved' \in Seq(SavedGames)
  BY <1>8 DEF TypeInv, TypeOK
<1>10. CASE k.total = 0
  <2>1. /\ state' = [state EXCEPT ![n] = Finished(@)]
        /\ task' = [task EXCEPT ![t] = ended]
        /\ timers' = ts
    BY <1>10 DEF EngineStarted
  <2>2. ended \in TaskStates /\ ended.pc = "done" /\ ended.notifier = n
    BY <1>2, EndedTypes DEF IdleTask
  <2>3. Finished(state[n]) \in ReviewStates
    BY <1>3, ReviewTypes
  <2> HIDE DEF ended, k, ts, s, t, n
  <2>4. TypeOK'
    BY <1>7, <1>8, <2>1, <2>2, <2>3 DEF TypeInv, TypeOK
  <2>5. \A u \in Tasks : task'[u].pc # "idle" => task'[u].notifier \in 1..current'
    BY <1>2, <1>8, <2>1, <2>2 DEF TypeInv, TypeOK, WellBound
  <2>6. \A u \in Tasks : task[u].pc # "idle" => task'[u].pc # "idle"
    BY <2>1, <2>2 DEF TypeInv, TypeOK
  <2>7. \A j \in DOMAIN ts : ts[j].task # 0 => ts[j].task \in Tasks
    <3>1. \A j \in DOMAIN ts : ts[j] \in Timers
      BY <1>7
    <3> QED BY <3>1, BoundsAssumption DEF Timers, Tasks
  <2>8. WellBound'
    BY <1>7, <1>8, <2>1, <2>5, <2>6, <2>7 DEF TypeInv, WellBound
  <2> QED BY <2>4, <2>8 DEF TypeInv
<1>11. CASE k.total # 0
  <2> DEFINE looping == [k EXCEPT !.left = OrderedPlies(k)]
  <2>1. Continue(t, state, looping, ts)
    BY <1>11 DEF EngineStarted
  <2>2. OrderedPlies(k) \in SUBSET Nat
    <3>1. k.from \in Nat /\ k.total \in Nat
      BY <1>6 DEF TaskStates
    <3> HIDE DEF k
    <3> QED BY <3>1 DEF OrderedPlies, Window, Min2
  <2>3. looping \in TaskStates /\ looping.notifier = n
    <3> HIDE DEF k
    <3> QED BY <1>6, <2>2 DEF TaskStates
  <2>4. state \in [Notifiers -> ReviewStates]
    BY DEF TypeInv, TypeOK
  <2> HIDE DEF looping, k, ts, s, t, n
  <2> QED BY <1>1, <1>2, <1>7, <1>8, <1>9, <2>1, <2>3, <2>4, ContinueTypes
<1> QED BY <1>10, <1>11

\* A task that only moves on keeps the types.
LEMMA MovedOnTypes ==
  ASSUME TypeInv, task' \in [Tasks -> TaskStates],
         \A u \in Tasks : /\ task[u].pc # "idle" <=> task'[u].pc # "idle"
                          /\ task'[u].notifier = task[u].notifier,
         timers' \in Seq(Timers),
         \A j \in DOMAIN timers' :
           timers'[j].task # 0 => task[timers'[j].task].pc # "idle",
         UNCHANGED <<state, current, screens, button, settings, saved>>
  PROVE  TypeInv'
<1>1. TypeOK'
  BY DEF TypeInv, TypeOK
<1>2. \A j \in DOMAIN timers' : timers'[j].task # 0 => timers'[j].task \in Tasks
  <2>1. \A j \in DOMAIN timers' : timers'[j] \in Timers
    OBVIOUS
  <2> QED BY <2>1, BoundsAssumption DEF Timers, Tasks
<1>3. WellBound'
  BY <1>2 DEF TypeInv, WellBound
<1> QED BY <1>1, <1>3 DEF TypeInv

\* A run that waits goes on with a request's answer.
LEMMA ResumedTypes ==
  ASSUME NEW k \in TaskStates, NEW r \in Requests, k.pc \in {"before", "after"}
  PROVE  /\ Resumed(k, r) \in TaskStates
         /\ Resumed(k, r).pc # "idle"
         /\ Resumed(k, r).notifier = k.notifier
BY DEF Resumed, TaskStates

\* An answer reaches every run that listens for its id.
LEMMA EngineAnswersTypes ==
  ASSUME TypeInv, NEW i \in DOMAIN timers, EngineAnswers(i)
  PROVE  TypeInv'
<1> DEFINE r == timers[i].request
<1>1. /\ task' = [t \in Tasks |-> IF Awaits(task[t], r) THEN Resumed(task[t], r) ELSE task[t]]
      /\ timers' = Drop(timers, i)
      /\ UNCHANGED <<state, current, screens, button, settings, saved>>
  BY DEF EngineAnswers
<1>2. timers[i] \in Timers
  BY FiredTypes
<1>3. r \in Requests
  BY <1>2 DEF Timers
<1> HIDE DEF r
<1>4. ASSUME NEW u \in Tasks
      PROVE  /\ task'[u] \in TaskStates
             /\ task[u].pc # "idle" <=> task'[u].pc # "idle"
             /\ task'[u].notifier = task[u].notifier
  <2>1. task[u] \in TaskStates
    BY DEF TypeInv, TypeOK
  <2>2. CASE Awaits(task[u], r)
    <3>1. task[u].pc \in {"before", "after"}
      BY <2>2 DEF Awaits
    <3>2. task'[u] = Resumed(task[u], r)
      BY <1>1, <2>2
    <3> QED BY <1>3, <2>1, <3>1, <3>2, ResumedTypes
  <2>3. CASE ~Awaits(task[u], r)
    BY <1>1, <2>1, <2>3
  <2> QED BY <2>2, <2>3
<1>5. task' \in [Tasks -> TaskStates]
  BY <1>1, <1>4
<1> QED BY <1>1, <1>4, <1>5, FiredTypes, MovedOnTypes

\* A timeout resumes the run without an answer.
LEMMA AnswerTimesOutTypes ==
  ASSUME TypeInv, NEW t \in Tasks, AnswerTimesOut(t)
  PROVE  TypeInv'
<1>1. /\ task[t].pc \in {"before", "after"}
      /\ task' = [task EXCEPT ![t] = Resumed(task[t], Nothing)]
      /\ UNCHANGED <<state, current, screens, button, timers, settings, saved>>
  BY DEF AnswerTimesOut
<1>2. task[t] \in TaskStates
  BY DEF TypeInv, TypeOK
<1>3. /\ Resumed(task[t], Nothing) \in TaskStates
      /\ Resumed(task[t], Nothing).pc # "idle"
      /\ Resumed(task[t], Nothing).notifier = task[t].notifier
  BY <1>1, <1>2, TimerTypes, ResumedTypes
<1>4. task' \in [Tasks -> TaskStates]
  BY <1>1, <1>3 DEF TypeInv, TypeOK
<1>5. \A u \in Tasks : /\ task[u].pc # "idle" <=> task'[u].pc # "idle"
                       /\ task'[u].notifier = task[u].notifier
  BY <1>1, <1>3 DEF TypeInv, TypeOK
<1>6. /\ timers' \in Seq(Timers)
      /\ \A j \in DOMAIN timers' :
           timers'[j].task # 0 => task[timers'[j].task].pc # "idle"
  BY <1>1 DEF TypeInv, TypeOK, WellBound
<1> QED BY <1>1, <1>4, <1>5, <1>6, MovedOnTypes

\* Between the two awaits the run asks for the position after the move.
LEMMA AskAfterTypes ==
  ASSUME TypeInv, NEW t \in Tasks, AskAfter(t)
  PROVE  TypeInv'
<1> DEFINE timer == AnswerTimer(Request(task[t], FALSE))
<1>1. /\ task[t].pc = "gotBefore"
      /\ task' = [task EXCEPT ![t].pc = "after"]
      /\ timers' = Append(timers, timer)
      /\ UNCHANGED <<state, current, screens, button, settings, saved>>
  BY DEF AskAfter
<1>2. task[t] \in TaskStates /\ timers \in Seq(Timers)
  BY DEF TypeInv, TypeOK
<1>3. timer \in Timers /\ timer.task = 0
  BY <1>2, TimerTypes DEF AnswerTimer
<1> HIDE DEF timer
<1>4. task' \in [Tasks -> TaskStates]
  BY <1>1, <1>2 DEF TypeInv, TypeOK, TaskStates
<1>5. \A u \in Tasks : /\ task[u].pc # "idle" <=> task'[u].pc # "idle"
                       /\ task'[u].notifier = task[u].notifier
  BY <1>1, <1>2 DEF TypeInv, TypeOK, TaskStates
<1>6. /\ timers' \in Seq(Timers)
      /\ \A j \in DOMAIN timers' :
           timers'[j] = timer \/ (j \in DOMAIN timers /\ timers'[j] = timers[j])
  BY <1>1, <1>2, <1>3, AppendType
<1>7. \A j \in DOMAIN timers' :
        timers'[j].task # 0 => task[timers'[j].task].pc # "idle"
  BY <1>3, <1>6 DEF TypeInv, WellBound
<1> QED BY <1>1, <1>4, <1>5, <1>6, <1>7, MovedOnTypes

\* What is stored for a brilliant move is an entry.
LEMMA SaveTypes ==
  ASSUME saved \in Seq(SavedGames), NEW g \in GameOrNone, NEW ply \in Nat, Save(g, ply)
  PROVE  saved' \in Seq(SavedGames)
<1> DEFINE e == [id |-> g.id, game |-> g, ply |-> ply]
<1>1. e \in SavedGames
  BY DEF SavedGames, GameIds
<1>2. saved' = saved \/ saved' = Append(saved, e)
  BY DEF Save
<1> HIDE DEF e
<1> QED BY <1>1, <1>2, AppendType

\* A ply gets its rating; the run ends or asks about the next ply.
LEMMA RatePlyTypes ==
  ASSUME TypeInv, NEW t \in Tasks, RatePly(t)
  PROVE  TypeInv'
<1> DEFINE k == task[t]
           n == k.notifier
           q == Verdict(k)
           rated == [k EXCEPT !.list[k.ply] = q, !.analyzed = @ + 1]
           failed == [IdleTask EXCEPT !.pc = "failed", !.notifier = n]
           shown == IF Mounted(n) THEN [state EXCEPT ![n] = Rated(@, rated, q)] ELSE state
<1>1. k \in TaskStates /\ k.pc = "gotAfter"
  BY DEF RatePly, TypeInv, TypeOK
<1>2. n \in 1..current /\ n \in Notifiers
  BY <1>1, BoundsAssumption DEF TypeInv, TypeOK, WellBound, Notifiers
<1>3. state[n] \in ReviewStates
  BY <1>2 DEF TypeInv, TypeOK
<1>4. q \in Quality
  BY ClassifyType DEF Verdict
<1>5. UNCHANGED <<current, screens, button, settings>>
  BY DEF RatePly
<1>6. saved' \in Seq(SavedGames)
  <2>1. saved \in Seq(SavedGames) /\ state[n].game \in GameOrNone /\ k.ply \in Nat
    BY <1>1, <1>3 DEF TypeInv, TypeOK, ReviewStates, TaskStates
  <2>2. Save(state[n].game, k.ply) \/ saved' = saved
    BY DEF RatePly
  <2> QED BY <2>1, <2>2, SaveTypes
<1>7. /\ timers \in Seq(Timers)
      /\ \A j \in DOMAIN timers : timers[j].task # 0 => task[timers[j].task].pc # "idle"
  BY DEF TypeInv, TypeOK, WellBound
<1>8. CASE k.ply > Len(k.list)
  <2>1. /\ task' = [task EXCEPT ![t] = failed]
        /\ UNCHANGED <<state, timers>>
    BY <1>8 DEF RatePly
  <2>2. failed \in TaskStates /\ failed.pc = "failed" /\ failed.notifier = n
    BY <1>2, EndedTypes DEF IdleTask
  <2> HIDE DEF failed
  <2>3. TypeOK'
    BY <1>5, <1>6, <2>1, <2>2 DEF TypeInv, TypeOK
  <2>4. \A j \in DOMAIN timers : timers[j].task # 0 => timers[j].task \in Tasks
    BY FiredTypes
  <2>5. \A u \in Tasks : /\ task[u].pc # "idle" <=> task'[u].pc # "idle"
                         /\ task'[u].notifier = task[u].notifier
    BY <1>1, <2>1, <2>2 DEF TypeInv, TypeOK
  <2>6. WellBound'
    BY <1>5, <2>1, <2>4, <2>5 DEF TypeInv, WellBound
  <2> QED BY <2>3, <2>6 DEF TypeInv
<1>9. CASE ~(k.ply > Len(k.list))
  <2>1. Continue(t, shown, rated, timers)
    BY <1>9 DEF RatePly
  <2>2. rated \in TaskStates /\ rated.notifier = n
    <3>1. k.list \in Ratings /\ k.analyzed + 1 \in Nat /\ q \in Quality \cup {Unrated}
      BY <1>1, <1>4 DEF TaskStates
    <3> HIDE DEF q
    <3>2. [k.list EXCEPT ![k.ply] = q] \in Ratings
      BY <3>1, RatingType DEF Ratings
    <3> QED BY <1>1, <3>1, <3>2 DEF TaskStates
  <2>3. Rated(state[n], rated, q) \in ReviewStates
    BY <1>3, <1>4, <2>2, ReviewTypes
  <2> HIDE DEF rated, q, k
  <2>4. shown \in [Notifiers -> ReviewStates]
    BY <2>3 DEF TypeInv, TypeOK
  <2> HIDE DEF shown, n
  <2> QED BY <1>2, <1>5, <1>6, <1>7, <2>1, <2>2, <2>4, ContinueTypes
<1> QED BY <1>8, <1>9

\* A step that touches neither runs nor timers, and creates no notifier.
LEMMA TapTypes ==
  ASSUME TypeInv, state' \in [Notifiers -> ReviewStates],
         UNCHANGED <<current, task, timers>>,
         screens' \in 0..screens, button' \in BOOLEAN,
         settings' \in [depth : Nat, autoAnalyze : BOOLEAN], saved' \in Seq(SavedGames)
  PROVE  TypeInv'
<1>1. TypeOK'
  BY BoundsAssumption DEF TypeInv, TypeOK
<1>2. WellBound'
  BY DEF TypeInv, TypeOK, WellBound
<1> QED BY <1>1, <1>2 DEF TypeInv

LEMMA InitTypes == Init => TypeInv
<1> SUFFICES ASSUME Init PROVE TypeInv
  OBVIOUS
<1>1. NoGame \in GameOrNone /\ <<>> \in Ratings /\ NoTotals \in Totals
  BY DEF GameOrNone, Ratings, NoTotals, Totals
<1>2. FreshState \in ReviewStates
  BY <1>1 DEF FreshState, ReviewStates, Zero
<1>3. TypeOK
  <2>1. state \in [Notifiers -> ReviewStates] /\ task \in [Tasks -> TaskStates]
    BY <1>2, EndedTypes DEF Init
  <2>2. current \in 0..MaxNotifiers /\ screens \in 0..MaxScreens /\ button \in BOOLEAN
    <3>1. current = 0 /\ screens = 0 /\ button = FALSE
      BY DEF Init
    <3>2. 0 \in 0..MaxNotifiers /\ 0 \in 0..MaxScreens
      BY BoundsAssumption
    <3> QED BY <3>1, <3>2
  <2>3. /\ timers \in Seq(Timers) /\ saved \in Seq(SavedGames)
        /\ settings \in [depth : Nat, autoAnalyze : BOOLEAN]
    BY DEF Init, DefaultSettings
  <2> QED BY <2>1, <2>2, <2>3 DEF TypeOK
<1>4. WellBound
  BY DEF Init, WellBound, IdleTask
<1> QED BY <1>3, <1>4 DEF TypeInv

LEMMA NextTypes ==
  ASSUME TypeInv, [Next]_vars
  PROVE  TypeInv'
<1> USE DEF TypeInv
<1>1. CASE OpenGame
  <2>1. PICK g \in Games : OpenReview(g, 0)
    BY <1>1 DEF OpenGame
  <2> QED BY <2>1, OpenTypes DEF GameOrNone
<1>2. CASE OpenReplay
  <2>1. PICK i \in DOMAIN saved : OpenReview(saved[i].game, saved[i].ply)
    BY <1>2 DEF OpenReplay
  <2>2. saved[i] \in SavedGames
    BY DEF TypeOK
  <2>3. saved[i].game \in GameOrNone /\ saved[i].ply \in Nat
    BY <2>2 DEF SavedGames
  <2> QED BY <2>1, <2>3, OpenTypes
<1>3. CASE OpenEmpty
  <2> DEFINE n == IF screens = 0 THEN current + 1 ELSE current
  <2>1. /\ n \in Notifiers /\ current' = n /\ screens' = screens + 1 /\ screens < MaxScreens
        /\ button' = (screens > 0 /\ button) /\ state' = [state EXCEPT ![n].error = TRUE]
        /\ UNCHANGED <<task, timers, settings, saved>>
    BY <1>3 DEF OpenEmpty
  <2>2. current <= n /\ n \in 1..MaxNotifiers /\ screens' \in 0..MaxScreens
    BY <2>1, BoundsAssumption DEF TypeOK, Notifiers
  <2>3. button' \in BOOLEAN
    BY <2>1, Zenon
  <2> HIDE DEF n
  <2>4. state' \in [Notifiers -> ReviewStates]
    BY <2>1 DEF TypeOK, ReviewStates
  <2>5. TypeOK'
    BY <2>1, <2>2, <2>3, <2>4 DEF TypeOK
  <2>6. \A t \in Tasks : task[t].pc # "idle" => task[t].notifier \in 1..current'
    BY <2>1, <2>2 DEF TypeOK, WellBound
  <2>7. WellBound'
    BY <2>1, <2>2, <2>6 DEF WellBound
  <2> QED BY <2>5, <2>7
<1>4. CASE CloseReview
  <2>1. screens' \in 0..screens
    BY <1>4 DEF CloseReview, TypeOK
  <2> QED BY <1>4, <2>1, TapTypes DEF CloseReview, TypeOK
<1>5. CASE RunDeepAnalysis
  <2>1. screens > 0 /\ UNCHANGED <<current, screens, button, settings, saved>>
    BY <1>5 DEF RunDeepAnalysis
  <2>2. PICK t \in Tasks : StartAnalysis(t, current, state[current])
    BY <1>5 DEF RunDeepAnalysis
  <2>3. current \in Notifiers
    BY <2>1 DEF TypeOK, WellBound, Notifiers
  <2>4. state[current] \in ReviewStates
    BY <2>3 DEF TypeOK
  <2>5. /\ current = current' /\ current \in {current', current' - 1}
        /\ screens' \in 0..MaxScreens /\ button' \in BOOLEAN
    BY <2>1 DEF TypeOK
  <2> QED BY <2>1, <2>2, <2>3, <2>4, <2>5, StartTypes
<1>6. CASE Navigate
  <2>1. screens > 0 /\ UNCHANGED <<current, screens, button, task, timers, settings, saved>>
    BY <1>6 DEF Navigate
  <2>2. current \in Notifiers
    BY <2>1 DEF TypeOK, WellBound, Notifiers
  <2>3. state[current] \in ReviewStates /\ state[current].game \in GameOrNone
    BY <2>2 DEF TypeOK, ReviewStates
  <2>4. Len(state[current].game.moves) \in Nat
    BY <2>3, GameTypes
  <2>5. PICK ply \in -1..Len(state[current].game.moves) :
          state' = [state EXCEPT ![current] = AtPly(state[current], ply)]
    BY <1>6 DEF Navigate
  <2>6. AtPly(state[current], ply) \in ReviewStates
    BY <1>6, <2>3, <2>4, ReviewTypes DEF Navigate
  <2>7. state' \in [Notifiers -> ReviewStates]
    BY <2>5, <2>6 DEF TypeOK
  <2>8. screens' \in 0..screens
    BY <2>1 DEF TypeOK
  <2> QED BY <2>1, <2>7, <2>8, TapTypes DEF TypeOK
<1>7. CASE DismissBrilliantAlert
  <2> DEFINE dismissed == [state[current] EXCEPT !.alert = FALSE, !.error = FALSE]
  <2>1. state' = [state EXCEPT ![current] = dismissed] /\ screens > 0
    BY <1>7 DEF DismissBrilliantAlert
  <2>2. state' \in [Notifiers -> ReviewStates]
    <3>1. current \in Notifiers
      BY <2>1 DEF TypeOK, WellBound, Notifiers
    <3>2. dismissed \in ReviewStates
      <4>1. state[current] \in ReviewStates
        BY <3>1 DEF TypeOK
      <4> QED BY <4>1 DEF ReviewStates
    <3> QED BY <2>1, <3>2 DEF TypeOK
  <2>3. screens' \in 0..screens
    BY <1>7 DEF DismissBrilliantAlert, TypeOK
  <2> QED BY <1>7, <2>2, <2>3, TapTypes DEF DismissBrilliantAlert, TypeOK
<1>8. CASE ChangeSettings
  <2>1. settings' \in [depth : Nat, autoAnalyze : BOOLEAN]
    BY <1>8, BoundsAssumption DEF ChangeSettings
  <2>2. screens' \in 0..screens
    BY <1>8 DEF ChangeSettings, TypeOK
  <2> QED BY <1>8, <2>1, <2>2, TapTypes DEF ChangeSettings, TypeOK
<1>9. CASE ClearAll
  <2>1. settings' \in [depth : Nat, autoAnalyze : BOOLEAN] /\ saved' \in Seq(SavedGames)
    BY <1>9 DEF ClearAll, DefaultSettings
  <2>2. screens' \in 0..screens
    BY <1>9 DEF ClearAll, TypeOK
  <2> QED BY <1>9, <2>1, <2>2, TapTypes DEF ClearAll, TypeOK
<1>10. CASE Frame
  <2>1. button' \in BOOLEAN
    BY <1>10, Zenon DEF Frame
  <2>2. screens' \in 0..screens
    BY <1>10 DEF Frame, TypeOK
  <2> QED BY <1>10, <2>1, <2>2, TapTypes DEF Frame, TypeOK
<1>11. CASE Started
  BY <1>11, EngineStartedTypes DEF Started
<1>12. CASE Answered
  BY <1>12, EngineAnswersTypes DEF Answered
<1>13. ASSUME NEW t \in Tasks, Resumes(t) \/ AnswerTimesOut(t)
       PROVE  TypeInv'
  BY <1>13, AskAfterTypes, RatePlyTypes, AnswerTimesOutTypes DEF Resumes
<1>14. CASE UNCHANGED vars
  BY <1>14 DEF vars, TypeOK, WellBound
<1> HIDE DEF TypeInv
<1> QED
  BY <1>1, <1>2, <1>3, <1>4, <1>5, <1>6, <1>7, <1>8, <1>9, <1>10, <1>11, <1>12, <1>13, <1>14
  DEF Next, Tap

\* The types hold in every state, and every run belongs to a notifier.
LEMMA TypeInvariant == Spec => []TypeInv
BY InitTypes, NextTypes, PTL DEF Spec

\* Every variable keeps its type, in particular the ply on screen and the plies
\* in storage are natural numbers: _setCurrentPly clamps from below too
\* (review_notifier.dart:190).
THEOREM TypeCorrectness == Spec => []TypeOK
BY TypeInvariant, PTL DEF TypeInv

-----------------------------------------------------------------------------
(* Closed reviews *)

\* What the shared tail of EngineStarted and RatePly does to runs and reviews.
LEMMA ContinueEffect ==
  ASSUME TypeOK, NEW t \in Tasks, NEW s \in [Notifiers -> ReviewStates], NEW k, NEW ts,
         k.notifier \in Notifiers, Continue(t, s, k, ts)
  PROVE  /\ \A u \in Tasks : u # t => task'[u] = task[u]
         /\ ~Mounted(k.notifier) => task'[t].pc = "done" /\ state' = s
         /\ \A m \in Notifiers : /\ state'[m].list = s[m].list
                                 /\ state'[m].ply = s[m].ply
                                 /\ state'[m].game = s[m].game
<1> DEFINE n == k.notifier
           ended == [IdleTask EXCEPT !.pc = "done", !.notifier = n]
           f == Finished(s[n])
<1>1. \E x : task' = [task EXCEPT ![t] = x]
  BY DEF Continue
<1>2. \A u \in Tasks : u # t => task'[u] = task[u]
  BY <1>1 DEF TypeOK
<1>3. ASSUME ~Mounted(n) PROVE task'[t].pc = "done" /\ state' = s
  <2>1. task' = [task EXCEPT ![t] = ended] /\ state' = s
    BY <1>3 DEF Continue
  <2>2. ended.pc = "done"
    BY DEF IdleTask
  <2> HIDE DEF ended
  <2> QED BY <2>1, <2>2 DEF TypeOK
<1>4. state' = s \/ state' = [s EXCEPT ![n] = f]
  BY DEF Continue
<1>5. f.list = s[n].list /\ f.ply = s[n].ply /\ f.game = s[n].game
  BY DEF Finished, ReviewStates
<1> HIDE DEF f, n
<1>6. \A m \in Notifiers : /\ state'[m].list = s[m].list
                           /\ state'[m].ply = s[m].ply
                           /\ state'[m].game = s[m].game
  BY <1>4, <1>5
<1> QED BY <1>2, <1>3, <1>6 DEF n

LEMMA ClosedRunStep ==
  ASSUME TypeInv, [Next]_vars, NEW t \in Tasks,
         Running(t), Closed(task[t].notifier), task[t].pc # "before"
  PROVE  task'[t].pc # "before"
<1> USE DEF TypeInv
<1>1. task[t].notifier \in Notifiers /\ ~Mounted(task[t].notifier)
  BY BoundsAssumption DEF Running, Closed, Mounted, TypeOK, WellBound, Notifiers
<1>2. ASSUME NEW u \in Tasks, NEW n, NEW s, StartAnalysis(u, n, s)
      PROVE  task'[t].pc # "before"
  <2> DEFINE called == [IdleTask EXCEPT !.pc = "starting", !.notifier = n]
  <2>1. task' = [task EXCEPT ![u] = called]
    BY <1>2 DEF StartAnalysis
  <2>2. called.pc = "starting"
    BY DEF IdleTask
  <2> HIDE DEF called
  <2> QED BY <2>1, <2>2 DEF TypeOK
<1>3. CASE OpenGame \/ OpenReplay
  <2>1. PICK g, at : OpenReview(g, at)
    BY <1>3 DEF OpenGame, OpenReplay
  <2> QED BY <1>2, <2>1 DEF OpenReview
<1>4. CASE RunDeepAnalysis
  BY <1>2, <1>4 DEF RunDeepAnalysis
<1>5. CASE \/ OpenEmpty \/ CloseReview \/ Navigate \/ DismissBrilliantAlert
           \/ ChangeSettings \/ ClearAll \/ Frame \/ UNCHANGED vars
  BY <1>5 DEF OpenEmpty, CloseReview, Navigate, DismissBrilliantAlert, ChangeSettings,
              ClearAll, Frame, vars
<1>6. ASSUME NEW i \in DOMAIN timers, EngineStarted(i)
      PROVE  task'[t].pc # "before"
  <2> DEFINE u == timers[i].task
             n == task[u].notifier
             s == state[n]
             k == [task[u] EXCEPT !.depth = settings.depth, !.total = Len(s.game.moves),
                                  !.from = s.ply, !.list = s.list]
             ended == [IdleTask EXCEPT !.pc = "done", !.notifier = n]
  <2>1. u \in Tasks /\ task[u].pc # "idle" /\ task[u] \in TaskStates
    BY <1>6, FiredTypes DEF EngineStarted, TypeOK
  <2>2. n \in Notifiers
    BY <2>1, BoundsAssumption DEF TypeOK, WellBound, Notifiers
  <2>3. CASE k.total = 0
    <3>1. task' = [task EXCEPT ![u] = ended]
      BY <1>6, <2>3 DEF EngineStarted
    <3>2. ended.pc = "done"
      BY DEF IdleTask
    <3> HIDE DEF ended
    <3> QED BY <3>1, <3>2, <2>1 DEF TypeOK
  <2>4. CASE k.total # 0
    <3> DEFINE looping == [k EXCEPT !.left = OrderedPlies(k)]
    <3>1. Continue(u, state, looping, Drop(timers, i))
      BY <1>6, <2>4 DEF EngineStarted
    <3>2. looping.notifier = n
      BY <2>1 DEF TaskStates
    <3>3. state \in [Notifiers -> ReviewStates]
      BY DEF TypeOK
    <3> HIDE DEF looping, k, s
    <3>4. /\ \A v \in Tasks : v # u => task'[v] = task[v]
          /\ ~Mounted(n) => task'[u].pc = "done"
      BY <2>1, <2>2, <3>1, <3>2, <3>3, ContinueEffect
    <3> QED BY <1>1, <3>4
  <2> QED BY <2>3, <2>4
<1>7. ASSUME NEW i \in DOMAIN timers, EngineAnswers(i)
      PROVE  task'[t].pc # "before"
  <2> DEFINE r == timers[i].request
  <2>1. task'[t] = IF Awaits(task[t], r) THEN Resumed(task[t], r) ELSE task[t]
    BY <1>7 DEF EngineAnswers
  <2>2. task[t] \in TaskStates
    BY DEF TypeOK
  <2> HIDE DEF r
  <2> QED BY <2>1, <2>2 DEF Resumed, TaskStates
<1>8. ASSUME NEW u \in Tasks, AnswerTimesOut(u)
      PROVE  task'[t].pc # "before"
  <2>1. task' = [task EXCEPT ![u] = Resumed(task[u], Nothing)]
    BY <1>8 DEF AnswerTimesOut
  <2>2. task[u] \in TaskStates
    BY DEF TypeOK
  <2>3. Resumed(task[u], Nothing).pc # "before"
    BY <2>2 DEF Resumed, TaskStates
  <2> QED BY <2>1, <2>3 DEF TypeOK
<1>9. ASSUME NEW u \in Tasks, AskAfter(u)
      PROVE  task'[t].pc # "before"
  <2>1. task' = [task EXCEPT ![u].pc = "after"]
    BY <1>9 DEF AskAfter
  <2> QED BY <2>1 DEF TypeOK, TaskStates
<1>10. ASSUME NEW u \in Tasks, RatePly(u)
       PROVE  task'[t].pc # "before"
  <2> DEFINE k == task[u]
             n == k.notifier
             q == Verdict(k)
             rated == [k EXCEPT !.list[k.ply] = q, !.analyzed = @ + 1]
             shown == IF Mounted(n) THEN [state EXCEPT ![n] = Rated(@, rated, q)] ELSE state
             failed == [IdleTask EXCEPT !.pc = "failed", !.notifier = n]
  <2>1. k \in TaskStates /\ k.pc = "gotAfter"
    BY <1>10 DEF RatePly, TypeOK
  <2>2. n \in Notifiers
    BY <2>1, BoundsAssumption DEF TypeOK, WellBound, Notifiers
  <2>3. CASE k.ply > Len(k.list)
    <3>1. task' = [task EXCEPT ![u] = failed]
      BY <1>10, <2>3 DEF RatePly
    <3>2. failed.pc = "failed"
      BY DEF IdleTask
    <3> HIDE DEF failed
    <3> QED BY <3>1, <3>2 DEF TypeOK
  <2>4. CASE ~(k.ply > Len(k.list))
    <3>1. Continue(u, shown, rated, timers)
      BY <1>10, <2>4 DEF RatePly
    <3>2. rated.notifier = n
      BY <2>1 DEF TaskStates
    <3>3. CASE u = t
      <4>1. Continue(u, state, rated, timers)
        BY <1>1, <3>1, <3>3
      <4>2. state \in [Notifiers -> ReviewStates]
        BY DEF TypeOK
      <4> HIDE DEF rated, shown, q
      <4>3. task'[u].pc = "done"
        BY <1>1, <2>2, <3>2, <3>3, <4>1, <4>2, ContinueEffect
      <4> QED BY <3>3, <4>3
    <3>4. CASE u # t
      <4>1. \E x : task' = [task EXCEPT ![u] = x]
        BY <3>1 DEF Continue
      <4> QED BY <3>4, <4>1 DEF TypeOK
    <3> QED BY <3>3, <3>4
  <2> QED BY <2>3, <2>4
<1> HIDE DEF TypeInv
<1> QED
  BY <1>3, <1>4, <1>5, <1>6, <1>7, <1>8, <1>9, <1>10
  DEF Next, Tap, Started, Answered, Resumes

\* Whatever is tapped and however late the engine answers, the run of a closed
\* review rates at most the ply it is at: the loop leaves at the next test of
\* mounted (review_notifier.dart:251).
THEOREM ClosedRunsStop == Spec => ClosedRunsTakeNoPly
<1>1. TypeInv /\ [Next]_vars =>
        [\A t \in Tasks :
           (Running(t) /\ Closed(task[t].notifier) /\ task[t].pc # "before")
             => task'[t].pc # "before"]_vars
  BY ClosedRunStep
<1> QED BY <1>1, TypeInvariant, PTL DEF Spec, ClosedRunsTakeNoPly

LEMMA ClosedReviewStep ==
  ASSUME TypeInv, [Next]_vars, NEW n \in Notifiers, Closed(n), current' = current
  PROVE  state'[n].list = state[n].list /\ state'[n].ply = state[n].ply
<1> USE DEF TypeInv
<1> DEFINE Goal == state'[n].list = state[n].list /\ state'[n].ply = state[n].ply
<1>1. ~Mounted(n) /\ (screens > 0 => n # current)
  BY DEF Closed, Mounted, TypeOK
<1>2. ASSUME NEW m \in Notifiers, m # n, NEW x, state' = [state EXCEPT ![m] = x]
      PROVE  Goal
  BY <1>2 DEF TypeOK
<1>3. CASE OpenGame \/ OpenReplay
  <2>1. PICK g, at : OpenReview(g, at)
    BY <1>3 DEF OpenGame, OpenReplay
  <2>2. screens > 0 /\ current \in Notifiers
    BY <2>1 DEF OpenReview, TypeOK
  <2>3. \E x : state' = [state EXCEPT ![current] = x]
    BY <2>1, <2>2 DEF OpenReview, StartAnalysis
  <2> QED BY <1>1, <1>2, <2>2, <2>3
<1>4. CASE OpenEmpty \/ RunDeepAnalysis \/ Navigate \/ DismissBrilliantAlert
  <2>1. screens > 0
    BY <1>4 DEF OpenEmpty, RunDeepAnalysis, Navigate, DismissBrilliantAlert, TypeOK
  <2>2. current \in Notifiers
    BY <2>1 DEF TypeOK, WellBound, Notifiers
  <2>3. \/ \E x : state' = [state EXCEPT ![current] = x]
        \/ state' = [state EXCEPT ![current].error = TRUE]
    BY <1>4, <2>1 DEF OpenEmpty, RunDeepAnalysis, Navigate, DismissBrilliantAlert, StartAnalysis
  <2>4. CASE \E x : state' = [state EXCEPT ![current] = x]
    BY <1>1, <1>2, <2>1, <2>2, <2>4
  <2>5. CASE state' = [state EXCEPT ![current].error = TRUE]
    BY <1>1, <2>1, <2>5 DEF TypeOK
  <2> QED BY <2>3, <2>4, <2>5
<1>5. CASE \/ CloseReview \/ ChangeSettings \/ ClearAll \/ Frame \/ Answered
           \/ UNCHANGED vars \/ \E t \in Tasks : AskAfter(t) \/ AnswerTimesOut(t)
  BY <1>5 DEF CloseReview, ChangeSettings, ClearAll, Frame, Answered, EngineAnswers, vars,
              AskAfter, AnswerTimesOut
<1>6. ASSUME NEW i \in DOMAIN timers, EngineStarted(i)
      PROVE  Goal
  <2> DEFINE u == timers[i].task
             m == task[u].notifier
             s == state[m]
             k == [task[u] EXCEPT !.depth = settings.depth, !.total = Len(s.game.moves),
                                  !.from = s.ply, !.list = s.list]
             looping == [k EXCEPT !.left = OrderedPlies(k)]
             f == Finished(s)
  <2>1. u \in Tasks /\ task[u].pc # "idle" /\ task[u] \in TaskStates
    BY <1>6, FiredTypes DEF EngineStarted, TypeOK
  <2>2. m \in Notifiers /\ s \in ReviewStates
    BY <2>1, BoundsAssumption DEF TypeOK, WellBound, Notifiers
  <2>3. f.list = s.list /\ f.ply = s.ply
    BY <2>2 DEF Finished, ReviewStates
  <2>4. state' = [state EXCEPT ![m] = f] \/ Continue(u, state, looping, Drop(timers, i))
    BY <1>6 DEF EngineStarted
  <2>5. looping.notifier = m
    BY <2>1 DEF TaskStates
  <2> HIDE DEF looping, k, f
  <2>6. CASE state' = [state EXCEPT ![m] = f]
    BY <2>3, <2>6 DEF TypeOK
  <2>7. CASE Continue(u, state, looping, Drop(timers, i))
    <3>1. state \in [Notifiers -> ReviewStates]
      BY DEF TypeOK
    <3> HIDE DEF u, m, s
    <3> QED BY <2>1, <2>2, <2>5, <2>7, <3>1, ContinueEffect
  <2> QED BY <2>4, <2>6, <2>7
<1>7. ASSUME NEW t \in Tasks, RatePly(t)
      PROVE  Goal
  <2> DEFINE k == task[t]
             m == k.notifier
             q == Verdict(k)
             rated == [k EXCEPT !.list[k.ply] = q, !.analyzed = @ + 1]
             r == Rated(state[m], rated, q)
             shown == IF Mounted(m) THEN [state EXCEPT ![m] = r] ELSE state
  <2>1. k \in TaskStates /\ k.pc = "gotAfter"
    BY <1>7 DEF RatePly, TypeOK
  <2>2. m \in Notifiers /\ state[m] \in ReviewStates
    BY <2>1, BoundsAssumption DEF TypeOK, WellBound, Notifiers
  <2>3. q \in Quality
    BY ClassifyType DEF Verdict
  <2>4. rated \in TaskStates /\ rated.notifier = m
    <3>1. k.list \in Ratings /\ k.analyzed + 1 \in Nat /\ q \in Quality \cup {Unrated}
      BY <2>1, <2>3 DEF TaskStates
    <3> HIDE DEF q
    <3>2. [k.list EXCEPT ![k.ply] = q] \in Ratings
      BY <3>1, RatingType DEF Ratings
    <3> QED BY <2>1, <3>1, <3>2 DEF TaskStates
  <2>5. r \in ReviewStates
    BY <2>2, <2>3, <2>4, ReviewTypes
  <2>6. state' = state \/ Continue(t, shown, rated, timers)
    BY <1>7 DEF RatePly
  <2> HIDE DEF r, rated, q
  <2>7. shown \in [Notifiers -> ReviewStates] /\ shown[n] = state[n]
    BY <1>1, <2>2, <2>5 DEF TypeOK
  <2> HIDE DEF shown, m, k
  <2> QED BY <2>2, <2>4, <2>6, <2>7, ContinueEffect DEF TypeOK
<1> HIDE DEF TypeInv
<1> QED BY <1>3, <1>4, <1>5, <1>6, <1>7 DEF Next, Tap, Started, Resumes

\* A late answer never reaches a review that was closed: what it showed when it
\* was closed stays what it was (review_notifier.dart:350, 367 test mounted; 227
\* does not, but writes neither ratings nor ply).
THEOREM ClosedReviewsStay == Spec => ClosedReviewsKeepRatings
<1>1. TypeInv /\ [Next]_vars =>
        [\A n \in Notifiers :
           (Closed(n) /\ current' = current)
             => state'[n].list = state[n].list /\ state'[n].ply = state[n].ply]_vars
  BY ClosedReviewStep
<1> QED BY <1>1, TypeInvariant, PTL DEF Spec, ClosedReviewsKeepRatings

\* Runs that outlive their review take no further ply and leave the ratings and
\* the ply of the closed review alone (review_notifier.dart:251).
THEOREM ClosedReviewsUntouched == Spec => ClosedReviewsLeftAlone
BY ClosedRunsStop, ClosedReviewsStay DEF ClosedReviewsLeftAlone

-----------------------------------------------------------------------------
(* What is stored can be replayed, while one screen shows one review       *)

\* A run keeps the game its review shows, and is at a ply that has a board.
\* That is why the game stored with a brilliant ply is the one it belongs to:
\* saveBrilliantGame takes state.pgn, not the game the run began with.
RunsKeepTheirGame ==
  \A t \in Tasks :
    task[t].pc \in {"before", "gotBefore", "after", "gotAfter"} =>
      /\ task[t].game = state[task[t].notifier].game
      /\ task[t].ply \in 1..(task[t].game.boards - 1)

\* PlyHasBoard for every notifier, alive or not.
PliesHaveBoards ==
  \A n \in Notifiers : state[n].game = NoGame \/ state[n].ply < state[n].game.boards

ReplayInv ==
  /\ TypeInv
  /\ RunsKeepTheirGame
  /\ PliesHaveBoards
  /\ ReplayOpensOnSacrifice

\* Only a sacrifice is ever rated brilliant: the stub engine sees no drop.
LEMMA BrilliantIsSacrifice ==
  ASSUME NEW k, Verdict(k) = "brilliant"
  PROVE  IsSacrifice(k.game, k.ply)
<1> DEFINE book == k.game.moves[k.ply].book
           sac == IsSacrifice(k.game, k.ply)
           lines == LinesOf(k.answer)
<1>1. Classify(0, 0, book, sac, lines, "san") = "brilliant"
  BY DEF Verdict
<1> HIDE DEF book, sac, lines
<1>2. sac
  BY <1>1 DEF Classify, IsBrilliant, BlunderDrop, MissDrop
<1> QED BY <1>2 DEF sac

\* A call of _startAnalysis changes neither game nor ply.
LEMMA StartEffect ==
  ASSUME TypeOK, NEW t \in Tasks, NEW n \in Notifiers, NEW s \in ReviewStates,
         StartAnalysis(t, n, s)
  PROVE  /\ task'[t].pc = "starting"
         /\ \A u \in Tasks : u # t => task'[u] = task[u]
         /\ \A m \in Notifiers : m # n => state'[m] = state[m]
         /\ state'[n].game = s.game /\ state'[n].ply = s.ply
<1> DEFINE called == [IdleTask EXCEPT !.pc = "starting", !.notifier = n]
           a == Analyzing(s)
<1>1. task' = [task EXCEPT ![t] = called] /\ state' = [state EXCEPT ![n] = a]
  BY DEF StartAnalysis
<1>2. called.pc = "starting" /\ a.game = s.game /\ a.ply = s.ply
  BY DEF IdleTask, Analyzing, ReviewStates
<1> HIDE DEF called, a
<1> QED BY <1>1, <1>2 DEF TypeOK

\* After the shared tail the run is over, or at a ply with a board.
LEMMA ContinueGame ==
  ASSUME TypeOK, NEW t \in Tasks, NEW s \in [Notifiers -> ReviewStates],
         NEW k \in TaskStates, NEW ts, k.notifier \in Notifiers, Continue(t, s, k, ts)
  PROVE  \/ task'[t].pc = "done"
         \/ /\ task'[t].notifier = k.notifier
            /\ task'[t].game = s[k.notifier].game
            /\ task'[t].ply \in 1..(s[k.notifier].game.boards - 1)
<1> DEFINE n == k.notifier
           open == IF Mounted(n) THEN Reviewable(s[n], k) ELSE {}
           ply == NextPly(open, k)
           taken == [k EXCEPT !.pc = "before", !.game = s[n].game, !.ply = ply,
                              !.answer = Nothing, !.answer2 = Nothing,
                              !.left = {q \in @ : Rank(k, q) > Rank(k, ply)}]
           ended == [IdleTask EXCEPT !.pc = "done", !.notifier = n]
<1>1. CASE open = {}
  <2>1. task' = [task EXCEPT ![t] = ended]
    BY <1>1 DEF Continue
  <2>2. ended.pc = "done"
    BY DEF IdleTask
  <2> HIDE DEF ended
  <2> QED BY <2>1, <2>2 DEF TypeOK
<1>2. CASE open # {}
  <2>1. task' = [task EXCEPT ![t] = taken]
    BY <1>2 DEF Continue
  <2>2. open \in SUBSET Nat /\ open \subseteq Reviewable(s[n], k)
    BY DEF Reviewable, TaskStates
  <2>3. ply \in open
    BY <1>2, <2>2, NextPlyType DEF TaskStates
  <2>4. s[n].game \in GameOrNone
    BY DEF ReviewStates
  <2>5. s[n].game.boards \in Nat
    BY <2>4, GameTypes
  <2>6. ply \in Nat /\ 1 <= ply /\ ply < s[n].game.boards
    BY <2>2, <2>3 DEF Reviewable
  <2>7. ply \in 1..(s[n].game.boards - 1)
    BY <2>5, <2>6
  <2>8. taken.notifier = n /\ taken.game = s[n].game /\ taken.ply = ply
    BY DEF TaskStates
  <2> HIDE DEF taken, ply, open
  <2> QED BY <2>1, <2>7, <2>8 DEF TypeOK
<1> QED BY <1>1, <1>2

\* With one screen at most, a review that opens is a new one: no run knows it.
LEMMA OpenReplays ==
  ASSUME MaxScreens = 1, ReplayInv, NEW g \in Games, NEW at \in 0..(g.boards - 1),
         OpenReview(g, at)
  PROVE  RunsKeepTheirGame' /\ PliesHaveBoards' /\ ReplayOpensOnSacrifice'
<1> USE DEF ReplayInv, TypeInv
<1> DEFINE n == current + 1
           s == Loaded(state[n], g, at)
<1>1. screens = 0 /\ n \in Notifiers /\ UNCHANGED saved
  BY DEF OpenReview, TypeOK
<1>2. g \in GameOrNone /\ g.boards \in Nat
  BY GamesAssumption, GameTypes DEF GameOrNone
<1>3. at \in Nat /\ at < g.boards
  BY <1>2
<1>4. s \in ReviewStates
  BY <1>1, <1>2, <1>3, ReviewTypes DEF TypeOK
<1>5. s.game = g /\ s.ply = at
  BY <1>1 DEF Loaded, TypeOK, ReviewStates
<1> HIDE DEF s
<1>6. /\ \A m \in Notifiers : m # n => state'[m] = state[m]
      /\ state'[n].game = g /\ state'[n].ply = at
      /\ \A t \in Tasks : task'[t] = task[t] \/ task'[t].pc = "starting"
  <2>1. CASE settings.autoAnalyze
    <3>1. PICK t \in Tasks : StartAnalysis(t, n, s)
      BY <1>1, <2>1 DEF OpenReview, s
    <3> HIDE DEF n
    <3> QED BY <1>1, <1>4, <1>5, <3>1, StartEffect
  <2>2. CASE ~settings.autoAnalyze
    <3>1. state' = [state EXCEPT ![n] = s] /\ task' = task
      BY <1>1, <2>2 DEF OpenReview, s
    <3> QED BY <1>1, <1>5, <3>1 DEF TypeOK
  <2> QED BY <2>1, <2>2
<1>7. \A t \in Tasks : task[t].pc # "idle" => task[t].notifier \in Notifiers \ {n}
  BY <1>1, BoundsAssumption DEF TypeOK, WellBound, Notifiers
<1> HIDE DEF n
<1>8. RunsKeepTheirGame'
  BY <1>6, <1>7 DEF RunsKeepTheirGame
<1>9. PliesHaveBoards'
  BY <1>3, <1>6 DEF PliesHaveBoards
<1>10. ReplayOpensOnSacrifice'
  BY <1>1 DEF ReplayOpensOnSacrifice, IsSacrifice
<1> QED BY <1>8, <1>9, <1>10

\* A step that leaves the games of the reviews alone.
LEMMA SameGames ==
  ASSUME \A m \in Notifiers : /\ state'[m].game = state[m].game
                              /\ state'[m].game = NoGame \/ state'[m].ply < state'[m].game.boards,
         \A t \in Tasks :
           \/ task'[t].pc \in {"idle", "starting", "done", "failed"}
           \/ /\ task'[t].game = state[task'[t].notifier].game
              /\ task'[t].notifier \in Notifiers
              /\ task'[t].ply \in 1..(task'[t].game.boards - 1)
  PROVE  RunsKeepTheirGame' /\ PliesHaveBoards'
BY DEF RunsKeepTheirGame, PliesHaveBoards

\* Storage that a step leaves alone keeps its entries replayable.
LEMMA SameReplays ==
  ASSUME ReplayOpensOnSacrifice, UNCHANGED saved
  PROVE  ReplayOpensOnSacrifice'
BY DEF ReplayOpensOnSacrifice, IsSacrifice

\* What the inductive invariant says of a run between the loop's head and its end.
LEMMA RunAtPly ==
  ASSUME ReplayInv, NEW t \in Tasks
  PROVE  \/ task[t].pc \in {"idle", "starting", "done", "failed"}
         \/ /\ task[t].game = state[task[t].notifier].game
            /\ task[t].notifier \in Notifiers
            /\ task[t].ply \in 1..(task[t].game.boards - 1)
BY BoundsAssumption
DEF ReplayInv, TypeInv, TypeOK, WellBound, RunsKeepTheirGame, TaskStates, Notifiers

LEMMA StartedReplays ==
  ASSUME ReplayInv, NEW i \in DOMAIN timers, EngineStarted(i)
  PROVE  RunsKeepTheirGame' /\ PliesHaveBoards'
<1> USE DEF ReplayInv, TypeInv
<1> DEFINE t == timers[i].task
           n == task[t].notifier
           s == state[n]
           k == [task[t] EXCEPT !.depth = settings.depth, !.total = Len(s.game.moves),
                                !.from = s.ply, !.list = s.list]
           ended == [IdleTask EXCEPT !.pc = "done", !.notifier = n]
           f == Finished(s)
<1>1. t \in Tasks /\ task[t].pc # "idle" /\ task[t] \in TaskStates
  BY FiredTypes DEF EngineStarted, TypeOK
<1>2. n \in Notifiers
  BY <1>1, BoundsAssumption DEF TypeOK, WellBound, Notifiers
<1>3. s \in ReviewStates
  BY <1>2 DEF TypeOK
<1>4. CASE k.total = 0
  <2>1. state' = [state EXCEPT ![n] = f] /\ task' = [task EXCEPT ![t] = ended]
    BY <1>4 DEF EngineStarted
  <2>2. ended.pc = "done" /\ f.game = s.game /\ f.ply = s.ply
    BY <1>3 DEF IdleTask, Finished, ReviewStates
  <2> HIDE DEF ended, f, k
  <2>3. \A m \in Notifiers : /\ state'[m].game = state[m].game
                             /\ state'[m].game = NoGame \/ state'[m].ply < state'[m].game.boards
    BY <2>1, <2>2 DEF TypeOK, PliesHaveBoards
  <2>4. \A u \in Tasks : task'[u] = task[u] \/ task'[u].pc = "done"
    BY <2>1, <2>2 DEF TypeOK
  <2> HIDE DEF n, s, t, ReplayInv
  <2> QED BY <2>3, <2>4, RunAtPly, SameGames
<1>5. CASE k.total # 0
  <2> DEFINE looping == [k EXCEPT !.left = OrderedPlies(k)]
  <2>1. Continue(t, state, looping, Drop(timers, i))
    BY <1>5 DEF EngineStarted
  <2>2. looping.notifier = n
    BY <1>1 DEF TaskStates
  <2>3. looping \in TaskStates
    <3>1. settings.depth \in Nat /\ Len(s.game.moves) \in Nat
      BY <1>3, GameTypes DEF TypeOK, ReviewStates
    <3>2. k \in TaskStates
      BY <1>1, <1>3, <3>1 DEF TaskStates, ReviewStates
    <3>3. k.from \in Nat /\ k.total \in Nat
      BY <3>2 DEF TaskStates
    <3> HIDE DEF k
    <3>4. OrderedPlies(k) \in SUBSET Nat
      BY <3>3 DEF OrderedPlies, Window, Min2
    <3> QED BY <3>2, <3>4 DEF TaskStates
  <2>4. state \in [Notifiers -> ReviewStates]
    BY DEF TypeOK
  <2> HIDE DEF looping, k, ended, f
  <2>5. /\ \A u \in Tasks : u # t => task'[u] = task[u]
        /\ \A m \in Notifiers : /\ state'[m].ply = state[m].ply
                                /\ state'[m].game = state[m].game
    BY <1>1, <1>2, <2>1, <2>2, <2>4, ContinueEffect
  <2>6. \/ task'[t].pc = "done"
        \/ /\ task'[t].notifier = n
           /\ task'[t].game = state[n].game
           /\ task'[t].ply \in 1..(state[n].game.boards - 1)
    BY <1>1, <1>2, <2>1, <2>2, <2>3, <2>4, ContinueGame
  <2>7. \A m \in Notifiers : state'[m].game = NoGame \/ state'[m].ply < state'[m].game.boards
    BY <2>5 DEF PliesHaveBoards
  <2> HIDE DEF n, s, t, ReplayInv
  <2> QED BY <1>2, <2>5, <2>6, <2>7, RunAtPly, SameGames
<1> QED BY <1>4, <1>5

LEMMA RatedReplays ==
  ASSUME ReplayInv, NEW t \in Tasks, RatePly(t)
  PROVE  RunsKeepTheirGame' /\ PliesHaveBoards' /\ ReplayOpensOnSacrifice'
<1> USE DEF ReplayInv, TypeInv
<1> DEFINE k == task[t]
           n == k.notifier
           q == Verdict(k)
           rated == [k EXCEPT !.list[k.ply] = q, !.analyzed = @ + 1]
           shown == IF Mounted(n) THEN [state EXCEPT ![n] = Rated(@, rated, q)] ELSE state
           failed == [IdleTask EXCEPT !.pc = "failed", !.notifier = n]
<1>1. k \in TaskStates /\ k.pc = "gotAfter"
  BY DEF RatePly, TypeOK
<1>2. n \in Notifiers /\ state[n] \in ReviewStates
  BY <1>1, BoundsAssumption DEF TypeOK, WellBound, Notifiers
<1>3. q \in Quality
  BY ClassifyType DEF Verdict
<1>4. k.game = state[n].game /\ k.ply \in 1..(k.game.boards - 1)
  BY <1>1 DEF RunsKeepTheirGame
<1>5. ReplayOpensOnSacrifice'
  <2>1. CASE q = "brilliant"
    <3> DEFINE e == [id |-> k.game.id, game |-> k.game, ply |-> k.ply]
    <3>1. saved' = saved \/ saved' = Append(saved, e)
      BY <1>4, <2>1 DEF RatePly, Save
    <3>2. IsSacrifice(e.game, e.ply) /\ e.ply \in 1..(e.game.boards - 1)
      BY <1>4, <2>1, BrilliantIsSacrifice
    <3>3. e \in SavedGames /\ saved \in Seq(SavedGames)
      BY <1>1 DEF SavedGames, GameIds, TaskStates, TypeOK
    <3> HIDE DEF e, k, q, n
    <3>4. \A i \in DOMAIN saved' : saved'[i] = e \/ (i \in DOMAIN saved /\ saved'[i] = saved[i])
      BY <3>1, <3>3, AppendType
    <3> QED BY <3>2, <3>4 DEF ReplayOpensOnSacrifice, IsSacrifice
  <2>2. CASE q # "brilliant"
    BY <2>2, SameReplays DEF RatePly
  <2> QED BY <2>1, <2>2
<1>6. CASE k.ply > Len(k.list)
  <2>1. task' = [task EXCEPT ![t] = failed] /\ UNCHANGED state
    BY <1>6 DEF RatePly
  <2>2. failed.pc = "failed"
    BY DEF IdleTask
  <2> HIDE DEF failed, k, q, n, rated, shown
  <2>3. \A u \in Tasks : task'[u] = task[u] \/ task'[u].pc = "failed"
    BY <2>1, <2>2 DEF TypeOK
  <2>4. \A m \in Notifiers : state'[m].game = NoGame \/ state'[m].ply < state'[m].game.boards
    BY <2>1 DEF PliesHaveBoards
  <2> HIDE DEF ReplayInv
  <2>5. RunsKeepTheirGame' /\ PliesHaveBoards'
    BY <2>1, <2>3, <2>4, RunAtPly, SameGames
  <2> QED BY <1>5, <2>5
<1>7. CASE ~(k.ply > Len(k.list))
  <2>1. Continue(t, shown, rated, timers)
    BY <1>7 DEF RatePly
  <2>2. rated \in TaskStates /\ rated.notifier = n
    <3>1. k.list \in Ratings /\ k.analyzed + 1 \in Nat /\ q \in Quality \cup {Unrated}
      BY <1>1, <1>3 DEF TaskStates
    <3> HIDE DEF q
    <3>2. [k.list EXCEPT ![k.ply] = q] \in Ratings
      BY <3>1, RatingType DEF Ratings
    <3> QED BY <1>1, <3>1, <3>2 DEF TaskStates
  <2> DEFINE r == Rated(state[n], rated, q)
  <2>3. r \in ReviewStates
    BY <1>2, <1>3, <2>2, ReviewTypes
  <2>4. r.game = state[n].game /\ r.ply = state[n].ply
    BY <1>2 DEF Rated, ReviewStates
  <2>5. shown = state \/ shown = [state EXCEPT ![n] = r]
    OBVIOUS
  <2> HIDE DEF r, rated, shown, q
  <2>6. /\ shown \in [Notifiers -> ReviewStates]
        /\ \A m \in Notifiers : /\ shown[m].ply = state[m].ply
                                /\ shown[m].game = state[m].game
    BY <2>3, <2>4, <2>5 DEF TypeOK
  <2>7. /\ \A u \in Tasks : u # t => task'[u] = task[u]
        /\ \A m \in Notifiers : /\ state'[m].ply = shown[m].ply
                                /\ state'[m].game = shown[m].game
    BY <1>2, <2>1, <2>2, <2>6, ContinueEffect
  <2>8. \/ task'[t].pc = "done"
        \/ /\ task'[t].notifier = n
           /\ task'[t].game = shown[n].game
           /\ task'[t].ply \in 1..(shown[n].game.boards - 1)
    BY <1>2, <2>1, <2>2, <2>6, ContinueGame
  <2>9. \A m \in Notifiers : /\ state'[m].game = state[m].game
                             /\ state'[m].game = NoGame \/ state'[m].ply < state'[m].game.boards
    BY <2>6, <2>7 DEF PliesHaveBoards
  <2> HIDE DEF n, k, ReplayInv
  <2>10. RunsKeepTheirGame' /\ PliesHaveBoards'
    BY <1>2, <2>6, <2>7, <2>8, <2>9, RunAtPly, SameGames
  <2> QED BY <1>5, <2>10
<1> QED BY <1>6, <1>7

LEMMA InitReplays == Init => ReplayInv
<1> SUFFICES ASSUME Init PROVE ReplayInv
  OBVIOUS
<1>1. TypeInv
  BY InitTypes
<1>2. RunsKeepTheirGame
  BY DEF Init, RunsKeepTheirGame, IdleTask
<1>3. FreshState.game = NoGame
  BY DEF FreshState
<1>4. PliesHaveBoards
  BY <1>3 DEF Init, PliesHaveBoards
<1>5. ReplayOpensOnSacrifice
  BY DEF Init, ReplayOpensOnSacrifice
<1> QED BY <1>1, <1>2, <1>4, <1>5 DEF ReplayInv

LEMMA NextReplays ==
  ASSUME MaxScreens = 1, ReplayInv, [Next]_vars
  PROVE  ReplayInv'
<1> USE DEF ReplayInv
<1> DEFINE Goal == RunsKeepTheirGame' /\ PliesHaveBoards' /\ ReplayOpensOnSacrifice'
<1> SUFFICES Goal
  BY NextTypes
<1>1. CASE OpenGame
  <2>1. PICK g \in Games : OpenReview(g, 0)
    BY <1>1 DEF OpenGame
  <2>2. 0 \in 0..(g.boards - 1)
    BY GamesAssumption, GameTypes DEF GameOrNone
  <2> QED BY <2>1, <2>2, OpenReplays
<1>2. CASE OpenReplay
  <2>1. PICK i \in DOMAIN saved : OpenReview(saved[i].game, saved[i].ply)
    BY <1>2 DEF OpenReplay
  <2> DEFINE g == saved[i].game
  <2>2. saved[i].ply \in 1..(g.boards - 1)
    BY DEF ReplayOpensOnSacrifice
  <2>3. saved[i] \in SavedGames
    BY DEF TypeInv, TypeOK
  <2>4. g \in GameOrNone /\ g # NoGame
    <3>1. NoGame.boards = 0
      BY DEF NoGame
    <3>2. g \in GameOrNone
      BY <2>3 DEF SavedGames
    <3>3. g.boards # 0
      BY <2>2
    <3> QED BY <3>1, <3>2, <3>3, Zenon
  <2>5. g \in Games
    BY <2>4 DEF GameOrNone
  <2>6. g.boards \in Nat
    BY <2>4, GameTypes
  <2>7. saved[i].ply \in 0..(g.boards - 1)
    BY <2>2, <2>6
  <2> HIDE DEF ReplayInv
  <2> QED BY <2>1, <2>5, <2>7, OpenReplays
<1>3. CASE OpenEmpty
  <2> DEFINE n == IF screens = 0 THEN current + 1 ELSE current
  <2>1. state' = [state EXCEPT ![n].error = TRUE] /\ UNCHANGED <<task, saved>> /\ n \in Notifiers
    BY <1>3 DEF OpenEmpty
  <2> HIDE DEF n
  <2>2. \A m \in Notifiers : state'[m].game = state[m].game /\ state'[m].ply = state[m].ply
    BY <2>1 DEF TypeInv, TypeOK, ReviewStates
  <2>3. \A m \in Notifiers : state'[m].game = NoGame \/ state'[m].ply < state'[m].game.boards
    BY <2>2 DEF PliesHaveBoards
  <2> HIDE DEF ReplayInv
  <2>4. RunsKeepTheirGame' /\ PliesHaveBoards'
    BY <2>1, <2>2, <2>3, RunAtPly, SameGames
  <2> USE DEF ReplayInv
  <2> QED BY <2>1, <2>4, SameReplays
<1>4. CASE Navigate
  <2> DEFINE s == state[current]
  <2>1. screens > 0 /\ s.game.boards > 0 /\ UNCHANGED <<task, saved>>
    BY <1>4 DEF Navigate
  <2>2. current \in Notifiers
    BY <2>1 DEF TypeInv, TypeOK, WellBound, Notifiers
  <2>3. s \in ReviewStates /\ s.game \in GameOrNone
    BY <2>2 DEF TypeInv, TypeOK, ReviewStates
  <2>4. Len(s.game.moves) \in Nat /\ s.game.boards \in Nat
    BY <2>3, GameTypes
  <2>5. PICK ply \in -1..Len(s.game.moves) : state' = [state EXCEPT ![current] = AtPly(s, ply)]
    BY <1>4 DEF Navigate
  <2> DEFINE a == AtPly(s, ply)
  <2>6. a.game = s.game /\ (a.ply = s.ply \/ a.ply = Clamp(ply, s))
    BY <2>3 DEF AtPly, ReviewStates
  <2>7. Clamp(ply, s) < s.game.boards
    BY <2>1, <2>4 DEF Clamp, Min2
  <2> HIDE DEF a, s
  <2>8. \A m \in Notifiers : /\ state'[m].game = state[m].game
                             /\ state'[m].game = NoGame \/ state'[m].ply < state'[m].game.boards
    BY <2>2, <2>5, <2>6, <2>7 DEF TypeInv, TypeOK, PliesHaveBoards, a, s
  <2> HIDE DEF ReplayInv
  <2>9. RunsKeepTheirGame' /\ PliesHaveBoards'
    BY <2>1, <2>8, RunAtPly, SameGames
  <2> USE DEF ReplayInv
  <2> QED BY <2>1, <2>9, SameReplays
<1>5. CASE RunDeepAnalysis
  <2>1. screens > 0 /\ UNCHANGED saved
    BY <1>5 DEF RunDeepAnalysis
  <2>2. PICK t \in Tasks : StartAnalysis(t, current, state[current])
    BY <1>5 DEF RunDeepAnalysis
  <2>3. current \in Notifiers
    BY <2>1 DEF TypeInv, TypeOK, WellBound, Notifiers
  <2>4. state[current] \in ReviewStates
    BY <2>3 DEF TypeInv, TypeOK
  <2>5. /\ \A u \in Tasks : task'[u] = task[u] \/ task'[u].pc = "starting"
        /\ \A m \in Notifiers : state'[m].game = state[m].game /\ state'[m].ply = state[m].ply
    BY <2>2, <2>3, <2>4, StartEffect DEF TypeInv
  <2>6. \A m \in Notifiers : state'[m].game = NoGame \/ state'[m].ply < state'[m].game.boards
    BY <2>5 DEF PliesHaveBoards
  <2> HIDE DEF ReplayInv
  <2>7. RunsKeepTheirGame' /\ PliesHaveBoards'
    BY <2>5, <2>6, RunAtPly, SameGames
  <2> USE DEF ReplayInv
  <2> QED BY <2>1, <2>7, SameReplays
<1>6. CASE DismissBrilliantAlert
  <2> DEFINE dismissed == [state[current] EXCEPT !.alert = FALSE, !.error = FALSE]
  <2>1. state' = [state EXCEPT ![current] = dismissed] /\ screens > 0 /\ UNCHANGED <<task, saved>>
    BY <1>6 DEF DismissBrilliantAlert
  <2>2. current \in Notifiers
    BY <2>1 DEF TypeInv, TypeOK, WellBound, Notifiers
  <2>3. state[current] \in ReviewStates
    BY <2>2 DEF TypeInv, TypeOK
  <2>4. dismissed.game = state[current].game /\ dismissed.ply = state[current].ply
    BY <2>3 DEF ReviewStates
  <2> HIDE DEF dismissed
  <2>5. \A m \in Notifiers : /\ state'[m].game = state[m].game
                             /\ state'[m].game = NoGame \/ state'[m].ply < state'[m].game.boards
    BY <2>1, <2>4 DEF TypeInv, TypeOK, PliesHaveBoards
  <2> HIDE DEF ReplayInv
  <2>6. RunsKeepTheirGame' /\ PliesHaveBoards'
    BY <2>1, <2>5, RunAtPly, SameGames
  <2> USE DEF ReplayInv
  <2> QED BY <2>1, <2>6, SameReplays
<1>7. CASE CloseReview \/ ChangeSettings \/ ClearAll \/ Frame \/ UNCHANGED vars
  <2>1. UNCHANGED <<state, task>> /\ (saved' = saved \/ saved' = <<>>)
    BY <1>7 DEF CloseReview, ChangeSettings, ClearAll, Frame, vars
  <2>2. RunsKeepTheirGame' /\ PliesHaveBoards'
    BY <2>1 DEF RunsKeepTheirGame, PliesHaveBoards
  <2>3. ReplayOpensOnSacrifice'
    BY <2>1 DEF ReplayOpensOnSacrifice, IsSacrifice
  <2> QED BY <2>2, <2>3
<1>8. CASE Started
  <2>1. PICK i \in DOMAIN timers : EngineStarted(i)
    BY <1>8 DEF Started
  <2>2. UNCHANGED saved
    BY <2>1 DEF EngineStarted
  <2>3. ReplayOpensOnSacrifice'
    BY <2>2, SameReplays
  <2> HIDE DEF ReplayInv
  <2> QED BY <2>1, <2>3, StartedReplays
<1>9. ASSUME NEW t \in Tasks, RatePly(t) PROVE Goal
  <2> HIDE DEF ReplayInv
  <2> QED BY <1>9, RatedReplays
<1>10. ASSUME UNCHANGED <<state, saved>>,
              \A u \in Tasks : /\ task'[u].game = task[u].game
                               /\ task'[u].ply = task[u].ply
                               /\ task'[u].notifier = task[u].notifier
                               /\ \/ task'[u].pc = task[u].pc
                                  \/ task[u].pc \in {"before", "gotBefore", "after"}
       PROVE  Goal
  <2>1. \A m \in Notifiers : state'[m].game = NoGame \/ state'[m].ply < state'[m].game.boards
    BY <1>10 DEF PliesHaveBoards
  <2> HIDE DEF ReplayInv
  <2>2. RunsKeepTheirGame' /\ PliesHaveBoards'
    BY <1>10, <2>1, RunAtPly, SameGames
  <2> USE DEF ReplayInv
  <2> QED BY <1>10, <2>2, SameReplays
<1>11. ASSUME NEW k \in TaskStates, NEW r
       PROVE  /\ Resumed(k, r).game = k.game
              /\ Resumed(k, r).ply = k.ply
              /\ Resumed(k, r).notifier = k.notifier
  BY DEF Resumed, TaskStates
<1>12. \A u \in Tasks : task[u] \in TaskStates
  BY DEF TypeInv, TypeOK
<1>13. CASE Answered
  <2>1. PICK i \in DOMAIN timers : EngineAnswers(i)
    BY <1>13 DEF Answered
  <2> DEFINE r == timers[i].request
  <2>2. /\ UNCHANGED <<state, saved>>
        /\ task' = [u \in Tasks |-> IF Awaits(task[u], r) THEN Resumed(task[u], r) ELSE task[u]]
    BY <2>1 DEF EngineAnswers
  <2> HIDE DEF r
  <2>3. \A u \in Tasks : Awaits(task[u], r) => task[u].pc \in {"before", "after"}
    BY DEF Awaits
  <2> QED BY <1>10, <1>11, <1>12, <2>2, <2>3
<1>14. ASSUME NEW t \in Tasks, AnswerTimesOut(t) PROVE Goal
  <2>1. /\ UNCHANGED <<state, saved>> /\ task[t].pc \in {"before", "after"}
        /\ task' = [task EXCEPT ![t] = Resumed(task[t], Nothing)]
    BY <1>14 DEF AnswerTimesOut
  <2> QED BY <1>10, <1>11, <1>12, <2>1 DEF TypeInv, TypeOK
<1>15. ASSUME NEW t \in Tasks, AskAfter(t) PROVE Goal
  <2>1. /\ UNCHANGED <<state, saved>> /\ task[t].pc = "gotBefore"
        /\ task' = [task EXCEPT ![t].pc = "after"]
    BY <1>15 DEF AskAfter
  <2>2. \A u \in Tasks : /\ task'[u].game = task[u].game
                         /\ task'[u].ply = task[u].ply
                         /\ task'[u].notifier = task[u].notifier
    BY <1>12, <2>1 DEF TypeInv, TypeOK, TaskStates
  <2>3. \A u \in Tasks : u # t => task'[u] = task[u]
    BY <2>1 DEF TypeInv, TypeOK
  <2> QED BY <1>10, <2>1, <2>2, <2>3
<1> HIDE DEF ReplayInv, Goal
<1> QED
  BY <1>1, <1>2, <1>3, <1>4, <1>5, <1>6, <1>7, <1>8, <1>9, <1>13, <1>14, <1>15
  DEF Next, Tap, Resumes

\* With one screen at a time, every stored replay opens on a board of its own
\* game, at a capture whose label is the other colour's: the ply and the PGN that
\* saveBrilliantGame stores come from different objects and still belong
\* together (review_notifier.dart:339-346).
THEOREM ReplaysOpenOnSacrifices ==
  ASSUME MaxScreens = 1 PROVE Spec => []ReplayOpensOnSacrifice
<1>1. ReplayInv /\ [Next]_vars => ReplayInv'
  BY NextReplays
<1> QED BY <1>1, InitReplays, PTL DEF Spec, ReplayInv

\* With one screen at a time, the ply on screen always has a board, whether the
\* review was opened from the history, from storage or left by navigation.
THEOREM PliesOnBoards ==
  ASSUME MaxScreens = 1 PROVE Spec => []PlyHasBoard
<1>1. ReplayInv /\ [Next]_vars => ReplayInv'
  BY NextReplays
<1>2. ReplayInv => PlyHasBoard
  <2> SUFFICES ASSUME ReplayInv, screens > 0 PROVE current \in Notifiers
    BY DEF ReplayInv, PliesHaveBoards, PlyHasBoard, OnScreen
  <2> QED BY DEF ReplayInv, TypeInv, TypeOK, WellBound, Notifiers
<1> QED BY <1>1, <1>2, InitReplays, PTL DEF Spec

-----------------------------------------------------------------------------
(* The inductive invariant *)

Working(t) == task[t].pc \in {"before", "gotBefore", "after", "gotAfter"}

\* A notifier that was not created yet has its initial state.
NewReviewsFresh == \A n \in Notifiers : n > current => state[n] = FreshState

\* The timers ts set off none but runs that wait for their start, each once.
Pending(ts, waiting) ==
  \A i \in DOMAIN ts : ts[i].task # 0 =>
    /\ ts[i].task \in waiting
    /\ \A j \in DOMAIN ts : ts[j].task = ts[i].task => j = i

Starting == {t \in Tasks : task[t].pc = "starting"}

\* No review is worked on by two runs.
OneRunEach ==
  \A t, u \in Tasks :
    (Running(t) /\ Running(u) /\ task[t].notifier = task[u].notifier) => t = u

\* A run's review shows that it is analysed, also when it was closed.
RunsShown ==
  \A t \in Tasks : Running(t) => state[task[t].notifier].isAnalyzing

\* The plies that the board can show and that have no rating.
Missing(s) == {p \in 1..(s.game.boards - 1) : s.list[p] = Unrated}

\* What is true of every review at any time: ratings are there for plies with a
\* board only, totals are those of the ratings, and a full bar is honest.
Fit(s) ==
  /\ s.isAnalyzing => s.game \in Games
  /\ Len(s.list) = Len(s.game.moves)
  /\ \A p \in DOMAIN s.list : s.list[p] # Unrated => p < s.game.boards
  /\ \A p \in DOMAIN s.list : s.list[p] # "forced"
  /\ s.white = FromClassifications(s.list, TRUE)
  /\ s.black = FromClassifications(s.list, FALSE)
  /\ (s.progress = One /\ ~s.isAnalyzing) => Missing(s) = {}

\* The run has the ratings of its review, and what is missing still before it.
Holds(k, s) ==
  /\ k.list = s.list
  /\ k.total = Len(s.game.moves)
  /\ Missing(s) \subseteq k.left \cup {k.ply}

WorkInv ==
  /\ NewReviewsFresh
  /\ Pending(timers, Starting)
  /\ OneRunEach
  /\ RunsShown
  /\ \A n \in Notifiers : Fit(state[n])
  /\ \A t \in Tasks : Working(t) => Holds(task[t], state[task[t].notifier])
  /\ SpinnerTracksWork

-----------------------------------------------------------------------------
(* What the operations on one review keep *)

LEMMA FitFresh == Fit(FreshState)
<1> DEFINE s == FreshState
<1>1. /\ s.isAnalyzing = FALSE /\ s.list = <<>> /\ s.game = NoGame /\ s.progress = <<0, 1>>
      /\ s.white = NoTotals /\ s.black = NoTotals
  BY DEF FreshState, Zero
<1>2. \A w \in BOOLEAN : FromClassifications(<<>>, w) = NoTotals
  <2> SUFFICES ASSUME NEW w \in BOOLEAN
               PROVE  FromClassifications(<<>>, w) = NoTotals
    OBVIOUS
  <2>1. \A q \in Quality \ {"forced"} :
          {p \in DOMAIN <<>> : /\ <<>>[p] # Unrated
                               /\ PlyIsWhite(p) = w
                               /\ CountedAs(<<>>[p]) = q} = {}
    OBVIOUS
  <2>2. \A q \in Quality \ {"forced"} :
          Cardinality({p \in DOMAIN <<>> : /\ <<>>[p] # Unrated
                               /\ PlyIsWhite(p) = w
                               /\ CountedAs(<<>>[p]) = q}) = 0
    BY <2>1, FS_EmptySet
  <2> QED BY <2>2 DEF FromClassifications, NoTotals
<1>3. NoGame.moves = <<>> /\ <<0, 1>> # One /\ Len(<<>>) = 0 /\ DOMAIN <<>> = {}
  BY DEF NoGame, One
<1> HIDE DEF s
<1> QED BY <1>1, <1>2, <1>3 DEF Fit, s

\* Boards of a game that is open.
LEMMA GameBoards ==
  ASSUME NEW s \in ReviewStates, Fit(s)
  PROVE  /\ s.game.boards \in Nat
         /\ Len(s.list) \in Nat
         /\ DOMAIN s.list = 1..Len(s.list)
         /\ s.game.boards <= Len(s.list) + 1
         /\ \A p \in 1..(s.game.boards - 1) : p \in DOMAIN s.list
<1>1. s.game \in GameOrNone /\ s.list \in Seq(Quality \cup {Unrated})
  BY DEF ReviewStates, Ratings
<1>2. s.game.boards \in 0..(Len(s.game.moves) + 1) /\ Len(s.game.moves) \in Nat
  BY <1>1, GameTypes
<1>3. Len(s.list) \in Nat /\ DOMAIN s.list = 1..Len(s.list) /\ Len(s.list) = Len(s.game.moves)
  BY <1>1 DEF Fit
<1> QED BY <1>2, <1>3

\* A list of ratings that holds none counts none.
LEMMA NoRatingsNoTotals ==
  ASSUME NEW l \in Ratings, \A p \in DOMAIN l : l[p] = Unrated, NEW w \in BOOLEAN
  PROVE  FromClassifications(l, w) = NoTotals
<1>1. \A q \in Quality \ {"forced"} :
        {p \in DOMAIN l : /\ l[p] # Unrated
                          /\ PlyIsWhite(p) = w
                          /\ CountedAs(l[p]) = q} = {}
  OBVIOUS
<1>2. \A q \in Quality \ {"forced"} :
        Cardinality({p \in DOMAIN l : /\ l[p] # Unrated
                                      /\ PlyIsWhite(p) = w
                                      /\ CountedAs(l[p]) = q}) = 0
  BY <1>1, FS_EmptySet
<1> QED BY <1>2 DEF FromClassifications, NoTotals

\* A game loaded into a new review.
LEMMA FitLoaded ==
  ASSUME NEW g \in Games, NEW at \in Nat
  PROVE  /\ Fit(Loaded(FreshState, g, at))
         /\ Loaded(FreshState, g, at).game = g
         /\ Loaded(FreshState, g, at).list = [p \in 1..Len(g.moves) |-> Unrated]
         /\ ~Loaded(FreshState, g, at).isAnalyzing
         /\ ~Loaded(FreshState, g, at).alert
         /\ Loaded(FreshState, g, at) \in ReviewStates
<1> DEFINE l == [p \in 1..Len(g.moves) |-> Unrated]
           s == Loaded(FreshState, g, at)
<1>1. g \in GameOrNone /\ Len(g.moves) \in Nat
  BY GameTypes DEF GameOrNone
<1>2. l \in Ratings /\ Len(l) = Len(g.moves) /\ DOMAIN l = 1..Len(g.moves)
  BY <1>1 DEF Ratings
<1>3. /\ s.isAnalyzing = FALSE /\ s.list = l /\ s.game = g /\ s.progress = <<0, 1>>
      /\ s.white = NoTotals /\ s.black = NoTotals /\ s.alert = FALSE
  BY DEF FreshState, Zero, Loaded
<1>4. s \in ReviewStates
  <2>1. FreshState \in ReviewStates
    <3>1. NoTotals \in Totals /\ <<>> \in Ratings /\ NoGame \in GameOrNone
      BY DEF NoTotals, Totals, Ratings, GameOrNone
    <3> QED BY <3>1 DEF FreshState, ReviewStates, Zero
  <2> QED BY <1>1, <2>1, ReviewTypes
<1>5. \A p \in DOMAIN l : l[p] = Unrated
  BY <1>2
<1>6. \A w \in BOOLEAN : FromClassifications(l, w) = NoTotals
  BY <1>2, <1>5, NoRatingsNoTotals
<1>7. <<0, 1>> # One /\ Unrated # "forced"
  BY DEF One, Unrated
<1> HIDE DEF s, l
<1>8. Fit(s)
  BY <1>2, <1>3, <1>5, <1>6, <1>7 DEF Fit
<1> QED BY <1>3, <1>4, <1>8 DEF s, l

\* Two reviews that differ in ply, alert and error only.
SameWork(r, s) ==
  /\ r.game = s.game /\ r.list = s.list /\ r.isAnalyzing = s.isAnalyzing
  /\ r.progress = s.progress /\ r.white = s.white /\ r.black = s.black

LEMMA FitSame ==
  ASSUME NEW s, NEW r, Fit(s), SameWork(r, s)
  PROVE  Fit(r) /\ Missing(r) = Missing(s) /\ \A k : Holds(k, s) => Holds(k, r)
BY DEF Fit, SameWork, Missing, Holds

\* The analysis begins, and ends when nothing is missing.
LEMMA FitBeginEnd ==
  ASSUME NEW s \in ReviewStates, Fit(s)
  PROVE  /\ s.game \in Games => Fit(Analyzing(s))
         /\ Missing(s) = {} => Fit(Finished(s))
         /\ Analyzing(s).isAnalyzing /\ ~Finished(s).isAnalyzing
         /\ \A r \in {Analyzing(s), Finished(s)} :
              r.game = s.game /\ r.list = s.list /\ r.alert = s.alert /\ r.ply = s.ply
<1>1. \A r \in {Analyzing(s), Finished(s)} :
        /\ r.game = s.game /\ r.list = s.list /\ r.white = s.white /\ r.black = s.black
        /\ r.alert = s.alert /\ r.ply = s.ply
  BY DEF Analyzing, Finished, ReviewStates
<1>2. Analyzing(s).isAnalyzing = TRUE /\ Finished(s).isAnalyzing = FALSE
  BY DEF Analyzing, Finished, ReviewStates
<1> DEFINE a == Analyzing(s)
           f == Finished(s)
<1>3. Missing(a) = Missing(s) /\ Missing(f) = Missing(s)
  BY <1>1 DEF Missing
<1> HIDE DEF a, f
<1>4. s.game \in Games => Fit(a)
  BY <1>1, <1>2 DEF Fit, a
<1>5. Missing(s) = {} => Fit(f)
  BY <1>1, <1>2, <1>3 DEF Fit, f
<1> QED BY <1>1, <1>2, <1>4, <1>5 DEF a, f

\* One more rating.
LEMMA FitRated ==
  ASSUME NEW s \in ReviewStates, Fit(s), s.isAnalyzing,
         NEW k \in TaskStates, NEW q \in Quality, q # "forced",
         k.ply \in 1..(s.game.boards - 1), k.list = [s.list EXCEPT ![k.ply] = q]
  PROVE  /\ Fit(Rated(s, k, q))
         /\ Missing(Rated(s, k, q)) = Missing(s) \ {k.ply}
         /\ Rated(s, k, q).game = s.game
         /\ Rated(s, k, q).isAnalyzing
         /\ Rated(s, k, q).list = k.list
         /\ Rated(s, k, q).ply = s.ply
         /\ Rated(s, k, q).alert = (s.alert \/ (s.ply = k.ply /\ q = "brilliant"))
         /\ Len(k.list) = Len(s.list) /\ DOMAIN k.list = DOMAIN s.list
<1> DEFINE r == Rated(s, k, q)
<1>1. /\ r.game = s.game /\ r.list = k.list /\ r.isAnalyzing = s.isAnalyzing
      /\ r.white = FromClassifications(k.list, TRUE)
      /\ r.black = FromClassifications(k.list, FALSE)
      /\ r.ply = s.ply
      /\ r.alert = (s.alert \/ (s.ply = k.ply /\ q = "brilliant"))
  BY DEF Rated, ReviewStates
<1>2. /\ s.game.boards \in Nat /\ DOMAIN s.list = 1..Len(s.list) /\ Len(s.list) \in Nat
      /\ s.game.boards <= Len(s.list) + 1 /\ k.ply \in DOMAIN s.list
  BY GameBoards
<1>3. q # Unrated /\ s.list \in Seq(Quality \cup {Unrated})
  BY DEF Quality, Unrated, ReviewStates, Ratings
<1>4. Len(k.list) = Len(s.list) /\ DOMAIN k.list = DOMAIN s.list
  <2>1. k.list \in Seq(Quality \cup {Unrated}) /\ Len(k.list) = Len(s.list)
    BY <1>3, RatingType
  <2> QED BY <1>2, <2>1
<1>5. \A p \in DOMAIN s.list : k.list[p] = IF p = k.ply THEN q ELSE s.list[p]
  BY <1>3
<1>6. k.ply < s.game.boards
  BY <1>2
<1>7. \A p \in 1..(s.game.boards - 1) : p \in DOMAIN s.list
  BY <1>2
<1> HIDE DEF r
<1>8. Missing(r) = Missing(s) \ {k.ply}
  BY <1>1, <1>3, <1>5, <1>7 DEF Missing
<1>9. Fit(r)
  <2>1. Len(r.list) = Len(r.game.moves)
    BY <1>1, <1>4 DEF Fit
  <2>2. \A p \in DOMAIN r.list : r.list[p] # Unrated => p < r.game.boards
    BY <1>1, <1>4, <1>5, <1>6 DEF Fit
  <2>3. \A p \in DOMAIN r.list : r.list[p] # "forced"
    BY <1>1, <1>4, <1>5 DEF Fit
  <2> QED BY <1>1, <2>1, <2>2, <2>3 DEF Fit
<1> QED BY <1>1, <1>4, <1>8, <1>9 DEF r

-----------------------------------------------------------------------------
(* The steps of a run *)

\* The loop takes the plies it may take in an order without ties, so it leaves
\* none out.
LEMMA RankOrders ==
  ASSUME NEW k, k.total \in Nat, k.from \in Nat,
         NEW p \in Nat \ {0}, NEW q \in Nat \ {0}, p # q
  PROVE  Rank(k, p) # Rank(k, q) /\ Rank(k, p) \in Nat /\ Rank(k, q) \in Nat
<1>1. \A x \in Nat \ {0} : x \in Window(k) => x <= k.total
  BY DEF Window, Min2
<1> QED BY <1>1 DEF Rank

\* The run t of the review n ends, and fills the bar if its review is open.
RunEnds(t, n, s, k, ts) ==
  /\ \E x \in TaskStates : /\ task' = [task EXCEPT ![t] = x]
                            /\ x.pc = "done" /\ x.notifier = n
                            /\ x.answer = Nothing /\ x.answer2 = Nothing
  /\ timers' = ts
  /\ ~Mounted(n) => state' = s
  /\ Mounted(n) => /\ state' = [s EXCEPT ![n] = Finished(s[n])]
                   /\ Reviewable(s[n], k) = {}

\* The run takes a ply and asks for the position before it.
TakesPly(t, n, s, k, ts, x) ==
  /\ task' = [task EXCEPT ![t] = x]
  /\ x.pc = "before" /\ x.notifier = n /\ x.list = k.list
  /\ x.total = k.total /\ x.depth = k.depth /\ x.game = s[n].game
  /\ x.answer = Nothing /\ x.answer2 = Nothing
  /\ x.ply \in Reviewable(s[n], k)
  /\ Reviewable(s[n], k) \subseteq x.left \cup {x.ply}
  /\ timers' = Append(ts, AnswerTimer(Request(x, TRUE)))

\* The shared tail of EngineStarted and RatePly does the one or the other.
LEMMA ContinueWork ==
  ASSUME TypeOK, NEW t \in Tasks, NEW s \in [Notifiers -> ReviewStates],
         NEW k \in TaskStates, NEW ts, k.notifier \in Notifiers, Continue(t, s, k, ts)
  PROVE  \/ RunEnds(t, k.notifier, s, k, ts)
         \/ /\ Mounted(k.notifier)
            /\ state' = s
            /\ \E x \in TaskStates : TakesPly(t, k.notifier, s, k, ts, x)
<1> DEFINE n == k.notifier
           open == IF Mounted(n) THEN Reviewable(s[n], k) ELSE {}
           ply == NextPly(open, k)
           taken == [k EXCEPT !.pc = "before", !.game = s[n].game, !.ply = ply,
                              !.answer = Nothing, !.answer2 = Nothing,
                              !.left = {q \in @ : Rank(k, q) > Rank(k, ply)}]
           ended == [IdleTask EXCEPT !.pc = "done", !.notifier = n]
<1>1. CASE open = {}
  <2>1. /\ task' = [task EXCEPT ![t] = ended] /\ timers' = ts
        /\ state' = IF Mounted(n) THEN [s EXCEPT ![n] = Finished(@)] ELSE s
    BY <1>1 DEF Continue
  <2>2. /\ ended \in TaskStates /\ ended.pc = "done" /\ ended.notifier = n
        /\ ended.answer = Nothing /\ ended.answer2 = Nothing
    BY EndedTypes DEF IdleTask
  <2>3. Mounted(n) => Reviewable(s[n], k) = {}
    BY <1>1
  <2> HIDE DEF ended, open, n
  <2>4. \E x \in TaskStates : /\ task' = [task EXCEPT ![t] = x] /\ x.pc = "done" /\ x.notifier = n
                              /\ x.answer = Nothing /\ x.answer2 = Nothing
    BY <2>1, <2>2
  <2> QED BY <2>1, <2>3, <2>4 DEF n, RunEnds
<1>2. CASE open # {}
  <2>1. /\ task' = [task EXCEPT ![t] = taken] /\ state' = s
        /\ timers' = Append(ts, AnswerTimer(Request(taken, TRUE)))
    BY <1>2 DEF Continue
  <2>2. Mounted(n) /\ open = Reviewable(s[n], k)
    BY <1>2
  <2>3. open \in SUBSET (Nat \ {0}) /\ k.left \in SUBSET Nat /\ open \subseteq k.left
    BY <2>2 DEF Reviewable, TaskStates
  <2>4. ply \in open /\ \A q \in open : Rank(k, ply) <= Rank(k, q)
    <3> HIDE DEF open
    <3>1. \A p \in open : Rank(k, p) \in Nat
      BY <2>3 DEF Rank, TaskStates
    <3> DEFINE R == {Rank(k, p) : p \in open}
    <3>2. R \in SUBSET Nat /\ R # {}
      BY <1>2, <3>1
    <3> HIDE DEF R
    <3>3. PICK x \in R : \A y \in R : x <= y
      BY <3>2, LeastNumber
    <3>4. PICK p \in open : \A q \in open : Rank(k, p) <= Rank(k, q)
      BY <3>3 DEF R
    <3> QED BY <3>4 DEF NextPly
  <2>5. s[n].game \in GameOrNone
    BY DEF ReviewStates
  <2>6. taken \in TaskStates
    BY <2>3, <2>4, <2>5, TimerTypes DEF TaskStates
  <2>7. /\ taken.pc = "before" /\ taken.notifier = n /\ taken.list = k.list
        /\ taken.total = k.total /\ taken.depth = k.depth /\ taken.game = s[n].game
        /\ taken.ply = ply /\ taken.left = {q \in k.left : Rank(k, q) > Rank(k, ply)}
        /\ taken.answer = Nothing /\ taken.answer2 = Nothing
    BY DEF TaskStates
  <2> HIDE DEF taken, ply, open
  <2>8. open \subseteq taken.left \cup {taken.ply}
    <3> SUFFICES ASSUME NEW q \in open, q # ply
                 PROVE  Rank(k, q) > Rank(k, ply)
      BY <2>3, <2>7
    <3>1. k.total \in Nat /\ k.from \in Nat
      BY DEF TaskStates
    <3>2. q \in Nat \ {0} /\ ply \in Nat \ {0}
      BY <2>3, <2>4
    <3>3. Rank(k, ply) # Rank(k, q) /\ Rank(k, ply) \in Nat /\ Rank(k, q) \in Nat
      BY <3>1, <3>2, RankOrders
    <3> QED BY <2>4, <3>3
  <2> HIDE DEF n
  <2> QED BY <2>1, <2>2, <2>4, <2>6, <2>7, <2>8 DEF n, TakesPly
<1> QED BY <1>1, <1>2

\* The start timer i sets off the run t, which is k when it enters the loop; a
\* game without moves is done at once.
SetsOff(i, t, k) ==
  /\ t = timers[i].task /\ task[t].pc = "starting"
  /\ k.notifier = task[t].notifier /\ k.depth = settings.depth
  /\ k.list = state[k.notifier].list /\ k.total = Len(state[k.notifier].game.moves)
  /\ Missing(state[k.notifier]) \subseteq k.left
  /\ \/ Continue(t, state, k, Drop(timers, i))
     \/ /\ Missing(state[k.notifier]) = {}
        /\ state' = [state EXCEPT ![k.notifier] = Finished(state[k.notifier])]
        /\ timers' = Drop(timers, i)
        /\ \E x \in TaskStates : /\ task' = [task EXCEPT ![t] = x]
                                 /\ x.pc = "done" /\ x.notifier = k.notifier
                                 /\ x.answer = Nothing /\ x.answer2 = Nothing

\* What EngineStarted does, once the invariant is known.
LEMMA StartedWork ==
  ASSUME TypeInv, WorkInv, NEW i \in DOMAIN timers, EngineStarted(i)
  PROVE  \E t \in Tasks, k \in TaskStates : SetsOff(i, t, k)
<1> DEFINE t == timers[i].task
           n == task[t].notifier
           s == state[n]
           k == [task[t] EXCEPT !.depth = settings.depth, !.total = Len(s.game.moves),
                                !.from = s.ply, !.list = s.list]
           looping == [k EXCEPT !.left = OrderedPlies(k)]
           ended == [IdleTask EXCEPT !.pc = "done", !.notifier = n]
<1>1. t \in Tasks /\ t # 0 /\ task[t].pc = "starting"
  BY FiredTypes DEF EngineStarted, WorkInv, Pending, Starting
<1>2. n \in Notifiers
  BY <1>1, BoundsAssumption DEF TypeInv, TypeOK, WellBound, Notifiers
<1>3. s \in ReviewStates /\ Fit(s)
  BY <1>2 DEF TypeInv, TypeOK, WorkInv
<1>4. Len(s.game.moves) \in Nat /\ s.ply \in Nat /\ s.list \in Ratings
  BY <1>3, GameTypes DEF ReviewStates
<1>5. task[t] \in TaskStates /\ settings.depth \in Nat
  BY <1>1 DEF TypeInv, TypeOK
<1>6. /\ k \in TaskStates /\ k.notifier = n /\ k.depth = settings.depth /\ k.list = s.list
      /\ k.total = Len(s.game.moves) /\ k.from = s.ply
  BY <1>4, <1>5 DEF TaskStates
<1> HIDE DEF k
<1>7. OrderedPlies(k) \in SUBSET Nat /\ 1..k.total \subseteq OrderedPlies(k)
  <2>1. k.from \in Nat /\ k.total \in Nat
    BY <1>4, <1>6
  <2>2. Min2(k.from + 3, k.total) \in Nat
    BY <2>1 DEF Min2
  <2>3. Window(k) \subseteq Nat
    BY <2>1, <2>2 DEF Window
  <2> QED BY <2>1, <2>3 DEF OrderedPlies
<1>8. /\ looping \in TaskStates /\ looping.notifier = n /\ looping.depth = settings.depth
      /\ looping.list = s.list /\ looping.total = Len(s.game.moves)
      /\ looping.left = OrderedPlies(k)
  BY <1>6, <1>7 DEF TaskStates
<1>9. Missing(s) \subseteq 1..k.total
  <2>1. s.game.boards \in Nat /\ s.game.boards <= Len(s.list) + 1 /\ Len(s.list) = k.total
    BY <1>3, <1>6, GameBoards DEF Fit
  <2> QED BY <1>4, <1>6, <2>1 DEF Missing
<1>10. CASE k.total = 0
  <2>1. /\ state' = [state EXCEPT ![n] = Finished(s)]
        /\ task' = [task EXCEPT ![t] = ended]
        /\ timers' = Drop(timers, i)
    BY <1>10 DEF EngineStarted, k
  <2>2. /\ ended \in TaskStates /\ ended.pc = "done" /\ ended.notifier = n
        /\ ended.answer = Nothing /\ ended.answer2 = Nothing
    BY <1>2, EndedTypes DEF IdleTask
  <2>3. Missing(s) = {}
    BY <1>9, <1>10
  <2> HIDE DEF ended, looping
  <2>4. \E x \in TaskStates : /\ task' = [task EXCEPT ![t] = x] /\ x.pc = "done" /\ x.notifier = n
                              /\ x.answer = Nothing /\ x.answer2 = Nothing
    BY <2>1, <2>2
  <2> HIDE DEF n, t
  <2>5. SetsOff(i, t, looping)
    BY <1>1, <1>7, <1>8, <1>9, <2>1, <2>3, <2>4 DEF n, t, SetsOff
  <2> QED BY <1>1, <1>8, <2>5
<1>11. CASE k.total # 0
  <2>1. Continue(t, state, looping, Drop(timers, i))
    BY <1>11 DEF EngineStarted, k
  <2> HIDE DEF looping, n, t
  <2>2. SetsOff(i, t, looping)
    BY <1>1, <1>7, <1>8, <1>9, <2>1 DEF n, t, SetsOff
  <2> QED BY <1>1, <1>8, <2>2
<1> QED BY <1>10, <1>11

\* The run t rates its ply as q: it is k when it goes on, and the reviews are s.
RatesAs(t, k, q, s) ==
  /\ task[t].pc = "gotAfter" /\ task[t].ply \in 1..(task[t].game.boards - 1)
  /\ q = Verdict(task[t]) /\ q # "forced"
  /\ k.notifier = task[t].notifier /\ k.ply = task[t].ply /\ k.depth = task[t].depth
  /\ k.total = task[t].total /\ k.left = task[t].left
  /\ k.list = [task[t].list EXCEPT ![k.ply] = q]
  /\ s = IF Mounted(k.notifier)
         THEN [state EXCEPT ![k.notifier] = Rated(state[k.notifier], k, q)]
         ELSE state
  /\ Continue(t, s, k, timers)

\* What RatePly does, once the invariants are known: the list is long enough for
\* the ply, so the run never fails.
LEMMA RatedWork ==
  ASSUME ReplayInv, WorkInv, NEW t \in Tasks, RatePly(t)
  PROVE  \E k \in TaskStates, q \in Quality, s \in [Notifiers -> ReviewStates] :
           RatesAs(t, k, q, s)
<1> DEFINE k == task[t]
           n == k.notifier
           q == Verdict(k)
           rated == [k EXCEPT !.list[k.ply] = q, !.analyzed = @ + 1]
           r == Rated(state[n], rated, q)
           shown == IF Mounted(n) THEN [state EXCEPT ![n] = r] ELSE state
<1>1. k \in TaskStates /\ k.pc = "gotAfter"
  BY DEF RatePly, ReplayInv, TypeInv, TypeOK
<1>2. n \in Notifiers /\ state[n] \in ReviewStates /\ Fit(state[n])
  BY <1>1, BoundsAssumption DEF ReplayInv, TypeInv, TypeOK, WellBound, Notifiers, WorkInv
<1>3. q \in Quality
  BY ClassifyType DEF Verdict
<1>4. q # "forced"
  BY DEF Verdict, Classify
<1>5. k.game = state[n].game /\ k.ply \in 1..(k.game.boards - 1)
  BY <1>1 DEF ReplayInv, RunsKeepTheirGame
<1>6. k.list = state[n].list
  BY <1>1 DEF WorkInv, Working, Holds
<1>7. k.ply <= Len(k.list)
  <2>1. k.ply \in 1..(state[n].game.boards - 1)
    BY <1>5
  <2>2. /\ state[n].game.boards \in Nat /\ Len(state[n].list) \in Nat
        /\ state[n].game.boards <= Len(state[n].list) + 1
    BY <1>2, GameBoards
  <2> QED BY <1>6, <2>1, <2>2
<1>8. rated \in TaskStates
  <2>1. k.list \in Ratings /\ k.analyzed + 1 \in Nat /\ q \in Quality \cup {Unrated}
    BY <1>1, <1>3 DEF TaskStates
  <2> HIDE DEF q
  <2>2. [k.list EXCEPT ![k.ply] = q] \in Ratings
    BY <2>1, RatingType DEF Ratings
  <2> QED BY <1>1, <2>1, <2>2 DEF TaskStates
<1>9. /\ rated.notifier = n /\ rated.ply = k.ply /\ rated.depth = k.depth /\ rated.total = k.total
      /\ rated.left = k.left /\ rated.list = [k.list EXCEPT ![k.ply] = q]
  <2> HIDE DEF q
  <2> QED BY <1>1 DEF TaskStates
<1> HIDE DEF q, rated
<1>10. r \in ReviewStates
  BY <1>2, <1>3, <1>8, ReviewTypes
<1>11. shown \in [Notifiers -> ReviewStates]
  BY <1>2, <1>10 DEF ReplayInv, TypeInv, TypeOK
<1>12. Continue(t, shown, rated, timers)
  <2>1. k.ply \in Nat /\ Len(k.list) \in Nat
    BY <1>1 DEF TaskStates, Ratings
  <2>2. ~(k.ply > Len(k.list))
    BY <1>7, <2>1
  <2> QED BY <2>2 DEF RatePly, rated, q
<1> HIDE DEF shown
<1>13. shown = IF Mounted(rated.notifier)
               THEN [state EXCEPT ![rated.notifier] = Rated(state[rated.notifier], rated, q)]
               ELSE state
  BY <1>9 DEF shown
<1> HIDE DEF n, k
<1>14. /\ task[t].pc = "gotAfter" /\ task[t].ply \in 1..(task[t].game.boards - 1)
       /\ q = Verdict(task[t])
  BY <1>1, <1>5 DEF k, n, q
<1>15. /\ rated.notifier = task[t].notifier /\ rated.ply = task[t].ply
       /\ rated.depth = task[t].depth /\ rated.total = task[t].total
       /\ rated.left = task[t].left /\ rated.list = [task[t].list EXCEPT ![rated.ply] = q]
  BY <1>9 DEF k, n
<1>16. RatesAs(t, rated, q, shown)
  BY <1>4, <1>12, <1>13, <1>14, <1>15 DEF RatesAs
<1> QED BY <1>3, <1>8, <1>11, <1>16

-----------------------------------------------------------------------------
(* The invariant and the timers *)

\* Without the timer that fired, the run it set off is pending no more.
LEMMA DropPending ==
  ASSUME NEW ts \in Seq(Timers), NEW W, Pending(ts, W), NEW i \in DOMAIN ts
  PROVE  Pending(Drop(ts, i), W \ {ts[i].task})
<1> DEFINE d == Drop(ts, i)
           at(j) == IF j < i THEN j ELSE j + 1
<1>1. Len(ts) \in Nat /\ i \in 1..Len(ts) /\ DOMAIN ts = 1..Len(ts)
  OBVIOUS
<1>2. DOMAIN d = 1..(Len(ts) - 1) /\ \A j \in DOMAIN d : d[j] = ts[at(j)]
  BY <1>1 DEF Drop
<1>3. \A j \in DOMAIN d : at(j) \in DOMAIN ts /\ at(j) # i
  BY <1>1, <1>2
<1>4. \A j, l \in DOMAIN d : at(j) = at(l) => j = l
  BY <1>1, <1>2
<1> HIDE DEF d, at
<1>5. ASSUME NEW j \in DOMAIN d, d[j].task # 0
      PROVE  /\ d[j].task \in W /\ d[j].task # ts[i].task
             /\ \A l \in DOMAIN d : d[l].task = d[j].task => l = j
  <2>1. ts[at(j)].task # 0 /\ at(j) \in DOMAIN ts /\ at(j) # i
    BY <1>2, <1>3, <1>5
  <2>2. /\ ts[at(j)].task \in W
        /\ \A l \in DOMAIN ts : ts[l].task = ts[at(j)].task => l = at(j)
    BY <2>1 DEF Pending
  <2> QED BY <1>2, <1>3, <1>4, <2>1, <2>2
<1>6. Pending(d, W \ {ts[i].task})
  BY <1>5 DEF Pending
<1> QED BY <1>6 DEF d

\* A request adds no start.
LEMMA RequestPending ==
  ASSUME NEW ts \in Seq(Timers), NEW W, Pending(ts, W), NEW x \in Timers, x.task = 0
  PROVE  Pending(Append(ts, x), W)
<1> DEFINE a == Append(ts, x)
<1>1. /\ Len(ts) \in Nat /\ DOMAIN ts = 1..Len(ts) /\ DOMAIN a = 1..(Len(ts) + 1)
      /\ a[Len(ts) + 1] = x /\ \A j \in DOMAIN ts : a[j] = ts[j]
  OBVIOUS
<1> HIDE DEF a
<1>2. \A j \in DOMAIN a : a[j].task # 0 => j \in DOMAIN ts
  BY <1>1
<1>3. \A j \in DOMAIN ts : j \in DOMAIN a
  BY <1>1
<1> QED BY <1>1, <1>2, <1>3 DEF Pending, a

\* A start timer for a run that had none.
LEMMA StartPending ==
  ASSUME NEW ts \in Seq(Timers), NEW W, Pending(ts, W), NEW t \in Tasks, t \notin W
  PROVE  Pending(Append(ts, StartTimer(t)), W \cup {t})
<1> DEFINE x == StartTimer(t)
           a == Append(ts, x)
<1>1. x.task = t /\ x \in Timers
  BY TimerTypes DEF StartTimer
<1> HIDE DEF x
<1>2. /\ Len(ts) \in Nat /\ DOMAIN ts = 1..Len(ts) /\ DOMAIN a = 1..(Len(ts) + 1)
      /\ a[Len(ts) + 1] = x /\ \A j \in DOMAIN ts : a[j] = ts[j]
  OBVIOUS
<1> HIDE DEF a
<1>3. t # 0
  BY BoundsAssumption DEF Tasks
<1>4. \A j \in DOMAIN ts : ts[j].task # t
  BY <1>3 DEF Pending
<1>5. \A j \in DOMAIN a : j \in DOMAIN ts \/ j = Len(ts) + 1
  BY <1>2
<1> QED BY <1>1, <1>2, <1>4, <1>5 DEF Pending, a, x

-----------------------------------------------------------------------------
(* Every kind of step keeps the invariant *)

\* A run ends.
LEMMA EndedWork ==
  ASSUME TypeInv, TypeInv', WorkInv, NEW t \in Tasks, Running(t), NEW x \in TaskStates,
         task' = [task EXCEPT ![t] = x], x.pc = "done",
         \A m \in Notifiers : m # task[t].notifier => state'[m] = state[m],
         Fit(state'[task[t].notifier]), Mounted(task[t].notifier) =>
            ~state'[task[t].notifier].isAnalyzing,
         UNCHANGED <<current, screens>>, Pending(timers', Starting \ {t})
  PROVE  WorkInv'
<1> DEFINE n == task[t].notifier
<1>1. n \in 1..current /\ n \in Notifiers
  BY BoundsAssumption DEF Running, TypeInv, TypeOK, WellBound, Notifiers
<1>2. \A u \in Tasks : u # t => task'[u] = task[u]
  BY DEF TypeInv, TypeOK
<1>3. task'[t] = x
  BY DEF TypeInv, TypeOK
<1>4. NewReviewsFresh'
  <2>1. \A m \in Notifiers : m > current => m # n
    BY <1>1 DEF TypeInv, TypeOK
  <2> QED BY <2>1 DEF WorkInv, NewReviewsFresh
<1>5. Pending(timers', Starting')
  <2>1. Starting \ {t} \subseteq Starting'
    BY <1>2 DEF Starting
  <2> QED BY <2>1 DEF Pending
<1>6. \A u \in Tasks : Running(u)' => u # t /\ Running(u) /\ task'[u] = task[u]
  BY <1>2, <1>3 DEF Running
<1>7. \A u \in Tasks : Running(u) /\ u # t => task[u].notifier # n
  BY DEF WorkInv, OneRunEach
<1>8. OneRunEach'
  BY <1>6 DEF WorkInv, OneRunEach
<1>9. \A u \in Tasks : Running(u)' => state'[task'[u].notifier] = state[task[u].notifier]
  <2> SUFFICES ASSUME NEW u \in Tasks, Running(u)'
               PROVE  state'[task'[u].notifier] = state[task[u].notifier]
    OBVIOUS
  <2>1. Running(u) /\ task'[u] = task[u] /\ task[u].notifier # n
    BY <1>6, <1>7
  <2>2. task[u].notifier \in Notifiers
    BY <2>1, BoundsAssumption DEF Running, TypeInv, TypeOK, WellBound, Notifiers
  <2> QED BY <2>1, <2>2
<1>10. RunsShown'
  BY <1>6, <1>9 DEF WorkInv, RunsShown
<1>11. \A m \in Notifiers : Fit(state'[m])
  BY DEF WorkInv
<1>12. \A u \in Tasks : Working(u)' => Holds(task'[u], state'[task'[u].notifier])
  <2>1. \A u \in Tasks : Working(u)' => Running(u)'
    BY DEF Working, Running
  <2>2. \A u \in Tasks : Running(u)' /\ Working(u)' => Working(u)
    BY <1>6 DEF Working
  <2> QED BY <1>6, <1>9, <2>1, <2>2 DEF WorkInv
<1>13. SpinnerTracksWork'
  <2> SUFFICES ASSUME screens > 0
               PROVE  state'[current].isAnalyzing <=>
                        \E u \in Tasks : Running(u)' /\ task'[u].notifier = current
    BY DEF SpinnerTracksWork, OnScreen
  <2>1. CASE n = current
    <3>1. \A u \in Tasks : Running(u)' => task'[u].notifier # current
      BY <1>6, <1>7, <2>1
    <3> QED BY <2>1, <3>1 DEF Mounted
  <2>2. CASE n # current
    <3>1. current \in Notifiers
      BY BoundsAssumption DEF TypeInv, TypeOK, WellBound, Notifiers
    <3>2. state'[current] = state[current]
      BY <2>2, <3>1
    <3>3. \A u \in Tasks : Running(u) /\ task[u].notifier = current =>
             Running(u)' /\ task'[u].notifier = current
      BY <1>2, <2>2 DEF Running
    <3> QED BY <1>6, <3>2, <3>3 DEF WorkInv, SpinnerTracksWork, OnScreen
  <2> QED BY <2>1, <2>2
<1> QED BY <1>4, <1>5, <1>8, <1>10, <1>11, <1>12, <1>13 DEF WorkInv

\* Runs go on to their next await, and their reviews may get a rating.
LEMMA MovedWork ==
  ASSUME TypeInv, TypeInv', WorkInv,
         \A u \in Tasks :
           task'[u] = task[u] \/ (Running(u) /\ Working(u)' /\ task'[u].notifier = task[u].notifier),
         \A n \in Notifiers :
           \/ state'[n] = state[n]
           \/ n <= current /\ Fit(state'[n]) /\ (state'[n].isAnalyzing <=> state[n].isAnalyzing),
         \A u \in Tasks : Working(u)' => Holds(task'[u], state'[task'[u].notifier]),
         UNCHANGED <<current, screens>>, Pending(timers', Starting')
  PROVE  WorkInv'
<1>1. NewReviewsFresh'
  <2>1. \A n \in Notifiers : n > current => ~(n <= current)
    BY DEF TypeInv, TypeOK, Notifiers
  <2> QED BY <2>1 DEF WorkInv, NewReviewsFresh
<1>2. \A u \in Tasks : /\ Running(u)' <=> Running(u)
                       /\ Running(u) => task'[u].notifier = task[u].notifier
  BY DEF Running, Working
<1>3. OneRunEach'
  BY <1>2 DEF WorkInv, OneRunEach
<1>4. \A n \in Notifiers : state'[n].isAnalyzing <=> state[n].isAnalyzing
  OBVIOUS
<1>5. RunsShown'
  <2>1. \A u \in Tasks : Running(u) => task[u].notifier \in Notifiers
    BY BoundsAssumption DEF Running, TypeInv, TypeOK, WellBound, Notifiers
  <2> QED BY <1>2, <1>4, <2>1 DEF WorkInv, RunsShown
<1>6. \A n \in Notifiers : Fit(state'[n])
  BY DEF WorkInv
<1>7. SpinnerTracksWork'
  <2> SUFFICES ASSUME screens > 0
               PROVE  state'[current].isAnalyzing <=>
                        \E u \in Tasks : Running(u)' /\ task'[u].notifier = current
    BY DEF SpinnerTracksWork, OnScreen
  <2>1. current \in Notifiers
    BY BoundsAssumption DEF TypeInv, TypeOK, WellBound, Notifiers
  <2> QED BY <1>2, <1>4, <2>1 DEF WorkInv, SpinnerTracksWork, OnScreen
<1> QED BY <1>1, <1>3, <1>5, <1>6, <1>7 DEF WorkInv

\* The shared tail of EngineStarted and RatePly, called on the reviews s with the
\* run k as their steps have changed them.
LEMMA ContinueKeepsWork ==
  ASSUME TypeInv, TypeInv', WorkInv, NEW t \in Tasks, Running(t),
         NEW k \in TaskStates, k.notifier = task[t].notifier,
         NEW s \in [Notifiers -> ReviewStates],
         \A m \in Notifiers : m # k.notifier => s[m] = state[m],
         Fit(s[k.notifier]), s[k.notifier].isAnalyzing,
         k.list = s[k.notifier].list \/ ~Mounted(k.notifier),
         k.total = Len(s[k.notifier].game.moves),
         Missing(s[k.notifier]) \subseteq k.left \/ ~Mounted(k.notifier),
         NEW ts \in Seq(Timers), Pending(ts, Starting \ {t}),
         Continue(t, s, k, ts), UNCHANGED <<current, screens>>
  PROVE  WorkInv'
<1> DEFINE n == k.notifier
<1>1. n \in 1..current /\ n \in Notifiers
  BY BoundsAssumption DEF Running, TypeInv, TypeOK, WellBound, Notifiers
<1>2. s[n] \in ReviewStates /\ state[n].isAnalyzing
  BY <1>1 DEF WorkInv, RunsShown
<1>3. Mounted(n) => Missing(s[n]) \subseteq Reviewable(s[n], k)
  <2>1. s[n].game.boards \in Nat
    BY <1>2, GameBoards
  <2> QED BY <2>1 DEF Missing, Reviewable
<1> DEFINE f == Finished(s[n])
<1>4. ~f.isAnalyzing /\ (Missing(s[n]) = {} => Fit(f))
  BY <1>2, FitBeginEnd
<1>5. \/ RunEnds(t, n, s, k, ts)
      \/ Mounted(n) /\ state' = s /\ \E x \in TaskStates : TakesPly(t, n, s, k, ts, x)
  BY <1>1, ContinueWork DEF TypeInv
<1> HIDE DEF f
<1>6. CASE RunEnds(t, n, s, k, ts)
  <2>1. PICK x \in TaskStates : task' = [task EXCEPT ![t] = x] /\ x.pc = "done"
    BY <1>6 DEF RunEnds
  <2>2. \A m \in Notifiers : m # n => state'[m] = state[m]
    BY <1>6 DEF RunEnds
  <2>3. Fit(state'[n]) /\ (Mounted(n) => ~state'[n].isAnalyzing)
    BY <1>1, <1>3, <1>4, <1>6 DEF RunEnds, f
  <2>4. timers' = ts
    BY <1>6 DEF RunEnds
  <2> QED BY <2>1, <2>2, <2>3, <2>4, EndedWork
<1>7. CASE Mounted(n) /\ state' = s /\ \E x \in TaskStates : TakesPly(t, n, s, k, ts, x)
  <2>1. PICK x \in TaskStates :
          /\ task' = [task EXCEPT ![t] = x]
          /\ x.pc = "before" /\ x.notifier = n /\ x.list = k.list /\ x.total = k.total
          /\ Reviewable(s[n], k) \subseteq x.left \cup {x.ply}
          /\ timers' = Append(ts, AnswerTimer(Request(x, TRUE)))
    BY <1>7 DEF TakesPly
  <2>2. task'[t] = x /\ \A u \in Tasks : u # t => task'[u] = task[u]
    BY <2>1 DEF TypeInv, TypeOK
  <2>3. Pending(timers', Starting')
    <3> DEFINE a == AnswerTimer(Request(x, TRUE))
    <3>1. a \in Timers /\ a.task = 0
      BY TimerTypes DEF AnswerTimer
    <3> HIDE DEF a
    <3>2. Pending(Append(ts, a), Starting \ {t})
      BY <3>1, RequestPending
    <3>3. Starting \ {t} \subseteq Starting'
      BY <2>2 DEF Starting
    <3> QED BY <2>1, <3>2, <3>3 DEF Pending, a
  <2>4. Holds(x, s[n])
    BY <1>3, <1>7, <2>1 DEF Holds
  <2>5. Working(t)'
    BY <2>1, <2>2 DEF Working
  <2>6. \A u \in Tasks : u # t => (Working(u)' <=> Working(u))
    BY <2>2 DEF Working
  <2>7. \A u \in Tasks : Working(u) => Running(u)
    BY DEF Working, Running
  <2>8. ASSUME NEW u \in Tasks, Working(u)'
        PROVE  Holds(task'[u], state'[task'[u].notifier])
    <3>1. CASE u = t
      BY <1>7, <2>1, <2>2, <2>4, <3>1
    <3>2. CASE u # t
      <4>1. Working(u) /\ Running(u) /\ task'[u] = task[u]
        BY <2>2, <2>6, <2>7, <2>8, <3>2
      <4>2. task[u].notifier # n
        BY <3>2, <4>1 DEF WorkInv, OneRunEach
      <4>3. task[u].notifier \in Notifiers
        BY <4>1, BoundsAssumption DEF Running, TypeInv, TypeOK, WellBound, Notifiers
      <4>4. state'[task[u].notifier] = state[task[u].notifier]
        BY <1>7, <4>2, <4>3
      <4> QED BY <4>1, <4>4 DEF WorkInv
    <3> QED BY <3>1, <3>2
  <2>9. \A u \in Tasks :
           task'[u] = task[u] \/ (Running(u) /\ Working(u)' /\ task'[u].notifier = task[u].notifier)
    BY <2>1, <2>2, <2>5
  <2>10. \A m \in Notifiers :
           \/ state'[m] = state[m]
           \/ m <= current /\ Fit(state'[m]) /\ (state'[m].isAnalyzing <=> state[m].isAnalyzing)
    <3>1. n <= current
      BY <1>1
    <3> QED BY <1>2, <1>7, <3>1
  <2> QED BY <2>3, <2>8, <2>9, <2>10, MovedWork
<1> QED BY <1>5, <1>6, <1>7

LEMMA EngineStartedWork ==
  ASSUME TypeInv, TypeInv', WorkInv, NEW i \in DOMAIN timers, EngineStarted(i)
  PROVE  WorkInv'
<1>0. PICK t \in Tasks, k \in TaskStates : SetsOff(i, t, k)
  BY StartedWork
<1>1. /\ t = timers[i].task /\ task[t].pc = "starting"
      /\ k.notifier = task[t].notifier
      /\ k.list = state[k.notifier].list /\ k.total = Len(state[k.notifier].game.moves)
      /\ Missing(state[k.notifier]) \subseteq k.left
      /\ \/ Continue(t, state, k, Drop(timers, i))
         \/ /\ Missing(state[k.notifier]) = {}
            /\ state' = [state EXCEPT ![k.notifier] = Finished(state[k.notifier])]
            /\ timers' = Drop(timers, i)
            /\ \E x \in TaskStates : task' = [task EXCEPT ![t] = x] /\ x.pc = "done"
  BY <1>0 DEF SetsOff
<1> DEFINE n == k.notifier
           ts == Drop(timers, i)
<1>2. Running(t)
  BY <1>1 DEF Running
<1>3. n \in Notifiers
  BY <1>1, <1>2, BoundsAssumption DEF Running, TypeInv, TypeOK, WellBound, Notifiers
<1>4. state[n] \in ReviewStates /\ Fit(state[n]) /\ state[n].isAnalyzing
  BY <1>1, <1>2, <1>3 DEF TypeInv, TypeOK, WorkInv, RunsShown
<1>5. ts \in Seq(Timers) /\ Pending(ts, Starting \ {t})
  <2>1. timers \in Seq(Timers) /\ Pending(timers, Starting)
    BY DEF TypeInv, TypeOK, WorkInv
  <2> QED BY <1>1, <2>1, DropType, DropPending
<1>6. UNCHANGED <<current, screens>>
  BY DEF EngineStarted
<1> HIDE DEF ts
<1>7. CASE Continue(t, state, k, ts)
  <2>1. state \in [Notifiers -> ReviewStates]
    BY DEF TypeInv, TypeOK
  <2> QED BY <1>1, <1>2, <1>4, <1>5, <1>6, <1>7, <2>1, ContinueKeepsWork
<1>8. CASE /\ Missing(state[n]) = {}
           /\ state' = [state EXCEPT ![n] = Finished(state[n])]
           /\ timers' = ts
           /\ \E x \in TaskStates : task' = [task EXCEPT ![t] = x] /\ x.pc = "done"
  <2>1. PICK x \in TaskStates : task' = [task EXCEPT ![t] = x] /\ x.pc = "done"
    BY <1>8
  <2> DEFINE f == Finished(state[n])
  <2>2. Fit(f) /\ ~f.isAnalyzing
    BY <1>4, <1>8, FitBeginEnd
  <2> HIDE DEF f
  <2>3. state' = [state EXCEPT ![n] = f]
    BY <1>8 DEF f
  <2>4. state'[n] = f /\ \A m \in Notifiers : m # n => state'[m] = state[m]
    BY <1>3, <2>3 DEF TypeInv, TypeOK
  <2> QED BY <1>1, <1>2, <1>5, <1>6, <1>8, <2>1, <2>2, <2>4, EndedWork
<1> QED BY <1>1, <1>7, <1>8 DEF ts

LEMMA RatePlyWork ==
  ASSUME ReplayInv, TypeInv', WorkInv, NEW t \in Tasks, RatePly(t)
  PROVE  WorkInv'
<1>0. PICK k \in TaskStates, q \in Quality, s \in [Notifiers -> ReviewStates] :
        RatesAs(t, k, q, s)
  BY RatedWork
<1>1. /\ task[t].pc = "gotAfter" /\ task[t].ply \in 1..(task[t].game.boards - 1)
      /\ q # "forced"
      /\ k.notifier = task[t].notifier /\ k.ply = task[t].ply
      /\ k.total = task[t].total /\ k.left = task[t].left
      /\ k.list = [task[t].list EXCEPT ![k.ply] = q]
      /\ s = IF Mounted(k.notifier)
             THEN [state EXCEPT ![k.notifier] = Rated(state[k.notifier], k, q)]
             ELSE state
      /\ Continue(t, s, k, timers)
  BY <1>0 DEF RatesAs
<1> DEFINE n == k.notifier
<1>2. TypeInv /\ Running(t) /\ Working(t)
  BY <1>1 DEF ReplayInv, Running, Working
<1>3. n \in Notifiers
  BY <1>1, <1>2, BoundsAssumption DEF Running, TypeInv, TypeOK, WellBound, Notifiers
<1>4. state[n] \in ReviewStates /\ Fit(state[n]) /\ state[n].isAnalyzing
  BY <1>1, <1>2, <1>3 DEF TypeInv, TypeOK, WorkInv, RunsShown
<1>5. /\ task[t].list = state[n].list /\ task[t].total = Len(state[n].game.moves)
      /\ Missing(state[n]) \subseteq task[t].left \cup {task[t].ply}
  BY <1>1, <1>2 DEF WorkInv, Holds
<1>6. task[t].game = state[n].game
  BY <1>1 DEF ReplayInv, RunsKeepTheirGame
<1>7. timers \in Seq(Timers) /\ Pending(timers, Starting \ {t})
  <2>1. t \notin Starting
    BY <1>1 DEF Starting
  <2>2. Starting \ {t} = Starting
    BY <2>1
  <2> QED BY <2>2 DEF TypeInv, TypeOK, WorkInv, ReplayInv
<1>8. UNCHANGED <<current, screens>>
  BY DEF RatePly
<1>9. CASE Mounted(n)
  <2> DEFINE r == Rated(state[n], k, q)
  <2>1. /\ Fit(r) /\ Missing(r) = Missing(state[n]) \ {k.ply} /\ r.isAnalyzing
        /\ r.list = k.list /\ r.game = state[n].game
    BY <1>1, <1>4, <1>5, <1>6, FitRated
  <2> HIDE DEF r
  <2>2. s = [state EXCEPT ![n] = r]
    BY <1>1, <1>9 DEF r
  <2>3. s[n] = r /\ \A m \in Notifiers : m # n => s[m] = state[m]
    BY <1>2, <1>3, <2>2 DEF TypeInv, TypeOK
  <2>4. Missing(r) \subseteq k.left
    BY <1>1, <1>5, <2>1
  <2>5. k.total = Len(s[n].game.moves)
    BY <1>1, <1>5, <2>1, <2>3
  <2> QED BY <1>1, <1>2, <1>7, <1>8, <2>1, <2>3, <2>4, <2>5, ContinueKeepsWork
<1>10. CASE ~Mounted(n)
  <2>1. s = state
    BY <1>1, <1>10
  <2>2. k.total = Len(s[n].game.moves)
    BY <1>1, <1>5, <2>1
  <2> QED BY <1>1, <1>2, <1>4, <1>7, <1>8, <1>10, <2>1, <2>2, ContinueKeepsWork
<1> QED BY <1>9, <1>10

\* _startAnalysis is called for a review that no run works on.
LEMMA CalledWork ==
  ASSUME TypeInv, TypeInv', WorkInv, NEW t \in Tasks, NEW n \in Notifiers,
         NEW s \in ReviewStates, Fit(s), s.game \in Games, StartAnalysis(t, n, s),
         n = current', current <= current',
         \A u \in Tasks : Running(u) => task[u].notifier # n
  PROVE  WorkInv'
<1> DEFINE a == Analyzing(s)
           x == [IdleTask EXCEPT !.pc = "starting", !.notifier = n]
<1>1. /\ state' = [state EXCEPT ![n] = a] /\ task' = [task EXCEPT ![t] = x]
      /\ timers' = Append(timers, StartTimer(t)) /\ task[t].pc = "idle"
  BY DEF StartAnalysis, NextTask
<1>2. Fit(a) /\ a.isAnalyzing
  BY FitBeginEnd
<1>3. x.pc = "starting" /\ x.notifier = n
  BY DEF IdleTask
<1> HIDE DEF a, x
<1>4. /\ state'[n] = a /\ \A m \in Notifiers : m # n => state'[m] = state[m]
      /\ task'[t] = x /\ \A u \in Tasks : u # t => task'[u] = task[u]
  BY <1>1 DEF TypeInv, TypeOK
<1>5. NewReviewsFresh'
  <2>1. \A m \in Notifiers : m > current' => m # n /\ m > current
    BY DEF TypeInv, TypeOK, Notifiers
  <2> QED BY <1>4, <2>1 DEF WorkInv, NewReviewsFresh
<1>6. Pending(timers', Starting')
  <2>1. t \notin Starting
    BY <1>1 DEF Starting
  <2>2. Pending(timers', Starting \cup {t})
    BY <1>1, <2>1, StartPending DEF TypeInv, TypeOK, WorkInv
  <2>3. Starting' = Starting \cup {t}
    BY <1>3, <1>4 DEF Starting
  <2> QED BY <2>2, <2>3
<1>7. /\ Running(t)'
      /\ \A u \in Tasks : u # t => (Running(u)' <=> Running(u)) /\ (Working(u)' <=> Working(u))
      /\ ~Working(t)'
  BY <1>3, <1>4 DEF Running, Working
<1>8. OneRunEach'
  BY <1>3, <1>4, <1>7 DEF WorkInv, OneRunEach
<1>9. \A u \in Tasks : u # t /\ Running(u) =>
        /\ task'[u].notifier # n
        /\ state'[task'[u].notifier] = state[task[u].notifier]
  <2>1. \A u \in Tasks : Running(u) => task[u].notifier \in Notifiers
    BY BoundsAssumption DEF Running, TypeInv, TypeOK, WellBound, Notifiers
  <2> QED BY <1>4, <2>1
<1>10. RunsShown'
  BY <1>2, <1>3, <1>4, <1>7, <1>9 DEF WorkInv, RunsShown
<1>11. \A m \in Notifiers : Fit(state'[m])
  BY <1>2, <1>4 DEF WorkInv
<1>12. \A u \in Tasks : Working(u)' => Holds(task'[u], state'[task'[u].notifier])
  <2>1. \A u \in Tasks : Working(u) => Running(u)
    BY DEF Working, Running
  <2> QED BY <1>4, <1>7, <1>9, <2>1 DEF WorkInv
<1>13. SpinnerTracksWork'
  BY <1>2, <1>3, <1>4, <1>7 DEF SpinnerTracksWork, OnScreen
<1> QED BY <1>5, <1>6, <1>8, <1>10, <1>11, <1>12, <1>13 DEF WorkInv

\* A review opens and nothing runs yet.
LEMMA OpenedWork ==
  ASSUME TypeInv, TypeInv', WorkInv, NEW n \in Notifiers, n = current + 1, current' = n,
         NEW s, Fit(s), s.isAnalyzing = FALSE, state' = [state EXCEPT ![n] = s],
         UNCHANGED <<task, timers>>
  PROVE  WorkInv'
<1>1. state'[n] = s /\ \A m \in Notifiers : m # n => state'[m] = state[m]
  BY DEF TypeInv, TypeOK
<1>2. \A u \in Tasks : Running(u) => task[u].notifier \in Notifiers \ {n}
  BY BoundsAssumption DEF Running, TypeInv, TypeOK, WellBound, Notifiers
<1>3. NewReviewsFresh'
  <2>1. \A m \in Notifiers : m > current' => m # n /\ m > current
    BY DEF TypeInv, TypeOK, Notifiers
  <2> QED BY <1>1, <2>1 DEF WorkInv, NewReviewsFresh
<1>4. Pending(timers', Starting') /\ OneRunEach'
  BY DEF WorkInv, Starting, Pending, OneRunEach, Running
<1>5. \A u \in Tasks : /\ Running(u)' <=> Running(u)
                       /\ Working(u)' <=> Working(u)
                       /\ Working(u) => Running(u)
  BY DEF Running, Working
<1>6. RunsShown'
  BY <1>1, <1>2, <1>5 DEF WorkInv, RunsShown
<1>7. \A m \in Notifiers : Fit(state'[m])
  BY <1>1 DEF WorkInv
<1>8. \A u \in Tasks : Working(u)' => Holds(task'[u], state'[task'[u].notifier])
  BY <1>1, <1>2, <1>5 DEF WorkInv
<1>9. SpinnerTracksWork'
  BY <1>1, <1>2, <1>5 DEF SpinnerTracksWork, OnScreen
<1> QED BY <1>3, <1>4, <1>6, <1>7, <1>8, <1>9 DEF WorkInv

\* Taps that touch ply, alert, storage or the screen only.
LEMMA TapWork ==
  ASSUME TypeInv, TypeInv', WorkInv, UNCHANGED <<current, task, timers>>, screens' \in 0..screens,
         \A n \in Notifiers :
           \/ state'[n] = state[n]
           \/ n <= current /\ SameWork(state'[n], state[n])
  PROVE  WorkInv'
<1>1. NewReviewsFresh'
  <2>1. \A n \in Notifiers : n > current => ~(n <= current)
    BY DEF TypeInv, TypeOK, Notifiers
  <2> QED BY <2>1 DEF WorkInv, NewReviewsFresh
<1>2. \A n \in Notifiers : SameWork(state'[n], state[n])
  BY DEF SameWork
<1>3. \A n \in Notifiers : /\ Fit(state'[n])
                           /\ \A k : Holds(k, state[n]) => Holds(k, state'[n])
                           /\ state'[n].isAnalyzing = state[n].isAnalyzing
  <2>1. \A n \in Notifiers : Fit(state[n])
    BY DEF WorkInv
  <2> QED BY <1>2, <2>1, FitSame DEF SameWork
<1>4. \A u \in Tasks : /\ Running(u)' <=> Running(u)
                       /\ Working(u)' <=> Working(u)
                       /\ Working(u) => Running(u)
                       /\ Running(u) => task[u].notifier \in Notifiers
  BY BoundsAssumption DEF Running, Working, TypeInv, TypeOK, WellBound, Notifiers
<1>5. Pending(timers', Starting') /\ OneRunEach'
  BY DEF WorkInv, Starting, Pending, OneRunEach, Running
<1>6. RunsShown'
  BY <1>3, <1>4 DEF WorkInv, RunsShown
<1>7. \A u \in Tasks : Working(u)' => Holds(task'[u], state'[task'[u].notifier])
  BY <1>3, <1>4 DEF WorkInv
<1>8. SpinnerTracksWork'
  <2> SUFFICES ASSUME screens' > 0
               PROVE  state'[current].isAnalyzing <=>
                        \E u \in Tasks : Running(u)' /\ task'[u].notifier = current
    BY DEF SpinnerTracksWork, OnScreen
  <2>1. screens > 0
    BY DEF TypeInv, TypeOK
  <2>2. current \in Notifiers
    BY <2>1, BoundsAssumption DEF TypeInv, TypeOK, WellBound, Notifiers
  <2> QED BY <1>3, <1>4, <2>1, <2>2 DEF WorkInv, SpinnerTracksWork, OnScreen
<1> QED BY <1>1, <1>3, <1>5, <1>6, <1>7, <1>8 DEF WorkInv

\* An answer, a timeout and the second request change runs and timers only.
LEMMA AwaitWork ==
  ASSUME TypeInv, TypeInv', WorkInv, UNCHANGED <<state, current, screens>>,
         \A u \in Tasks :
           \/ task'[u] = task[u]
           \/ /\ Working(u) /\ Working(u)'
              /\ task'[u].notifier = task[u].notifier /\ task'[u].list = task[u].list
              /\ task'[u].total = task[u].total /\ task'[u].left = task[u].left
              /\ task'[u].ply = task[u].ply,
         Pending(timers', Starting)
  PROVE  WorkInv'
<1>1. \A u \in Tasks : Working(u) => Running(u)
  BY DEF Working, Running
<1>2. Pending(timers', Starting')
  <2>1. Starting \subseteq Starting'
    BY DEF Starting, Working
  <2> QED BY <2>1 DEF Pending
<1>3. \A u \in Tasks : Working(u)' => Holds(task'[u], state'[task'[u].notifier])
  <2> SUFFICES ASSUME NEW u \in Tasks, Working(u)'
               PROVE  Holds(task'[u], state[task'[u].notifier])
    OBVIOUS
  <2>1. Working(u)
    BY DEF Working
  <2> QED BY <2>1 DEF WorkInv, Holds
<1>4. \A u \in Tasks :
        task'[u] = task[u] \/ (Running(u) /\ Working(u)' /\ task'[u].notifier = task[u].notifier)
  BY <1>1
<1> QED BY <1>2, <1>3, <1>4, MovedWork

-----------------------------------------------------------------------------
(* Every action keeps the invariant *)

\* With one screen, a review that opens is a new one.
LEMMA OpenWork ==
  ASSUME MaxScreens = 1, TypeInv, TypeInv', WorkInv, NEW g \in Games, NEW at \in Nat,
         OpenReview(g, at)
  PROVE  WorkInv'
<1> DEFINE n == current + 1
           s == Loaded(FreshState, g, at)
<1>1. screens = 0 /\ n \in Notifiers /\ current' = n
  BY DEF OpenReview, TypeInv, TypeOK
<1>2. state[n] = FreshState
  <2>1. n > current
    BY DEF TypeInv, TypeOK
  <2> QED BY <1>1, <2>1 DEF WorkInv, NewReviewsFresh
<1>3. Fit(s) /\ s.game = g /\ s \in ReviewStates /\ ~s.isAnalyzing
  BY FitLoaded
<1>4. s.isAnalyzing = FALSE
  BY <1>3 DEF ReviewStates
<1>5. \A u \in Tasks : Running(u) => task[u].notifier # n
  BY DEF Running, TypeInv, TypeOK, WellBound
<1>6. CASE settings.autoAnalyze
  <2>1. PICK t \in Tasks : StartAnalysis(t, n, Loaded(state[n], g, at))
    BY <1>1, <1>6 DEF OpenReview
  <2> HIDE DEF s
  <2>2. StartAnalysis(t, n, s)
    BY <1>2, <2>1 DEF s
  <2>3. current <= current'
    BY <1>1 DEF TypeInv, TypeOK
  <2> QED BY <1>1, <1>3, <1>5, <2>2, <2>3, CalledWork
<1>7. CASE ~settings.autoAnalyze
  <2>1. state' = [state EXCEPT ![n] = s] /\ UNCHANGED <<task, timers>>
    BY <1>1, <1>2, <1>7 DEF OpenReview
  <2> HIDE DEF s
  <2> QED BY <1>1, <1>3, <1>4, <2>1, OpenedWork
<1> QED BY <1>6, <1>7

\* A review of nothing.
LEMMA OpenEmptyWork ==
  ASSUME MaxScreens = 1, TypeInv, TypeInv', WorkInv, OpenEmpty
  PROVE  WorkInv'
<1> DEFINE n == current + 1
           s == [FreshState EXCEPT !.error = TRUE]
<1>1. screens = 0 /\ n \in Notifiers /\ current' = n /\ UNCHANGED <<task, timers>>
  BY DEF OpenEmpty, TypeInv, TypeOK
<1>2. state[n] = FreshState
  <2>1. n > current
    BY DEF TypeInv, TypeOK
  <2> QED BY <1>1, <2>1 DEF WorkInv, NewReviewsFresh
<1>3. state' = [state EXCEPT ![n] = s]
  BY <1>1, <1>2 DEF OpenEmpty
<1>4. SameWork(s, FreshState) /\ s.isAnalyzing = FALSE
  BY DEF SameWork, FreshState
<1> HIDE DEF s
<1>5. Fit(s)
  BY <1>4, FitFresh, FitSame
<1> QED BY <1>1, <1>3, <1>4, <1>5, OpenedWork

\* RUN DEEP ANALYSIS is tapped only when the last frame, or the state, shows none.
LEMMA RunDeepWork ==
  ASSUME PromptFrames = TRUE, TypeInv, TypeInv', WorkInv, RunDeepAnalysis
  PROVE  WorkInv'
<1>1. /\ screens > 0 /\ state[current].game.boards > 0 /\ ~state[current].isAnalyzing
      /\ current' = current
  BY DEF RunDeepAnalysis
<1>2. current \in Notifiers
  BY <1>1, BoundsAssumption DEF TypeInv, TypeOK, WellBound, Notifiers
<1>3. state[current] \in ReviewStates /\ Fit(state[current])
  BY <1>2 DEF TypeInv, TypeOK, WorkInv
<1>4. state[current].game \in Games
  <2>1. state[current].game \in Games \cup {NoGame}
    BY <1>3 DEF ReviewStates, GameOrNone
  <2>2. NoGame.boards = 0
    BY DEF NoGame
  <2> QED BY <1>1, <2>1, <2>2
<1>5. \A u \in Tasks : Running(u) => task[u].notifier # current
  BY <1>1 DEF WorkInv, SpinnerTracksWork, OnScreen
<1>6. PICK t \in Tasks : StartAnalysis(t, current, state[current])
  BY DEF RunDeepAnalysis
<1>7. current <= current'
  BY <1>1 DEF TypeInv, TypeOK
<1> QED BY <1>1, <1>2, <1>3, <1>4, <1>5, <1>6, <1>7, CalledWork

LEMMA NavigateWork ==
  ASSUME TypeInv, TypeInv', WorkInv, Navigate \/ DismissBrilliantAlert
  PROVE  WorkInv'
<1>1. screens > 0 /\ UNCHANGED <<current, screens, task, timers>>
  BY DEF Navigate, DismissBrilliantAlert
<1>2. current \in Notifiers
  BY <1>1, BoundsAssumption DEF TypeInv, TypeOK, WellBound, Notifiers
<1>3. state[current] \in ReviewStates
  BY <1>2 DEF TypeInv, TypeOK
<1>4. PICK x : state' = [state EXCEPT ![current] = x] /\ SameWork(x, state[current])
  <2>1. CASE Navigate
    <3>1. PICK ply : state' = [state EXCEPT ![current] = AtPly(state[current], ply)]
      BY <2>1 DEF Navigate
    <3>2. SameWork(AtPly(state[current], ply), state[current])
      BY <1>3 DEF AtPly, SameWork, ReviewStates
    <3> QED BY <3>1, <3>2
  <2>2. CASE DismissBrilliantAlert
    <3> DEFINE x == [state[current] EXCEPT !.alert = FALSE, !.error = FALSE]
    <3>1. state' = [state EXCEPT ![current] = x]
      BY <2>2 DEF DismissBrilliantAlert
    <3>2. SameWork(x, state[current])
      BY <1>3 DEF SameWork, ReviewStates
    <3> HIDE DEF x
    <3> QED BY <3>1, <3>2
  <2> QED BY <2>1, <2>2
<1>5. \A n \in Notifiers :
        \/ state'[n] = state[n]
        \/ n <= current /\ SameWork(state'[n], state[n])
  <2>1. current <= current
    BY <1>2 DEF Notifiers
  <2> QED BY <1>2, <1>4, <2>1 DEF TypeInv, TypeOK
<1>6. screens' \in 0..screens
  BY <1>1 DEF TypeInv, TypeOK
<1> QED BY <1>1, <1>5, <1>6, TapWork

LEMMA IdleWork ==
  ASSUME TypeInv, TypeInv', WorkInv,
         \/ CloseReview \/ ChangeSettings \/ ClearAll \/ Frame \/ UNCHANGED vars
  PROVE  WorkInv'
<1>1. UNCHANGED <<state, current, task, timers>>
  BY DEF CloseReview, ChangeSettings, ClearAll, Frame, vars
<1>2. screens' \in 0..screens
  BY DEF CloseReview, ChangeSettings, ClearAll, Frame, vars, TypeInv, TypeOK
<1> QED BY <1>1, <1>2, TapWork

\* What an answer or a timeout makes of a run that waits for one.
LEMMA ResumedWork ==
  ASSUME NEW k \in TaskStates, k.pc \in {"before", "after"}, NEW r
  PROVE  LET x == Resumed(k, r)
         IN  /\ x.pc = IF k.pc = "before" THEN "gotBefore" ELSE "gotAfter"
             /\ x.notifier = k.notifier /\ x.list = k.list /\ x.total = k.total
             /\ x.left = k.left /\ x.ply = k.ply /\ x.depth = k.depth /\ x.game = k.game
             /\ x.answer = IF k.pc = "before" THEN r ELSE k.answer
             /\ x.answer2 = IF k.pc = "before" THEN k.answer2 ELSE r
BY DEF Resumed, TaskStates

LEMMA AnswerWork ==
  ASSUME TypeInv, TypeInv', WorkInv, NEW i \in DOMAIN timers, EngineAnswers(i)
  PROVE  WorkInv'
<1> DEFINE r == timers[i].request
<1>1. /\ timers[i].task = 0 /\ timers' = Drop(timers, i)
      /\ UNCHANGED <<state, current, screens>>
      /\ \A u \in Tasks : task'[u] = IF Awaits(task[u], r) THEN Resumed(task[u], r) ELSE task[u]
  BY DEF EngineAnswers
<1> HIDE DEF r
<1>2. Pending(timers', Starting)
  <2>1. timers \in Seq(Timers) /\ Pending(timers, Starting)
    BY DEF TypeInv, TypeOK, WorkInv
  <2>2. 0 \notin Starting
    BY BoundsAssumption DEF Starting, Tasks
  <2>3. Pending(Drop(timers, i), Starting \ {timers[i].task})
    BY <2>1, DropPending
  <2> QED BY <1>1, <2>2, <2>3 DEF Pending
<1>3. ASSUME NEW u \in Tasks, Awaits(task[u], r)
      PROVE  /\ Working(u) /\ Working(u)'
             /\ task'[u].notifier = task[u].notifier /\ task'[u].list = task[u].list
             /\ task'[u].total = task[u].total /\ task'[u].left = task[u].left
             /\ task'[u].ply = task[u].ply
  <2>1. task[u] \in TaskStates /\ task[u].pc \in {"before", "after"}
    BY <1>3 DEF TypeInv, TypeOK, Awaits
  <2>2. task'[u] = Resumed(task[u], r)
    BY <1>1, <1>3
  <2> QED BY <2>1, <2>2, ResumedWork DEF Working
<1> QED BY <1>1, <1>2, <1>3, AwaitWork

LEMMA TimeoutWork ==
  ASSUME TypeInv, TypeInv', WorkInv, NEW t \in Tasks, AnswerTimesOut(t)
  PROVE  WorkInv'
<1>1. /\ task[t].pc \in {"before", "after"} /\ task' = [task EXCEPT ![t] = Resumed(task[t], Nothing)]
      /\ UNCHANGED <<state, current, screens, timers>>
  BY DEF AnswerTimesOut
<1>2. task[t] \in TaskStates
  BY DEF TypeInv, TypeOK
<1> DEFINE x == Resumed(task[t], Nothing)
<1>3. /\ x.pc \in {"gotBefore", "gotAfter"}
      /\ x.notifier = task[t].notifier /\ x.list = task[t].list /\ x.total = task[t].total
      /\ x.left = task[t].left /\ x.ply = task[t].ply
  BY <1>1, <1>2, ResumedWork
<1> HIDE DEF x
<1>4. task'[t] = x /\ \A u \in Tasks : u # t => task'[u] = task[u]
  BY <1>1 DEF TypeInv, TypeOK, x
<1>5. Pending(timers', Starting)
  BY <1>1 DEF WorkInv
<1>6. Working(t) /\ Working(t)'
  BY <1>1, <1>3, <1>4 DEF Working
<1> QED BY <1>1, <1>3, <1>4, <1>5, <1>6, AwaitWork

LEMMA AskAfterWork ==
  ASSUME TypeInv, TypeInv', WorkInv, NEW t \in Tasks, AskAfter(t)
  PROVE  WorkInv'
<1> DEFINE k == task[t]
           a == AnswerTimer(Request(k, FALSE))
<1>1. /\ k.pc = "gotBefore" /\ task' = [task EXCEPT ![t].pc = "after"]
      /\ timers' = Append(timers, a) /\ UNCHANGED <<state, current, screens>>
  BY DEF AskAfter
<1>2. k \in TaskStates
  BY DEF TypeInv, TypeOK
<1>3. a \in Timers /\ a.task = 0
  BY <1>2, TimerTypes DEF AnswerTimer
<1> HIDE DEF a
<1>4. Pending(timers', Starting)
  BY <1>1, <1>3, RequestPending DEF TypeInv, TypeOK, WorkInv
<1>5. /\ task'[t].pc = "after" /\ task'[t].notifier = k.notifier /\ task'[t].list = k.list
      /\ task'[t].total = k.total /\ task'[t].left = k.left /\ task'[t].ply = k.ply
      /\ \A u \in Tasks : u # t => task'[u] = task[u]
  BY <1>1, <1>2 DEF TypeInv, TypeOK, TaskStates
<1>6. Working(t) /\ Working(t)'
  BY <1>1, <1>5 DEF Working
<1> QED BY <1>1, <1>4, <1>5, <1>6, AwaitWork

-----------------------------------------------------------------------------
(* The invariant *)

Inv == ReplayInv /\ WorkInv

LEMMA InitWork == Init => WorkInv
<1> SUFFICES ASSUME Init PROVE WorkInv
  OBVIOUS
<1> USE DEF Init
<1>1. \A u \in Tasks : ~Running(u) /\ ~Working(u)
  BY DEF Running, Working, IdleTask
<1>2. NewReviewsFresh /\ OneRunEach /\ RunsShown
  BY <1>1 DEF NewReviewsFresh, OneRunEach, RunsShown
<1>3. Pending(timers, Starting)
  BY DEF Pending
<1>4. \A n \in Notifiers : Fit(state[n])
  BY FitFresh
<1>5. SpinnerTracksWork
  BY DEF SpinnerTracksWork, OnScreen
<1> QED BY <1>1, <1>2, <1>3, <1>4, <1>5 DEF WorkInv

LEMMA NextWork ==
  ASSUME MaxScreens = 1, PromptFrames = TRUE, Inv, [Next]_vars
  PROVE  Inv'
<1>1. TypeInv /\ ReplayInv /\ WorkInv
  BY DEF Inv, ReplayInv
<1>2. TypeInv'
  BY <1>1, NextTypes
<1>3. ReplayInv'
  BY <1>1, NextReplays
<1>4. CASE OpenGame
  <2>1. PICK g \in Games : OpenReview(g, 0)
    BY <1>4 DEF OpenGame
  <2>2. WorkInv'
    BY <1>1, <1>2, <2>1, OpenWork
  <2> QED BY <1>3, <2>2 DEF Inv
<1>5. CASE OpenReplay
  <2>1. PICK i \in DOMAIN saved : OpenReview(saved[i].game, saved[i].ply)
    BY <1>5 DEF OpenReplay
  <2>2. saved[i] \in SavedGames /\ saved[i].ply \in 1..(saved[i].game.boards - 1)
    BY <1>1 DEF TypeInv, TypeOK, ReplayInv, ReplayOpensOnSacrifice
  <2>3. saved[i].ply \in Nat /\ saved[i].game \in Games
    <3>1. saved[i].ply \in Nat /\ saved[i].game \in Games \cup {NoGame}
      BY <2>2 DEF SavedGames, GameOrNone
    <3>2. NoGame.boards = 0 /\ 1..(0 - 1) = {}
      BY DEF NoGame
    <3> QED BY <2>2, <3>1, <3>2
  <2>4. WorkInv'
    BY <1>1, <1>2, <2>1, <2>3, OpenWork
  <2> QED BY <1>3, <2>4 DEF Inv
<1>6. CASE OpenEmpty
  BY <1>1, <1>2, <1>3, <1>6, OpenEmptyWork DEF Inv
<1>7. CASE RunDeepAnalysis
  BY <1>1, <1>2, <1>3, <1>7, RunDeepWork DEF Inv
<1>8. CASE Navigate \/ DismissBrilliantAlert
  BY <1>1, <1>2, <1>3, <1>8, NavigateWork DEF Inv
<1>9. CASE \/ CloseReview \/ ChangeSettings \/ ClearAll \/ Frame \/ UNCHANGED vars
  BY <1>1, <1>2, <1>3, <1>9, IdleWork DEF Inv
<1>10. CASE Started
  BY <1>1, <1>2, <1>3, <1>10, EngineStartedWork DEF Inv, Started
<1>11. CASE Answered
  BY <1>1, <1>2, <1>3, <1>11, AnswerWork DEF Inv, Answered
<1>12. ASSUME NEW t \in Tasks, Resumes(t) \/ AnswerTimesOut(t)
       PROVE  Inv'
  BY <1>1, <1>2, <1>3, <1>12, AskAfterWork, RatePlyWork, TimeoutWork DEF Inv, Resumes
<1> QED BY <1>4, <1>5, <1>6, <1>7, <1>8, <1>9, <1>10, <1>11, <1>12 DEF Next, Tap

LEMMA Invariant ==
  ASSUME MaxScreens = 1, PromptFrames = TRUE
  PROVE  Spec => []Inv
<1>1. Init => Inv
  BY InitReplays, InitWork DEF Inv
<1>2. Inv /\ [Next]_vars => Inv'
  BY NextWork
<1> QED BY <1>1, <1>2, PTL DEF Spec

\* A review opens at a ply, with a game.
LEMMA Opens ==
  ASSUME Inv, OpenGame \/ OpenReplay
  PROVE  \E g \in Games, at \in Nat : OpenReview(g, at)
<1>1. CASE OpenGame
  BY <1>1 DEF OpenGame
<1>2. CASE OpenReplay
  <2>1. PICK i \in DOMAIN saved : OpenReview(saved[i].game, saved[i].ply)
    BY <1>2 DEF OpenReplay
  <2>2. saved[i] \in SavedGames /\ saved[i].ply \in 1..(saved[i].game.boards - 1)
    BY DEF Inv, ReplayInv, TypeInv, TypeOK, ReplayOpensOnSacrifice
  <2>3. saved[i].game \in Games \cup {NoGame} /\ saved[i].ply \in Nat
    BY <2>2 DEF SavedGames, GameOrNone
  <2>4. NoGame.boards = 0 /\ 1..(0 - 1) = {}
    BY DEF NoGame
  <2> QED BY <2>1, <2>2, <2>3, <2>4
<1> QED BY <1>1, <1>2

\* The review on screen, with what the invariant says of it.
LEMMA Shown ==
  ASSUME Inv, screens > 0
  PROVE  current \in Notifiers /\ state[current] \in ReviewStates /\ Fit(state[current])
BY BoundsAssumption DEF Inv, ReplayInv, TypeInv, TypeOK, WellBound, Notifiers, WorkInv

\* A run that empties the list of plies has rated them all, so a full bar without
\* spinner means a complete review (review_notifier.dart:236-248, 368).
THEOREM DoneIsComplete ==
  ASSUME MaxScreens = 1, PromptFrames = TRUE
  PROVE  Spec => []DoneMeansComplete
<1>1. Inv => DoneMeansComplete
  <2> SUFFICES ASSUME Inv, screens > 0, state[current].progress = One,
                      ~state[current].isAnalyzing,
                      NEW p \in 1..(state[current].game.boards - 1)
               PROVE  ClassificationAt(state[current], p) # Unrated
    BY DEF DoneMeansComplete, OnScreen
  <2>1. state[current] \in ReviewStates /\ Fit(state[current])
    BY Shown
  <2>2. p \in DOMAIN state[current].list /\ DOMAIN state[current].list = 1..Len(state[current].list)
        /\ Len(state[current].list) \in Nat
    BY <2>1, GameBoards
  <2>3. state[current].list[p] # Unrated
    BY <2>1 DEF Fit, Missing
  <2> QED BY <2>2, <2>3 DEF ClassificationAt
<1> QED BY <1>1, Invariant, PTL

\* The spinner turns exactly while a run works for the review on screen
\* (review_notifier.dart:222-227, 368).
THEOREM SpinnersTrackWork ==
  ASSUME MaxScreens = 1, PromptFrames = TRUE
  PROVE  Spec => []SpinnerTracksWork
<1>1. Inv => SpinnerTracksWork
  BY DEF Inv, WorkInv
<1> QED BY <1>1, Invariant, PTL

\* Each colour's total of one kind counts its own plies of that kind.
LEMMA TotalsOfColours ==
  ASSUME NEW l \in Ratings, \A p \in DOMAIN l : l[p] # "forced",
         NEW q \in Quality \ {"forced"}
  PROVE  /\ FromClassifications(l, TRUE)[q] =
              Cardinality({p \in DOMAIN l : p % 2 = 1 /\ l[p] = q})
         /\ FromClassifications(l, FALSE)[q] =
              Cardinality({p \in DOMAIN l : p % 2 = 0 /\ l[p] = q})
<1> DEFINE side(w) == {p \in DOMAIN l : /\ l[p] # Unrated
                                        /\ PlyIsWhite(p) = w
                                        /\ CountedAs(l[p]) = q}
<1>1. \A p \in DOMAIN l : (l[p] # Unrated /\ CountedAs(l[p]) = q) <=> l[p] = q
  <2>1. q # Unrated
    BY DEF Quality, Unrated
  <2> QED BY <2>1 DEF CountedAs
<1>2. \A p \in DOMAIN l : p % 2 = 0 \/ p % 2 = 1
  BY DEF Ratings
<1>3. \A p \in DOMAIN l : PlyIsWhite(p) = TRUE <=> p % 2 = 1
  BY DEF PlyIsWhite
<1>4. \A p \in DOMAIN l : PlyIsWhite(p) = FALSE <=> p % 2 = 0
  BY <1>2 DEF PlyIsWhite
<1>5. side(TRUE) = {p \in DOMAIN l : p % 2 = 1 /\ l[p] = q}
  BY <1>1, <1>3
<1>6. side(FALSE) = {p \in DOMAIN l : p % 2 = 0 /\ l[p] = q}
  BY <1>1, <1>4
<1>7. \A w \in BOOLEAN : FromClassifications(l, w)[q] = Cardinality(side(w))
  BY DEF FromClassifications
<1> QED BY <1>5, <1>6, <1>7

\* The statistics panel counts every rated ply once, for the colour that moved
\* (move_classifier.dart, fromClassifications).
THEOREM TotalsAreOfRatings ==
  ASSUME MaxScreens = 1, PromptFrames = TRUE
  PROVE  Spec => []TotalsCoverRatings
<1>1. Inv => TotalsCoverRatings
  <2> SUFFICES ASSUME Inv, screens > 0, NEW q \in Quality \ {"forced"}
               PROVE  /\ state[current].white[q] =
                           Cardinality({p \in DOMAIN state[current].list :
                                          p % 2 = 1 /\ state[current].list[p] = q})
                      /\ state[current].black[q] =
                           Cardinality({p \in DOMAIN state[current].list :
                                          p % 2 = 0 /\ state[current].list[p] = q})
    BY DEF TotalsCoverRatings, OnScreen
  <2>1. state[current].list \in Ratings /\ Fit(state[current])
    BY Shown DEF ReviewStates
  <2> QED BY <2>1, TotalsOfColours DEF Fit
<1> QED BY <1>1, Invariant, PTL

-----------------------------------------------------------------------------
(* Before the first review *)

\* Nothing is timed before the first review.
Untimed == current = 0 => timers = <<>>

LEMMA UntimedStep ==
  ASSUME TypeInv, Untimed, [Next]_vars
  PROVE  Untimed'
<1> SUFFICES ASSUME current' = 0
             PROVE  timers' = <<>>
  BY DEF Untimed
<1>1. CASE OpenGame \/ OpenReplay \/ OpenEmpty
  <2>1. current' = current + 1 \/ (current' = current /\ screens # 0)
    BY <1>1 DEF OpenGame, OpenReplay, OpenEmpty, OpenReview
  <2> QED BY <2>1 DEF TypeInv, TypeOK, WellBound
<1>2. CASE ~(OpenGame \/ OpenReplay \/ OpenEmpty)
  <2>1. current' = current
    BY <1>2 DEF Next, Tap, CloseReview, RunDeepAnalysis, Navigate, DismissBrilliantAlert,
                ChangeSettings, ClearAll, Frame, Started, EngineStarted, Answered,
                EngineAnswers, Resumes, AskAfter, RatePly, AnswerTimesOut, vars
  <2>2. timers = <<>> /\ DOMAIN timers = {} /\ ~(screens > 0)
    BY <2>1 DEF Untimed, TypeInv, TypeOK, WellBound
  <2>3. \A t \in Tasks : task[t].pc = "idle"
    BY <2>1 DEF TypeInv, TypeOK, WellBound
  <2>4. ~Started /\ ~Answered
    BY <2>2 DEF Started, Answered
  <2>5. \A t \in Tasks : ~Resumes(t) /\ ~AnswerTimesOut(t)
    BY <2>3 DEF Resumes, AskAfter, RatePly, AnswerTimesOut
  <2>6. ~RunDeepAnalysis
    BY <2>2 DEF RunDeepAnalysis
  <2> QED BY <1>2, <2>2, <2>4, <2>5, <2>6
      DEF Next, Tap, CloseReview, Navigate, DismissBrilliantAlert, ChangeSettings, ClearAll,
          Frame, vars
<1> QED BY <1>1, <1>2

-----------------------------------------------------------------------------
(* The stub engine answers before any timeout: one request at a time       *)

\* The run t, in the state k, waits for the timer x.
Serves(x, t, k) ==
  \/ x.task = t /\ k.pc = "starting"
  \/ x.task = 0 /\ Awaits(k, x.request)

\* The timers ts are at most one, and one of the runs tk waits for it.
Prompt(ts, tk) ==
  /\ Len(ts) <= 1
  /\ \A i \in DOMAIN ts : \E u \in Tasks : Serves(ts[i], u, tk[u])

PromptInv == Inv /\ Untimed /\ Prompt(timers, task)

\* Nothing is timed while no run waits.
LEMMA NoneServed ==
  ASSUME MaxNotifiers = 1, PromptInv, NEW t \in Tasks,
         task[t].pc \in {"gotBefore", "gotAfter"} \/ \A u \in Tasks : ~Running(u)
  PROVE  timers = <<>>
<1>1. \A u \in Tasks : Running(u) => task[u].notifier = 1
  BY DEF PromptInv, Inv, ReplayInv, TypeInv, TypeOK, WellBound, Running
<1>2. \A u, v \in Tasks : Running(u) /\ Running(v) => u = v
  BY <1>1 DEF PromptInv, Inv, WorkInv, OneRunEach
<1>3. \A u \in Tasks : \A x : Serves(x, u, task[u]) => Running(u) /\ task[u].pc \notin {"gotBefore", "gotAfter"}
  BY DEF Serves, Awaits, Running
<1>4. DOMAIN timers = {}
  BY <1>2, <1>3 DEF PromptInv, Prompt, Running
<1> QED BY <1>4 DEF PromptInv, Inv, ReplayInv, TypeInv, TypeOK

\* A timer set when there was none.
LEMMA OneTimer ==
  ASSUME NEW x \in Timers, timers' = Append(<<>>, x), NEW t \in Tasks, Serves(x, t, task'[t])
  PROVE  Prompt(timers', task')
<1>1. DOMAIN timers' = {1} /\ timers'[1] = x /\ Len(timers') = 1
  OBVIOUS
<1> QED BY <1>1 DEF Prompt

\* No timer left.
LEMMA NoTimer ==
  ASSUME timers' = <<>>
  PROVE  Prompt(timers', task')
BY DEF Prompt

\* The timer that fires is the only one.
LEMMA OnlyTimerFires ==
  ASSUME PromptInv, NEW i \in DOMAIN timers
  PROVE  Drop(timers, i) = <<>>
<1>1. timers \in Seq(Timers) /\ Len(timers) = 1
  <2>1. timers \in Seq(Timers) /\ Len(timers) <= 1
    BY DEF PromptInv, Inv, ReplayInv, TypeInv, TypeOK, Prompt
  <2> QED BY <2>1
<1>2. Drop(timers, i) \in Seq(Timers)
  BY <1>1, DropType
<1>3. DOMAIN Drop(timers, i) = {}
  BY <1>1 DEF Drop
<1> QED BY <1>2, <1>3

LEMMA PromptContinue ==
  ASSUME PromptInv, NEW t \in Tasks, NEW s \in [Notifiers -> ReviewStates],
         NEW k \in TaskStates, k.notifier \in Notifiers, Continue(t, s, k, <<>>)
  PROVE  Prompt(timers', task')
<1>1. TypeOK /\ task \in [Tasks -> TaskStates]
  BY DEF PromptInv, Inv, ReplayInv, TypeInv, TypeOK
<1>2. CASE timers' = <<>>
  BY <1>2, NoTimer
<1>3. CASE \E x \in TaskStates : TakesPly(t, k.notifier, s, k, <<>>, x)
  <2>1. PICK x \in TaskStates : TakesPly(t, k.notifier, s, k, <<>>, x)
    BY <1>3
  <2> DEFINE r == Request(x, TRUE)
             a == AnswerTimer(r)
  <2>2. timers' = Append(<<>>, a) /\ task'[t] = x /\ x.pc = "before"
    BY <1>1, <2>1 DEF TakesPly
  <2>3. a \in Timers /\ a.task = 0 /\ a.request = r
    BY TimerTypes DEF AnswerTimer
  <2>4. Awaits(x, r)
    BY <2>2 DEF Awaits, SameId
  <2> HIDE DEF a, r
  <2>5. Serves(a, t, task'[t])
    BY <2>2, <2>3, <2>4 DEF Serves
  <2> QED BY <2>2, <2>3, <2>5, OneTimer
<1> QED BY <1>1, <1>2, <1>3, ContinueWork DEF RunEnds

LEMMA PromptNext ==
  ASSUME MaxScreens = 1, PromptFrames = TRUE, MaxNotifiers = 1, ~SlowEngine, PromptInv, [Next]_vars
  PROVE  PromptInv'
<1> DEFINE Goal == Prompt(timers', task')
<1>1. TypeInv /\ ReplayInv /\ WorkInv /\ Untimed /\ Inv
  BY DEF PromptInv, Inv, ReplayInv
<1>2. /\ state \in [Notifiers -> ReviewStates] /\ task \in [Tasks -> TaskStates]
      /\ timers \in Seq(Timers) /\ Notifiers = {1}
  BY <1>1 DEF TypeInv, TypeOK, Notifiers
<1>3. SUFFICES Goal
  BY <1>1, NextWork, UntimedStep DEF PromptInv
<1>4. ASSUME UNCHANGED <<timers, task>>
      PROVE  Goal
  BY <1>4 DEF PromptInv
<1>5. ASSUME NEW t \in Tasks, NEW n, NEW s, StartAnalysis(t, n, s), timers = <<>>
      PROVE  Goal
  <2> DEFINE x == [IdleTask EXCEPT !.pc = "starting", !.notifier = n]
             a == StartTimer(t)
  <2>1. timers' = Append(<<>>, a) /\ task'[t] = x
    BY <1>2, <1>5 DEF StartAnalysis
  <2>2. a \in Timers /\ a.task = t /\ x.pc = "starting"
    BY TimerTypes DEF StartTimer, IdleTask
  <2> HIDE DEF a, x
  <2>3. Serves(a, t, task'[t])
    BY <2>1, <2>2 DEF Serves
  <2> QED BY <2>1, <2>2, <2>3, OneTimer
<1>6. CASE OpenGame \/ OpenReplay
  <2>1. PICK g, at : OpenReview(g, at)
    BY <1>6 DEF OpenGame, OpenReplay
  <2>2. timers = <<>>
    <3>1. screens = 0 /\ current + 1 \in Notifiers
      BY <1>1, <2>1 DEF OpenReview, TypeInv, TypeOK
    <3> QED BY <1>1, <1>2, <3>1 DEF Untimed, TypeInv, TypeOK
  <2>3. (\E t \in Tasks : \E n, s : StartAnalysis(t, n, s)) \/ UNCHANGED <<timers, task>>
    BY <2>1 DEF OpenReview
  <2> QED BY <1>4, <1>5, <2>2, <2>3
<1>7. CASE RunDeepAnalysis
  <2>1. screens > 0 /\ ~state[current].isAnalyzing
    BY <1>7 DEF RunDeepAnalysis
  <2>2. current = 1
    BY <1>1, <1>2, <2>1 DEF TypeInv, TypeOK, WellBound
  <2>3. \A u \in Tasks : ~Running(u)
    <3>1. \A u \in Tasks : Running(u) => task[u].notifier = 1
      BY <1>1, <2>2 DEF TypeInv, TypeOK, WellBound, Running
    <3> QED BY <1>1, <2>1, <2>2, <3>1 DEF WorkInv, RunsShown
  <2>4. PICK t \in Tasks : StartAnalysis(t, current, state[current])
    BY <1>7 DEF RunDeepAnalysis
  <2>5. timers = <<>>
    BY <2>3, NoneServed
  <2> QED BY <1>5, <2>4, <2>5
<1>8. CASE \/ OpenEmpty \/ CloseReview \/ Navigate \/ DismissBrilliantAlert \/ ChangeSettings
           \/ ClearAll \/ Frame \/ UNCHANGED vars
  BY <1>4, <1>8 DEF OpenEmpty, CloseReview, Navigate, DismissBrilliantAlert, ChangeSettings,
                    ClearAll, Frame, vars
<1>9. CASE Started
  <2>1. PICK i \in DOMAIN timers : EngineStarted(i)
    BY <1>9 DEF Started
  <2>2. PICK t \in Tasks, k \in TaskStates : SetsOff(i, t, k)
    BY <1>1, <2>1, StartedWork
  <2>3. k.notifier \in Notifiers
    BY <1>1, <1>2, <2>2, BoundsAssumption DEF SetsOff, TypeInv, TypeOK, WellBound
  <2>4. Drop(timers, i) = <<>>
    BY OnlyTimerFires
  <2>5. CASE Continue(t, state, k, <<>>)
    BY <1>2, <2>3, <2>5, PromptContinue
  <2>6. CASE timers' = <<>>
    BY <2>6, NoTimer
  <2> QED BY <2>2, <2>4, <2>5, <2>6 DEF SetsOff
<1>10. CASE Answered
  BY <1>10, OnlyTimerFires, NoTimer DEF Answered, EngineAnswers
<1>11. ASSUME NEW t \in Tasks, AskAfter(t)
       PROVE  Goal
  <2> DEFINE r == Request(task[t], FALSE)
             a == AnswerTimer(r)
  <2>1. task[t].pc = "gotBefore" /\ task' = [task EXCEPT ![t].pc = "after"]
        /\ timers' = Append(timers, a)
    BY <1>11 DEF AskAfter
  <2>2. timers = <<>>
    BY <2>1, NoneServed
  <2>3. a \in Timers /\ a.task = 0 /\ a.request = r
    BY <1>2, TimerTypes DEF AnswerTimer
  <2>4. Awaits(task'[t], r)
    <3>1. task'[t].pc = "after" /\ task'[t].ply = task[t].ply
      BY <1>2, <2>1 DEF TaskStates
    <3> QED BY <3>1 DEF Awaits, SameId, Request
  <2> HIDE DEF a, r
  <2>5. Serves(a, t, task'[t])
    BY <2>3, <2>4 DEF Serves
  <2> QED BY <2>1, <2>2, <2>3, <2>5, OneTimer
<1>12. ASSUME NEW t \in Tasks, RatePly(t)
       PROVE  Goal
  <2>1. PICK k \in TaskStates, q \in Quality, s \in [Notifiers -> ReviewStates] :
          RatesAs(t, k, q, s)
    BY <1>1, <1>12, RatedWork
  <2>2. k.notifier \in Notifiers /\ Continue(t, s, k, timers) /\ task[t].pc = "gotAfter"
    BY <1>1, <1>2, <2>1 DEF RatesAs, TypeInv, TypeOK, WellBound
  <2>3. timers = <<>>
    BY <2>2, NoneServed
  <2> QED BY <2>2, <2>3, PromptContinue
<1> HIDE DEF Goal
<1> QED
  BY <1>6, <1>7, <1>8, <1>9, <1>10, <1>11, <1>12
  DEF Next, Tap, Resumes, AnswerTimesOut

\* A run that asks the stub engine waits for the answer, and no second run is
\* called while it works: the engine never holds two positions of a review
\* (review_notifier.dart:222-227, 251-300).
THEOREM RequestsOneAtATime ==
  ASSUME MaxScreens = 1, PromptFrames = TRUE, MaxNotifiers = 1, ~SlowEngine
  PROVE  Spec => []OneRequestAtATime
<1>1. Init => PromptInv
  <2>1. Init => ReplayInv /\ WorkInv
    BY InitReplays, InitWork
  <2>2. Init => Untimed /\ Prompt(timers, task)
    BY DEF Init, Untimed, Prompt
  <2> QED BY <2>1, <2>2 DEF PromptInv, Inv
<1>2. PromptInv /\ [Next]_vars => PromptInv'
  BY PromptNext
<1>3. PromptInv => OneRequestAtATime
  BY DEF PromptInv, Prompt, OneRequestAtATime
<1> QED BY <1>1, <1>2, <1>3, PTL DEF Spec

-----------------------------------------------------------------------------
(* One depth for one review: a ply is rated the same each time             *)

\* The rating of a ply of a game by a line of depth d.
VerdictAt(game, ply, d) ==
  Classify(0, 0, game.moves[ply].book, IsSacrifice(game, ply),
           <<[first |-> NoMove, eval |-> 0, depth |-> d]>>, "san")

AsksAt(ts, d) == \A i \in DOMAIN ts : ts[i].task = 0 => ts[i].request.depth = d

WorksAt(k, d) ==
  /\ k.pc \in {"before", "gotBefore", "after", "gotAfter"} => k.depth = d
  /\ k.pc \in {"gotBefore", "after", "gotAfter"} => k.answer # Nothing /\ k.answer.depth = d

\* Ratings are those of depth d, and an alert is up for one of them.
ShowsAt(s, d) ==
  /\ \A p \in DOMAIN s.list : s.list[p] = Unrated \/ s.list[p] = VerdictAt(s.game, p, d)
  /\ s.alert => ClassificationAt(s, s.ply) = "brilliant"

OneDepth ==
  /\ AsksAt(timers, settings.depth)
  /\ \A t \in Tasks : WorksAt(task[t], settings.depth)
  /\ ShowsAt(state[1], settings.depth)

\* The settings lie below the review: no depth changes while it is open.
AlertInv == Inv /\ Untimed /\ (screens > 0 => OneDepth)

LEMMA ShowsSame ==
  ASSUME NEW s, NEW r, NEW d, ShowsAt(s, d), r.list = s.list, r.game = s.game,
         ~r.alert \/ (r.ply = s.ply /\ r.alert = s.alert)
                  \/ r.alert = (ClassificationAt(s, r.ply) = "brilliant")
  PROVE  ShowsAt(r, d)
BY DEF ShowsAt, ClassificationAt

LEMMA ShowsNothing ==
  ASSUME NEW s, NEW d, \A p \in DOMAIN s.list : s.list[p] = Unrated, ~s.alert
  PROVE  ShowsAt(s, d)
BY DEF ShowsAt

\* A rating of the same depth confirms what is shown.
LEMMA ShowsRated ==
  ASSUME NEW s \in ReviewStates, Fit(s), s.isAnalyzing, NEW d, ShowsAt(s, d),
         NEW k \in TaskStates, NEW q \in Quality, q # "forced",
         k.ply \in 1..(s.game.boards - 1), k.list = [s.list EXCEPT ![k.ply] = q],
         q = VerdictAt(s.game, k.ply, d)
  PROVE  ShowsAt(Rated(s, k, q), d)
<1> DEFINE r == Rated(s, k, q)
<1>1. /\ r.game = s.game /\ r.list = k.list /\ r.ply = s.ply
      /\ r.alert = (s.alert \/ (s.ply = k.ply /\ q = "brilliant"))
  BY FitRated
<1>2. /\ DOMAIN s.list = 1..Len(s.list) /\ Len(s.list) \in Nat /\ k.ply \in DOMAIN s.list
  BY GameBoards
<1>3. Len(k.list) = Len(s.list) /\ DOMAIN k.list = DOMAIN s.list
  BY FitRated
<1>4. \A p \in DOMAIN s.list : k.list[p] = IF p = k.ply THEN q ELSE s.list[p]
  BY <1>2
<1> HIDE DEF r
<1>5. \A p \in DOMAIN r.list : r.list[p] = Unrated \/ r.list[p] = VerdictAt(r.game, p, d)
  BY <1>1, <1>3, <1>4 DEF ShowsAt
<1>6. ASSUME r.alert
      PROVE  ClassificationAt(r, r.ply) = "brilliant"
  <2>1. CASE s.alert
    <3>1. ClassificationAt(s, s.ply) = "brilliant" /\ Unrated # "brilliant" /\ s.ply \in Nat
      BY <2>1 DEF ShowsAt, Unrated, ReviewStates
    <3>2. s.ply \in DOMAIN s.list /\ s.list[s.ply] = "brilliant"
      BY <1>2, <3>1 DEF ClassificationAt
    <3>3. s.list[s.ply] = VerdictAt(s.game, s.ply, d)
      BY <3>1, <3>2 DEF ShowsAt
    <3>4. k.list[s.ply] = "brilliant"
      BY <1>4, <3>2, <3>3
    <3> QED BY <1>1, <1>2, <1>3, <3>2, <3>4 DEF ClassificationAt
  <2>2. CASE s.ply = k.ply /\ q = "brilliant"
    BY <1>1, <1>2, <1>3, <1>4, <2>2 DEF ClassificationAt
  <2> QED BY <1>1, <1>6, <2>1, <2>2
<1>7. ShowsAt(r, d)
  BY <1>5, <1>6 DEF ShowsAt
<1> QED BY <1>7 DEF r

\* A call of _startAnalysis asks nothing and rates nothing.
LEMMA DepthCalled ==
  ASSUME TypeOK, NEW d, AsksAt(timers, d), \A u \in Tasks : WorksAt(task[u], d),
         NEW t \in Tasks, NEW s \in ReviewStates, ShowsAt(s, d), 1 \in Notifiers,
         StartAnalysis(t, 1, s)
  PROVE  AsksAt(timers', d) /\ (\A u \in Tasks : WorksAt(task'[u], d)) /\ ShowsAt(state'[1], d)
<1> DEFINE x == [IdleTask EXCEPT !.pc = "starting", !.notifier = 1]
           a == StartTimer(t)
           v == Analyzing(s)
<1>1. /\ timers' = Append(timers, a) /\ task' = [task EXCEPT ![t] = x]
      /\ state' = [state EXCEPT ![1] = v]
  BY DEF StartAnalysis
<1>2. a \in Timers /\ a.task = t /\ t # 0
  BY TimerTypes, BoundsAssumption DEF StartTimer, Tasks
<1>3. x.pc = "starting"
  BY DEF IdleTask
<1>4. v.list = s.list /\ v.game = s.game /\ v.ply = s.ply /\ v.alert = s.alert
  BY DEF Analyzing, ReviewStates
<1> HIDE DEF x, a, v
<1>5. \A i \in DOMAIN timers' : timers'[i] = a \/ (i \in DOMAIN timers /\ timers'[i] = timers[i])
  BY <1>1, <1>2, AppendType DEF TypeOK
<1>6. AsksAt(timers', d)
  BY <1>2, <1>5 DEF AsksAt
<1>7. \A u \in Tasks : WorksAt(task'[u], d)
  BY <1>1, <1>3 DEF TypeOK, WorksAt
<1>8. ShowsAt(v, d)
  BY <1>4, ShowsSame
<1> QED BY <1>1, <1>6, <1>7, <1>8 DEF TypeOK

\* The shared tail of EngineStarted and RatePly.
LEMMA DepthContinue ==
  ASSUME TypeOK, NEW d, \A u \in Tasks : WorksAt(task[u], d),
         NEW t \in Tasks, NEW s \in [Notifiers -> ReviewStates], ShowsAt(s[1], d),
         NEW k \in TaskStates, k.notifier = 1, 1 \in Notifiers, k.depth = d,
         NEW ts \in Seq(Timers), AsksAt(ts, d), Continue(t, s, k, ts)
  PROVE  AsksAt(timers', d) /\ (\A u \in Tasks : WorksAt(task'[u], d)) /\ ShowsAt(state'[1], d)
<1>1. \/ RunEnds(t, 1, s, k, ts)
      \/ state' = s /\ \E x \in TaskStates : TakesPly(t, 1, s, k, ts, x)
  BY ContinueWork
<1>2. CASE RunEnds(t, 1, s, k, ts)
  <2>1. PICK x \in TaskStates : task' = [task EXCEPT ![t] = x] /\ x.pc = "done"
    BY <1>2 DEF RunEnds
  <2>2. \A u \in Tasks : WorksAt(task'[u], d)
    BY <2>1 DEF TypeOK, WorksAt
  <2> DEFINE v == Finished(s[1])
  <2>3. v.list = s[1].list /\ v.game = s[1].game /\ v.ply = s[1].ply /\ v.alert = s[1].alert
    BY DEF Finished, ReviewStates
  <2>4. timers' = ts /\ (state' = s \/ state' = [s EXCEPT ![1] = v])
    BY <1>2 DEF RunEnds
  <2> HIDE DEF v
  <2>5. ShowsAt(v, d)
    BY <2>3, ShowsSame
  <2> QED BY <2>2, <2>4, <2>5
<1>3. CASE state' = s /\ \E x \in TaskStates : TakesPly(t, 1, s, k, ts, x)
  <2>1. PICK x \in TaskStates :
          /\ task' = [task EXCEPT ![t] = x] /\ x.pc = "before" /\ x.depth = d
          /\ timers' = Append(ts, AnswerTimer(Request(x, TRUE)))
    BY <1>3 DEF TakesPly
  <2>2. \A u \in Tasks : WorksAt(task'[u], d)
    BY <2>1 DEF TypeOK, WorksAt
  <2> DEFINE a == AnswerTimer(Request(x, TRUE))
  <2>3. a \in Timers /\ a.request.depth = d /\ timers' = Append(ts, a)
    BY <2>1, TimerTypes DEF AnswerTimer, Request
  <2> HIDE DEF a
  <2>4. \A i \in DOMAIN timers' : timers'[i] = a \/ (i \in DOMAIN ts /\ timers'[i] = ts[i])
    BY <2>3, AppendType
  <2> QED BY <1>3, <2>2, <2>3, <2>4 DEF AsksAt
<1> QED BY <1>1, <1>2, <1>3

LEMMA DepthNext ==
  ASSUME MaxScreens = 1, PromptFrames = TRUE, MaxNotifiers = 1, ~SlowEngine, AlertInv, [Next]_vars
  PROVE  AlertInv'
<1> DEFINE d == settings'.depth
           Goal == /\ AsksAt(timers', d) /\ \A u \in Tasks : WorksAt(task'[u], d)
                   /\ ShowsAt(state'[1], d)
<1>1. TypeInv /\ TypeOK /\ ReplayInv /\ WorkInv /\ Untimed
  BY DEF AlertInv, Inv, ReplayInv, TypeInv
<1>2. /\ state \in [Notifiers -> ReviewStates] /\ task \in [Tasks -> TaskStates]
      /\ timers \in Seq(Timers) /\ Notifiers = {1}
  BY <1>1 DEF TypeInv, TypeOK, Notifiers
<1>3. SUFFICES ASSUME screens' > 0
               PROVE  Goal
  BY <1>1, NextWork, UntimedStep DEF AlertInv, Inv, OneDepth
<1>4. ASSUME screens > 0
      PROVE  /\ AsksAt(timers, settings.depth) /\ \A u \in Tasks : WorksAt(task[u], settings.depth)
             /\ ShowsAt(state[1], settings.depth) /\ current = 1
  BY <1>1, <1>2, <1>4 DEF AlertInv, OneDepth, TypeInv, TypeOK, WellBound
<1>5. ASSUME screens = 0, current + 1 \in Notifiers
      PROVE  /\ current = 0 /\ timers = <<>> /\ state[1] = FreshState
             /\ \A d0 : AsksAt(timers, d0) /\ \A u \in Tasks : WorksAt(task[u], d0)
  <2>1. current = 0
    BY <1>1, <1>2, <1>5 DEF TypeInv, TypeOK
  <2>2. state[1] = FreshState
    BY <1>1, <1>2, <2>1 DEF WorkInv, NewReviewsFresh
  <2>3. timers = <<>>
    BY <1>1, <2>1 DEF Untimed
  <2>4. \A u \in Tasks : task[u].pc = "idle"
    BY <1>1, <2>1 DEF TypeInv, WellBound
  <2> QED BY <2>1, <2>2, <2>3, <2>4 DEF AsksAt, WorksAt
<1>6. CASE OpenGame \/ OpenReplay
  <2>1. PICK g \in Games, at \in Nat : OpenReview(g, at)
    BY <1>6, Opens DEF AlertInv
  <2> DEFINE s == Loaded(FreshState, g, at)
  <2>2. screens = 0 /\ current + 1 \in Notifiers /\ settings' = settings
    BY <1>1, <2>1 DEF OpenReview, TypeInv, TypeOK
  <2>3. /\ current = 0 /\ timers = <<>> /\ state[1] = FreshState
        /\ AsksAt(timers, d) /\ \A u \in Tasks : WorksAt(task[u], d)
    BY <1>5, <2>2
  <2>4. s \in ReviewStates /\ ShowsAt(s, d)
    <3>1. Len(g.moves) \in Nat
      BY GameTypes DEF GameOrNone
    <3>2. s.list = [p \in 1..Len(g.moves) |-> Unrated] /\ ~s.alert /\ s \in ReviewStates
      BY FitLoaded
    <3> HIDE DEF s
    <3>3. \A p \in DOMAIN s.list : s.list[p] = Unrated
      BY <3>2
    <3> QED BY <3>2, <3>3, ShowsNothing
  <2>5. CASE settings.autoAnalyze
    <3>1. PICK t \in Tasks : StartAnalysis(t, 1, Loaded(state[1], g, at))
      BY <2>1, <2>2, <2>3, <2>5 DEF OpenReview
    <3>2. StartAnalysis(t, 1, s)
      BY <2>3, <3>1
    <3> HIDE DEF s
    <3> QED BY <1>1, <1>2, <2>3, <2>4, <3>2, DepthCalled
  <2>6. CASE ~settings.autoAnalyze
    <3>1. state' = [state EXCEPT ![1] = s] /\ UNCHANGED <<task, timers>>
      BY <2>1, <2>2, <2>3, <2>6 DEF OpenReview
    <3> HIDE DEF s
    <3>2. state'[1] = s
      BY <1>2, <3>1
    <3> QED BY <2>3, <2>4, <3>1, <3>2
  <2> QED BY <2>5, <2>6
<1>7. CASE OpenEmpty
  <2>1. screens = 0 /\ current + 1 \in Notifiers /\ UNCHANGED <<task, timers, settings>>
    BY <1>1, <1>7 DEF OpenEmpty, TypeInv, TypeOK
  <2>2. /\ current = 0 /\ state[1] = FreshState
        /\ AsksAt(timers, d) /\ \A u \in Tasks : WorksAt(task[u], d)
    BY <1>5, <2>1
  <2> DEFINE s == [FreshState EXCEPT !.error = TRUE]
  <2>3. state' = [state EXCEPT ![1] = s]
    <3>1. current + 1 = 1
      BY <2>2
    <3>2. state' = [state EXCEPT ![1].error = TRUE]
      BY <1>7, <2>1, <3>1 DEF OpenEmpty
    <3> QED BY <2>2, <3>2
  <2>4. s.list = <<>> /\ ~s.alert
    BY DEF FreshState
  <2> HIDE DEF s
  <2>5. ShowsAt(s, d)
    <3>1. DOMAIN s.list = {}
      BY <2>4
    <3> QED BY <2>4, <3>1, ShowsNothing
  <2> QED BY <1>2, <2>1, <2>2, <2>3, <2>5
<1>8. CASE RunDeepAnalysis
  <2>1. screens > 0 /\ settings' = settings
    BY <1>8 DEF RunDeepAnalysis
  <2>2. PICK t \in Tasks : StartAnalysis(t, 1, state[1])
    BY <1>4, <1>8, <2>1 DEF RunDeepAnalysis
  <2> QED BY <1>1, <1>2, <1>4, <2>1, <2>2, DepthCalled
<1>9. CASE Navigate \/ DismissBrilliantAlert
  <2>1. screens > 0 /\ UNCHANGED <<current, task, timers, settings>>
    BY <1>9 DEF Navigate, DismissBrilliantAlert
  <2>2. PICK x : /\ state' = [state EXCEPT ![1] = x]
                 /\ ShowsAt(x, d)
    <3>1. state[1] \in ReviewStates /\ ShowsAt(state[1], d) /\ current = 1
      BY <1>2, <1>4, <2>1
    <3>2. CASE Navigate
      <4>1. PICK ply : state' = [state EXCEPT ![1] = AtPly(state[1], ply)]
        BY <3>1, <3>2 DEF Navigate
      <4> DEFINE x == AtPly(state[1], ply)
      <4>2. /\ x.list = state[1].list /\ x.game = state[1].game
            /\ \/ x.ply = state[1].ply /\ x.alert = state[1].alert
               \/ x.alert = (ClassificationAt(state[1], x.ply) = "brilliant")
        BY <3>1 DEF AtPly, ReviewStates
      <4> HIDE DEF x
      <4>3. ShowsAt(x, d)
        BY <3>1, <4>2, ShowsSame
      <4> QED BY <4>1, <4>3 DEF x
    <3>3. CASE DismissBrilliantAlert
      <4> DEFINE x == [state[1] EXCEPT !.alert = FALSE, !.error = FALSE]
      <4>1. state' = [state EXCEPT ![1] = x]
        BY <3>1, <3>3 DEF DismissBrilliantAlert
      <4>2. x.list = state[1].list /\ x.game = state[1].game /\ ~x.alert
        BY <3>1 DEF ReviewStates
      <4> HIDE DEF x
      <4>3. ShowsAt(x, d)
        BY <3>1, <4>2, ShowsSame
      <4> QED BY <4>1, <4>3
    <3> QED BY <1>9, <3>2, <3>3
  <2> QED BY <1>2, <1>4, <2>1, <2>2
<1>10. CASE CloseReview \/ ChangeSettings \/ ClearAll
  BY <1>1, <1>3, <1>10 DEF CloseReview, ChangeSettings, ClearAll, TypeInv, TypeOK
<1>11. CASE Frame \/ UNCHANGED vars
  BY <1>3, <1>4, <1>11 DEF Frame, vars
<1>12. CASE Started
  <2>1. PICK i \in DOMAIN timers : EngineStarted(i)
    BY <1>12 DEF Started
  <2>2. PICK t \in Tasks, k \in TaskStates : SetsOff(i, t, k)
    BY <1>1, <2>1, StartedWork
  <2>3. screens > 0 /\ settings' = settings
    BY <1>3, <2>1 DEF EngineStarted
  <2>4. k.notifier = 1 /\ k.depth = d
    BY <1>1, <1>2, <2>2, <2>3, BoundsAssumption DEF SetsOff, TypeInv, TypeOK, WellBound
  <2> DEFINE ts == Drop(timers, i)
  <2>5. ts \in Seq(Timers) /\ AsksAt(ts, d)
    <3>1. ts \in Seq(Timers) /\ \A j \in DOMAIN ts : \E l \in DOMAIN timers : ts[j] = timers[l]
      BY <1>2, DropType
    <3>2. AsksAt(timers, d)
      BY <1>4, <2>3
    <3> HIDE DEF ts
    <3> QED BY <3>1, <3>2 DEF AsksAt
  <2> HIDE DEF ts
  <2>6. (\A u \in Tasks : WorksAt(task[u], d)) /\ ShowsAt(state[1], d)
    BY <1>4, <2>3
  <2>7. CASE Continue(t, state, k, ts)
    BY <1>1, <1>2, <2>4, <2>5, <2>6, <2>7, DepthContinue
  <2>8. CASE /\ state' = [state EXCEPT ![1] = Finished(state[1])]
             /\ timers' = ts
             /\ \E x \in TaskStates : task' = [task EXCEPT ![t] = x] /\ x.pc = "done"
    <3>1. \A u \in Tasks : WorksAt(task'[u], d)
      BY <1>2, <2>6, <2>8 DEF WorksAt
    <3> DEFINE v == Finished(state[1])
    <3>2. v.list = state[1].list /\ v.game = state[1].game /\ v.ply = state[1].ply
          /\ v.alert = state[1].alert
      BY <1>2 DEF Finished, ReviewStates
    <3> HIDE DEF v
    <3>3. ShowsAt(v, d)
      BY <2>6, <3>2, ShowsSame
    <3>4. state'[1] = v
      BY <1>2, <2>8 DEF v
    <3> QED BY <2>5, <2>8, <3>1, <3>3, <3>4
  <2> QED BY <2>2, <2>4, <2>7, <2>8 DEF SetsOff, ts
<1>13. ASSUME NEW i \in DOMAIN timers, EngineAnswers(i)
       PROVE  Goal
  <2> DEFINE r == timers[i].request
             ts == Drop(timers, i)
  <2>1. /\ timers[i].task = 0 /\ timers' = ts /\ state' = state /\ settings' = settings
        /\ screens > 0
        /\ \A u \in Tasks : task'[u] = IF Awaits(task[u], r) THEN Resumed(task[u], r) ELSE task[u]
    BY <1>3, <1>13 DEF EngineAnswers
  <2>2. AsksAt(timers, d) /\ (\A u \in Tasks : WorksAt(task[u], d)) /\ ShowsAt(state[1], d)
    BY <1>4, <2>1
  <2>3. r.depth = d
    BY <2>1, <2>2 DEF AsksAt
  <2>4. \A j \in DOMAIN ts : \E l \in DOMAIN timers : ts[j] = timers[l]
    BY <1>2, DropType
  <2> HIDE DEF r, ts
  <2>5. AsksAt(timers', d)
    BY <2>1, <2>2, <2>4 DEF AsksAt
  <2>6. ASSUME NEW u \in Tasks, Awaits(task[u], r)
        PROVE  WorksAt(task'[u], d)
    <3>1. task[u] \in TaskStates /\ task[u].pc \in {"before", "after"} /\ r.ply = task[u].ply
      BY <1>2, <2>6 DEF Awaits, SameId, Request
    <3>2. r # Nothing
      <4>1. task[u].ply \in 1..(task[u].game.boards - 1)
        BY <1>1, <3>1 DEF ReplayInv, RunsKeepTheirGame
      <4>2. Nothing.ply = 0
        BY DEF Nothing
      <4> QED BY <3>1, <4>1, <4>2
    <3>3. task'[u] = Resumed(task[u], r)
      BY <2>1, <2>6
    <3>4. WorksAt(task[u], d)
      BY <2>2
    <3> QED BY <2>3, <3>1, <3>2, <3>3, <3>4, ResumedWork DEF WorksAt
  <2>7. \A u \in Tasks : WorksAt(task'[u], d)
    BY <2>1, <2>2, <2>6
  <2> QED BY <2>1, <2>2, <2>5, <2>7
<1>14. ASSUME NEW t \in Tasks, AskAfter(t)
       PROVE  Goal
  <2> DEFINE a == AnswerTimer(Request(task[t], FALSE))
  <2>1. /\ task[t].pc = "gotBefore" /\ task' = [task EXCEPT ![t].pc = "after"]
        /\ timers' = Append(timers, a) /\ state' = state /\ settings' = settings
        /\ screens > 0
    BY <1>3, <1>14 DEF AskAfter
  <2>2. AsksAt(timers, d) /\ (\A u \in Tasks : WorksAt(task[u], d)) /\ ShowsAt(state[1], d)
    BY <1>4, <2>1
  <2>3. a \in Timers /\ a.request.depth = d
    BY <1>2, <2>1, <2>2, TimerTypes DEF AnswerTimer, Request, WorksAt
  <2> HIDE DEF a
  <2>4. \A i \in DOMAIN timers' : timers'[i] = a \/ (i \in DOMAIN timers /\ timers'[i] = timers[i])
    BY <1>2, <2>1, <2>3, AppendType
  <2>5. AsksAt(timers', d)
    BY <2>2, <2>3, <2>4 DEF AsksAt
  <2>6. \A u \in Tasks : WorksAt(task'[u], d)
    <3>1. WorksAt([task[t] EXCEPT !.pc = "after"], d)
      <4>1. task[t] \in TaskStates /\ WorksAt(task[t], d)
        BY <1>2, <2>2
      <4> QED BY <2>1, <4>1 DEF WorksAt, TaskStates
    <3>2. \A u \in Tasks : task'[u] = task[u] \/ task'[u] = [task[t] EXCEPT !.pc = "after"]
      BY <1>2, <2>1
    <3> QED BY <2>2, <3>1, <3>2
  <2> QED BY <2>1, <2>2, <2>5, <2>6
<1>15. ASSUME NEW t \in Tasks, RatePly(t)
       PROVE  Goal
  <2>1. PICK k \in TaskStates, q \in Quality, s \in [Notifiers -> ReviewStates] :
          RatesAs(t, k, q, s)
    BY <1>1, <1>15, RatedWork
  <2>2. screens > 0 /\ settings' = settings
    BY <1>3, <1>15 DEF RatePly
  <2>3. /\ AsksAt(timers, d) /\ (\A u \in Tasks : WorksAt(task[u], d)) /\ ShowsAt(state[1], d)
        /\ current = 1
    BY <1>4, <2>2
  <2>4. /\ task[t].pc = "gotAfter" /\ task[t].notifier = 1 /\ k.notifier = 1 /\ k.depth = d
        /\ task[t].ply = k.ply /\ k.ply \in 1..(task[t].game.boards - 1) /\ q # "forced"
        /\ q = Verdict(task[t]) /\ k.list = [task[t].list EXCEPT ![k.ply] = q]
        /\ Continue(t, s, k, timers)
    BY <1>1, <1>2, <2>1, <2>3 DEF RatesAs, TypeInv, TypeOK, WellBound, WorksAt
  <2>5. s = [state EXCEPT ![1] = Rated(state[1], k, q)]
    <3>1. Mounted(k.notifier)
      BY <2>2, <2>3, <2>4 DEF Mounted
    <3> QED BY <2>1, <2>4, <3>1 DEF RatesAs
  <2>6. task[t].game = state[1].game /\ task[t].list = state[1].list
    BY <1>1, <2>4 DEF ReplayInv, RunsKeepTheirGame, WorkInv, Working, Holds
  <2>7. q = VerdictAt(state[1].game, k.ply, d)
    <3>1. task[t].answer # Nothing /\ task[t].answer.depth = d
      BY <2>3, <2>4 DEF WorksAt
    <3>2. q = Classify(0, 0, task[t].game.moves[task[t].ply].book,
                       IsSacrifice(task[t].game, task[t].ply), LinesOf(task[t].answer), "san")
      BY <2>4 DEF Verdict
    <3>3. LinesOf(task[t].answer) = <<[first |-> NoMove, eval |-> 0, depth |-> d]>>
      BY <3>1 DEF LinesOf
    <3> QED BY <2>4, <2>6, <3>2, <3>3 DEF VerdictAt
  <2>8. state[1] \in ReviewStates /\ Fit(state[1]) /\ state[1].isAnalyzing
    BY <1>1, <1>2, <2>4 DEF WorkInv, RunsShown, Running
  <2>9. ShowsAt(Rated(state[1], k, q), d)
    BY <2>3, <2>4, <2>6, <2>7, <2>8, ShowsRated
  <2>10. ShowsAt(s[1], d)
    BY <1>2, <2>5, <2>9
  <2> QED BY <1>1, <1>2, <2>3, <2>4, <2>10, DepthContinue
<1> HIDE DEF Goal
<1> QED
  BY <1>6, <1>7, <1>8, <1>9, <1>10, <1>11, <1>12, <1>13, <1>14, <1>15
  DEF Next, Tap, Answered, Resumes, AnswerTimesOut

\* The alert is up for a brilliant move only, whatever is rated late or again,
\* and spinner and totals are right with it (review_notifier.dart:192, 206, 355-368).
THEOREM IndicatorsAreTrue ==
  ASSUME MaxScreens = 1, PromptFrames = TRUE, MaxNotifiers = 1, ~SlowEngine
  PROVE  Spec => []IndicatorsTrue
<1>1. Init => AlertInv
  <2>1. Init => ReplayInv /\ WorkInv
    BY InitReplays, InitWork
  <2>2. Init => Untimed /\ ~(screens > 0)
    BY DEF Init, Untimed
  <2> QED BY <2>1, <2>2 DEF AlertInv, Inv
<1>2. AlertInv /\ [Next]_vars => AlertInv'
  BY DepthNext
<1>3. AlertInv => AlertMeansBrilliant
  <2> SUFFICES ASSUME AlertInv, screens > 0
               PROVE  state[current].alert =>
                        ClassificationAt(state[current], state[current].ply) = "brilliant"
    BY DEF AlertMeansBrilliant, OnScreen
  <2>1. current \in Notifiers /\ Notifiers = {1}
    BY Shown DEF AlertInv, Notifiers
  <2> QED BY <2>1 DEF AlertInv, OneDepth, ShowsAt
<1>4. Spec => []AlertMeansBrilliant
  BY <1>1, <1>2, <1>3, PTL DEF Spec
<1> QED BY <1>4, SpinnersTrackWork, TotalsAreOfRatings, PTL DEF IndicatorsTrue

-----------------------------------------------------------------------------
(* The review on screen implements ReviewPromise                           *)

RatedOf(s) == {p \in 1..Len(s.list) : s.list[p] # Unrated}

SameReview(s, r) == r.game = s.game /\ r.list = s.list /\ r.isAnalyzing = s.isAnalyzing

Begins(s, r) ==
  /\ s.game.boards > 0 /\ ~s.isAnalyzing /\ r.isAnalyzing
  /\ r.game = s.game /\ r.list = s.list

Rates(s, r) ==
  /\ s.isAnalyzing /\ r.isAnalyzing /\ r.game = s.game
  /\ \E p \in 1..(s.game.boards - 1) : RatedOf(r) = RatedOf(s) \cup {p}

Completes(s, r) ==
  /\ s.isAnalyzing /\ ~r.isAnalyzing /\ r.game = s.game
  /\ Missing(r) = {}
  /\ \E p \in 0..s.game.boards : RatedOf(r) \subseteq RatedOf(s) \cup {p}

ReviewStep(s, r) == SameReview(s, r) \/ Begins(s, r) \/ Rates(s, r) \/ Completes(s, r)

LEMMA RatedPlies ==
  ASSUME NEW s \in ReviewStates, Fit(s)
  PROVE  /\ s.game.boards \in Nat
         /\ RatedOf(s) \subseteq Promise!PliesOf(s.game.boards)
         /\ Missing(s) = {} => RatedOf(s) = Promise!PliesOf(s.game.boards)
         /\ s.game.boards = 0 => RatedOf(s) = {} /\ ~s.isAnalyzing
<1>1. /\ s.game.boards \in Nat /\ Len(s.list) \in Nat
      /\ DOMAIN s.list = 1..Len(s.list)
      /\ \A p \in 1..(s.game.boards - 1) : p \in DOMAIN s.list
  BY GameBoards
<1>2. \A p \in RatedOf(s) : p \in 1..s.game.boards /\ p < s.game.boards
  BY <1>1 DEF RatedOf, Fit
<1>3. RatedOf(s) \subseteq Promise!PliesOf(s.game.boards)
  BY <1>2 DEF Promise!PliesOf
<1>4. ASSUME Missing(s) = {}, NEW p \in Promise!PliesOf(s.game.boards)
      PROVE  p \in RatedOf(s)
  <2>1. p \in 1..(s.game.boards - 1)
    BY <1>1, <1>4 DEF Promise!PliesOf
  <2> QED BY <1>1, <1>4, <2>1 DEF Missing, RatedOf
<1>5. ASSUME s.game.boards = 0
      PROVE  RatedOf(s) = {} /\ ~s.isAnalyzing
  <2>1. RatedOf(s) = {}
    BY <1>2, <1>5
  <2>2. \A g \in Games : g.boards # 0
    BY GamesAssumption
  <2> QED BY <1>5, <2>1, <2>2 DEF Fit
<1> QED BY <1>1, <1>3, <1>4, <1>5

\* Nothing of the review on screen changes.
LEMMA PromiseStutters ==
  ASSUME screens' = screens,
         screens > 0 => current' = current /\ SameReview(state[current], state'[current])
  PROVE  UNCHANGED Promise!reviewVars
BY DEF Promise!reviewVars, SameReview

\* What the review on screen does is a step of the promise.
LEMMA PromiseStep ==
  ASSUME Inv, Inv', screens > 0, screens' = screens, current' = current,
         ReviewStep(state[current], state'[current])
  PROVE  [Promise!Next]_(Promise!reviewVars)
<1> DEFINE s == state[current]
           r == state'[current]
<1>1. s \in ReviewStates /\ Fit(s)
  BY Shown
<1>2. r \in ReviewStates /\ Fit(r)
  <2>1. current \in Notifiers
    BY Shown
  <2> QED BY <2>1 DEF Inv, ReplayInv, TypeInv, TypeOK, WorkInv
<1>3. CASE SameReview(s, r)
  BY <1>3, PromiseStutters
<1>4. CASE Begins(s, r)
  <2>1. s.isAnalyzing = FALSE /\ r.isAnalyzing = TRUE
    BY <1>1, <1>2, <1>4 DEF Begins, ReviewStates
  <2>2. Promise!Begin
    BY <1>4, <2>1 DEF Promise!Begin, Begins
  <2> QED BY <2>2 DEF Promise!Next
<1>5. CASE Rates(s, r)
  <2>1. s.isAnalyzing = TRUE /\ r.isAnalyzing = TRUE
    BY <1>1, <1>2, <1>5 DEF Rates, ReviewStates
  <2>2. PICK p \in 1..(s.game.boards - 1) : RatedOf(r) = RatedOf(s) \cup {p}
    BY <1>5 DEF Rates
  <2>3. p \in Promise!PliesOf(s.game.boards)
    BY <1>1, RatedPlies DEF Promise!PliesOf
  <2>4. Promise!Rate
    BY <1>5, <2>1, <2>2, <2>3 DEF Promise!Rate, Rates, RatedOf
  <2> QED BY <2>4 DEF Promise!Next
<1>6. CASE Completes(s, r)
  <2>1. s.isAnalyzing = TRUE /\ r.isAnalyzing = FALSE
    BY <1>1, <1>2, <1>6 DEF Completes, ReviewStates
  <2>2. RatedOf(r) = Promise!PliesOf(r.game.boards)
    BY <1>2, <1>6, RatedPlies DEF Completes
  <2>3. Promise!Complete
    BY <1>6, <2>1, <2>2 DEF Promise!Complete, Completes, RatedOf
  <2> QED BY <2>3 DEF Promise!Next
<1> QED BY <1>3, <1>4, <1>5, <1>6 DEF ReviewStep

\* A review opens.
LEMMA PromiseOpens ==
  ASSUME screens = 0, screens' > 0, NEW g \in Games, state'[current'].game = g,
         \A p \in 1..Len(state'[current'].list) : state'[current'].list[p] = Unrated,
         state'[current'].isAnalyzing \in BOOLEAN
  PROVE  Promise!Next
<1>1. Promise!Open
  BY DEF Promise!Open
<1> QED BY <1>1 DEF Promise!Next

\* The shared tail of EngineStarted and RatePly.
LEMMA ContinuePromise ==
  ASSUME Inv, NEW t \in Tasks, NEW s \in [Notifiers -> ReviewStates], NEW k \in TaskStates,
         NEW ts, k.notifier \in Notifiers, screens > 0,
         \A m \in Notifiers : m # k.notifier => s[m] = state[m],
         Mounted(k.notifier) =>
           /\ state[k.notifier].isAnalyzing
           /\ \/ SameReview(state[k.notifier], s[k.notifier])
              \/ Rates(state[k.notifier], s[k.notifier])
           /\ Missing(s[k.notifier]) \subseteq k.left,
         Continue(t, s, k, ts)
  PROVE  ReviewStep(state[current], state'[current])
<1> DEFINE n == k.notifier
<1>1. TypeOK /\ current \in Notifiers /\ state[current] \in ReviewStates /\ Fit(state[current])
  BY Shown DEF Inv, ReplayInv, TypeInv
<1>2. \/ RunEnds(t, n, s, k, ts)
      \/ Mounted(n) /\ state' = s
  BY <1>1, ContinueWork
<1>3. CASE n # current
  <2>1. state' = s
    BY <1>2, <1>3 DEF RunEnds, Mounted
  <2> QED BY <1>1, <1>3, <2>1 DEF ReviewStep, SameReview
<1>4. CASE n = current
  <2>1. Mounted(n)
    BY <1>4 DEF Mounted
  <2>2. CASE state' = s
    BY <1>4, <2>1, <2>2 DEF ReviewStep
  <2>3. CASE RunEnds(t, n, s, k, ts)
    <3> DEFINE r == s[n]
               f == Finished(r)
    <3>1. state' = [s EXCEPT ![n] = f] /\ Reviewable(r, k) = {}
      BY <2>1, <2>3 DEF RunEnds
    <3>2. f.game = r.game /\ f.list = r.list /\ ~f.isAnalyzing
      BY DEF Finished, ReviewStates
    <3>3. r.game = state[n].game /\ state[n].game.boards \in Nat
      BY <1>1, <1>4, <2>1, GameBoards DEF SameReview, Rates
    <3>4. Missing(r) = {}
      BY <2>1, <3>1, <3>3 DEF Missing, Reviewable
    <3>5. Missing(f) = {} /\ RatedOf(f) = RatedOf(r)
      BY <3>2, <3>4 DEF Missing, RatedOf
    <3>6. \E p \in 0..state[n].game.boards : RatedOf(r) \subseteq RatedOf(state[n]) \cup {p}
      <4>1. CASE SameReview(state[n], r)
        <5>1. RatedOf(r) = RatedOf(state[n])
          BY <4>1 DEF SameReview, RatedOf
        <5> QED BY <3>3, <5>1
      <4>2. CASE Rates(state[n], r)
        BY <3>3, <4>2 DEF Rates
      <4> QED BY <2>1, <4>1, <4>2
    <3>7. state'[n] = f
      BY <3>1
    <3> HIDE DEF f
    <3>8. Completes(state[n], f)
      BY <2>1, <3>2, <3>3, <3>5, <3>6 DEF Completes
    <3> QED BY <1>4, <3>7, <3>8 DEF ReviewStep
  <2> QED BY <1>2, <2>2, <2>3
<1> QED BY <1>3, <1>4

\* The rating of a ply is a Rate of the review it belongs to.
LEMMA RatePromise ==
  ASSUME Inv, NEW t \in Tasks, RatePly(t), screens > 0
  PROVE  ReviewStep(state[current], state'[current])
<1>1. ReplayInv /\ WorkInv /\ TypeInv /\ state \in [Notifiers -> ReviewStates]
  BY DEF Inv, ReplayInv, TypeInv, TypeOK
<1>2. PICK k \in TaskStates, q \in Quality, s \in [Notifiers -> ReviewStates] :
        RatesAs(t, k, q, s)
  BY <1>1, RatedWork
<1> DEFINE n == k.notifier
<1>3. /\ task[t].pc = "gotAfter" /\ n = task[t].notifier /\ n \in Notifiers
      /\ k.ply = task[t].ply /\ k.ply \in 1..(task[t].game.boards - 1) /\ q # "forced"
      /\ k.left = task[t].left /\ k.list = [task[t].list EXCEPT ![k.ply] = q]
  BY <1>1, <1>2, BoundsAssumption DEF RatesAs, TypeInv, TypeOK, WellBound, Notifiers
<1>4. /\ task[t].game = state[n].game /\ Holds(task[t], state[n]) /\ Fit(state[n])
      /\ state[n].isAnalyzing /\ state[n] \in ReviewStates
  BY <1>1, <1>3 DEF ReplayInv, RunsKeepTheirGame, WorkInv, Working, RunsShown, Running
<1>5. \A m \in Notifiers : m # n => s[m] = state[m]
  BY <1>1, <1>2 DEF RatesAs
<1>6. ASSUME Mounted(n)
      PROVE  Rates(state[n], s[n]) /\ Missing(s[n]) \subseteq k.left
  <2> DEFINE r == Rated(state[n], k, q)
  <2>1. s[n] = r
    BY <1>1, <1>2, <1>3, <1>6 DEF RatesAs
  <2>2. k.list = [state[n].list EXCEPT ![k.ply] = q]
    BY <1>3, <1>4 DEF Holds
  <2>3. /\ Fit(r) /\ Missing(r) = Missing(state[n]) \ {k.ply} /\ r.game = state[n].game
        /\ r.isAnalyzing /\ r.list = k.list /\ Len(k.list) = Len(state[n].list)
    BY <1>3, <1>4, <2>2, FitRated
  <2> HIDE DEF r
  <2>4. Missing(r) \subseteq k.left
    BY <1>3, <1>4, <2>3 DEF Holds
  <2>5. /\ state[n].game.boards \in Nat /\ Len(state[n].list) \in Nat
        /\ DOMAIN state[n].list = 1..Len(state[n].list)
        /\ k.ply \in DOMAIN state[n].list
    BY <1>3, <1>4, GameBoards
  <2>6. \A p \in DOMAIN state[n].list : r.list[p] = IF p = k.ply THEN q ELSE state[n].list[p]
    BY <2>2, <2>3
  <2>7. q # Unrated
    BY DEF Quality, Unrated
  <2>8. RatedOf(r) = RatedOf(state[n]) \cup {k.ply}
    BY <2>3, <2>5, <2>6, <2>7 DEF RatedOf
  <2>9. Rates(state[n], r)
    BY <1>3, <1>4, <2>3, <2>8 DEF Rates
  <2> QED BY <2>1, <2>4, <2>9
<1>7. Continue(t, s, k, timers)
  BY <1>2 DEF RatesAs
<1> QED BY <1>3, <1>4, <1>5, <1>6, <1>7, ContinuePromise

\* The start of a run changes nothing on screen, or ends an analysis at once.
LEMMA StartPromise ==
  ASSUME Inv, NEW i \in DOMAIN timers, EngineStarted(i), screens > 0
  PROVE  ReviewStep(state[current], state'[current])
<1>1. WorkInv /\ TypeInv /\ state \in [Notifiers -> ReviewStates]
  BY DEF Inv, ReplayInv, TypeInv, TypeOK
<1>2. PICK t \in Tasks, k \in TaskStates : SetsOff(i, t, k)
  BY <1>1, StartedWork
<1> DEFINE n == k.notifier
<1>3. task[t].pc = "starting" /\ n = task[t].notifier /\ n \in Notifiers
  BY <1>1, <1>2, BoundsAssumption DEF SetsOff, TypeInv, TypeOK, WellBound, Notifiers
<1>4. state[n].isAnalyzing /\ state[n] \in ReviewStates /\ Fit(state[n])
  BY <1>1, <1>3 DEF WorkInv, RunsShown, Running
<1>5. CASE Continue(t, state, k, Drop(timers, i))
  <2>1. SameReview(state[n], state[n]) /\ Missing(state[n]) \subseteq k.left
    BY <1>2 DEF SameReview, SetsOff
  <2> QED BY <1>1, <1>3, <1>4, <1>5, <2>1, ContinuePromise
<1>6. CASE Missing(state[n]) = {} /\ state' = [state EXCEPT ![n] = Finished(state[n])]
  <2> DEFINE f == Finished(state[n])
  <2>1. f.game = state[n].game /\ f.list = state[n].list /\ ~f.isAnalyzing
    BY <1>4 DEF Finished, ReviewStates
  <2>2. state'[n] = f /\ \A m \in Notifiers : m # n => state'[m] = state[m]
    BY <1>1, <1>3, <1>6
  <2> HIDE DEF f
  <2>3. Missing(f) = {} /\ RatedOf(f) = RatedOf(state[n])
    BY <1>6, <2>1 DEF Missing, RatedOf
  <2>4. 0 \in 0..state[n].game.boards
    BY <1>4, GameBoards
  <2>5. Completes(state[n], f)
    BY <1>4, <2>1, <2>3, <2>4 DEF Completes
  <2>6. current \in Notifiers
    BY Shown
  <2> QED BY <2>2, <2>5, <2>6 DEF ReviewStep, SameReview
<1> QED BY <1>2, <1>5, <1>6 DEF SetsOff

LEMMA PromiseNext ==
  ASSUME MaxScreens = 1, PromptFrames = TRUE, Inv, Inv', [Next]_vars
  PROVE  [Promise!Next]_(Promise!reviewVars)
<1> DEFINE Goal == [Promise!Next]_(Promise!reviewVars)
<1>1. /\ state \in [Notifiers -> ReviewStates] /\ screens \in 0..1 /\ current \in 0..MaxNotifiers
      /\ \A n \in Notifiers : n > current => state[n] = FreshState
  BY DEF Inv, ReplayInv, TypeInv, TypeOK, WorkInv, NewReviewsFresh
<1>2. ASSUME screens' = screens, current' = current,
             screens > 0 => ReviewStep(state[current], state'[current])
      PROVE  Goal
  <2>1. CASE screens > 0
    BY <1>2, <2>1, PromiseStep
  <2>2. CASE ~(screens > 0)
    BY <1>2, <2>2, PromiseStutters
  <2> QED BY <2>1, <2>2
<1>3. CASE OpenGame \/ OpenReplay
  <2>1. PICK g \in Games, at \in Nat : OpenReview(g, at)
    BY <1>3, Opens
  <2> DEFINE n == current + 1
             s == Loaded(FreshState, g, at)
             a == Analyzing(s)
  <2>2. /\ screens = 0 /\ screens' > 0 /\ current' = n /\ n \in Notifiers
        /\ state[n] = FreshState
    BY <1>1, <2>1 DEF OpenReview
  <2>3. /\ s.game = g /\ s.list = [p \in 1..Len(g.moves) |-> Unrated] /\ s \in ReviewStates
    BY FitLoaded
  <2>4. a.game = g /\ a.list = s.list /\ a.isAnalyzing = TRUE
    BY <2>3 DEF Analyzing, ReviewStates
  <2>5. \A p \in 1..Len(s.list) : s.list[p] = Unrated
    <3>1. Len(g.moves) \in Nat
      BY GameTypes DEF GameOrNone
    <3> HIDE DEF s
    <3>2. Len(s.list) = Len(g.moves)
      BY <2>3, <3>1
    <3> QED BY <2>3, <3>2
  <2>6. state' = [state EXCEPT ![n] = a] \/ state' = [state EXCEPT ![n] = s]
    BY <2>1, <2>2 DEF OpenReview, StartAnalysis
  <2> HIDE DEF s, a
  <2>7. state'[n] = a \/ state'[n] = s
    BY <1>1, <2>2, <2>6
  <2>8. s.isAnalyzing \in BOOLEAN
    BY <2>3 DEF ReviewStates
  <2> HIDE DEF n
  <2> QED BY <2>2, <2>3, <2>4, <2>5, <2>7, <2>8, PromiseOpens
<1>4. CASE OpenEmpty
  <2> DEFINE n == current + 1
             s == [FreshState EXCEPT !.error = TRUE]
  <2>1. /\ screens = 0 /\ screens' > 0 /\ current' = n /\ n \in Notifiers
        /\ state[n] = FreshState
    BY <1>1, <1>4 DEF OpenEmpty
  <2>2. state' = [state EXCEPT ![n] = s]
    BY <1>4, <2>1 DEF OpenEmpty
  <2>3. s.game.boards = 0 /\ s.list = <<>> /\ s.isAnalyzing = FALSE
    BY DEF FreshState, NoGame
  <2> HIDE DEF s
  <2>4. state'[n] = s
    BY <1>1, <2>1, <2>2
  <2>5. {p \in 1..Len(s.list) : s.list[p] # Unrated} = {}
    BY <2>3
  <2>6. UNCHANGED Promise!reviewVars
    BY <2>1, <2>3, <2>4, <2>5 DEF Promise!reviewVars
  <2> QED BY <2>6
<1>5. CASE CloseReview
  <2>1. screens > 0 /\ ~(screens' > 0)
    BY <1>1, <1>5 DEF CloseReview
  <2>2. state[current] \in ReviewStates /\ Fit(state[current])
    BY <2>1, Shown
  <2>3. /\ state[current].game.boards \in Nat
        /\ state[current].game.boards = 0 =>
             RatedOf(state[current]) = {} /\ state[current].isAnalyzing = FALSE
    BY <2>2, RatedPlies DEF ReviewStates
  <2>4. CASE state[current].game.boards = 0
    <3>1. UNCHANGED Promise!reviewVars
      BY <2>1, <2>3, <2>4 DEF Promise!reviewVars, RatedOf
    <3> QED BY <3>1
  <2>5. CASE state[current].game.boards > 0
    <3>1. Promise!Close
      BY <2>1, <2>5 DEF Promise!Close
    <3> QED BY <3>1 DEF Promise!Next
  <2> QED BY <2>3, <2>4, <2>5
<1>6. CASE RunDeepAnalysis
  <2>1. /\ screens > 0 /\ screens' = screens /\ current' = current
        /\ state[current].game.boards > 0 /\ ~state[current].isAnalyzing
    BY <1>6 DEF RunDeepAnalysis
  <2>2. current \in Notifiers /\ state[current] \in ReviewStates /\ Fit(state[current])
    BY <2>1, Shown
  <2> DEFINE a == Analyzing(state[current])
  <2>3. state'[current] = a
    BY <1>1, <1>6, <2>2 DEF RunDeepAnalysis, StartAnalysis
  <2>4. a.isAnalyzing /\ a.game = state[current].game /\ a.list = state[current].list
    BY <2>2, FitBeginEnd
  <2> HIDE DEF a
  <2>5. Begins(state[current], a)
    BY <2>1, <2>4 DEF Begins
  <2> QED BY <1>2, <2>1, <2>3, <2>5 DEF ReviewStep
<1>7. CASE Navigate \/ DismissBrilliantAlert
  <2>1. screens > 0 /\ screens' = screens /\ current' = current
    BY <1>7 DEF Navigate, DismissBrilliantAlert
  <2>2. current \in Notifiers /\ state[current] \in ReviewStates
    BY <2>1, Shown
  <2>3. SameReview(state[current], state'[current])
    <3>1. CASE Navigate
      <4>1. PICK ply : state' = [state EXCEPT ![current] = AtPly(state[current], ply)]
        BY <3>1 DEF Navigate
      <4>2. SameReview(state[current], AtPly(state[current], ply))
        BY <2>2 DEF AtPly, SameReview, ReviewStates
      <4> QED BY <1>1, <2>2, <4>1, <4>2
    <3>2. CASE DismissBrilliantAlert
      <4> DEFINE x == [state[current] EXCEPT !.alert = FALSE, !.error = FALSE]
      <4>1. state' = [state EXCEPT ![current] = x]
        BY <3>2 DEF DismissBrilliantAlert
      <4>2. SameReview(state[current], x)
        BY <2>2 DEF SameReview, ReviewStates
      <4> HIDE DEF x
      <4> QED BY <1>1, <2>2, <4>1, <4>2
    <3> QED BY <1>7, <3>1, <3>2
  <2> QED BY <1>2, <2>1, <2>3 DEF ReviewStep
<1>8. ASSUME UNCHANGED <<state, current, screens>>
      PROVE  Goal
  BY <1>2, <1>8 DEF ReviewStep, SameReview
<1>9. CASE \/ ChangeSettings \/ ClearAll \/ Frame \/ Answered \/ UNCHANGED vars
           \/ \E t \in Tasks : AskAfter(t) \/ AnswerTimesOut(t)
  BY <1>8, <1>9 DEF ChangeSettings, ClearAll, Frame, Answered, EngineAnswers, AskAfter,
                    AnswerTimesOut, vars
<1>10. CASE Started
  <2>1. PICK i \in DOMAIN timers : EngineStarted(i)
    BY <1>10 DEF Started
  <2>2. screens' = screens /\ current' = current
    BY <2>1 DEF EngineStarted
  <2> QED BY <1>2, <2>1, <2>2, StartPromise
<1>11. ASSUME NEW t \in Tasks, RatePly(t)
       PROVE  Goal
  <2>1. screens' = screens /\ current' = current
    BY <1>11 DEF RatePly
  <2> QED BY <1>2, <1>11, <2>1, RatePromise
<1> QED
  BY <1>3, <1>4, <1>5, <1>6, <1>7, <1>9, <1>10, <1>11 DEF Next, Tap, Resumes

\* The review on screen keeps the promise made to its reader: ratings come one
\* by one, none is withdrawn, and the end of an analysis leaves none out
\* (review_notifier.dart:213-371).
THEOREM ReviewKeepsPromise ==
  ASSUME MaxScreens = 1, PromptFrames = TRUE
  PROVE  Spec => KeepsPromise
<1>1. Init => Promise!Init
  BY DEF Init, Promise!Init
<1>2. Inv /\ Inv' /\ [Next]_vars => [Promise!Next]_(Promise!reviewVars)
  BY PromiseNext
<1>3. Spec => []Inv
  BY Invariant
<1> QED BY <1>1, <1>2, <1>3, PTL DEF Spec, KeepsPromise, Promise!Spec
=============================================================================
