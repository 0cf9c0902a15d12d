----------------------------- MODULE GameHistory -----------------------------
(***************************************************************************)
(* The list of played games: lib/data/repositories/game_repository.dart on *)
(* top of lib/data/sources/chess_com_api.dart, shown by                    *)
(* lib/features/history/history_screen.dart for the connected account.     *)
(*                                                                         *)
(* A fetch is one computation of _historyGamesProvider.  It asks for the   *)
(* list of archives, then for several months at once; every request goes   *)
(* through the interceptor, which repeats it when it is rate limited or    *)
(* times out.  Fetches overlap: leaving the screen or connecting another   *)
(* account does not cancel the one under way, it only forgets its result.  *)
(***************************************************************************)
EXTENDS Naturals, FiniteSets

CONSTANTS
  Users,        \* accounts, by their names in lower case
  Months,       \* bound: the months of the calendar
  Now,          \* the current month
  MaxArchives,  \* months that are fetched, 15 in the code
  MaxGames,     \* bound: games of an account in a month
  MaxFetches,   \* bound: fetches in a behaviour
  NoUser        \* connectedUsername == null

ASSUME HistoryAssumption ==
  /\ Months \subseteq Nat \ {0} /\ IsFiniteSet(Months)
  /\ Now \in Months /\ \A m \in Months : m <= Now
  /\ MaxArchives \in Nat \ {0} /\ MaxGames \in Nat /\ MaxFetches \in Nat \ {0}
  /\ NoUser \notin Users

VARIABLES
  played,  \* played[u][m]: games of account u in month m, at chess.com
  user,    \* connectedUsernameProvider
  watched, \* the history screen is open
  fetch,   \* fetch[f]: the f-th fetch
  latest,  \* the fetch whose result the provider waits for, or 0
  shown,   \* what the screen shows
  cache    \* _gamesCache

vars == <<played, user, watched, fetch, latest, shown, cache>>

Fetches == 1..MaxFetches

\* The request for the archives has the number 0, that for a month the month's.
Requests == {0} \cup Months
Game == Months \X (1..MaxGames)

\* _gamesCache has no entry.
NoEntry == [found |-> FALSE, games |-> {}]
Entry(games) == [found |-> TRUE, games |-> games]

GamesIn(u, months) == {g \in Game : g[1] \in months /\ g[2] <= played[u][g[1]]}
Played(u) == {m \in Months : played[u][m] > 0}

\* sort descending, take(MaxArchives)
Newest(months) ==
  {m \in months : Cardinality({n \in months : n > m}) < MaxArchives}

Loading == [is |-> "loading", games |-> {}, from |-> 0]
Data(games, f) == [is |-> "data", games |-> games, from |-> f]

\* promised and failed are history: what was there to see when the fetch began,
\* and whether one of its requests failed.
IdleFetch ==
  [pc |-> "idle", user |-> NoUser, request |-> [r \in Requests |-> "none"],
   again |-> {}, got |-> {}, promised |-> {}, failed |-> FALSE]

-----------------------------------------------------------------------------
(* The provider *)

NextFetch(f) == fetch[f].pc = "idle" /\ \A g \in Fetches : g < f => fetch[g].pc # "idle"

\* _historyGamesProvider is computed for account u; getRecentGames is asked for a
\* forced refresh, so the cache is not looked at.  No account, no games.
Compute(u) ==
  IF u = NoUser
  THEN /\ latest' = 0
       /\ shown' = Data({}, 0)
       /\ UNCHANGED fetch
  ELSE \E f \in Fetches :
         /\ NextFetch(f)
         /\ latest' = f
         /\ fetch' = [fetch EXCEPT ![f] =
              [IdleFetch EXCEPT !.pc = "archives", !.user = u, !.request[0] = "sent",
                                !.promised = GamesIn(u, Newest(Played(u) \cup {Now}))]]

OpenHistory ==
  /\ ~watched
  /\ watched' = TRUE
  /\ Compute(user)
  /\ user # NoUser => shown' = Loading
  /\ UNCHANGED <<played, user, cache>>

\* autoDispose: the provider is forgotten, the fetch is not.
CloseHistory ==
  /\ watched
  /\ watched' = FALSE /\ latest' = 0 /\ shown' = Loading
  /\ UNCHANGED <<played, user, fetch, cache>>

\* invalidate: the old list stays on screen until the new one is there.
Refresh ==
  /\ watched
  /\ user # NoUser
  /\ Compute(user)
  /\ UNCHANGED <<played, user, watched, shown, cache>>

\* Mutant: the provider reads the account and does not watch it.
ConnectUnseen(u) ==
  /\ u # user
  /\ user' = u
  /\ UNCHANGED <<played, watched, fetch, latest, shown, cache>>

\* The search screen connects an account, CLEAR ALL disconnects it; a provider
\* that is watched is computed anew.
Connect(u) ==
  /\ u # user
  /\ user' = u
  /\ IF watched
     THEN Compute(u) /\ (u # NoUser => shown' = Loading)
     ELSE UNCHANGED <<fetch, latest, shown>>
  /\ UNCHANGED <<played, watched, cache>>

\* A game ends at chess.com.
PlayGame ==
  /\ \E u \in Users :
       /\ played[u][Now] < MaxGames
       /\ played' = [played EXCEPT ![u][Now] = @ + 1]
  /\ UNCHANGED <<user, watched, fetch, latest, shown, cache>>

-----------------------------------------------------------------------------
(* Requests *)

Sent(f, r) == fetch[f].request[r] = "sent"

\* Status 429: the interceptor sleeps for two seconds.
RateLimited(f, r) ==
  /\ Sent(f, r)
  /\ fetch' = [fetch EXCEPT ![f].request[r] = "waiting"]
  /\ UNCHANGED <<played, user, watched, latest, shown, cache>>

\* Mutant: a timeout is repeated, a rate limit is not.
SendNothing(f, r) == FALSE /\ UNCHANGED vars

\* ... and sends the request again, through itself.
SendAgain(f, r) ==
  /\ fetch[f].request[r] = "waiting"
  /\ fetch' = [fetch EXCEPT ![f] = [@ EXCEPT !.request[r] = "sent",
                                            !.again = fetch[f].again \cup {r}]]
  /\ UNCHANGED <<played, user, watched, latest, shown, cache>>

\* A connection or receive timeout is repeated at once.
TimesOut(f, r) ==
  /\ Sent(f, r)
  /\ fetch' = [fetch EXCEPT ![f].again = @ \cup {r}]
  /\ fetch' # fetch
  /\ UNCHANGED <<played, user, watched, latest, shown, cache>>

-----------------------------------------------------------------------------
(* getRecentGames *)

\* Mutant: the current month is not added.
TargetsListed(listed) == Newest(listed)

Targets(listed) == Newest(listed) \cup {Now}

\* The archives, of which the current one may not be listed yet.
ArchivesAnswer(f) ==
  /\ fetch[f].pc = "archives" /\ Sent(f, 0)
  /\ \E listed \in {Played(fetch[f].user), Played(fetch[f].user) \ {Now}} :
       fetch' = [fetch EXCEPT ![f] =
         [@ EXCEPT !.pc = "months",
                   !.request = [r \in Requests |-> IF r = 0 THEN "done"
                                                   ELSE IF r \in Targets(listed) THEN "sent"
                                                   ELSE "none"]]]
  /\ UNCHANGED <<played, user, watched, latest, shown, cache>>

Cached(u) == cache[u].games

\* The result reaches the screen if the provider still waits for this fetch.
Deliver(f, games) ==
  shown' = IF watched /\ latest = f THEN Data(games, f) ELSE shown

\* Any error of the first request ends in the cache, or in an empty list.
ArchivesFail(f) ==
  /\ fetch[f].pc = "archives" /\ Sent(f, 0)
  /\ fetch' = [fetch EXCEPT ![f] = [@ EXCEPT !.pc = "done", !.request[0] = "done", !.failed = TRUE]]
  /\ Deliver(f, Cached(fetch[f].user))
  /\ UNCHANGED <<played, user, watched, latest, cache>>

MonthAnswer(f, m) ==
  /\ fetch[f].pc = "months" /\ Sent(f, m)
  /\ fetch' = [fetch EXCEPT ![f] =
       [@ EXCEPT !.request[m] = "done",
                 !.got = fetch[f].got \cup GamesIn(fetch[f].user, {m})]]
  /\ UNCHANGED <<played, user, watched, latest, shown, cache>>

\* catchError: a month that fails counts as one without games.
MonthFail(f, m) ==
  /\ fetch[f].pc = "months" /\ Sent(f, m)
  /\ fetch' = [fetch EXCEPT ![f] = [@ EXCEPT !.request[m] = "done", !.failed = TRUE]]
  /\ UNCHANGED <<played, user, watched, latest, shown, cache>>

\* Future.wait is over; games with an id already seen are left out, which is what
\* a set does, and the order by date is that of Game.
Merge(f) ==
  /\ fetch[f].pc = "months"
  /\ \A m \in Months : fetch[f].request[m] \in {"none", "done"}
  /\ fetch' = [fetch EXCEPT ![f].pc = "done"]
  /\ cache' = [cache EXCEPT ![fetch[f].user] = Entry(fetch[f].got)]
  /\ Deliver(f, fetch[f].got)
  /\ UNCHANGED <<played, user, watched, latest>>

-----------------------------------------------------------------------------
Init ==
  /\ played \in [Users -> [Months -> 0..MaxGames]]
  /\ user = NoUser
  /\ watched = FALSE
  /\ fetch = [f \in Fetches |-> IdleFetch]
  /\ latest = 0
  /\ shown = Loading
  /\ cache = [u \in Users |-> NoEntry]

Answered(f) == ArchivesAnswer(f) \/ ArchivesFail(f)
MonthAnswered(f, m) == MonthAnswer(f, m) \/ MonthFail(f, m)

Next ==
  \/ OpenHistory \/ CloseHistory \/ Refresh \/ PlayGame
  \/ \E u \in Users \cup {NoUser} : Connect(u)
  \/ \E f \in Fetches :
       \/ Answered(f) \/ Merge(f)
       \/ \E m \in Months : MonthAnswered(f, m)
       \/ \E r \in Requests : RateLimited(f, r) \/ SendAgain(f, r) \/ TimesOut(f, r)

Spec == Init /\ [][Next]_vars

\* Timers and microtasks are served, and a server that is asked again and again
\* answers at some time: strong fairness, for each rate limit interrupts.
Fairness ==
  \A f \in Fetches :
    /\ WF_vars(Merge(f))
    /\ SF_vars(Answered(f))
    /\ \A m \in Months : SF_vars(MonthAnswered(f, m))
    /\ \A r \in Requests : WF_vars(SendAgain(f, r))

FairSpec == Spec /\ Fairness

-----------------------------------------------------------------------------
(* Properties *)

FetchStates ==
  [pc : {"idle", "archives", "months", "done"}, user : Users \cup {NoUser},
   request : [Requests -> {"none", "sent", "waiting", "done"}],
   again : SUBSET Requests, got : SUBSET Game, promised : SUBSET Game, failed : BOOLEAN]

\* The variables keep the types the Dart declarations give them.
TypeOK ==
  /\ played \in [Users -> [Months -> 0..MaxGames]]
  /\ user \in Users \cup {NoUser}
  /\ watched \in BOOLEAN
  /\ fetch \in [Fetches -> FetchStates]
  /\ latest \in 0..MaxFetches
  /\ shown \in [is : {"loading", "data"}, games : SUBSET Game, from : 0..MaxFetches]
  /\ cache \in [Users -> [found : BOOLEAN, games : SUBSET Game]]

\* The games on screen were played by the connected account, whatever fetch for
\* another account is still under way and whatever the cache falls back to
\* (history_screen.dart:20, game_repository.dart:20, 72).
ShownAreOwn ==
  (watched /\ shown.is = "data") =>
    IF user = NoUser THEN shown.games = {} ELSE shown.games \subseteq GamesIn(user, Months)

\* A refresh all of whose requests succeeded, some perhaps repeated, shows every
\* game that was there when it began, of the newest months, even if the current
\* month is not listed yet (game_repository.dart:31-45).
RefreshShowsAll ==
  (watched /\ shown.from # 0 /\ ~fetch[shown.from].failed)
     => fetch[shown.from].promised \subseteq shown.games

\* Every fetch ends, however often a request is rate limited or times out.
EveryFetchEnds ==
  \A f \in Fetches : fetch[f].pc \in {"archives", "months"} ~> fetch[f].pc = "done"
=============================================================================
