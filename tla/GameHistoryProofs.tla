-------------------------- MODULE GameHistoryProofs --------------------------
(***************************************************************************)
(* What TLAPS proves about GameHistory, for any accounts, months and       *)
(* number of overlapping fetches: the types, that no account is ever shown *)
(* the games of another one, and that a refresh leaves out none.           *)
(***************************************************************************)
EXTENDS GameHistory, FiniteSetTheorems, TLAPS

\* A fetch that was begun is for an account and has found games of it only.
FetchesAreOwn ==
  \A f \in Fetches :
    IF fetch[f].pc = "idle" THEN fetch[f] = IdleFetch
    ELSE fetch[f].user \in Users /\ fetch[f].got \subseteq GamesIn(fetch[f].user, Months)

\* The cache falls back to games of the account that is asked for.
CacheIsOwn == \A u \in Users : cache[u].games \subseteq GamesIn(u, Months)

\* The fetch the provider waits for is for the account that is connected, and a
\* provider that nobody watches waits for none.
LatestIsForUser ==
  latest # 0 => watched /\ fetch[latest].pc # "idle" /\ fetch[latest].user = user

\* The inductive invariant: what is shown comes from a fetch or from the cache.
HistoryInv ==
  /\ TypeOK
  /\ FetchesAreOwn
  /\ CacheIsOwn
  /\ LatestIsForUser
  /\ ShownAreOwn

-----------------------------------------------------------------------------
(* Lemmas *)

\* The games of an account are games.
LEMMA GamesType ==
  ASSUME NEW u, NEW months
  PROVE  GamesIn(u, months) \subseteq Game
BY DEF GamesIn

LEMMA IdleType ==
  ASSUME TRUE
  PROVE  IdleFetch \in FetchStates /\ IdleFetch.pc = "idle" /\ IdleFetch.got = {}
BY DEF IdleFetch, FetchStates

\* A step of a fetch that is under way, which keeps its account and takes in games
\* of that account only, keeps the invariant's parts about fetches.
LEMMA FetchStep ==
  ASSUME HistoryInv, NEW f \in Fetches, NEW X \in FetchStates,
         fetch' = [fetch EXCEPT ![f] = X],
         fetch[f].pc # "idle", X.pc # "idle", X.user = fetch[f].user,
         X.got \subseteq GamesIn(X.user, Months),
         UNCHANGED <<played, user, watched, latest>>
  PROVE  /\ fetch' \in [Fetches -> FetchStates]
         /\ FetchesAreOwn' /\ LatestIsForUser'
<1>1. fetch \in [Fetches -> FetchStates]
  BY DEF HistoryInv, TypeOK
<1>2. fetch' \in [Fetches -> FetchStates]
  BY <1>1
<1>3. \A g \in Fetches : fetch'[g] = IF g = f THEN X ELSE fetch[g]
  BY <1>1
<1>4. FetchesAreOwn'
  <2> SUFFICES ASSUME NEW g \in Fetches
               PROVE  IF fetch'[g].pc = "idle" THEN fetch'[g] = IdleFetch
                      ELSE /\ fetch'[g].user \in Users
                           /\ fetch'[g].got \subseteq
                                {x \in Game : x[1] \in Months
                                               /\ x[2] <= played[fetch'[g].user][x[1]]}
    BY DEF FetchesAreOwn, IdleFetch, Requests, GamesIn, Game, Fetches
  <2>1. CASE g = f
    BY <2>1, <1>3 DEF HistoryInv, FetchesAreOwn, GamesIn
  <2>2. CASE g # f
    BY <2>2, <1>3 DEF HistoryInv, FetchesAreOwn, GamesIn
  <2> QED BY <2>1, <2>2
<1>5. LatestIsForUser'
  <2>1. latest # 0 => latest \in Fetches
    BY DEF HistoryInv, TypeOK, Fetches
  <2> QED BY <2>1, <1>3 DEF HistoryInv, LatestIsForUser
<1> QED BY <1>2, <1>4, <1>5

\* A step that lets fetches, cache and screen alone keeps the rest.
LEMMA KeepsOwn ==
  ASSUME HistoryInv, UNCHANGED <<played, user, watched, cache>>,
         fetch' \in [Fetches -> FetchStates], FetchesAreOwn', LatestIsForUser',
         shown' = shown, latest' = latest
  PROVE  HistoryInv'
<1>1. \A u : GamesIn(u, Months)' = GamesIn(u, Months)
  BY DEF GamesIn
<1>2. TypeOK'
  BY DEF HistoryInv, TypeOK, Fetches, Game, Requests, FetchStates
<1>3. CacheIsOwn'
  BY <1>1 DEF HistoryInv, CacheIsOwn
<1>4. ShownAreOwn'
  BY <1>1 DEF HistoryInv, ShownAreOwn
<1> QED BY <1>2, <1>3, <1>4 DEF HistoryInv

\* What a fetch of the invariant looks like.
LEMMA FetchTypes ==
  ASSUME HistoryInv, NEW f \in Fetches
  PROVE  /\ fetch[f] \in FetchStates
         /\ fetch[f].pc # "idle" =>
              /\ fetch[f].user \in Users
              /\ fetch[f].got \subseteq GamesIn(fetch[f].user, Months)
         /\ fetch[f].pc = "idle" =>
              /\ fetch[f].user = NoUser
              /\ \A r \in Requests : fetch[f].request[r] = "none"
<1>1. fetch[f] \in FetchStates
  BY DEF HistoryInv, TypeOK
<1>2. CASE fetch[f].pc = "idle"
  <2>1. fetch[f] = IdleFetch
    BY <1>2 DEF HistoryInv, FetchesAreOwn
  <2> QED BY <1>1, <1>2, <2>1 DEF IdleFetch
<1>3. CASE fetch[f].pc # "idle"
  BY <1>1, <1>3 DEF HistoryInv, FetchesAreOwn
<1> QED BY <1>2, <1>3

\* A request that is under way changes its state and that it was repeated.
LEMMA RequestStep ==
  ASSUME HistoryInv, NEW f \in Fetches, NEW r \in Requests,
         RateLimited(f, r) \/ SendAgain(f, r) \/ TimesOut(f, r)
  PROVE  HistoryInv'
<1> DEFINE X(q, again) == [fetch[f] EXCEPT !.request = q, !.again = again]
<1>1. PICK q \in [Requests -> {"none", "sent", "waiting", "done"}], again \in SUBSET Requests :
        fetch' = [fetch EXCEPT ![f] = X(q, again)]
  <2> DEFINE F == fetch[f]
  <2>1. F \in FetchStates /\ fetch \in [Fetches -> FetchStates]
    BY FetchTypes DEF HistoryInv, TypeOK
  <2>2. F.request \in [Requests -> {"none", "sent", "waiting", "done"}] /\ F.again \in SUBSET Requests
    BY <2>1 DEF FetchStates
  <2>3. CASE RateLimited(f, r)
    <3> DEFINE q == [F.request EXCEPT ![r] = "waiting"]
    <3>1. X(q, F.again) = [F EXCEPT !.request = q]
      BY <2>1 DEF FetchStates
    <3>2. fetch' = [fetch EXCEPT ![f] = X(q, F.again)]
      BY <2>3, <3>1 DEF RateLimited
    <3> QED BY <2>2, <3>2
  <2>4. CASE SendAgain(f, r)
    <3> DEFINE q == [F.request EXCEPT ![r] = "sent"]
    <3>1. X(q, F.again \cup {r}) = [F EXCEPT !.request[r] = "sent", !.again = F.again \cup {r}]
      BY <2>1 DEF FetchStates
    <3>2. fetch' = [fetch EXCEPT ![f] = X(q, F.again \cup {r})]
      BY <2>4, <3>1 DEF SendAgain
    <3> QED BY <2>2, <3>2
  <2>5. CASE TimesOut(f, r)
    <3>1. X(F.request, F.again \cup {r}) = [F EXCEPT !.again = @ \cup {r}]
      BY <2>1 DEF FetchStates
    <3>2. fetch' = [fetch EXCEPT ![f] = X(F.request, F.again \cup {r})]
      BY <2>5, <3>1 DEF TimesOut
    <3> QED BY <2>2, <3>2
  <2> QED BY <2>3, <2>4, <2>5
<1>2. fetch[f].pc # "idle"
  BY FetchTypes DEF RateLimited, SendAgain, TimesOut, Sent
<1>3. /\ X(q, again) \in FetchStates
      /\ X(q, again).pc = fetch[f].pc
      /\ X(q, again).user = fetch[f].user
      /\ X(q, again).got = fetch[f].got
  <2>1. fetch[f] \in FetchStates
    BY FetchTypes
  <2> QED BY <1>1, <2>1 DEF FetchStates
<1>4. UNCHANGED <<played, user, watched, latest, shown, cache>>
  BY DEF RateLimited, SendAgain, TimesOut
<1> HIDE DEF X
<1>5. /\ fetch' \in [Fetches -> FetchStates]
      /\ FetchesAreOwn' /\ LatestIsForUser'
  BY <1>1, <1>2, <1>3, <1>4, FetchStep, FetchTypes
<1> QED BY <1>4, <1>5, KeepsOwn

\* The archives and the months come in, or fail, without touching the screen.
LEMMA AnswerStep ==
  ASSUME HistoryInv, NEW f \in Fetches,
         ArchivesAnswer(f) \/ \E m \in Months : MonthAnswered(f, m)
  PROVE  HistoryInv'
<1> DEFINE F == fetch[f]
           Q == [Requests -> {"none", "sent", "waiting", "done"}]
           X(pc, q, got, failed) ==
             [F EXCEPT !.pc = pc, !.request = q, !.got = got, !.failed = failed]
<1>1. F \in FetchStates /\ fetch \in [Fetches -> FetchStates] /\ F.pc \in {"archives", "months"}
  BY FetchTypes DEF HistoryInv, TypeOK, ArchivesAnswer, MonthAnswered, MonthAnswer, MonthFail
<1>2. /\ F.request \in Q /\ F.got \subseteq Game /\ F.failed \in BOOLEAN
      /\ F.got \subseteq GamesIn(F.user, Months)
  BY <1>1, FetchTypes DEF FetchStates
<1>3. PICK pc \in {"archives", "months"}, q \in Q, got \in SUBSET Game, failed \in BOOLEAN :
        /\ fetch' = [fetch EXCEPT ![f] = X(pc, q, got, failed)]
        /\ got \subseteq GamesIn(F.user, Months)
  <2>1. CASE ArchivesAnswer(f)
    <3>1. PICK listed \in {Played(F.user), Played(F.user) \ {Now}} :
            fetch' = [fetch EXCEPT ![f] =
              [F EXCEPT !.pc = "months",
                        !.request = [r \in Requests |-> IF r = 0 THEN "done"
                                                        ELSE IF r \in Targets(listed) THEN "sent"
                                                        ELSE "none"]]]
      BY <2>1 DEF ArchivesAnswer
    <3> DEFINE q == [r \in Requests |-> IF r = 0 THEN "done"
                                        ELSE IF r \in Targets(listed) THEN "sent"
                                        ELSE "none"]
    <3>2. q \in Q
      OBVIOUS
    <3> HIDE DEF q
    <3>3. X("months", q, F.got, F.failed) = [F EXCEPT !.pc = "months", !.request = q]
      BY <1>1 DEF FetchStates
    <3>4. fetch' = [fetch EXCEPT ![f] = X("months", q, F.got, F.failed)]
      BY <3>1, <3>3 DEF q
    <3> QED BY <1>2, <3>2, <3>4
  <2>2. ASSUME NEW m \in Months, MonthAnswer(f, m)
        PROVE  \E pc \in {"archives", "months"}, q \in Q, got \in SUBSET Game, failed \in BOOLEAN :
                 /\ fetch' = [fetch EXCEPT ![f] = X(pc, q, got, failed)]
                 /\ got \subseteq GamesIn(F.user, Months)
    <3> DEFINE q == [F.request EXCEPT ![m] = "done"]
               got == F.got \cup GamesIn(F.user, {m})
    <3>1. q \in Q /\ got \in SUBSET Game
      BY <1>2, GamesType
    <3>2. got \subseteq GamesIn(F.user, Months)
      BY <1>2 DEF GamesIn
    <3>3. X(F.pc, q, got, F.failed) = [F EXCEPT !.request[m] = "done", !.got = got]
      BY <1>1 DEF FetchStates
    <3>4. fetch' = [fetch EXCEPT ![f] = X(F.pc, q, got, F.failed)]
      BY <2>2, <3>3 DEF MonthAnswer
    <3> HIDE DEF q, got
    <3> QED BY <1>1, <1>2, <3>1, <3>2, <3>4
  <2>3. ASSUME NEW m \in Months, MonthFail(f, m)
        PROVE  \E pc \in {"archives", "months"}, q \in Q, got \in SUBSET Game, failed \in BOOLEAN :
                 /\ fetch' = [fetch EXCEPT ![f] = X(pc, q, got, failed)]
                 /\ got \subseteq GamesIn(F.user, Months)
    <3> DEFINE q == [F.request EXCEPT ![m] = "done"]
    <3>1. q \in Q
      BY <1>2
    <3>2. X(F.pc, q, F.got, TRUE) = [F EXCEPT !.request[m] = "done", !.failed = TRUE]
      BY <1>1 DEF FetchStates
    <3>3. fetch' = [fetch EXCEPT ![f] = X(F.pc, q, F.got, TRUE)]
      BY <2>3, <3>2 DEF MonthFail
    <3> HIDE DEF q
    <3> QED BY <1>1, <1>2, <3>1, <3>3
  <2> QED BY <2>1, <2>2, <2>3 DEF MonthAnswered
<1>4. /\ X(pc, q, got, failed) \in FetchStates
      /\ X(pc, q, got, failed).pc = pc
      /\ X(pc, q, got, failed).user = F.user
      /\ X(pc, q, got, failed).got = got
  BY <1>1, <1>3 DEF FetchStates
<1>5. UNCHANGED <<played, user, watched, latest, shown, cache>>
  BY DEF ArchivesAnswer, MonthAnswered, MonthAnswer, MonthFail
<1> HIDE DEF X
<1>6. /\ fetch' \in [Fetches -> FetchStates]
      /\ FetchesAreOwn' /\ LatestIsForUser'
  BY <1>1, <1>3, <1>4, <1>5, FetchStep
<1> QED BY <1>5, <1>6, KeepsOwn

\* A fetch ends with games of its account, puts them into the cache or takes them
\* from there, and they reach the screen if the provider waits for it.
LEMMA EndStep ==
  ASSUME HistoryInv, NEW f \in Fetches, ArchivesFail(f) \/ Merge(f)
  PROVE  HistoryInv'
<1> DEFINE F == fetch[f]
           games == IF Merge(f) THEN F.got ELSE Cached(F.user)
<1>1. F \in FetchStates /\ fetch \in [Fetches -> FetchStates] /\ F.pc \in {"archives", "months"}
  BY FetchTypes DEF HistoryInv, TypeOK, ArchivesFail, Merge
<1>2. F.user \in Users /\ F.got \subseteq GamesIn(F.user, Months)
  BY <1>1, FetchTypes
<1>3. /\ fetch' \in [Fetches -> FetchStates]
      /\ FetchesAreOwn' /\ LatestIsForUser'
  <2>1. CASE ArchivesFail(f)
    <3> DEFINE q == [F.request EXCEPT ![0] = "done"]
               X == [F EXCEPT !.pc = "done", !.request = q, !.failed = TRUE]
    <3>1. F.request \in [Requests -> {"none", "sent", "waiting", "done"}]
      BY <1>1 DEF FetchStates
    <3>2. q \in [Requests -> {"none", "sent", "waiting", "done"}]
      BY <3>1
    <3>3. X = [F EXCEPT !.pc = "done", !.request[0] = "done", !.failed = TRUE]
      BY <1>1 DEF FetchStates
    <3>4. fetch' = [fetch EXCEPT ![f] = X]
      BY <2>1, <3>3 DEF ArchivesFail
    <3> HIDE DEF q
    <3>5. X \in FetchStates /\ X.pc = "done" /\ X.user = F.user /\ X.got = F.got
      BY <1>1, <3>2 DEF FetchStates
    <3>6. UNCHANGED <<played, user, watched, latest>>
      BY <2>1 DEF ArchivesFail
    <3> HIDE DEF X
    <3> QED BY <1>1, <1>2, <3>4, <3>5, <3>6, FetchStep
  <2>2. CASE Merge(f)
    <3> DEFINE X == [F EXCEPT !.pc = "done"]
    <3>1. fetch' = [fetch EXCEPT ![f] = X]
      BY <2>2 DEF Merge
    <3>2. X \in FetchStates /\ X.pc = "done" /\ X.user = F.user /\ X.got = F.got
      BY <1>1 DEF FetchStates
    <3>3. UNCHANGED <<played, user, watched, latest>>
      BY <2>2 DEF Merge
    <3> HIDE DEF X
    <3> QED BY <1>1, <1>2, <3>1, <3>2, <3>3, FetchStep
  <2> QED BY <2>1, <2>2
<1>4. /\ UNCHANGED <<played, user, watched, latest>>
      /\ shown' = IF watched /\ latest = f THEN Data(games, f) ELSE shown
      /\ cache' = cache \/ cache' = [cache EXCEPT ![F.user] = Entry(F.got)]
  <2>1. CASE Merge(f)
    BY <2>1 DEF Merge, Deliver
  <2>2. CASE ~Merge(f)
    BY <2>2 DEF ArchivesFail, Deliver
  <2> QED BY <2>1, <2>2
<1>5. games \subseteq GamesIn(F.user, Months) /\ games \subseteq Game
  BY <1>2, GamesType DEF HistoryInv, CacheIsOwn, Cached
<1> HIDE DEF games
<1>6. \A u : GamesIn(u, Months)' = GamesIn(u, Months)
  BY <1>4 DEF GamesIn
<1>7. cache' \in [Users -> [found : BOOLEAN, games : SUBSET Game]] /\ CacheIsOwn'
  <2>1. cache \in [Users -> [found : BOOLEAN, games : SUBSET Game]]
    BY DEF HistoryInv, TypeOK
  <2>2. Entry(F.got) \in [found : BOOLEAN, games : SUBSET Game] /\ Entry(F.got).games = F.got
    BY <1>2, GamesType DEF Entry
  <2>3. \A u \in Users : cache'[u] = cache[u] \/ (u = F.user /\ cache'[u] = Entry(F.got))
    BY <1>4, <2>1
  <2>4. cache' \in [Users -> [found : BOOLEAN, games : SUBSET Game]]
    BY <1>4, <2>1, <2>2
  <2>5. CacheIsOwn'
    BY <1>2, <1>6, <2>2, <2>3 DEF HistoryInv, CacheIsOwn
  <2> QED BY <2>4, <2>5
<1>8. shown' \in [is : {"loading", "data"}, games : SUBSET Game, from : 0..MaxFetches]
  <2>1. Data(games, f) \in [is : {"loading", "data"}, games : SUBSET Game, from : 0..MaxFetches]
    BY <1>5, HistoryAssumption DEF Data, Fetches
  <2> QED BY <1>4, <2>1 DEF HistoryInv, TypeOK
<1>9. TypeOK'
  BY <1>3, <1>4, <1>7, <1>8 DEF HistoryInv, TypeOK, Fetches, Game, Requests, FetchStates
<1>10. ShownAreOwn'
  <2>1. CASE watched /\ latest = f
    <3>1. shown' = Data(games, f) /\ user' = F.user
      BY <2>1, <1>4 DEF HistoryInv, LatestIsForUser, Fetches
    <3>2. user' # NoUser /\ shown'.games = games
      BY <3>1, <1>2, HistoryAssumption DEF Data
    <3> QED BY <3>1, <3>2, <1>5, <1>6 DEF ShownAreOwn
  <2>2. CASE ~(watched /\ latest = f)
    BY <2>2, <1>4, <1>6 DEF HistoryInv, ShownAreOwn
  <2> QED BY <2>1, <2>2
<1> QED BY <1>3, <1>7, <1>9, <1>10 DEF HistoryInv

\* A new computation of the provider for the account that is connected then: a
\* fetch of its own begins, or there is nothing to fetch.
LEMMA ComputeStep ==
  ASSUME HistoryInv, NEW u \in Users \cup {NoUser}, Compute(u), user' = u,
         UNCHANGED <<played, cache>>, watched' = TRUE,
         u # NoUser => shown' = Loading \/ (user' = user /\ UNCHANGED <<watched, shown>>)
  PROVE  HistoryInv'
<1>1. fetch \in [Fetches -> FetchStates]
  BY DEF HistoryInv, TypeOK
<1>2. \A v : GamesIn(v, Months)' = GamesIn(v, Months)
  BY DEF GamesIn
<1>3. CacheIsOwn'
  BY <1>2 DEF HistoryInv, CacheIsOwn
<1>4. CASE u = NoUser
  <2>1. latest' = 0 /\ shown' = Data({}, 0) /\ fetch' = fetch
    BY <1>4 DEF Compute
  <2>2. shown' \in [is : {"loading", "data"}, games : SUBSET Game, from : 0..MaxFetches]
    BY <2>1, HistoryAssumption DEF Data
  <2>3. latest' \in 0..MaxFetches
    BY <2>1, HistoryAssumption
  <2>4. TypeOK'
    BY <2>1, <2>2, <2>3 DEF HistoryInv, TypeOK, Fetches, Game, Requests, FetchStates
  <2>5. FetchesAreOwn'
    BY <2>1 DEF HistoryInv, FetchesAreOwn, IdleFetch, Requests, GamesIn, Game, Fetches
  <2>6. LatestIsForUser' /\ ShownAreOwn'
    BY <2>1, <1>4 DEF LatestIsForUser, ShownAreOwn, Data
  <2> QED BY <1>3, <2>4, <2>5, <2>6 DEF HistoryInv
<1>5. CASE u # NoUser
  <2> DEFINE promised == GamesIn(u, Newest(Played(u) \cup {Now}))
             q == [r \in Requests |-> IF r = 0 THEN "sent" ELSE "none"]
             X == [IdleFetch EXCEPT !.pc = "archives", !.user = u, !.request = q,
                                    !.promised = promised]
  <2>1. PICK f \in Fetches : latest' = f /\ fetch' = [fetch EXCEPT ![f] = X]
    <3>1. PICK f \in Fetches :
            /\ latest' = f
            /\ fetch' = [fetch EXCEPT ![f] =
                 [IdleFetch EXCEPT !.pc = "archives", !.user = u, !.request[0] = "sent",
                                   !.promised = promised]]
      BY <1>5 DEF Compute
    <3>2. q = [IdleFetch.request EXCEPT ![0] = "sent"]
      BY DEF IdleFetch
    <3>3. X = [IdleFetch EXCEPT !.pc = "archives", !.user = u, !.request[0] = "sent",
                                !.promised = promised]
      BY <3>2 DEF IdleFetch
    <3> QED BY <3>1, <3>3
  <2>2. /\ X \in FetchStates /\ X.pc = "archives" /\ X.user = u /\ X.got = {}
    <3>1. promised \subseteq Game
      BY GamesType
    <3>2. q \in [Requests -> {"none", "sent", "waiting", "done"}]
      OBVIOUS
    <3> HIDE DEF promised, q
    <3> QED BY <3>1, <3>2, IdleType DEF FetchStates
  <2> HIDE DEF X
  <2>3. /\ fetch' \in [Fetches -> FetchStates]
        /\ \A g \in Fetches : fetch'[g] = IF g = f THEN X ELSE fetch[g]
    BY <1>1, <2>1, <2>2
  <2>4. FetchesAreOwn'
    <3> SUFFICES ASSUME NEW g \in Fetches
                 PROVE  IF fetch'[g].pc = "idle" THEN fetch'[g] = IdleFetch
                        ELSE /\ fetch'[g].user \in Users
                             /\ fetch'[g].got \subseteq
                                  {x \in Game : x[1] \in Months
                                                 /\ x[2] <= played[fetch'[g].user][x[1]]}
      BY DEF FetchesAreOwn, IdleFetch, Requests, GamesIn, Game, Fetches
    <3>1. CASE g = f
      BY <3>1, <1>5, <2>2, <2>3
    <3>2. CASE g # f
      BY <3>2, <2>3 DEF HistoryInv, FetchesAreOwn, GamesIn
    <3> QED BY <3>1, <3>2
  <2>5. LatestIsForUser'
    BY <2>1, <2>2, <2>3 DEF LatestIsForUser
  <2>6. shown' \in [is : {"loading", "data"}, games : SUBSET Game, from : 0..MaxFetches]
    <3>1. Loading \in [is : {"loading", "data"}, games : SUBSET Game, from : 0..MaxFetches]
      BY HistoryAssumption DEF Loading
    <3> QED BY <1>5, <3>1 DEF HistoryInv, TypeOK
  <2>7. latest' \in 0..MaxFetches
    BY <2>1 DEF Fetches
  <2>8. TypeOK'
    BY <2>3, <2>6, <2>7 DEF HistoryInv, TypeOK, Fetches, Game, Requests, FetchStates
  <2>9. ShownAreOwn'
    <3>1. CASE shown' = Loading
      BY <3>1 DEF ShownAreOwn, Loading
    <3>2. CASE user' = user /\ UNCHANGED <<watched, shown>>
      BY <3>2, <1>2 DEF HistoryInv, ShownAreOwn
    <3> QED BY <1>5, <3>1, <3>2
  <2> QED BY <1>3, <2>4, <2>5, <2>8, <2>9 DEF HistoryInv
<1> QED BY <1>4, <1>5

\* Games are added to what is at chess.com, and none is taken away.
LEMMA PlayStep ==
  ASSUME HistoryInv, PlayGame
  PROVE  HistoryInv'
<1>1. PICK u \in Users : /\ played[u][Now] < MaxGames
                         /\ played' = [played EXCEPT ![u][Now] = @ + 1]
  BY DEF PlayGame
<1>2. played \in [Users -> [Months -> 0..MaxGames]]
  BY DEF HistoryInv, TypeOK
<1>3. \A v \in Users, m \in Months : /\ played[v][m] \in 0..MaxGames
                                     /\ played'[v][m] \in 0..MaxGames
                                     /\ played[v][m] <= played'[v][m]
  BY <1>1, <1>2, HistoryAssumption
<1>4. played' \in [Users -> [Months -> 0..MaxGames]]
  BY <1>1, <1>2, <1>3
<1>5. UNCHANGED <<user, watched, fetch, latest, shown, cache>>
  BY DEF PlayGame
<1>6. \A v \in Users, S \in SUBSET Game :
        S \subseteq GamesIn(v, Months)
          => S \subseteq {x \in Game : x[1] \in Months /\ x[2] <= played'[v][x[1]]}
  <2> SUFFICES ASSUME NEW v \in Users, NEW x \in Game, x[1] \in Months, x[2] <= played[v][x[1]]
               PROVE  x[2] <= played'[v][x[1]]
    BY DEF GamesIn
  <2>1. x[2] \in Nat
    BY HistoryAssumption DEF Game
  <2>2. /\ played[v][x[1]] \in 0..MaxGames /\ played'[v][x[1]] \in 0..MaxGames
        /\ played[v][x[1]] <= played'[v][x[1]]
    BY <1>3
  <2>3. \A a, b, c \in Nat : a <= b /\ b <= c => a <= c
    OBVIOUS
  <2>4. played[v][x[1]] \in Nat /\ played'[v][x[1]] \in Nat
    BY <2>2, HistoryAssumption
  <2> QED BY <2>1, <2>2, <2>3, <2>4, Zenon
<1>7. TypeOK'
  BY <1>4, <1>5 DEF HistoryInv, TypeOK, Fetches, Game, Requests, FetchStates
<1>8. FetchesAreOwn'
  <2> SUFFICES ASSUME NEW f \in Fetches, fetch[f].pc # "idle"
               PROVE  fetch[f].got \subseteq
                        {x \in Game : x[1] \in Months
                                       /\ x[2] <= played'[fetch[f].user][x[1]]}
    BY <1>5 DEF HistoryInv, FetchesAreOwn, IdleFetch, Requests, GamesIn, Game, Fetches
  <2>1. fetch[f].user \in Users /\ fetch[f].got \subseteq GamesIn(fetch[f].user, Months)
    BY FetchTypes
  <2> QED BY <1>6, <2>1, GamesType
<1>9. CacheIsOwn'
  <2> SUFFICES ASSUME NEW v \in Users
               PROVE  cache[v].games \subseteq
                        {x \in Game : x[1] \in Months /\ x[2] <= played'[v][x[1]]}
    BY <1>5 DEF CacheIsOwn, GamesIn, Game
  <2>1. cache[v].games \subseteq GamesIn(v, Months)
    BY DEF HistoryInv, CacheIsOwn
  <2> QED BY <1>6, <2>1, GamesType
<1>10. LatestIsForUser'
  BY <1>5 DEF HistoryInv, LatestIsForUser
<1>11. ShownAreOwn'
  <2> SUFFICES ASSUME watched, shown.is = "data", user # NoUser
               PROVE  shown.games \subseteq
                        {x \in Game : x[1] \in Months /\ x[2] <= played'[user][x[1]]}
    BY <1>5 DEF HistoryInv, ShownAreOwn, GamesIn, Game
  <2>1. user \in Users /\ shown.games \subseteq GamesIn(user, Months)
    BY DEF HistoryInv, TypeOK, ShownAreOwn
  <2> QED BY <1>6, <2>1, GamesType
<1> QED BY <1>7, <1>8, <1>9, <1>10, <1>11 DEF HistoryInv

\* Nobody looks: the screen is left, or the connection changes meanwhile.
LEMMA UnwatchedStep ==
  ASSUME HistoryInv, UNCHANGED <<played, fetch, cache>>,
         user' \in Users \cup {NoUser}, watched' = FALSE, latest' = 0,
         shown' = shown \/ shown' = Loading
  PROVE  HistoryInv'
<1>1. shown' \in [is : {"loading", "data"}, games : SUBSET Game, from : 0..MaxFetches]
  <2>1. Loading \in [is : {"loading", "data"}, games : SUBSET Game, from : 0..MaxFetches]
    BY HistoryAssumption DEF Loading
  <2> QED BY <2>1 DEF HistoryInv, TypeOK
<1>2. latest' \in 0..MaxFetches
  BY HistoryAssumption
<1>3. TypeOK'
  BY <1>1, <1>2 DEF HistoryInv, TypeOK, Fetches, Game, Requests, FetchStates
<1>4. FetchesAreOwn' /\ CacheIsOwn'
  BY DEF HistoryInv, FetchesAreOwn, CacheIsOwn, IdleFetch, Requests, GamesIn, Game, Fetches
<1>5. LatestIsForUser' /\ ShownAreOwn'
  BY DEF LatestIsForUser, ShownAreOwn
<1> QED BY <1>3, <1>4, <1>5 DEF HistoryInv

-----------------------------------------------------------------------------
(* The invariant is inductive *)

LEMMA HistoryInit ==
  ASSUME Init
  PROVE  HistoryInv
<1>1. TypeOK
  <2>1. Loading \in [is : {"loading", "data"}, games : SUBSET Game, from : 0..MaxFetches]
    BY HistoryAssumption DEF Loading
  <2>2. NoEntry \in [found : BOOLEAN, games : SUBSET Game]
    BY DEF NoEntry
  <2>3. latest \in 0..MaxFetches
    BY HistoryAssumption DEF Init
  <2> QED BY <2>1, <2>2, <2>3, IdleType DEF Init, TypeOK
<1>2. FetchesAreOwn
  BY IdleType DEF Init, FetchesAreOwn
<1>3. CacheIsOwn /\ LatestIsForUser /\ ShownAreOwn
  BY DEF Init, CacheIsOwn, NoEntry, LatestIsForUser, ShownAreOwn
<1> QED BY <1>1, <1>2, <1>3 DEF HistoryInv

LEMMA HistoryStep ==
  ASSUME HistoryInv, [Next]_vars
  PROVE  HistoryInv'
<1>1. user \in Users \cup {NoUser} /\ watched \in BOOLEAN
  BY DEF HistoryInv, TypeOK
<1>2. CASE OpenHistory
  <2>1. /\ Compute(user) /\ user' = user /\ watched' = TRUE
        /\ UNCHANGED <<played, cache>>
        /\ user # NoUser => shown' = Loading
    BY <1>2 DEF OpenHistory
  <2> QED BY <1>1, <2>1, ComputeStep
<1>3. CASE CloseHistory
  <2>1. /\ watched' = FALSE /\ latest' = 0 /\ shown' = Loading
        /\ user' \in Users \cup {NoUser} /\ UNCHANGED <<played, fetch, cache>>
    BY <1>1, <1>3 DEF CloseHistory
  <2> QED BY <2>1, UnwatchedStep
<1>4. CASE Refresh
  <2>1. /\ Compute(user) /\ user' = user /\ watched' = TRUE
        /\ UNCHANGED <<played, watched, shown, cache>>
    BY <1>1, <1>4 DEF Refresh
  <2> QED BY <1>1, <2>1, ComputeStep
<1>5. ASSUME NEW u \in Users \cup {NoUser}, Connect(u)
      PROVE  HistoryInv'
  <2>1. user' = u /\ UNCHANGED <<played, watched, cache>>
    BY <1>5 DEF Connect
  <2>2. CASE watched
    <3>1. Compute(u) /\ (u # NoUser => shown' = Loading) /\ watched' = TRUE
      BY <1>5, <2>1, <2>2 DEF Connect
    <3> QED BY <2>1, <3>1, ComputeStep
  <2>3. CASE ~watched
    <3>1. UNCHANGED <<fetch, latest, shown>> /\ watched' = FALSE
      BY <1>1, <1>5, <2>1, <2>3 DEF Connect
    <3>2. latest' = 0
      BY <2>3, <3>1 DEF HistoryInv, LatestIsForUser
    <3> QED BY <2>1, <3>1, <3>2, UnwatchedStep
  <2> QED BY <2>2, <2>3
<1>6. CASE PlayGame
  BY <1>6, PlayStep
<1>7. ASSUME NEW f \in Fetches, Answered(f) \/ Merge(f)
      PROVE  HistoryInv'
  BY <1>7, AnswerStep, EndStep DEF Answered
<1>8. ASSUME NEW f \in Fetches, NEW m \in Months, MonthAnswered(f, m)
      PROVE  HistoryInv'
  BY <1>8, AnswerStep
<1>9. ASSUME NEW f \in Fetches, NEW r \in Requests,
             RateLimited(f, r) \/ SendAgain(f, r) \/ TimesOut(f, r)
      PROVE  HistoryInv'
  BY <1>9, RequestStep
<1>10. CASE UNCHANGED vars
  <2>1. UNCHANGED <<played, user, watched, fetch, latest, shown, cache>>
    BY <1>10 DEF vars
  <2>2. fetch' \in [Fetches -> FetchStates]
    BY <2>1 DEF HistoryInv, TypeOK
  <2>3. FetchesAreOwn' /\ LatestIsForUser'
    BY <2>1 DEF HistoryInv, FetchesAreOwn, LatestIsForUser, IdleFetch, Requests, GamesIn,
                Game, Fetches
  <2> QED BY <2>1, <2>2, <2>3, KeepsOwn
<1> QED BY <1>2, <1>3, <1>4, <1>5, <1>6, <1>7, <1>8, <1>9, <1>10 DEF Next

-----------------------------------------------------------------------------
(* Theorems *)

\* The variables of the history keep their types in every behaviour, for any
\* accounts, months and number of overlapping fetches.
THEOREM HistoryTypeCorrectness == Spec => []TypeOK
<1>1. HistoryInv => TypeOK
  BY DEF HistoryInv
<1> QED BY <1>1, HistoryInit, HistoryStep, PTL DEF Spec

\* Whatever fetches for whatever accounts overlap, fail or fall back to the cache
\* (game_repository.dart:20, 71-73), the games on screen were played by the account
\* that is connected.
THEOREM AccountsSeeOwnGames == Spec => []ShownAreOwn
<1>1. HistoryInv => ShownAreOwn
  BY DEF HistoryInv
<1> QED BY <1>1, HistoryInit, HistoryStep, PTL DEF Spec

-----------------------------------------------------------------------------
(* A refresh shows all that was promised when it began *)

PlayedMonths(p) == {m \in Months : p[m] > 0}

\* The fetch k will have got what it promised, of an account that played p: a
\* promised game is in a month that will be asked for, is asked for, or was got.
Keeps(k, p) ==
  ~k.failed =>
    \A g \in k.promised :
      /\ g[2] <= p[g[1]]
      /\ k.pc = "archives" => g[1] \in Newest(PlayedMonths(p) \cup {Now})
      /\ k.pc = "months" => g \in k.got \/ k.request[g[1]] \in {"sent", "waiting"}
      /\ k.pc = "done" => g \in k.got

PromisesKept ==
  \A f \in Fetches : fetch[f].pc # "idle" => Keeps(fetch[f], played[fetch[f].user])

\* What is on screen is what an ended fetch promised, or what is left of it.
ScreenIsComplete ==
  shown.from # 0 =>
    /\ fetch[shown.from].pc = "done"
    /\ ~fetch[shown.from].failed => fetch[shown.from].promised \subseteq shown.games

RefreshInv == HistoryInv /\ PromisesKept /\ ScreenIsComplete

\* A month that is among the newest, the current one included, is asked for also if
\* the current one is not listed yet.
LEMMA NewestAreTargets ==
  ASSUME NEW P \in SUBSET Months, NEW listed \in {P, P \ {Now}}
  PROVE  Newest(P \cup {Now}) \subseteq Targets(listed)
<1> DEFINE All == P \cup {Now}
<1> SUFFICES ASSUME NEW m \in Newest(All), m # Now
             PROVE  m \in Newest(listed)
  BY DEF Targets
<1>1. m \in listed /\ m \in All /\ Cardinality({n \in All : n > m}) < MaxArchives
  BY DEF Newest
<1> DEFINE A == {n \in listed : n > m}
           B == {n \in All : n > m}
<1>2. A \subseteq B /\ B \subseteq Months
  BY HistoryAssumption
<1>3. IsFiniteSet(B)
  BY <1>2, HistoryAssumption, FS_Subset
<1>4. Cardinality(A) \in Nat /\ Cardinality(B) \in Nat /\ Cardinality(A) <= Cardinality(B)
  BY <1>2, <1>3, FS_Subset, FS_CardinalityType
<1>5. Cardinality(B) < MaxArchives
  BY <1>1
<1> HIDE DEF A, B
<1>6. Cardinality(A) < MaxArchives
  BY <1>4, <1>5, HistoryAssumption
<1> QED BY <1>1, <1>6 DEF Newest, A

\* A fetch that is under way changes, the screen does not.
LEMMA KeepsStep ==
  ASSUME RefreshInv, NEW f \in Fetches, NEW X \in FetchStates,
         fetch' = [fetch EXCEPT ![f] = X], played' = played, shown' = shown,
         Keeps(X, played[X.user]),
         fetch[f].pc # "done" \/ (X.pc = "done" /\ X.failed = fetch[f].failed
                                  /\ X.promised = fetch[f].promised)
  PROVE  PromisesKept' /\ ScreenIsComplete'
<1>1. \A g \in Fetches : fetch'[g] = IF g = f THEN X ELSE fetch[g]
  BY DEF RefreshInv, HistoryInv, TypeOK
<1>2. PromisesKept'
  BY <1>1 DEF RefreshInv, PromisesKept
<1>3. shown.from # 0 => shown.from \in Fetches
  BY HistoryAssumption DEF RefreshInv, HistoryInv, TypeOK, Fetches
<1>4. ScreenIsComplete'
  BY <1>1, <1>3 DEF RefreshInv, ScreenIsComplete
<1> QED BY <1>2, <1>4

\* A request under way stays under way, asleep or sent again.
LEMMA RequestKeeps ==
  ASSUME RefreshInv, NEW f \in Fetches, NEW r \in Requests,
         RateLimited(f, r) \/ SendAgain(f, r) \/ TimesOut(f, r)
  PROVE  PromisesKept' /\ ScreenIsComplete'
<1> DEFINE F == fetch[f]
           Q == [Requests -> {"none", "sent", "waiting", "done"}]
           X(q, again) == [F EXCEPT !.request = q, !.again = again]
<1>0. F \in FetchStates /\ F.request \in Q /\ F.again \in SUBSET Requests /\ F.pc # "idle"
  BY FetchTypes DEF RefreshInv, FetchStates, RateLimited, SendAgain, TimesOut, Sent
<1>1. PICK q \in Q, again \in SUBSET Requests :
        /\ fetch' = [fetch EXCEPT ![f] = X(q, again)]
        /\ \A x \in Requests : F.request[x] \in {"sent", "waiting"} => q[x] \in {"sent", "waiting"}
  <2>1. CASE RateLimited(f, r)
    <3> DEFINE q == [F.request EXCEPT ![r] = "waiting"]
    <3>1. X(q, F.again) = [F EXCEPT !.request = q]
      BY <1>0 DEF FetchStates
    <3>2. fetch' = [fetch EXCEPT ![f] = X(q, F.again)]
      BY <2>1, <3>1 DEF RateLimited
    <3>3. q \in Q /\ \A x \in Requests : F.request[x] \in {"sent", "waiting"} => q[x] \in {"sent", "waiting"}
      BY <1>0
    <3> HIDE DEF q
    <3> QED BY <1>0, <3>2, <3>3
  <2>2. CASE SendAgain(f, r)
    <3> DEFINE q == [F.request EXCEPT ![r] = "sent"]
    <3>1. X(q, F.again \cup {r}) = [F EXCEPT !.request[r] = "sent", !.again = F.again \cup {r}]
      BY <1>0 DEF FetchStates
    <3>2. fetch' = [fetch EXCEPT ![f] = X(q, F.again \cup {r})]
      BY <2>2, <3>1 DEF SendAgain
    <3>3. q \in Q /\ \A x \in Requests : F.request[x] \in {"sent", "waiting"} => q[x] \in {"sent", "waiting"}
      BY <1>0
    <3> HIDE DEF q
    <3>4. F.again \cup {r} \in SUBSET Requests
      BY <1>0
    <3> QED BY <3>2, <3>3, <3>4
  <2>3. CASE TimesOut(f, r)
    <3>1. X(F.request, F.again \cup {r}) = [F EXCEPT !.again = @ \cup {r}]
      BY <1>0 DEF FetchStates
    <3>2. fetch' = [fetch EXCEPT ![f] = X(F.request, F.again \cup {r})]
      BY <2>3, <3>1 DEF TimesOut
    <3>3. F.again \cup {r} \in SUBSET Requests
      BY <1>0
    <3> QED BY <1>0, <3>2, <3>3
  <2> QED BY <2>1, <2>2, <2>3
<1> DEFINE Y == X(q, again)
<1>2. /\ Y \in FetchStates /\ Y.pc = F.pc /\ Y.user = F.user /\ Y.got = F.got
      /\ Y.promised = F.promised /\ Y.failed = F.failed /\ Y.request = q
  BY <1>0, <1>1 DEF FetchStates
<1>3. played' = played /\ shown' = shown
  BY DEF RateLimited, SendAgain, TimesOut
<1>4. fetch' = [fetch EXCEPT ![f] = Y]
  BY <1>1
<1> HIDE DEF Y
<1>5. Keeps(F, played[F.user])
  BY <1>0 DEF RefreshInv, PromisesKept
<1>6. \A g \in F.promised : g[1] \in Requests
  BY <1>0 DEF FetchStates, Game, Requests
<1>7. Keeps(Y, played[Y.user])
  BY <1>1, <1>2, <1>5, <1>6 DEF Keeps
<1> QED BY <1>2, <1>3, <1>4, <1>7, KeepsStep

\* Each month of a promised game is asked for when the archives come in, and the
\* answer has the promised games of its month.
LEMMA AnswerKeeps ==
  ASSUME RefreshInv, NEW f \in Fetches,
         ArchivesAnswer(f) \/ \E m \in Months : MonthAnswered(f, m)
  PROVE  PromisesKept' /\ ScreenIsComplete'
<1> DEFINE F == fetch[f]
           p == played[F.user]
           Q == [Requests -> {"none", "sent", "waiting", "done"}]
<1>1. F \in FetchStates /\ fetch \in [Fetches -> FetchStates] /\ F.pc \in {"archives", "months"}
  BY FetchTypes DEF RefreshInv, HistoryInv, TypeOK, ArchivesAnswer, MonthAnswered, MonthAnswer,
                    MonthFail
<1>2. /\ F.request \in Q /\ F.got \subseteq Game /\ F.promised \subseteq Game /\ F.user \in Users
      /\ Keeps(F, p)
  BY <1>1, FetchTypes DEF RefreshInv, FetchStates, PromisesKept
<1>3. \A g \in F.promised : g[1] \in Months /\ g[1] \in Requests /\ g[1] # 0 /\ g \in Game
  BY <1>2, HistoryAssumption DEF Game, Requests
<1>4. played' = played /\ shown' = shown
  BY DEF ArchivesAnswer, MonthAnswered, MonthAnswer, MonthFail
<1>5. CASE ArchivesAnswer(f)
  <2>1. PICK listed \in {Played(F.user), Played(F.user) \ {Now}} :
          fetch' = [fetch EXCEPT ![f] =
            [F EXCEPT !.pc = "months",
                      !.request = [r \in Requests |-> IF r = 0 THEN "done"
                                                      ELSE IF r \in Targets(listed) THEN "sent"
                                                      ELSE "none"]]]
    BY <1>5 DEF ArchivesAnswer
  <2> DEFINE q == [r \in Requests |-> IF r = 0 THEN "done"
                                      ELSE IF r \in Targets(listed) THEN "sent"
                                      ELSE "none"]
             Y == [F EXCEPT !.pc = "months", !.request = q]
  <2>2. q \in Q
    OBVIOUS
  <2>3. fetch' = [fetch EXCEPT ![f] = Y]
    BY <2>1
  <2>4. \A g \in F.promised : ~F.failed => q[g[1]] = "sent"
    <3>1. Played(F.user) = PlayedMonths(p) /\ Played(F.user) \in SUBSET Months
      BY DEF Played, PlayedMonths
    <3>2. F.pc = "archives"
      BY <1>5 DEF ArchivesAnswer
    <3>3. \A g \in F.promised : ~F.failed => g[1] \in Newest(Played(F.user) \cup {Now})
      BY <1>2, <3>1, <3>2 DEF Keeps
    <3>4. \A g \in F.promised : ~F.failed => g[1] \in Targets(listed)
      BY <3>1, <3>3, NewestAreTargets
    <3> QED BY <1>3, <3>4
  <2> HIDE DEF q
  <2>5. /\ Y \in FetchStates /\ Y.pc = "months" /\ Y.user = F.user /\ Y.promised = F.promised
        /\ Y.failed = F.failed /\ Y.request = q
    BY <1>1, <2>2 DEF FetchStates
  <2> HIDE DEF Y
  <2>6. Keeps(Y, played[Y.user])
    BY <1>2, <2>4, <2>5 DEF Keeps
  <2> QED BY <1>1, <1>4, <2>3, <2>5, <2>6, KeepsStep
<1>6. ASSUME NEW m \in Months, MonthAnswer(f, m)
      PROVE  PromisesKept' /\ ScreenIsComplete'
  <2> DEFINE q == [F.request EXCEPT ![m] = "done"]
             got == F.got \cup GamesIn(F.user, {m})
             Y == [F EXCEPT !.request = q, !.got = got]
  <2>1. q \in Q /\ got \in SUBSET Game
    BY <1>2, GamesType
  <2>2. Y = [F EXCEPT !.request[m] = "done", !.got = got]
    BY <1>1 DEF FetchStates
  <2>3. fetch' = [fetch EXCEPT ![f] = Y]
    BY <1>6, <2>2 DEF MonthAnswer
  <2>4. F.pc = "months"
    BY <1>6 DEF MonthAnswer
  <2>5. \A g \in F.promised : q[g[1]] = IF g[1] = m THEN "done" ELSE F.request[g[1]]
    BY <1>2, <1>3
  <2>6. \A g \in F.promised : ~F.failed /\ g[1] = m => g \in got
    <3>1. \A g \in F.promised : ~F.failed => g[2] <= p[g[1]]
      BY <1>2 DEF Keeps
    <3> QED BY <1>3, <3>1 DEF GamesIn
  <2>7. F.got \subseteq got
    OBVIOUS
  <2> HIDE DEF q, got
  <2>8. /\ Y \in FetchStates /\ Y.pc = "months" /\ Y.user = F.user /\ Y.promised = F.promised
        /\ Y.failed = F.failed /\ Y.request = q /\ Y.got = got
    BY <1>1, <2>1, <2>4 DEF FetchStates
  <2> HIDE DEF Y
  <2>9. Keeps(Y, played[Y.user])
    BY <1>2, <2>4, <2>5, <2>6, <2>7, <2>8 DEF Keeps
  <2> QED BY <1>1, <1>4, <2>3, <2>8, <2>9, KeepsStep
<1>7. ASSUME NEW m \in Months, MonthFail(f, m)
      PROVE  PromisesKept' /\ ScreenIsComplete'
  <2> DEFINE q == [F.request EXCEPT ![m] = "done"]
             Y == [F EXCEPT !.request = q, !.failed = TRUE]
  <2>1. q \in Q
    BY <1>2
  <2>2. Y = [F EXCEPT !.request[m] = "done", !.failed = TRUE]
    BY <1>1 DEF FetchStates
  <2>3. fetch' = [fetch EXCEPT ![f] = Y]
    BY <1>7, <2>2 DEF MonthFail
  <2> HIDE DEF q
  <2>4. Y \in FetchStates /\ Y.failed
    BY <1>1, <2>1 DEF FetchStates
  <2> HIDE DEF Y
  <2>5. Keeps(Y, played[Y.user])
    BY <2>4 DEF Keeps
  <2> QED BY <1>1, <1>4, <2>3, <2>4, <2>5, KeepsStep
<1> QED BY <1>5, <1>6, <1>7 DEF MonthAnswered

\* A merge has every promised game: no month of one is still under way.
LEMMA EndKeeps ==
  ASSUME RefreshInv, NEW f \in Fetches, ArchivesFail(f) \/ Merge(f)
  PROVE  PromisesKept' /\ ScreenIsComplete'
<1> DEFINE F == fetch[f]
           Q == [Requests -> {"none", "sent", "waiting", "done"}]
<1>1. F \in FetchStates /\ fetch \in [Fetches -> FetchStates] /\ F.pc \in {"archives", "months"}
  BY FetchTypes DEF RefreshInv, HistoryInv, TypeOK, ArchivesFail, Merge
<1>2. F.request \in Q /\ F.promised \subseteq Game /\ Keeps(F, played[F.user])
  BY <1>1 DEF RefreshInv, FetchStates, PromisesKept
<1>3. played' = played
  BY DEF ArchivesFail, Merge
<1>4. PICK X \in FetchStates :
        /\ fetch' = [fetch EXCEPT ![f] = X]
        /\ X.pc = "done" /\ X.user = F.user
        /\ ~X.failed => Merge(f) /\ X.promised \subseteq F.got /\ X.got = F.got
  <2>1. CASE ArchivesFail(f)
    <3> DEFINE q == [F.request EXCEPT ![0] = "done"]
               X == [F EXCEPT !.pc = "done", !.request = q, !.failed = TRUE]
    <3>1. q \in Q
      BY <1>2
    <3>2. X = [F EXCEPT !.pc = "done", !.request[0] = "done", !.failed = TRUE]
      BY <1>1 DEF FetchStates
    <3>3. fetch' = [fetch EXCEPT ![f] = X]
      BY <2>1, <3>2 DEF ArchivesFail
    <3> HIDE DEF q
    <3>4. X \in FetchStates /\ X.pc = "done" /\ X.user = F.user /\ X.failed
      BY <1>1, <3>1 DEF FetchStates
    <3> HIDE DEF X
    <3> QED BY <3>3, <3>4
  <2>2. CASE Merge(f)
    <3> DEFINE X == [F EXCEPT !.pc = "done"]
    <3>1. fetch' = [fetch EXCEPT ![f] = X]
      BY <2>2 DEF Merge
    <3>2. /\ X \in FetchStates /\ X.pc = "done" /\ X.user = F.user /\ X.got = F.got
          /\ X.promised = F.promised /\ X.failed = F.failed
      BY <1>1 DEF FetchStates
    <3>3. ~F.failed => F.promised \subseteq F.got
      <4>1. F.pc = "months" /\ \A m \in Months : F.request[m] \notin {"sent", "waiting"}
        BY <2>2 DEF Merge
      <4>2. \A g \in F.promised : g[1] \in Months
        BY <1>2 DEF Game
      <4> QED BY <1>2, <4>1, <4>2 DEF Keeps
    <3> HIDE DEF X
    <3> QED BY <2>2, <3>1, <3>2, <3>3
  <2> QED BY <2>1, <2>2
<1>5. \A g \in Fetches : fetch'[g] = IF g = f THEN X ELSE fetch[g]
  BY <1>1, <1>4
<1>6. Keeps(X, played[X.user])
  <2> SUFFICES ASSUME ~X.failed, NEW g \in X.promised
               PROVE  g[2] <= played[X.user][g[1]] /\ g \in X.got
    BY <1>4 DEF Keeps
  <2>1. g \in F.got /\ g \in X.got
    BY <1>4
  <2>2. F.got \subseteq GamesIn(F.user, Months)
    BY <1>1, FetchTypes DEF RefreshInv
  <2> QED BY <1>4, <2>1, <2>2 DEF GamesIn
<1>7. PromisesKept'
  BY <1>3, <1>5, <1>6 DEF RefreshInv, PromisesKept
<1>8. ScreenIsComplete'
  <2>1. shown.from # 0 => shown.from \in Fetches
    BY HistoryAssumption DEF RefreshInv, HistoryInv, TypeOK, Fetches
  <2>2. CASE watched /\ latest = f
    <3>1. PICK games : shown' = Data(games, f) /\ (Merge(f) => games = F.got)
      <4>1. CASE Merge(f)
        BY <2>2, <4>1 DEF Merge, Deliver
      <4>2. CASE ~Merge(f)
        BY <2>2, <4>2 DEF ArchivesFail, Deliver
      <4> QED BY <4>1, <4>2
    <3>2. shown'.from = f /\ shown'.games = games
      BY <3>1 DEF Data
    <3> QED BY <1>4, <1>5, <3>1, <3>2 DEF ScreenIsComplete
  <2>3. CASE ~(watched /\ latest = f)
    <3>1. shown' = shown
      BY <2>3 DEF ArchivesFail, Merge, Deliver
    <3> QED BY <1>1, <1>5, <2>1, <3>1 DEF RefreshInv, ScreenIsComplete
  <2> QED BY <2>2, <2>3
<1> QED BY <1>7, <1>8

\* A new fetch promises what is there to see.
LEMMA ComputeKeeps ==
  ASSUME RefreshInv, NEW u \in Users \cup {NoUser}, Compute(u), played' = played,
         u # NoUser => shown' = Loading \/ shown' = shown
  PROVE  PromisesKept' /\ ScreenIsComplete'
<1>1. fetch \in [Fetches -> FetchStates]
  BY DEF RefreshInv, HistoryInv, TypeOK
<1>2. CASE u = NoUser
  <2>1. shown'.from = 0 /\ fetch' = fetch
    BY <1>2 DEF Compute, Data
  <2> QED BY <2>1 DEF RefreshInv, PromisesKept, ScreenIsComplete
<1>3. CASE u # NoUser
  <2> DEFINE promised == GamesIn(u, Newest(Played(u) \cup {Now}))
             X == [IdleFetch EXCEPT !.pc = "archives", !.user = u, !.request[0] = "sent",
                                    !.promised = promised]
  <2>1. PICK f \in Fetches : NextFetch(f) /\ fetch' = [fetch EXCEPT ![f] = X]
    BY <1>3 DEF Compute
  <2>2. X.pc = "archives" /\ X.user = u /\ X.promised = promised
    BY DEF IdleFetch
  <2>3. \A g \in promised : g[2] <= played[u][g[1]]
                            /\ g[1] \in Newest(PlayedMonths(played[u]) \cup {Now})
    BY DEF GamesIn, Played, PlayedMonths
  <2> HIDE DEF X, promised
  <2>4. Keeps(X, played[X.user])
    BY <2>2, <2>3 DEF Keeps
  <2>5. \A g \in Fetches : fetch'[g] = IF g = f THEN X ELSE fetch[g]
    BY <1>1, <2>1
  <2>6. PromisesKept'
    BY <2>4, <2>5 DEF RefreshInv, PromisesKept
  <2>7. ScreenIsComplete'
    <3>1. CASE shown' = Loading
      BY <3>1 DEF ScreenIsComplete, Loading
    <3>2. CASE shown' = shown
      <4>1. shown.from # 0 => shown.from \in Fetches
        BY HistoryAssumption DEF RefreshInv, HistoryInv, TypeOK, Fetches
      <4>2. fetch[f].pc = "idle"
        BY <2>1 DEF NextFetch
      <4> QED BY <2>5, <3>2, <4>1, <4>2 DEF RefreshInv, ScreenIsComplete
    <3> QED BY <1>3, <3>1, <3>2
  <2> QED BY <2>6, <2>7
<1> QED BY <1>2, <1>3

\* Games are added in the current month only, which every fetch asks for anyway.
LEMMA PlayKeeps ==
  ASSUME RefreshInv, PlayGame
  PROVE  PromisesKept' /\ ScreenIsComplete'
<1>1. PICK u \in Users : /\ played[u][Now] < MaxGames
                         /\ played' = [played EXCEPT ![u][Now] = @ + 1]
  BY DEF PlayGame
<1>2. played \in [Users -> [Months -> 0..MaxGames]]
  BY DEF RefreshInv, HistoryInv, TypeOK
<1>3. fetch' = fetch /\ shown' = shown
  BY DEF PlayGame
<1>4. \A v \in Users, m \in Months :
        /\ played[v][m] \in Nat /\ played'[v][m] \in Nat /\ played[v][m] <= played'[v][m]
        /\ m # Now => played'[v][m] = played[v][m]
  BY <1>1, <1>2, HistoryAssumption
<1>5. \A v \in Users :
        PlayedMonths(played'[v]) \cup {Now} = PlayedMonths(played[v]) \cup {Now}
  BY <1>4 DEF PlayedMonths
<1>6. PromisesKept'
  <2> SUFFICES ASSUME NEW f \in Fetches, fetch[f].pc # "idle"
               PROVE  Keeps(fetch[f], played'[fetch[f].user])
    BY <1>3 DEF PromisesKept
  <2> DEFINE F == fetch[f]
  <2>1. F.user \in Users /\ F.promised \subseteq Game /\ Keeps(F, played[F.user])
    BY FetchTypes DEF RefreshInv, FetchStates, PromisesKept
  <2>2. \A g \in F.promised : g[2] <= played[F.user][g[1]] => g[2] <= played'[F.user][g[1]]
    <3> SUFFICES ASSUME NEW g \in F.promised, g[2] <= played[F.user][g[1]]
                 PROVE  g[2] <= played'[F.user][g[1]]
      OBVIOUS
    <3>1. g[1] \in Months /\ g[2] \in Nat
      BY <2>1, HistoryAssumption DEF Game
    <3>2. /\ played[F.user][g[1]] \in Nat /\ played'[F.user][g[1]] \in Nat
          /\ played[F.user][g[1]] <= played'[F.user][g[1]]
      BY <1>4, <2>1, <3>1
    <3>3. \A a, b, c \in Nat : a <= b /\ b <= c => a <= c
      OBVIOUS
    <3> QED BY <3>1, <3>2, <3>3, Zenon
  <2>3. PlayedMonths(played'[F.user]) \cup {Now} = PlayedMonths(played[F.user]) \cup {Now}
    BY <1>5, <2>1
  <2> QED BY <2>1, <2>2, <2>3 DEF Keeps
<1>7. ScreenIsComplete'
  BY <1>3 DEF RefreshInv, ScreenIsComplete
<1> QED BY <1>6, <1>7

LEMMA RefreshStep ==
  ASSUME RefreshInv, [Next]_vars
  PROVE  RefreshInv'
<1>1. HistoryInv'
  BY HistoryStep DEF RefreshInv
<1> SUFFICES PromisesKept' /\ ScreenIsComplete'
  BY <1>1 DEF RefreshInv
<1>2. user \in Users \cup {NoUser}
  BY DEF RefreshInv, HistoryInv, TypeOK
<1>3. CASE OpenHistory
  BY <1>2, <1>3, ComputeKeeps DEF OpenHistory
<1>4. CASE Refresh
  BY <1>2, <1>4, ComputeKeeps DEF Refresh
<1>5. CASE CloseHistory
  BY <1>5 DEF CloseHistory, RefreshInv, PromisesKept, ScreenIsComplete, Loading
<1>6. ASSUME NEW u \in Users \cup {NoUser}, Connect(u)
      PROVE  PromisesKept' /\ ScreenIsComplete'
  <2>1. CASE watched
    BY <1>6, <2>1, ComputeKeeps DEF Connect
  <2>2. CASE ~watched
    BY <1>6, <2>2 DEF Connect, RefreshInv, PromisesKept, ScreenIsComplete
  <2> QED BY <2>1, <2>2
<1>7. CASE PlayGame
  BY <1>7, PlayKeeps
<1>8. ASSUME NEW f \in Fetches, Answered(f) \/ Merge(f)
      PROVE  PromisesKept' /\ ScreenIsComplete'
  BY <1>8, AnswerKeeps, EndKeeps DEF Answered
<1>9. ASSUME NEW f \in Fetches, NEW m \in Months, MonthAnswered(f, m)
      PROVE  PromisesKept' /\ ScreenIsComplete'
  BY <1>9, AnswerKeeps
<1>10. ASSUME NEW f \in Fetches, NEW r \in Requests,
              RateLimited(f, r) \/ SendAgain(f, r) \/ TimesOut(f, r)
       PROVE  PromisesKept' /\ ScreenIsComplete'
  BY <1>10, RequestKeeps
<1>11. CASE UNCHANGED vars
  BY <1>11 DEF vars, RefreshInv, PromisesKept, ScreenIsComplete
<1> QED BY <1>3, <1>4, <1>5, <1>6, <1>7, <1>8, <1>9, <1>10, <1>11 DEF Next

\* However fetches overlap and requests are repeated, and whether the current month
\* is listed or not, a refresh none of whose requests failed shows every game that
\* was there when it began, of the newest months (game_repository.dart:31-45).
THEOREM RefreshesAreComplete == Spec => []RefreshShowsAll
<1>1. Init => RefreshInv
  <2> SUFFICES ASSUME Init PROVE RefreshInv
    OBVIOUS
  <2>1. PromisesKept /\ ScreenIsComplete
    BY IdleType DEF Init, PromisesKept, ScreenIsComplete, Loading
  <2> QED BY <2>1, HistoryInit DEF RefreshInv
<1>2. RefreshInv => RefreshShowsAll
  BY DEF RefreshInv, ScreenIsComplete, RefreshShowsAll
<1> QED BY <1>1, <1>2, RefreshStep, PTL DEF Spec
=============================================================================
