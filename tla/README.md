# A verification of bulbiBackend in TLA+

bulbiBackend is the Go server of the puzzle game Bulbi: it hands out the game's
content, keeps scores and leagues, verifies in-app purchases, sends push
notifications and has an admin panel.  Its state is in PostgreSQL, in an
optional Redis and, where Redis is missing, in its own memory.  Nothing in it is
a database transaction: every handler is a sequence of independent calls, each
of which may fail, while any number of other handlers run.  The modules here are
about what these sequences can do to each other.

Contents: 1 inventory, 2 modules, 3 runs and their bounds, 4 fairness, 5 proofs,
6 what the runs found, 7 what is not modelled, 8 plan.

## 1. Inventory

| component | state | operations | hard behaviour | what makes it correct |
|---|---|---|---|---|
| content service (`server.go` admin handlers, `store.go` content, `cache.go`, `main.go` dailyCacheRefresh) | tables `words`, `questions`, `connections`; `meta.content_version`; Redis key `content:bundle` | add, delete, import; GET content and version; daily refresh | a change is row + increment + Del in three calls; a bundle is four queries + Set; a stale bundle may be stored after the Del | a version number stands for one content; a stale bundle goes away |
| start-up (`main.go`, `SeedIfEmpty`, `SeedConnectionsIfEmpty`, `content.go`) | the same tables | create tables, seed, warm the cache, serve, stop | a stop inside the seed; a seed that sets the version back; what the last process left in Redis | an operator's content is kept; a served version identifies the content again |
| purchases (`postIAPVerify`, `iap.go`, `storekit2.go`, `RecordPurchase`) | table `purchases` | verify | duplicate requests, lost answers | each purchase is paid once, at the server's price, after its sale |
| OAuth token caches (`push.go` token, `iap.go` googleToken) | token, expiry, mutex | fetch, reuse | lifetime against slow calls; a mutex over an HTTP call | no token ends in mid-call; no usable token is replaced; callers are answered |
| rate limit (`rateLimit`, `allowRequest`, `memStore`, `cache.Incr`) | Redis counters, or memory | count, decide | INCR and EXPIRE are two calls; fall-back | bounded number of requests per window; refusals end |
| admin guard (`adminGuard` and helpers) | Redis counters, or memory | check, compare, record, reset | check and record are two steps | bounded number of guesses; blocks end |
| push (`push.go`, `adminNotify`, devices in `store.go`) | table `devices`; per broadcast: list, pool, results | register, deregister, broadcast, prune | pool of workers; prune on a list read minutes ago | one notification per device; no reachable device pruned; broadcasts end |
| scores (`postScore`, `getLeaderboard`, store) | table `scores` | submit, daily and weekly board, rank | board and rank are separate queries | best score kept; rank and board agree |
| leagues (`postLeague` .. `getLeagueBoard`, store) | tables `leagues`, `league_members` | create, join, list, board | creation in two statements; codes collide | answers stay true; a board has a line for each member |
| names (`clampName`, `moderation.go`) | none | trim, cut, normalize, search | bytes against characters; spellings | stored names hide no blocked word |
| announcements, admin pages (`adminHome`, store) | table `announcements`; the page an operator has open; the ids a phone has closed | add, toggle, delete, list; page through questions | ids and buttons outlive what they were shown with; rows shift between pages | an id keeps its meaning; a button does what it says; a walk misses nothing |
| uploads | files | save, clean up | | |
| privacy page, HTTP helpers | none | rendering, parsing | | |

The components share PostgreSQL and Redis but, with one exception, no table and
no key: boards of leagues read the table of the scores, which there is a
parameter of the query.  The only other dependencies are that `rateLimit`
precedes every `/api/` handler and `adminGuard` every `/admin` handler, that
`adminNotify` starts a broadcast, and that a worker of a broadcast or a
verification first asks its token cache.  They are therefore modelled apart; a
handler behind a guard is a handler that may start.  What does interact is
composed: ContentBoot runs the start of the process around ContentSync, Leagues
uses Names, and the two counters are instances of one.

## 2. Modules

**ContentSync** models the running content service.  `tables`, `version` and
`cache` are the three tables, `meta.content_version` and the Redis key.  An admin
request `a` is at `step[a]`: `Start` executes its first statement, `WriteNext`
the next row of an import, `Bump` the increment, `DropCached` the Del.  The eight
handlers differ in `TableOf`, `Deletes`, `Imports` and `DropsAfterError` (some
drop the bundle after an error of the store, others return).  A bundle in the
making is `draft[b]`, at query `pc[b]`: `ReadVersion`, `ReadTable` (words,
questions, connections, in this order), `Store`; a phone starts one after
`CacheMiss`, the goroutine of `dailyCacheRefresh` at `RefreshDue`.  Every call
also has a failing action, and a failed statement may have been executed.
`unannounced` and `wrote` remember changes that no increment has followed.  A
table is the set of its rows: the number of copies and the order of equal rows
are abstracted.  **MCContentSync** adds the symmetry; the proofs are in
**ContentBootProofs**, which needs them again.

**Purchases** models `POST /api/v1/iap/verify` and, around it, the stores and the
app.  A request `r` goes from `Post` over `Accept` or `Reject` and
`RecordPurchase` to `Answer`; `RecordFails` and `LoseAnswer` are the failures.
`Sell`, `Cancel` (the stores) and the part of `Answer` that adds coins and
completes the purchase (the app, as IAP_SETUP.md lines 88-98 prescribe) are
external.  Signatures and HTTP exchanges are reduced to their verdict, which
depends on what was sold, to which product and whether it was cancelled.  The
receipts are those of this app: with an empty `IOS_BUNDLE_ID` the server also takes
those of another one (`iap.go:98`), which no property here is about.
**Ledger** is the abstract promise: a purchase is paid once, with its value,
after its sale; `PaidOnce` says that Purchases implements it (`sold` and `paid`
are the mapped variables, by name).

**WindowCounter** is the counter that RateLimiter and AdminGuard share: the Redis
key with its time to live and the window in memory, `Incr` and `Expire` as the
two calls of `cache.Incr`, `Older` as the passing of one tick, and what both users
have in common: the state, `ExpireKey`, `Tick`, `Restart`, the types and
KeysGetLifetime.  `enabled` says whether the server was given a Redis: without one,
which is the default, `IncrFails` is the only way and the memory counts; with one
the memory is the fall-back.  `Counter` is the counter in use.  **RateLimiter** is `allowRequest` (`RateNext`, `RateSpec`);
**AdminGuard** is `adminGuard` with the check (`Guard`), the record and the reset as
separate steps (`AdminNext`, `AdminSpec`).  The counters of different addresses are
different keys, so one address is modelled.  `Request` are the requests of that
address the server may handle at one time, any finite number but none.  `passed` is
a history by age: `passed[age]` is how many requests passed (were let through, or
had a wrong password compared) in this tick and `age` ticks before it, so that
`passed[Window - 1]` is the number in a span as long as a window; it is kept until
the first failure (`failed`: a call to Redis failed or the server restarted), after
which nothing is promised; to have no Redis is not a failure.  `orphan` remembers
that the key has no lifetime because its EXPIRE failed or was never sent.
**CounterProofs** has the proofs about both.

**Push** models `SendToAll`, `broadcast` and the goroutine of `adminNotify`
(`Start`, `HandOver`, `Send`, `SendToAllReturns`, `DeleteTokens`), and the apps
(`SaveDevice`, `DeleteDevice`).  `alive` and `owner` are Firebase's side: which
tokens it delivers to, and which device it gave a token to.  A token that has
died does not come back.  `Verdict` is `tokenIsDead` and the status of an answer.
**PushProofs** has the proofs.

**Scores** models `postScore` and `getLeaderboard`, one step per query:
`PostScore` or `GetLeaderboard`, then `ReadScore` and `CountBetter` (the two
queries of `MyRank` and `MyRankWeekly`).  A daily board is the weekly one over one
day.  The order among equal totals (`updated_at`) is left open: `Places` is every
place the tie may give.  A total is the number of the points scored, each of them
a pair of a day and a number up to that day's score (`Points`): a sum of natural
numbers that can be reasoned about without induction.  **ScoresProofs** has the
proofs.

**ContentBoot** extends ContentSync by the life of the process.  `phase` is where
`main` is, `todo` the rows a seed has still to insert: `Open`, `Count`, `SeedRow`
(words before questions), `SeedVersion`, `CountConnections`, `Connect`, `Warm`,
one action per call, and `SeedFails` for the errors that `main` logs and ignores
(their statement may have been executed).  `Stop` ends the process anywhere and
everything in it; the tables, the version and Redis stay.  While the process is
"up", every action of ContentSync may happen (`Served`).  `inherited` remembers
that the refresh before the first answer failed (`RefreshFails`) and that Redis still
holds the bundle of an earlier process, `wasEmpty` what the start found empty.  `Stop` clears `unannounced`: a change that the last process never
announced is, for the next one, simply content.  **MCContentBoot** gives the
file's rows; **ContentBootProofs** has the proofs.

**TokenCache** is `token` of push and `googleToken` of iap, which are the same code.
A caller waits at the mutex, takes the cached token (`Reuse`) or holds the mutex
(`Fetch`) until the answer is stored (`Store`) or any way out is taken
(`FetchFails`), then makes its call (`Sent` ends it).  Times are kept as what remains
of them: `left` of a caller's token, `cached` and `expiry` of the stored one.
The token's life begins with `Issue`, at the OAuth server, and the code counts it
from `Store`.  `Tick` never lets a call outlast the client's `Timeout`.

**Names** has the pure functions: `TrimSpace`, `Cut` (a number of bytes, so that half
a character may remain: `broken`), `normalize`, `IsProfane`, `clampName`,
`leagueName`.  A name is a sequence of characters of which only the size and the
letter (`LetterOf`: trFold, ToLower and leet together) matter.  The loop of
`normalize` is its result: the positions it writes are those of letters that
differ from the last letter before them (`Kept`), and the j-th of them gives the
j-th letter.  Names and words are made of characters that `LetterOf` knows and of
letters that it gives: two of the named ASSUMEs say so.  `Hides` is the
reference they are compared with: a name spells a word if each of its letters
stands for the word's next letter or repeats the last one, whatever is skipped
between.  **Leagues** uses them: `PostLeague` and `InsertLeague`, one round of
`CreateLeague`, then `InsertMember` under pc "own"; `PostLeagueJoin`, whose SELECT
finds a league that is never deleted, and `InsertMember` under pc "join".  An
`...Fails` action is a statement that fails, because PostgreSQL rejects half a
character or for any other reason.  `told` remembers the last answer 200 to each
device.  `MyLeagues` and `LeagueBoard` are the two queries, as operators on the
tables.  **MCLeagues** has the alphabet and the names; **LeaguesProofs** the proofs.

**Panel** is the admin panel as one operator sees it, who looks at a page while
others work: `CountRows`, `ListRows` (or `ListFails`) and `ListAnnouncements` are the
queries of `adminHome`, `Follow` a link of the pager, `Toggle` and `Delete` the forms
of the announcements as they were when the page was loaded (`tab`).  He walks
through the questions or through the words (`list`); `rows` are the rows of that
list, of the words only those that match his search, as the numbers of their order:
a question is added at the front, a word anywhere.  `closed` is the
list of ids that a phone keeps (`server.go:529`).  `unseen`, `disturbed`, `changed`
and the `text` of an announcement are histories that the properties need; an
announcement's text is the number of its creation.  **PanelProofs** has the proofs.

In every module the definitions marked "Mutant" are not part of the
model: each is a plausible bug of the definition after it, and shows that a
property notices that bug.

## 3. Runs and bounds

| run | checks | bounds | result |
|---|---|---|---|
| content | TypeOK, VersionIdentifiesContent | 2 admins, 1 phone, the warmer, 2 words, 1 connection, `MaxVersion = 1` | holds, 2.3 million states |
| boot | BootTypeOK, IdentifiesAgain, ContentIsKept, StaleCacheHeals | 1 admin, the warmer, one row per table of which the question is the operator's own, the file's version 1, `MaxVersion = 2`, any number of stops, fair | holds, 1.1 million states |
| purchases | TypeOK, RowsBacked, PaidUnlessLost, PaidOnce | 2 requests, 3 purchases | holds, 1.3 million states |
| tokens | TypeOK, TokenOutlivesCall, UsableTokenIsKept, CallEnds | 3 callers, time-out 2, margin 8, lifetimes 5 and 11, fair | holds, 13 000 states |
| rate | TypeOK, RateIsLimited, KeysGetLifetime, RefusalIsNotProlonged, RefusalEnds | 2 requests, limit 3, window of 3 ticks, with Redis and without, fair | holds, 802 states |
| admin | TypeOK, GuessesAreLimited, KeysGetLifetime, BlockEnds | 3 requests, limit 5, window of 3 ticks, with Redis and without, fair | holds, 267 000 states |
| push | TypeOK, OncePerDevice, PruneKeepsReachable, BroadcastEnds | 1 broadcast, 2 workers, 2 devices, 3 tokens, fair | holds, 42 000 states |
| push_bad_message | PruneKeepsReachable | the same, messages may be bad | violated |
| scores | TypeOK, BestScoreKept, RankIsBounded, RankAgreesWithBoard | 2 requests, 2 devices, a week of 2 days, scores 0..2, largest INTEGER 3, board of 1 | holds, 1.1 million states |
| leagues | TypeOK, AnswersAreTrue, BoardIsComplete, NamesAreModerated | 2 requests, 2 devices, 2 codes, 2 attempts, names of up to 7 characters, days 1 and 2 with a week of 1 | holds, 473 000 states |
| leagues_owner | OwnerIsMember | the same, no call fails | violated |
| panel | TypeOK, WalkMissesNothing, IdsStayTrue, ButtonKeepsItsWord | 5 questions or 4 words on pages of 2, 2 announcements | holds, 8.3 million states |

Why the bounds are enough.

- *content*: two words let an import fail at its second row, one puzzle lets a
  bundle be torn between two tables, two admins let one increment announce the
  change of the other.  `MaxVersion` stops new admin requests at version 1; those
  that have started still increment it, so the version reaches 2.  The number of
  admins, phones and rows is arbitrary in the proof.
- *boot*: the seed of the file consists of one word and one puzzle, so that a stop
  falls before, between and after its statements; the operator can empty the
  tables, write a question of his own and stop, so that a second seed meets both
  empty and non-empty tables.  The first seed sets the counter to the file's version,
  1; deleting the word brings it to 2 (`MaxVersion` stops new requests there, so 3 is
  reached by one that had begun); with the tables empty again, the next start's
  seed sets it back to 1, while Redis may hold a bundle of any of these versions.
  A phone would add builds of the kind the warmer already makes; content has one.
- *purchases*: two requests are what it takes to race for one row; the purchases
  differ in platform and value, one has no coins.
- *tokens*: 8 >= 2 * 2 as 60 >= 2 * 15.  One lifetime is shorter than the margin
  (nothing is cached), one longer; three callers let one hold the mutex, one wait
  and one send.
- *rate, admin*: a counter stops at `Limit + 1` (`Increased`), beyond which no
  answer depends on the number.  The windows are long enough for one to begin inside
  another's span; the bounds the properties state are reached, in memory as in
  Redis (the mutants exceed them by one).
- *push*: other broadcasts touch only `devices`, and only by deleting rows,
  which `DeleteDevice` may do at any time: one broadcast stands for one of
  several (the proofs are about any number).  Two workers race for tokens, three
  tokens let a device register a second one while its first is in the list.
- *scores*: scores of 2 on both days exceed the largest INTEGER, so the failing
  sum of the weekly board happens.
- *leagues*: two codes and two requests collide, also until the attempts are used
  up.  The names hide the blocked word behind a skipped character, a look-alike
  and a wide letter; one name ends in half a character at the players' limit,
  one at the leagues' limit, and one is a blocked word that its double letter keeps
  from being found, so that it is stored as it is.
- *panel*: five questions are three pages, so that there is a link back to a
  page that is not the first, and the last may be full, partly full or gone; two announcements are what it takes to confuse one with another.

No configuration turns the deadlock check off.

## 4. Fairness

Only the five temporal properties StaleCacheHeals, CallEnds, RefusalEnds, BlockEnds
and BroadcastEnds depend on the fairness of each `FairSpec` (`FairBootSpec` of ContentBoot).

- A handler, build, broadcast or guarded request that has begun goes on: each of
  its calls returns, because contexts and HTTP clients bound them (15 seconds in
  push and iap) and the drivers report a broken connection.  Weak fairness per
  actor, on the disjunction of its next steps.
- Nobody is obliged to begin: no fairness on admin requests, phones, apps.
- The daily refresh happens (`dailyCacheRefresh` waits for a timer in a loop).
- Redis drops a key when its time is over: `CacheExpires` is an abstraction of a
  clock that every Set starts again, so what is fair is `CacheExpires` *or* a new
  Set, never the expiry alone.
- The container is started again when its process ends (`restart: unless-stopped`,
  README.md line 96), and a start goes on: weak fairness of `BootStep`.  Nothing
  keeps the process from stopping again and again; StaleCacheHeals holds then too,
  because what expires in Redis does not need the process.
- Who waits for a mutex gets it although others come and go: Go's `sync.Mutex`
  hands itself to a goroutine that has waited for more than a millisecond.  Strong
  fairness of `Lock` in TokenCache, the only strong fairness assumed.
- Time passes (`Tick` in RateLimiter and AdminGuard).  TokenCache does not need it.

`StaleCacheHeals` is stated for when the tables no longer change; `BlockEnds` and
`RefusalEnds` exclude a counter without a lifetime (`orphan`, see section 6).

## 5. Proofs

TLAPS proves, for every value of the constants that satisfies the named ASSUMEs:

- **ContentBootProofs**, first about ContentSync (`TypeCorrect`,
  `VersionIdentifies`).  The inductive invariant is `DraftInv /\ CacheInv`.  VersionIdentifiesContent is not inductive:
  it says nothing of drafts that have read only some tables, nor of the time
  between a change and its increment.  DraftsBehind and CacheBehind say that no
  draft and no cached bundle has a version above the counter; DraftCurrent and
  CacheCurrent say that a draft or bundle under the current version agrees with
  the tables in what it has read unless a change is pending.  An increment then
  leaves no bundle under the new version, which is why the increment must come
  after the row and the draft must read the version before the rows.
- **ContentBootProofs**, then about ContentBoot (`BootTypeCorrect`,
  `IdentifiesCorrect`, `KeptCorrect`).  A seed may set the counter back, so CacheBehind and CacheCurrent do not hold of
  a bundle found in Redis; the invariant `BootInv` claims them only of a process
  that serves and whose Redis does not hold the bundle an earlier one left after a
  failed refresh (`CachePart`), while DraftInv holds of every process from its
  start, because nothing is built before the seeds are over (`StartInv`).  What
  establishes CachePart is the end of the first refresh (`WarmEnds`): it stored its
  draft, or it failed and the history says so, or Redis is empty.  The
  steps of a serving process are those of ContentSync, whose lemmas are cited.  `TodoInv` says what a seed has left to do and what it found empty.
- **PurchasesProofs** (`TypeCorrect`, `RowsAreBacked`, `CoinsUnlessLost`,
  `ImplementsLedger`), by an invariant that relates the row (`Recorded`), the
  answers on their way (`Genuine`, `GrantsOnce`) and the coins paid (`Accounted`):
  for each purchase, at most one request holds a granting answer, and only while
  nothing is paid.  Refinement: `Sell` maps to `Sell`, an `Answer` that grants to
  `Pay`, everything else stutters.
- **TokenCacheProofs** (`TypeCorrect`, `TokenOutlives`, `UsableKept`).  Only the
  holder of the mutex fetches, and finds the cache expired (`FetcherHolds`); the
  token on its way has lost no more of its life than the fetch took
  (`AnswerIsYoung`); hence a cached token is accepted for at least the margin less
  one time-out after its last use (`CachedIsAccepted`), and a call that uses it
  for a time-out at most is covered (`CallIsCovered`).  The assumption
  `Margin >= 2 * Timeout` is where both time-outs are spent; a lifetime of
  `2 * Timeout` or less would break it whatever the margin.
- **CounterProofs**, for the two users of the counter (`RateTypeCorrect`,
  `RateLifetimeCorrect`, `RateCorrect`, `RefusalCorrect`; `AdminTypeCorrect`, `AdminLifetimeCorrect`,
  `GuessesCorrect`).  KeysGetLifetime is inductive with the types: the step that
  makes a key also makes its request the one to send EXPIRE, and a step that loses
  the EXPIRE, or stops the server before it, sets `orphan`.  The two limits have one
  argument, `Bounded(key, counts, base, weight)`: since the key was made no more
  than its *weight* have passed, and in a span that reaches back before it no more
  than a *base* more.  The first part alone is not inductive, because a key that dies
  takes its number with it; the second says that by then those before it are out of
  the span.  Both are about the counter in use (`Counter`), and until the first
  failure the other one is empty (`Spare`): so one argument covers the server with a
  Redis and the one without.  For the limiter (`RateInv`) the weight is what was
  counted, up to `Limit`, and the base `Limit - 1`, because the request that made the
  key is one of its window.  For the guard (`AdminInv`) a guess passes before it is counted: while
  the counter is below the limit the weight is the counter and the guesses still to
  be recorded; when it reaches it no guess begins any more, and those that run are as
  many as the server handles.  Hence `2 * (Limit - 1 + n) - 1` with n requests at a
  time, which the run shows to be reached.  RefusalIsNotProlonged holds of the
  limiter because it deletes no key: at most one request is about to send EXPIRE, and
  its key still has no lifetime (`Opening`).  It is not true of the guard, where a
  login may delete the key in between (section 6).
- **PushProofs** (`PoolCorrect`, `OnceCorrect`, `PruneCorrect`), for any number of
  broadcasts at a time.  `PoolsEnd` and `OnTheList` say that a pool works on its
  list and is empty when its broadcast does not send; with them, OncePerDevice
  for every device is inductive (`OnceInv`): a hand-over moves a device from the
  channel to a worker, a send from the worker to the bookings.  `PruneCorrect`
  assumes `MessagesMayBeBad = FALSE` (finding 1 is what happens otherwise).  Its
  invariant `TokenInv` says that a booked token was issued to a device and is
  not alive; FCM gives out no token twice, so no device can register it anew
  between the booking and the DELETE.
- **LeaguesProofs** (`TypeCorrect`, `AnswersCorrect`, `BoardCorrect`,
  `OwnerCorrect`, `NamesCorrect`).  AnswersAreTrue needs that a request about to insert the owner's
  membership asks for the owner of that league (`OwnersOwn`), and that leagues and
  memberships only grow (`Grows`); no assumption on codes, names or failures is used.
  A board is complete because a league has one row of each device (`OneRow`).
  `OwnerCorrect` is the other side of finding 2: with no failing call and no player's
  name cut inside a character OwnerIsMember holds, because the owner of a league is a
  member or some request is still to insert him (`Founded`).
  `NamesCorrect` is about text: a name that is found clean by `normalize` and
  the search hides no word without double letters (`HiddenIsFound`), for any list of
  words, any folding of letters and names of any length.  Following the spelling
  from character to character (`Spelled`, `SpelledOut`): when the m-th letter of the
  word is reached, the last m letters kept are the word's first m, and the last
  letter of the name is the m-th, so that the next one differs from it and is kept.
  This is where double letters would break it.  `CutFits`, `Trimmed` and `Sizes` are
  about the cut, and the invariant `Unbroken` says that PostgreSQL has taken no half
  character.
- **ScoresProofs** (`TypeCorrect`, `BestScoreCorrect`, `RankCorrect`,
  `BoardCorrect`).  The invariant says of each request at its step what the table
  still owes it (`Sound`): totals only grow (`Grows`), so the devices that were ahead
  when it read its score still are when they are counted, and as long as no score
  was stored since the board was read, its place lies within the tie.
- **PanelProofs** (`TypeCorrect`, `WalkCorrect`, `IdsCorrect`, `ButtonCorrect`).  Ids
  stay true because every id on a page, in the table or on a phone is at most the
  sequence's last value (`BelowSequence`).  A button keeps its word because the
  page's row is the table's row unless its id was toggled (`PageIsTrue`).  The walk:
  an unseen row lies behind the pages seen (`Behind(n)`: at least
  `n * PageSize` rows before it), an addition, wherever it comes, pulls no row
  forward (`AddedBehind`), and the pages counted are enough for all rows
  (`PagesSuffice`).

What holds at every position of a text, or in every tick of a span, would ask for
induction over data, whose theorems take an operator as a parameter that no installed
prover instantiates.  The proofs take the least exception instead, which exists
because the natural numbers are well-founded (`Least`, `Reaches` in LeaguesProofs),
or give the property the shape of an invariant (`Bounded`); sums are cardinalities of
sets.

Only model-checked: the five liveness properties, which are out of the prover's
reach (fairness and ENABLED).  Every invariant and every action property of the
passing runs is a theorem, and `PaidOnce` the refinement of Ledger.  PruneKeepsReachable
is one under the assumption `MessagesMayBeBad = FALSE` of its run.

## 6. What the runs found

Two places where the code does not do what its comments say (PROJECT.json
"findings"):

1. An INVALID_ARGUMENT about the message deletes devices that are reachable
   (`push.go:131`); `push.go:111` says that ErrTokenInvalid is about tokens.  Line
   112 and `push_test.go:8` count INVALID_ARGUMENT among the answers that mean a
   dead token, but FCM gives it for a message it does not accept as well.
2. A player's name cut inside a character leaves a league without its owner
   (`server.go:339`, `store.go:280`); `store.go:263` says that the owner becomes a
   member.  The same name makes every score sent under it fail.

The properties that hold name more places in an exception or a bound of theirs:

3. A bundle built before an admin change may be stored after the handler has
   dropped the key (`server.go:127`), although README line 58 says that the change
   invalidates the cache.  StaleCacheHeals therefore promises a fresh bundle only
   *eventually*, by the daily refresh or the end of the key.
4. A change whose increment fails is never announced, and repeating it does not
   help (`store.go:614-617`); README line 66 says every change is.
   VersionIdentifiesContent is about times at which no such change is pending.
5. An answer lost after the insert costs the buyer the coins (`server.go:515`):
   PaidUnlessLost.
6. A counter that lost its EXPIRE blocks its address for ever (`cache.go:78`): the
   error of the call is ignored (it fails when the connection breaks or the request's
   context ends after the INCR), and no later request sends one.  README line 56 says
   that the block is temporary, `server.go:821` answers "try again in 15 minutes".
   The rate limit shares the code.  BlockEnds, RefusalEnds and KeysGetLifetime except
   the case (`orphan`); without the exception TLC refutes BlockEnds.
7. Three words of the block list have double letters (`moderation.go:20-21`), which no
   normalized name has: they are never found, although the comment above the list
   (lines 9, 13) says that it has none.  NamesAreModerated excepts such words;
   MCLeagues has one, and a player of this very name, which is stored.
8. A process whose first refresh fails serves the bundle that Redis holds from an
   earlier process (`main.go:175`, `server.go:145-153`), which may be one of the past
   under a version of the present, until it is replaced.  IdentifiesAgain excepts this
   time.
9. README line 55 says 120 requests a minute; a fixed window lets up to
   2 * 120 - 1 through in a minute that touches two windows: RateIsLimited.
10. README line 56 says 5 wrong passwords in 15 minutes; because the check comes
   before the count and two windows may be touched, up to 2 * (4 + n) - 1 are compared
   with n logins at a time: GuessesAreLimited.  Both limits say nothing of a time with
   failing calls to Redis or a restart, where the counts move or are lost.

And some that are no property's business, but worth knowing: the comment of
`content.go` (lines 2-3) says that a new content.json is enough to publish content,
but a table that is not empty is never seeded again; connections seeded by a later
start, and a seed that sets the version back, are not noticed by phones that keep
their bundle under the version's number; a first seed that was cut short stays
incomplete; a purchase refunded before it is verified still gives its coins on iOS,
because Apple is not asked (`iap.go:92`); one total over the 32-bit range makes a board fail for
everybody (`store.go:201`, `store.go:339`); a count of the admin page that fails is
taken for 0, so that the page says it is the only one (`server.go:875`); the EXPIRE
of a login's counter that another login has deleted meanwhile falls on the next
counter, and may prolong its block by up to a window (`cache.go:78`).

## 7. Not modelled

Rendering, parsing and file handling, the privacy page and the helpers; uploads
and their clean-up; the spreadsheets of the imports (their rows are ContentSync's);
signatures and the content of HTTP exchanges; the wall clock (`nextAt`, the number
of the day), so that a broadcast may start at any time.  A walk through the words
promises what it says of the words that were there at its beginning; one that is
added meanwhile may land on a page already seen.

PostgreSQL executes a single statement atomically and Redis a single command:
this is assumed, as is that one server process runs at a time.

## 8. Plan

Done: ContentSync, ContentBoot, Purchases with Ledger, TokenCache, WindowCounter,
RateLimiter, AdminGuard, Push, Scores, Names, Leagues, Panel, and the proofs of
section 5.

Left:

1. Scores: the order among equal totals (`updated_at`), which a resubmission
   changes although the score does not improve (`store.go:145`).
2. The action properties behind the other liveness ones, as RefusalIsNotProlonged is
   behind RefusalEnds: a broadcast's work only shrinks, who waits for a token is
   not overtaken for ever.
