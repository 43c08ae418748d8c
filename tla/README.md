# gemini-web2api: verification project

`src/` is a gateway: it offers the OpenAI API to clients and serves it from the
web interface of Gemini, through a pool of logged-in accounts ("cookies") and a
pool of proxies ("exits"). Everything is one process with one database, and
nearly everything hard in it is about goroutines that share the two pools.

This directory holds TLA+ modules of that code, the TLC configurations that
check them on small instances, and proofs that TLAPS checks for all instances.
All Go files below are in `src/internal/app/`.

## Parts of the system

| Part | Files | State | Operations | Hard because |
|---|---|---|---|---|
| Limiter per exit | `ratelimit.go` | slot per exit: in flight, minute and hour window | `trySlotAcquire`, `slotRelease`, `slotUsage` | slots created on first use under two locks; anyone who looks prunes; limits are read piecewise while they change |
| Request flow | `gemini.go`, `context_file.go` | local to the request | `streamGenerateWithFiles` | three nested loops (exits, accounts, attempts), many returns that must give the place back, credit to the right account |
| Static proxies | `proxy.go` | table `proxies` and its copy `proxyCache` | CRUD, `loadProxies`, `recordProxyResult`, `forceProxyCooldown` | two copies written in turn, by anybody; an empty copy means "no proxies: go direct" |
| Dynamic proxies | `proxy.go`, `gemini.go` | slot and health per URL, the sticky exit | `acquireSlotExcept`, `fetchOrStickyRemoteProxyExcept`, outcomes | looked at under one lock, used after it; one sticky exit for all requests |
| Accounts | `cookie_pool.go`, `admin_cookies.go` | table `accounts` | pick, mark, disable, toggle | statements of several goroutines interleave; stamps in seconds |
| Keep-alive | `rotate.go` | `accounts.cookie`, `psidtsLastAt` | `rotateAccount`, `rotateAllAccounts`, `updateAccountCookie` | everybody works on a copy and writes the whole cookie back |
| XSRF tokens | `xsrf.go` | `xsrfCache` | `getXSRF`, `invalidateXSRF` | fetch between lookup and store |
| Conversations | `conversation.go` | `convStore`: history keys to shared objects | `convGet`, `convPut`, `convDelete`, `streamGenerateConv` | several keys and requests share one unlocked object; eviction; retries |
| Seeding | `cookie_pool.go`, `proxy.go` | tables, marks in `kv` | run at every start | a crash between two steps, files that change |
| Scheduler, statistics | `scheduler.go` | `stats_hourly`, `stats_daily` | tickers | late rows, failed buckets, catching up |
| Runtime configuration | `runtime.go` | value in memory and in `kv` | `rtCfg`, `saveRuntimeConfig` | read piecewise while it changes |
| Video jobs | `videos.go` | map of jobs | create, run, poll | worker against handlers, eviction |
| bl version | `bl.go` | cached version | `currentBL`, `refreshBL` | single flight |
| Client API, streaming | `server.go`, `sse.go`, `messages.go`, `gemini.go` | per request | handlers, `deltaTracker`, `toolFenceGate`, the writers | fences split between frames; what is sent cannot be taken back; a stream and a whole answer have to agree |
| Keys, login, media, search, database layer, HTTP clients, token counting, admin pages | the rest | none shared, or single rows | | I/O and formatting |

How they interact: a request picks an **account** (one row of the table), takes
an **exit** (one slot of the limiter, chosen by the proxy pool), and reports the
outcome to both pools. The keep-alive, the admin's check of an account and the
clean-up of conversations take exits through the same functions. The scheduler
reloads the proxies every minute and rotates the accounts. Admin handlers write
the tables and the configuration at any time.

What makes each part correct: the limiter never loses or invents a place and
answers as the full record of starts would; a request gives back what it took,
ends, and sends nothing again after text was passed on;
the copy of the proxy table is always something the table was, and becomes the
table; an exit given up or cooling is not handed out, and a remote exit is one
exit; dead accounts leave the rotation and picks take turns; an account's
session stays its own; starts lose nothing a user has put into the pools; a
stream adds up to the answer.

## Modules

| Module | Models | Run |
|---|---|---|
| `ExitLedger` | what the limiter promises: a ledger of every start and holder | by refinement in `rate_limit`; proved |
| `RateLimit` | `ratelimit.go` | `rate_limit` |
| `Request` | `streamGenerateWithFiles`, several at once | `requests`, `request_alone` |
| `ExitChoice` | how a request gets its exit: `acquireSlotExcept` in all modes, static and remote exits, the sticky one, outcomes | `exit_choice` |
| `ProxyPool` | the table of static proxies and its copy, admin handlers, the import, the reload, the choice in mode auto | `proxy_pool` |
| `AccountPool` | picking, marking, disabling, toggling accounts | `account_pool` |
| `CookieRefresh` | rotations, cookies set by answers, the write-back | `cookie_refresh` |
| `Conversation` | `conversation.go` | `conversation`, `conversation_retry` |
| `Seeding` | what starts do to the two pools | `seeding` |
| `Fences` | texts and what is cut out of them: pure operators of `messages.go` and `gemini.go` | through `Streams` |
| `Streams` | frames of an answer to what the client receives, both APIs | `streams`, `stream_whole` |
| `MC...` | the instances TLC checks | |
| `...Proofs` | theorems and proofs about the module named; `ExitProofs` about `ProxyPool` and `ExitChoice` | |

### RateLimit

A *caller* is one use of an exit, whoever makes it. `getSlot` is two steps,
because the read lock is given up before the write lock is taken: `Lookup`
(`missed` when there is no slot) and `Create`, which looks again. `Release` and
`ReadUsage` are one step under the slot's mutex. `trySlotAcquire` is not, although
it holds that mutex throughout: it calls `rtCfg()` anew for each operand, up to six
times, and `saveRuntimeConfig` (`SetLimits`) takes `rtMu` only. `Begin` gets the
mutex, reads the clock (`stamp`) and prunes; then, for each limit in turn (`check`),
`ReadLimit` is the read in `> 0` and `Compare` or `Refuse` the one in the comparison;
`Acquire` counts the request. While a caller is among these steps the slot is
`Locked`, but the clock and saves go on. `&ipSlot{}` makes a new address; a slot's
address in the model is the exit and the creator. `starts` is a history variable
with every start; the properties say what forgetting must not change:

- `InflightIsHolders`: in flight is exactly the callers that hold the exit, so
  the clamp at zero of `slotRelease` never acts.
- `VerdictIsExact`: the pruned windows allow a request, under any one record of
  limits, exactly when the complete record does.
- `ImplementsLedger`: every behaviour is one of `ExitLedger`. The ledger's decisions
  take time as well: a request asks, each limit is found set or passed as it is at
  that moment, and it is admitted when all three were passed, or sent away over a
  limit that was found set and that, read again, is no more than what is used.

What is not promised, because the code does not do it, is that one saved
configuration would have decided the same. A save between the reads can admit a
request under the old limit on concurrency and the new one per minute, which neither
configuration admits; and a limit lifted between its two reads is compared as 0 and
refuses. `ExitLedger` has both.

### Request

One action per stretch between two calls to the network or to shared state.
`req[r]` holds the local variables of the Go function by their names: `acct`,
`cookie` (`cookieStr`), `cookieID`, `exit` (`picked` while `slotHeld`), `excluded`
(`excludedIDs`), `tried`, `switch`, `attempt`. `pc` says where it is: `pick`,
`exit` (taking one), `token`, `rotate`/`rotating`/`recheck` (the nested
`rotateAccount`), `charge`, `next` (account), `prepare` (uploads), `send`.
The exit's counter, the proxies' health and the accounts' health are shared; each
update of them is one step here and looked at statement by statement in
`ProxyPool` and `AccountPool`. Left open, that is: every possibility is allowed:
which usable proxy is tried first, whether a minute or hour window refuses it,
the outcome of every network call. `live` holds the accounts whose session
Google accepts; only they cannot be rejected with 401 or 403. An answer of any status
may have brought text before it failed, but for the 400 that blames the token: the
code repeats the request behind that without looking whether text was passed on.

- `SlotBalance`: the counters are the places held, through every error return,
  exit change and nested rotation; an ended request holds none.
- `ChargedOnce`, `CreditAndCookieAgree`: outcomes are credited to the account
  whose cookie was sent, and a request charges an account at most once.
- `NeverBackToAnExit`, `Terminates`: the nested loops end.
- `NoRetryAfterEmission`: nothing is sent again once text went to the client.

### ProxyPool

A task's step is one SQL statement or one section under `proxyMu`. `Import`,
`ImportRow` and `ImportEnds` are `syncRemoteProxies`: rows go in one by one, and
the list is reloaded once at the end. `db` is the
table, `cache` is `proxyCache`; `tables` is a history of what admins configured,
`direct` records that some request used the host's address. Database errors are
possible at every statement the code lets fail silently.

- `CopyWasTheTable`: once up, the copy is what the table was at one moment.
- `DirectOnlyWithoutProxies`: with `fallback_direct` off, the host's address is
  used only if the table has been empty at some time.
- `Converges`: when changes stop, copy and table agree for good.

### AccountPool

`Select` and `Stamp` are the two statements of a pick with `pickMu` held between
them (`PickMuHeld`). Marking, checking and disabling are three statements, the
admin's toggle two. `DeadLeavesRotation` and `RepeatOnlyAfterOthers` are the
properties. Stamps are whole seconds, so within one second the same account may
be picked again by its id; `RepeatOnlyAfterOthers` is what holds all the same.

### CookieRefresh

A cookie is a session and the number of its `__Secure-1PSIDTS` ticket. Rotations
and requests carry a copy (`task[t].cookie`), `CheckIdentity` and `WriteCookie`
are the two statements of `updateAccountCookie`. An answer may set any session.

- `OwnSession`: the stored session is the account's own.
- `RefreshesSpaced`: within the floor of 60 s no goroutine gets a second answer
  to a refresh. The floor is looked up before and noted after the call, so
  goroutines may pass together; hence one answer per goroutine and not one.

A failing SELECT in `updateAccountCookie` skips the comparison (the code compares
only when `err == nil`); the model assumes that this SELECT succeeds.

### Conversation

A history is a sequence of messages; `Canonical` is what a key keeps of it (a
reply that only calls tools has no text). `conv` is the heap of `convState`
objects, `store` maps keys to their addresses, and `older` (which stored object was
updated before which) and `expired` stand for `updated`. What Google holds behind `cid`, `rid`, `rcid` and `tok26` is
`conv[c].node`; it is empty exactly at turn 0. `req[r].base` is what the body of
a request names, read in `Build`; the object moves on in `Answered` and is stored
in `Store`, so that other requests come between. `answered` are the histories
clients may send again: the next turn, a retry, another branch. `Restart` loses
everything but the clients' histories. Whatever nothing points to is collected.

- `ContinuesTheHistory`: what Google holds when a message is sent behind it is
  the client's history, if each answer is continued once and by one request at a
  time (`strayed` says when not). Without the condition: `HitIsContinuation`.
- `SessionStays`, `StoreBounded`, `NewestSurvives`, `SlotsReturned`.

### ExitChoice

What `Request` takes as one step ("any exit of `Takeable`") step by step. A
request's `pc` is where it is in `acquireSlotExcept`: `static`
(`pickProxyPreferringExcept`, one step under `proxyMu`: the account's exit, the
sticky one, the round robin), `dynamic` (`fetchOrStickyRemoteProxyExcept`: is the
sticky exit a remote one), `fetch`, `count` and `time` (the two reads of
`isDynamicProxyCooling`, behind its lock), `acquire`, `direct`; then `use`,
`failed` (the sticky exit is cleared, the failure not yet counted) and `force`.
`slots` is the pair of maps behind `getDynamicSlotID`, `health` is kept by id for
static exits and by URL for remote ones. A cooldown that ends is `TimePasses`;
cooldowns are taken to be switched on. `hot` is a history variable: the exits
that have been cooling since the request turned to the remote pool.

- `GivenAFreshExit`: no request is handed an exit it gave up, a static proxy that
  cools, or a remote one that has been cooling all the time, whatever others do
  to health and stickiness between the reads.
- `OneSlotPerUrl`: a remote exit is one exit for the limiter.

### Seeding

`pc` walks through `seedProxiesFromConfig` or `seedCookiesFromConfig` statement by
statement: `Migrate`, `Mark` (the old version's value), `Sync`, `Add`, `SetValue`,
`SetId` (the row that follows the parameter). `rows` is the table, `copy` is
`proxyCache`, `kv` the three keys. A *value* has a name (what a URL is, or whose
cookie it is) and the number of its refreshes. The old version's proxy is read from
the stored settings, and `RuntimeConfig` still has its field (`runtime.go:35`): a
save (`AdminSavesSettings`) puts there whatever the request has, which is nothing if
it is the panel's. Any statement may fail and the
process may be killed anywhere in a start (`Stop`); between starts the admin adds,
edits and deletes, rotations refresh cookies, and the settings are saved. `seeded`
and `touched` in a row are history: the value a start made it for, and whether it
changed since. `kvGet` cannot tell a failing read from a missing key; `misread`
remembers that it happened.

- `MovedBeforeMarked`: the migration is marked as done only if there is no value, or
  the one that is there by then was in the pool.
- `TakenOverStays`: starts remove only what starts made and nobody took over.
- `PoolFollowsConfig`: without faults, the one untouched row that starts made is
  the one recorded, with the recorded value, and that is the parameter.

The last two are about behaviours without faults: a kill between `proxyCreate` and
`kvSet` leaves a row that no later start withdraws, and so does a failing
`kvSet`. Excepted as well are starts after a value that was refused.

### Fences and Streams

A text is a sequence of the characters the code looks for: a backtick, the words
that make three of them a fence, white space, a tool call that parses, and others.
Which characters the others are is a constant (`Other`); `Char` is the alphabet.
`Fences` has the regular expressions and the gate as operators. A loop over a text
is a number of rounds (`Rounds`) that is enough for it (`Exhaust`), as each round
takes off a fence and a fence has three backticks. `Streams` adds the
frames of one answer (`ReadReasoning`, `ReadText`, `ReadDraft`), which may be cut
anywhere, `deltaTracker` (`tracker`, `rtracker`), the gate, and the events the
client receives (`out`, with neighbouring deltas joined). `Retry` is a failed
attempt that is repeated, `Fail...` one that is the last, `Complete...` the end of
`handleChatCompletions` and `handleResponses`. What a picture or a document adds
is one character `Doc`.

- `SentIsOneText`: what was handed on is always a text Google wrote, and the state
  of the gate is a function of it, wherever the frames were cut.
- `NeverTakenBack`: the gate sends nothing that the whole answer does not have.
- `StreamEqualsReply`: the stream adds up to the answer without a stream, but for
  white space at its ends. Excepted: answers Google or the cleaning of code
  changed after the fact, canvases, and the case of `WholeAnswer`.
- `ItemLifecycle`: items of a responses stream are declared once, used, done.
- `EndsOnce`: one end, and an error by a status only if nothing was sent.

## Runs

| Run | Instance | What it shows |
|---|---|---|
| `rate_limit` | 3 callers, 1 exit, 3 sets of limits, minute 1 tick, hour 2, clock to 3, 4 starts | the limiter's invariants and the refinement |
| `requests` | 2 requests, 2 accounts, 2 proxies with 2 places each, 1 attempt, 1 exit change | places and charges balance |
| `request_alone` | 1 request, all kinds of jobs, 2 attempts, 3 exit changes, direct fallback | retries, exit changes, credit, termination |
| `proxy_pool` | 2 workers, scheduler, 2 proxies, 3 operations, the first read succeeds | copy and table |
| `account_pool` | 2 goroutines, 2 accounts, 3 failures disable, clock to 3 | picks and disabling |
| `cookie_refresh` | scheduler and 1 goroutine, 2 accounts, 1 new ticket, floor 2 ticks, clock to 3 | sessions and spacing |
| `conversation` | 4 requests, 2 at a time, store of 2, 2 exits, 1 exit change, 2 attempts, histories of 2 turns continued | store, sessions, what is continued |
| `conversation_retry` | the same with two tool calls as replies | *violation*: a history sent twice is continued behind the other answer |
| `exit_choice` | 2 requests, 1 static proxy, 2 remote exits (one of them the static one), 2 attempts, 1 exit change, 2 fetches, 8 settings | who is handed which exit |
| `seeding` | 2 good values and a bad one, 3 rows, 3 starts, 1 refresh, 1 fault | what starts do to the pools |
| `streams` | answers of up to 3 words (tool calls, white space, backticks), of 2 with code, reasoning or a draft; 7 kinds of request | streams against whole answers |
| `stream_whole` | the same | *violation*: the held-back tail of an answer that begins with a tool call is lost |

The bounds are chosen so that the interesting case happens and one more would
repeat it: three callers let two race for the creation of a slot while a third
finds it; the clock passes both windows, and four starts are one more than the
largest limit; one exit change more than there are
proxies lets a request run out of exits; two exits and two accounts let every
"another one" happen; `Threshold` and `MaxFailures` are reached. Constants whose
name begins with `Max` in `RateLimit`, `AccountPool`, `CookieRefresh` (`MaxTime`,
`MaxStarts`, `MaxTicket`, `FailBound`), `MaxOps` in `ProxyPool`, `MaxRequests`, `MaxHistory`
and `MaxUpstream` in `Conversation` and those of `Seeding` (`MaxRows`,
`MaxRefresh`, `MaxFaults`, `MaxStarts`) are bounds of the model and stand for no
limit in the code (`MaxFailures`, `MaxProxySwitches`, `MaxSwitches`, `MaxFetches`,
`MaxCookieTries` and `MaxCookieAuthFailures` are the code's own, smaller here).
One fault is enough for `Seeding`: what a cut-short start leaves behind is what the
next start finds, and the third finds what the second made of it. Three words put
a fence at the beginning, in the middle and at the end of an answer, and frames
cut every one of them at every character. The violation runs stand for
disagreements between the code and its own documentation; they are described
under `findings` in `PROJECT.json`.

Deadlock is checked wherever the system runs on; requests end, answers end, and
the starts of `Seeding` are bounded, so the runs of `Request`, `Streams` and
`Seeding` switch it off.

Fairness: `Request!FairSpec` says that each request goes on (`WF` of its steps):
HTTP calls have timeouts and the limiter refuses instead of making anybody wait.
`ProxyPool!PoolFairSpec` says that goroutines go on, the ticker ticks, and that a
read of the table that is repeated for ever is not refused for ever (`SF` of
`ReadTable`).

## Proofs

| Theorem | States | Argument |
|---|---|---|
| `RateLimitProofs!TypeCorrect` | `[]TypeOK` | with `CallersKnow` |
| `RateLimitProofs!SlotConservation` | `[]InflightIsHolders` | `IInv = TypeOK /\ CallersKnow /\ DecidersAlone /\ InflightIsHolders`: a slot in the table belongs to its exit and a caller that came back from `getSlot` has the slot in the table, so an acquisition and its release change the one counter the invariant is about; slots of different exits differ |
| `RateLimitProofs!ExactVerdict` | `[]VerdictIsExact` | with `WindowsInv`: each window is an end of the record of starts (`EndOf`), and what is missing from it is too old to count, so pruning it gives exactly the starts that count; and with `DecidersAlone`: one caller at a time is among the comparisons of a slot |
| `RateLimitProofs!LedgerImplemented` | `ImplementsLedger` | holders map to holders, the record to the record, a decision to the limits passed and found so far; what a slot shows the caller that holds its mutex is what the ledger has used at the caller's `stamp` (`DecidersInv`, `LedgerUsed`), so each read of a limit is a step of the ledger; lookups, creations and readers are stutters |
| `RequestProofs!RequestTypes` | `[]TypeOK` | `Inv = TypeOK /\ AllGood /\ Balance` is one invariant for all of `Request`; a step replaces one request's record (`Becomes`), so `Good` is looked at for that record only |
| `RequestProofs!PlacesGivenBack` | `[]SlotBalance` | `Place` ties the exits a request holds to where it is in the code, `Balance` the counters to the holders: each step enters or leaves one exit, or neither (`MovesPlaces`) |
| `RequestProofs!ExitsNotTakenBack` | `[]NeverBackToAnExit` | `GivenUp`: the exit in use is not excluded, and as many are excluded as changes were made |
| `RequestProofs!ChargedOnlyOnce` | `[]ChargedOnce` | `Credit`: an account is charged only while it was tried and not charged, and a picked one was not tried |
| `RequestProofs!CreditFollowsCookie` | `[]CreditAndCookieAgree` | `Credit` again: what `cookieID` is in each place of the code |
| `RequestProofs!NothingSentAfterText` | `NoRetryAfterEmission` | `Emission`: a request that passed text on has ended |
| `RequestProofs!ExitsNotOverrun` | `[]WithinLimit` (in `RequestProofs`) | the counts are the holders (`Balance`), and a step takes a place that `Takeable` found free or none (`StepFits`) |
| `RequestProofs!SendsAreFew` | `[]SendsBounded` (in `RequestProofs`) | `Sent`: what was sent so far is bounded by the exits given up and the attempts at the present one; each step changes the counts in one of seven ways (`Counts`). TLC reaches the bound with three exits and two changes |
| `ExitProofs!ExitTypes` | `[]TypeOK` | with `JInv`, below |
| `ExitProofs!RemoteExitIsOne` | `[]OneSlotPerUrl` | `SlotsDiffer` (no URL has two slots), `NoMoreThanFit` (no slot is held more often than it may) and `KnownExits` (nobody holds a slot before it is handed out); most steps are `Quiet`: they bring nobody to a slot |
| `ExitProofs!FreshExitGiven` | `GivenAFreshExit` | `JInv`: the URL a request looks at is none it gave up, and then neither is its slot; behind the last look at its health it is not in `hot`; and everything in `hot` cools (`Fits`). The sticky exit is an id and a URL that belong together (`StickyFits`) |
| `ExitProofs!ProxyPoolTypes` | `[]PoolTypeOK` | inductive |
| `ExitProofs!CopyShowsTheTable` | `[]CopyWasTheTable` | `ListInv` follows a list from the table, through the goroutine that read it, into the copy |
| `ExitProofs!DirectNeedsAnEmptyTable` | `[]DirectOnlyWithoutProxies` | `DirectInv` follows an empty list further, into the request that found the copy empty |
| `AccountPoolProofs!TypeCorrect` | `[]TypeOK` | inductive |
| `AccountPoolProofs!PicksTakeTurns` | `RepeatOnlyAfterOthers` | with `LastPickStamped`: outside of `pickMu` the last picked account carries a stamp no older than its pick |
| `AccountPoolProofs!DeadAccountsLeave` | `[]DeadLeavesRotation` | inductive with the types |
| `CookieRefreshProofs!TypeCorrect` | `[]TypeOK` | inductive |
| `CookieRefreshProofs!SessionsStayOwn` | `[]OwnSession` | with `ComparedIsOwn`: whoever is about to write compared with a row that held the account's own session already |
| `CookieRefreshProofs!TicketsAreSpaced` | `[]RefreshesSpaced` | `Spaced`: answers within the floor and goroutines past the floor that wait for theirs are together no more than there are goroutines; while there is an answer within the floor nobody else passes (`Noting`: each answer was noted) |
| `ConversationProofs!ConversationTypes` | `[]TypeOK` | `TInvParts`: types, `StoreOK` (the order of last updates is a strict order on the stored objects), what each handler refers to, and `Balance` |
| `ConversationProofs!StoreStaysBounded` | `[]StoreBounded` | entries are added one at a time by `Put`, which keeps all, the young ones, or all young ones but one |
| `ConversationProofs!PlacesReturned` | `[]SlotsReturned` | `Balance`, as in `Request` |
| `ConversationProofs!HistoryContinued` | `[]ContinuesTheHistory` | `Upheld`: a conversation that has not strayed has one user at a time (`OneUser`), the ids of an object in use name what that user's client sent so far (`Follows`), those of an object at rest the history under its key (`Resting`), and a new object is not in the store (`FreshAlone`) |
| `ConversationProofs!SessionsStay` | `SessionStays` | with `HoldInv`: a handler refers to an object exactly while it serves, so a new conversation never takes an object in use |
| `ConversationProofs!NewestStays` | `NewestSurvives` | the object put last is younger than every other (`Touched`), and only an oldest is evicted |
| `SeedingProofs!SeedingTypes` | `[]TypeOK` | `TInv`: a parameter that could not be read makes no row, and a row a start made is there while the start goes on |
| `SeedingProofs!MarkMeansMoved` | `MovedBeforeMarked` | with `MarkIsDue`: a start that has come to the statement that sets the mark has seen the value in the pool or put it there; nothing else sets it, and no save of the settings falls into a start |
| `SeedingProofs!ThePoolFollows` | `[]PoolFollowsConfig` | `Following`: what holds after each statement of a start. Behind the comparison no row of an earlier start is left untouched; until both keys are written the only such row is the new one (`Made`); then it is the recorded one (`Recorded`) |
| `SeedingProofs!UsersKeepTheirRows` | `TakenOverStays` | from `Following`: the row recorded, if it is there, was made for the value recorded, and the start deletes it only if that is still its value |
| `StreamsProofs!TypeCorrect` | `[]TypeOK` | from `Base` and `Heard` |
| `StreamsProofs!OneText` | `[]SentIsOneText` | `Base`: what is handed on is nothing, the draft or a beginning of the text, cleaned, and the gate is what a new one makes of it in one piece; that it is the same in pieces is `PushTwice` |
| `StreamsProofs!NothingTakenBack` | `[]NeverTakenBack` | what a gate sends of a text is a beginning of what is left of the text without its fences (`GateWithin`), and stays so when the text goes on (`GateOfPrefix`) |
| `StreamsProofs!StreamIsTheReply` | `[]StreamEqualsReply` | `Heard`: while the answer is read, the text in `out` is what was let through (`OnTheWay`); the rest at the end makes it the text of the reply (`SameTextIs`, `TrimBehind`) |
| `StreamsProofs!ItemsInOrder` | `[]ItemLifecycle` | `Heard`: while the answer is read the message is the only item that is not done (`Running`), each event keeps the items in order (`Flow`), the calls by induction over their number (`CallsAre`). An item that stays open needs a text of white space only |
| `StreamsProofs!ToldOfTheEnd` | `[]EndsOnce` | `Heard`: nothing that ends an answer is sent while it is read (`GoesOn`), and the last step adds one such event (`EndsWith`) |

They hold for all values of the constants that satisfy the module's assumption on
its constants: any number of goroutines, accounts, exits and requests, any limits,
histories of any length. The assumptions say that sets that are counted are finite,
that limits are natural numbers, and that the placeholders for "none" are nothing
else. `Streams` assumes that its texts consist of `Char`, that a backtick is no white
space, and that a document is not white space either. `Conversation` assumes
addresses for the store and one more per handler, since memory does not run out;
`ExitAssumption` also says that ids of proxies, ids of slots and URLs differ, as
positive numbers, negative numbers and texts do. The
invariants named in the last column also hold in TLC, on the instances of the runs
(`Heard` with its numbers bounded by the events there can be).

The prover cannot take an operator as an induction's formula. What `StreamsProofs`
needs of induction it gets from the well-foundedness of the numbers: a set of
numbers that has 0, and with each number the next, has all of them (`Least`,
`Induct`), so a function defined by rounds exists (`RoundsExist`), and its values
are looked at round by round.

`ExitProofs` is about two modules that share no constant and no variable; `Init`,
`Next` and `TypeOK` of `ProxyPool` are `PoolInit`, `PoolNext` and `PoolTypeOK` there,
so that one module can extend both.

Two theorems have a hypothesis. `CopyShowsTheTable` and `DirectNeedsAnEmptyTable`
are about programs whose first read of the table succeeds (`BootReadMayFail =
FALSE`): without it both are false, which is the divergence "Start-up" below. The
second also takes `FallbackDirect = FALSE`, as with it the host's address is meant
to be used.

Model-checked only:

- `Request!Terminates` and `ProxyPool!Converges`: liveness is out of the prover's
  reach.
- The two properties of the violation runs, which are false.

## Known divergences

Places where the code and what its own documentation says of it part. Two have a
violation run (`conversation_retry`, `stream_whole`); the others are in the
behaviours of the modules and are stated here.

- Attachments: when one upload fails and the exit is changed, the ones before it
  stay in `files`, `len(files) == 0` (`gemini.go:549`) is false, and the request is
  sent without the rest; `server.go:91-92` says that dropped pictures are refused.
  (`Request`: `UploadFails`, then `Prepared` on the next exit.)
- Charges: an account is charged as if rejected when fetching a token fails for any
  reason (`gemini.go:533`, and the admin's check, `cookie_pool.go:545`);
  `cookie_pool.go:443-447` says that only 401 and 403 count. (`ChargeAccount`.)
- Start-up: if the first read of the proxies fails (`app.go:79`), requests leave from
  the host's address until the reload, against `runtime.go:43-45`.
  (`ProxyPool` with `BootReadMayFail = TRUE` violates `DirectOnlyWithoutProxies`.)
- Tickets: a request that began before a rotation writes the older ticket back
  (`gemini.go:702`), which the comment at `cookie_pool.go:156-159` warns of.
  (`CookieRefresh`: `AnswerSetsCookies` after a `TicketIssued` by another.)
- The old version's proxy: `proxy.go:282-284` relies on the stored settings being
  left alone and `proxy.go:305` says that `RuntimeConfig` no longer has the field; it
  does (`runtime.go:35`). The next save of the settings overwrites the value: the
  panel's own request clears it, also when the migration has yet to be repeated, and
  a request that has a `proxy` sets it (`admin.go:703-711`, `runtime.go:184-192`).
  What is set behind the mark is never moved into the pool and used by nothing.
  (`Seeding`: `AdminSavesSettings`; `MovedBeforeMarked` is about the mark's moment.)
- A responses stream of white space only declares its message and never closes it
  (`server.go:733`), against `CHANGELOG.md:191-198`. (`ItemLifecycle` excepts it.)

## Not modelled

Listed with reasons under `components` in `PROJECT.json`:

- I/O and formatting without shared state: media and uploads (`Request` has their
  outcome), search, MCP, HTTP clients, admin pages, building prompts, token counts.
- Single-row reads and writes: API keys, login, the database layer. A statement is
  one step in every module.
- Left for later: aggregation and retention of the statistics, the XSRF cache, video
  jobs, the bl refresh, two saves of the settings at once. They are self-contained;
  no modelled component decides by their state, except by the token a request
  finds or not, which `Request` leaves open.

## Plan

Modelling, in this order: the statistics buckets, the XSRF cache between a fetch
and an invalidation, video jobs.

Proofs: every property the passing runs check is a theorem but the two liveness
properties. What is left to prove connects modules: that the exits
`ExitChoice` hands out are among those `Request` leaves open, and that the places
`Request` and `Conversation` take are holders of `ExitLedger`.
