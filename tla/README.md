# VictoryFairy backend: a TLA+ model of its records

VictoryFairy lets baseball fans register the games they attended.  The backend (NestJS,
TypeORM on PostgreSQL, Redis) crawls the league's site for schedules and scores, derives for
every registration whether the fan's team won, counts the results per user, team and year, and
keeps Redis rankings of those counts.  Around that core are accounts (passwords, social sign-in,
agreements to terms, e-mail codes), copies of them in Redis, and likes of cheering songs.

This directory models what happens between two statements of that code: interleavings of
requests, commit hooks, nightly jobs and cache fills, and what failures and restarts leave.

Paths below are relative to the repository.

## Inventory

| component | state | operations | talks to |
|---|---|---|---|
| registered-game (`src/modules/registered-game`) | table `registered_game`, unique on (game, user) | `register`, `update`, `delete`: one `@Transactional` each, with a `runOnTransactionCommit` hook; two queries | game (reads), rank (same transaction), Redis rankings and S3 (hook) |
| rank (`src/modules/rank`) | table `rank`, unique on (team, user, year), four counters; Redis sorted sets `rank:<team>` and `rank:total` | `updateRankRecord`, `insertRankIfAbsent`, `deleteRank`, `aggregateRankStatsByUserId`, `updateRankings`, `deleteRankByUserId`, `initRankCaching`, list queries | registered-game, account, process start |
| game (`src/modules/game`) | table `game`; cron jobs in the scheduler registry | crawl of two months (1 AM and bootstrap), a trigger per game of today, a one-minute score job per running game, bulk update at the end; queries | the league's site, registered-game, rank |
| account (`src/modules/account`) | tables of users, local and social auths; Redis hash per user | sign-up (local, social), `deleteUser`, profile changes, passwords, agreements, link and unlink, `initCacheUsers` | rank, term, S3, Redis |
| auth (`src/modules/auth`) | Redis keys with expiry: e-mail codes, OAuth states, OAuth codes; tokens are stateless | save, get, delete of each; `checkUser`; the OAuth strategies | account, providers, mail |
| term (`src/modules/term`) | table of terms, a cached list of it in Redis | list, required ids | account |
| cheering-song (`src/modules/cheering-song`) | songs, likes | like, unlike, cursor pages of three lists | account |
| team, stadium, parking-info | reference tables | queries | - |
| worker | none | daily report to Discord | - |
| infra | throttler counters, S3 images, mail, Slack and Discord, seeder, Redis connection | | |

What is hard here is never one statement; it is what happens between two:

- Every command is several statements.  PostgreSQL runs at READ COMMITTED, no row is read
  `FOR UPDATE`, and TypeORM's `save` is itself a SELECT and an UPDATE of the columns that differ.
  Requests of one user overlap when the app retries or two devices are used.
- The rankings and the user hashes are written after the commit, outside the transaction; they
  are also filled from the tables whenever Redis becomes ready, beside running requests.
- A tick of the score job waits for HTTP and for four statements, the job is stopped in the
  middle of its last tick, and its row says "ended" a statement before it has a winner.
- Triggers and jobs exist only in memory, Redis keeps nothing on disk and evicts keys at its
  memory limit; bootstrap and the ready event must put both right.
- A game's id changes when its match becomes a double header, while registrations refer to it.
- One-time keys, codes and counters in Redis are each read and written in two calls.
- A user loaded for one change is saved with everything that was loaded.

The properties that make each part correct:

- registered-game and rank: counters equal the registrations they count; the result of a
  registration is the game's result for its team; commands are atomic and always answered; the
  pages that show a record agree with each other.
- rankings and user hashes: once things are quiet they are what the tables say, and every member
  can renew a token.
- game: a published result is stored, once, with its winner, whatever fails; the job neither
  stops early nor outlives its game; a month is saved as a whole, never takes a registered game
  away, and is in the end as the site lists it.
- account, auth, term: every account can be signed into, a social account has one owner, the
  password last set is the one that works, the newest code is the one accepted, and once;
  agreements are never lost; nobody is throttled for good.
- songs: a count of likes is a number of users; a walk through the pages shows every song once.

`PROJECT.json` lists the hazards behind these at their lines, with the properties that watch each.

## Modules

| module | what it is |
|---|---|
| `GameRules` | the pure rules of the entities: result of a registration, winner of a game, a switch of sides |
| `RankScore` | `RankScoreVo`: counters, their packing into one Redis score, and the score of the user's page |
| `RankBook` | abstract: the three registration commands as one step each |
| `RankLedger` | the same commands statement by statement, with commit hooks, cache sync, failures and restarts, and the pages that show a record |
| `GameScoreJob` | one game's row: trigger, score job, crawl, restarts, and fans registering meanwhile |
| `ScheduleUpsert` | the crawl of two months of many games: ids, double headers, one transaction per month |
| `AccountCache` | sign-up, leaving and profile changes with the rank rows, the rankings and the user hashes |
| `SocialAccounts` | the OAuth flow with its one-time keys; social sign-up, login, link and unlink |
| `Credentials` | passwords, agreements, the cached list of terms, and what a save of a loaded user writes back |
| `EmailCodes` | verification codes and the throttler in front of them |
| `SongLikes` | likes of songs, and three lists read page by page beside them |
| `MCRankLedger`, `MCScheduleUpsert`, `MCSocialAccounts` | instances for TLC; the first with a later start (`SeededSpec`) |
| `Sums` | the sum of a function to the naturals, as a number of points |
| `RankLedgerProofs` (with `RankBook` and `RankScore`), `GameScoreJobProofs`, `ScheduleUpsertProofs`, `AccountCacheProofs`, `SocialAccountsProofs`, `CredentialsProofs`, `EmailCodesProofs`, `SongLikesProofs` | theorems |

A variable called "history" in a comment has no counterpart in the code: it remembers that a
named overlap or fault has happened, so that a property can except exactly that.

### RankLedger

`reg` and `rank` are the committed tables, `wreg` and `wrank` what each open transaction has
written.  A request (`Req`) walks through the steps in `step`:

    register   duplicate, insert,                [rankFind, rankReload, rankWrite] x 0..1, commit
    update     find, reload, store,              [rankFind, rankReload, rankWrite] x 0 or 2, commit
    delete     find, remove,                     [rankFind, rankReload, rankWrite] x 0..1, commit
    hook       aggregate, zadd

One step is one SQL statement (or one Redis call) together with the synchronous code behind it.
A SELECT reads committed rows overlaid with the transaction's own writes (`Regs`, `Ranks`).
A write to a row another open transaction has written waits (`WaitsFor`), and a cycle of
waiting transactions is broken by failing one of them (`DeadlockDetected`).  `save` is
`ReloadReg` and `StoreReg` (`ReloadRank` and `WriteRank`): the UPDATE writes the columns in
which the entity differs from the *reloaded* row, onto the row as it is by then (`Patched`).
If the row has gone before the reload, `save` inserts the entity again under its old id; the user
relation was not loaded, so the new row has no user, and these rows are kept in `orphan`.  A later
reload by id finds such a row (`Reloaded`), a later DELETE by id removes it.
If it goes between the reload and the UPDATE, the UPDATE finds nothing and the command goes on.

`todo` holds the `updateRankRecord` calls of the command.  They are fixed from the
registration row read by `find`, as in the code, not from what is stored later.  A null result
names no column (`Adjusted`, `Refused`): an update of a pending registration still calls
`updateRankRecord` twice, creates a zero row for the new team and fails if the old team has none.

`StatementFails` aborts a transaction anywhere.  `HookFails` is a commit hook whose query, ZADDs or
picture fail: no try surrounds it, in production the process survives the rejection (Sentry is
initialised), and nobody writes the rankings again.  `SyncFails` is the same in `initRankCaching`, one
user at a time.  Both put the user into `missed` (history), and a later write of the user's rankings
takes the user out.  A pipeline of ZADDs is modelled as written whole or not at all.
`ProcessRestarts` drops every transaction and hook and starts `initRankCaching`; `RedisRestarts`
empties the rankings and does the same.

`Registered`, `GetOne`, `FindOne`, `MyPageInfo` and `VersusTeamStats` are what the queries answer:
the month's list, one registration, the user's own page (from the rank rows) and the record
against each opponent (from the registrations and their games).  `PagesAgree` compares them.

What the model takes from the data: an update always changes the review, so it always writes its
row; seats, reviews and images have no other effect and are left out.  A request that names a team
not playing, a registration that is gone or a duplicate is refused where the code refuses it.
All tables are keyed by the user, so requests of different users never meet on a row; the
instances have one user.  Signing up gives a user one zero row (`insertRankIfAbsent`), which is the
initial state; account commands that change rank rows later are `AccountCache`'s.
A user has at most one sync in flight.  Games do not change in this module.

`MayOverlap` says what of the same user's work a new request may run beside: other requests, commit
hooks, a sync.  `{}` is a client that waits for its answer, with hooks faster than the next request.

### GameScoreJob

`site` is what the league publishes, `day` the part of the day (before the starting time, after
it, after 1 AM), `game` the row, `job` what the scheduler registry holds.  A tick (`Tick`) walks
through `waiting`, `loaded`, `ending`, `reloaded`, `settling`:

    TickStarts      the two requests; what the site shows now, any of status and scores unreadable
    PageArrives     updateInProgressGame: return if a score is missing, else load the row
    SavesProgress   save, error caught; then the test for a final status, which stops the job
    LoadsAgain      updateFinishedMatch loads the row (or returns, a score being missing)
    SavesFinish     save with the winner; an error ends the tick, the job being gone
    Settles         batchBulkGameResultUpdateByGameId

The league's page is abstracted to a class of status (`GameRules` names the five) and two scores
from 0 and 1.  The schedule page and the live page are assumed to agree, and the two
requests of a tick to be answered at one moment; the schedule page has scores only for finished games.  `save` is one overwrite here: its reload and its UPDATE differ
from that only if another write of the game falls between the two.

`NightFalls` needs idle ticks: a tick that is still waiting when the crawl runs is left to the
hazards list (below, "not covered").  The crawl of the next nights is one action, which may be
taken any number of times; `LastOfMonth` says that the crawl has moved on to other months.

### ScheduleUpsert

A match is two teams on a date; the league lists no, one or two games of it (`site`).  Its rows
(`games`) are keyed by the number that `processDoubleHeader` puts into the id: 0 for an only
game, 1 and 2 for a double header.  Of a row only its slot is kept, which stands for the unique
key on date, time and stadium.  `SaveGame` is one iteration of `upsertMany`: a game with a number
first deletes the row under number 0, which fails when a registration refers to it (`Referred`,
the foreign key of the migration), then INSERT ... ON CONFLICT (id), which fails when the slot
is another row's.  `SaveMonth` is the transaction: the first failure undoes all of it.

    NightComes      1 AM or bootstrap
    FetchSucceeds   what the site lists at this moment; a page with an unreadable row is kept as bad
    FetchFails      one retry, then the next month
    SaveMonth       nothing when a row is unreadable or a statement fails; then the next month

`RegisteredGameIds`, `FindAllDaily` and `GetGameById` are what the app's day page and game page
answer; `RegistrationsKeepGame` is stated through them.

### AccountCache

`profile`, `rank` and `games` are the tables, `hash` and `zset` the copies, `up` whether Redis
answers.  A request, with the hook behind it, walks through

    signUp      create, join,                     hook: hset, aggregate, zadd
    delete      remove, [image], unhash, unrank, leave
    image       save, [drop], exists, rehash
    nickname    save, exists, rehash
    teamId      save, insert, total, [unrow, unlist], relist
    register    count,                            hook: aggregate, zadd

Signing up and leaving are transactions; the profile changes are not, and `StatementFails` leaves
them where they are.  A `hash` is `Stub` when `updateFieldsOfUser` has created it: a hash without
an id.  `Whole`, `CheckUser`, `Renewable` and `Listable` are the readers: `getUserInfoByIds` reads
the id of every hash and throws on an empty one, so that `checkUser` never gets to the table it
means to fall back on.  `FillFind`, `FillSave`, `SyncAggregate` and `SyncZadd` are `initCacheUsers`
and `initRankCaching`, started by `RedisReady` and `ProcessRestarts`.  In `FillFails` the query of all
users is rejected, which is logged and thrown into an event nobody listens to: nothing fills the
copies before Redis is ready once more.  In `SyncFails` the query for one user is rejected.

`MembersServed` says `<>[]up => ...`: of a Redis that stays away nothing is claimed.  `dropped`
(history) holds the members who lose their hash for good: it was evicted, the COMMIT of their
departure failed, or a fill failed while it was missing.

Assumptions: a client waits for the answer to one request before it sends the next (hooks and
fills overlap all the same); registering a game is one step and all games are of one year, so
that a score is a number of games; an outage of Redis outlasts the fill that was at work when it
began; a pipeline that Redis does not answer ends without an error, a single command with one.
Sign-up through a provider differs from a local one in the credentials only, which are not here.

### SocialAccounts

`users` holds the address and whether there are a password and a team, `links` the rows of
`social_auth`, `mail` the address each account has at its provider now.  A flow is `consent` (state
key saved, the browser is at the provider), `callback` (the callback has read the state), `coded`
(state deleted, pid key saved), `pid` (the handler has read the pid), then what the handler does:

    login    exchange, find, create                link    exchange, load, save, store
    unlink   remove

Each key is read and deleted in two calls, and `Twice` is the same request sent once more between
them; the provider may accept the code both times.  `Exchange` takes the address of the moment, and
`ChangeMail` may change it at any time.  `Refused` is a command that Redis or the database refuses.

`FindSocialUserOrValidate` is the one query for the owner of the social account or of its address,
which takes the first user found.  `Create` is INSERT and COMMIT.  `LinkLoad`, `LinkReload` and
`LinkSave` are the `findOne` of `linkSocial` and the two halves of `save`: a link the array lacks makes
it fail, one the table lacks is inserted again, and so is a user who has gone (`Reinserted`), without
password and team, for only the links were loaded.  A user may leave at any time (`DeleteUser`); one
who leaves between the two loads of a link is kept in `overtaken`, a social account whose address has
changed in `moved` (both history).  `Lapse` is the expiry of a key.  Assumptions: a request is
repeated once at most; the user of a linking flow is the one who entered it; users are found in the
order of their ids.  `nextId \in Id` in the three actions that insert only bounds the ids: no request
inserts twice, so it never holds anything up.

### Credentials

`users` (address, password, whether there is a team), `agreed` (the rows of `user_term`; a row is its
term and how often the user had left when it was made, which is as good as its id), `terms` and `cached` (the table and its list in Redis).  `Find` is the `findOne` of the request and what
it changes in memory, `Reload` and `Write` are `userRepo.save`: the row is read again, what
differs is written in one transaction, and an entity whose row has gone is inserted (`Insert`).
An agreement loads `user_terms`, so its save compares the two lists by id and inserts the new
agreements, which have none: one to a term that another request has agreed to meanwhile is refused
as a duplicate, if not already for the orphan it would make (`Refused`, `UpdateTerms`); the
other requests load `local_auth`, so theirs compares the hashes (`Differs`, `UpdateUser`).

    signUp     required, create
    password   find, reload, write
    image, team find, reload, write                ("image" stands for the nickname too)
    agree      list, [terms, set], check, find, reload, write

`FindUserByEmail`, `VerifyLocalAuth`, `LoginLocalUser`, `LoginServed`, `TokenIssued`,
`PasswordCorrect`, `CheckUserEmail`, `NotAgreed` and `Acceptable` are the readers.  Assumptions:
Redis answers; all terms are required ones; leaving is one step; a nickname never collides; the
links of a user who is inserted again are not looked at.

### EmailCodes

`hits` and `expiring` are the throttler's counter of a client and whether it has an expiry, `code`
what is cached for an address, `inbox` the code of its newest mail.

    ask     incr, [expire], mail, cache              enter   get, del

`SendMail` draws any code, so two codes may be the same, or fails; a mail may also arrive although its
sending reported an error.  The mail goes out before the code is cached: `unsaved` (history) holds the
addresses whose newest mail arrived without its code being cached.  `Increment` may count twice: the
Redis client sends an INCR again when the connection breaks before the reply.  `Lapse` is the three minutes'
expiry or an eviction; `WindowEnds` the throttler's.  `RedisRefuses`, `Crash` and `RedisEmptied`
are the faults.  The limit on entering codes (120 a minute) is not reached within the bounds.

### SongLikes

`rows` counts the rows of `like_cheering_song` per user and song: there is no unique key.  A like is
`find` and `insert`, an unlike one DELETE of all rows.  The walker asks for page after page from
no cursor on; a page is `PageIds`, `PageEntities` (the list's condition again) and `PageMarks`.
`Walker` waits for each answer, `TwoTabs` are users whose requests overlap.

## Runs

| run | question | instance | result |
|---|---|---|---|
| `ledger_client` | do the transactions implement `RankBook`, are counters, rankings and pages right, is only a pending switch refused? | 2 games in 2 years, 2 teams, 3 requests one after the other, 1 restart | holds, 945k states |
| `ledger_free` | what survives overlapping requests? | 2 requests on 2 seeded registrations, everything may overlap | counters stay natural, results match teams, every request ends; 282k states |
| `ledger_race` | are the counters exact when requests overlap? | as `ledger_free` | **violated** |
| `score_job` | does a result arrive, right and once? | 1 tick at a time, 1 fan, 1 restart | holds, 955k states |
| `score_pending` | do the pending registrations get it? | no restart | **violated** |
| `schedule_month` | do crawls keep registrations, save months as a whole, and settle? | 2 matches this month, 1 the next, 3 slots, 3 changes | holds, 226k states |
| `account_cache` | are the rank rows true and can every member renew a token? | 1 user, 2 teams, 2 names, 2 at work, 3 requests, 2 faults | holds, 942k states |
| `account_copies` | are the copies those of the table? | 2 requests, no fault | **violated** |
| `social_accounts` | can everyone sign in, has a social account one owner, do flows end? | 3 social accounts of 2 providers with 2 addresses, 2 at work, 4 requests | holds, 284k states |
| `credentials` | do logins, agreements and the terms on offer keep working? | 1 address, 2 passwords, 2 terms, 2 at work, 5 requests | holds, 3.9m states |
| `email_codes` | which code is accepted, how often, and who can ask again? | 2 clients, 1 address, 2 codes, limit 1, 2 at work, 5 requests, 1 fault | holds, 463k states |
| `song_likes` | are counts right, and does a walk show the list? | 2 users, 3 songs, pages of 1 and 2, 5 likes and unlikes | holds, 2.7m states |

**Bounds.**  Three requests are enough to register twice and change one of the two, or to register,
switch and withdraw; two years tell the rows of one team apart; hooks, syncs and statements may fail
any number of times, only restarts are counted.  Two overlapping requests are enough for every conflict
between two rows; a third would only lengthen the chains of waiting, and the proved theorems have no
bound.  The seeded start makes them meet on existing rows; it is a reachable kind of state
(registrations made one after the other).  One restart can fall between any two steps of the score
job; a second one meets the same states.  Scores 0 and 1 show both winners and the tie.  In
`schedule_month` a match with two of three slots can gain, lose and move either of its games, and a
second match shows what one blocked match does to the others of its month; three changes reach a
registration, a second game and a further move.  In `account_cache` two slots hold a request and
the hook of the one before, three requests a sign-up, a change and a departure, and two faults an
outage within the repair of another.  In `social_accounts` one address is shared by two accounts
of different providers and two accounts share a provider; four requests create a user,
link, leave or unlink, and overlap any two of these; five give no further case (they hold as well).  In `credentials` two requests at work overlap a sign-up's user with a
change of the password, a save and a departure.  With `Limit = 1` the throttler's first and second
hit are the interesting ones.  Three songs with pages of one leave two pages between which to like.
`CHECK_DEADLOCK FALSE` where requests are bounded, or a day ends; `schedule_month` and `song_likes`
go on for ever, so deadlock is checked.

**Fairness.**  A request, once arrived, is driven by the event loop and the database, so each
request's next statement is weakly fair (including that PostgreSQL breaks deadlocks); arrivals are
not.  Timers fire and ticks go on (weak fairness).  `NightFalls` is strongly fair: ticks come and go
every minute, so it is not continuously enabled, yet no day lasts for ever.  `CrawlSucceeds` is
weakly fair once it is night: of the crawls of all the nights to come one gets an answer.  In
`ScheduleUpsert` nights come and a crawl goes on (weak), and the site is not away for every crawl
of a month (strong, per month).  In `AccountCache` fills and syncs go on.  That Redis or the process
comes back is not assumed: `docker-compose.yml` has `restart: always` on postgres only.  The client
library reconnects for ever (`retryStrategy`), to a Redis that somebody has started; `MembersServed`
claims something only if Redis stays up from some moment on, and of a process that stays down there
are no steps to speak of.  In `EmailCodes` and `SocialAccounts` Redis
drops keys whose time is over (`WindowEnds`, `Lapse`).  Nothing is assumed of the league, of a
browser or of the fans: `ScoreSettles` starts from the league having its result, `MonthsSettle`
asks for what holds once the site rests.

### What the violations show

1. `ledger_race`.  Two deletes of one registration (a double tap, a retry) both find the row, both
   succeed and both decrement; with another registration of the same result, the counter ends one
   short.  Two registrations counted at the same time can likewise lose one increment.  Without
   locks the counters are only as exact as the client is patient.
2. `score_pending`.  The bulk update pushes `{ registeredGame }` wrappers into `saveBulk`; `save`
   takes them for new rows without seat and review, the INSERT is refused, the error is caught
   and logged.  Registrations made before the end never get a result.
3. `account_copies`.  `updateFieldsOfUser` writes its argument as the hash, so that a changed
   nickname becomes two fields called `field` and `value`; the lists go on showing the old one until
   the next fill.  The same property has a second cause, which the run does not reach first: with
   one name, two slots and three requests, a commit hook that read a user's sums before
   `deleteUser` writes them after it, although deleting means to clear the ranking too
   (`account-application.command.service.ts:143`).  The entry has no hash, and from then on every
   list it is in is an error.

### What else the models show

None of these contradicts a line of the repository, so they are no runs of their own; each is an
exception that a property names, or a refusal that it allows.

- A switch of sides in a registration whose game has no result yet is refused, review and seat
  included, when the user has no rank row for the team left: `updateRankRecord(null, false)` finds no
  row and throws.  `RefusesOnlyPending` shows that nothing else is refused over the rank rows.
- A fan who registers between the two saves of the last tick gets `Tie` for good (the row says
  "ended" before it has a winner); `DecisiveResultsRight` shows that wins and losses are never wrong.
- Crossing hooks can leave older sums in the rankings (`CacheCaughtUp` holds without overlap).  So can
  a commit hook whose query or ZADDs are rejected, or a sync of which that is true (`missed`): nothing
  catches it, nothing tries again, and the user's rankings stay behind until the user's next command or
  the next restart.
- An unreadable row, a slot that another row holds, or a registered game that becomes the first of a
  double header holds up its whole month, with an error in the log only (`Blocked`).  A game that
  the site no longer lists keeps its row.
- A member whose hash was evicted, whose departure failed at COMMIT, or whose hash was missing when a
  fill failed, cannot renew a token until the next fill that succeeds (`dropped`).
- An account linked later can be refused at login when its address is another user's sign-up
  address: the query may return the other user.  So can the account a user signed up with, once its
  address has changed at the provider to that of an older user (`moved`).
- A link that was undone while another is being added comes back with the save.  A user who leaves
  between the two loads of a link comes back too, with the address taken and neither password nor
  team, so that every login fails (`overtaken`).
- A change of image, nickname or team that overlaps a change of the password puts the old password
  back; one that overlaps the departure inserts the user again, with the address taken and, unless
  the change is of the team, without a team, which every login then fails on (`spoiled`).
- The list of terms is cached without an expiry: a required term added later is asked for on every
  check of a token, and an agreement to it is refused (`late`).
- Of two overlapping requests for a code, the older one's code may be cached last (`crossed`).  The mail
  goes out before its code is cached: when the SET is refused, the process dies before it or the send
  reports an error for a mail that arrived, the newest code is refused and the one before it, if it
  has not lapsed, is accepted (`unsaved`).
- Two overlapping entries of one code both pass (`doubled`).  A crash or a refusal between INCR and
  EXPIRE, or a first INCR that is sent twice, shuts a client out for good (`stuck`).
- One user's own overlapping likes count twice, and one unlike removes both (`raced`).
- From 1000 games on the user's page and the ranking show different scores: the page adds a
  thousandth per game, the ranking packs the number below the score.

## Proofs

All with TLAPS, for every value of the constants.  Every safety invariant and every action property
that a passing run checks is a theorem, and so is the refinement of `RankBook`.  The runs of
`RankLedger` bound `MayOverlap`; where a theorem needs such a bound it is a hypothesis:

- `Sequential`: requests of one user do not overlap; hooks and cache fills may, and other users' work
  always may.  `Serial`: nothing of one user overlaps, as in `ledger_client`.
- `FewRegistered`: every user has fewer than 1000 registrations.
- `OneInFlight`: the score job's ticks do not overlap, which is so when each ends within its minute.

`RankLedgerProofs`, in six parts:

- *The packed score.*  Below 10000 games the packing is exact (`DisplayUndoesPacking`) and Redis's
  order is that of score, then games (`PackingSorts`); below 1000 games the page shows the ranked
  score (`PageShowsRankedScore`).
- *`ResultsMatchTeams`*: `ResultMatchesTeam` for any number of users and overlapping requests.  It is
  not inductive alone: `IInv` also says that the entity in memory, the row `save` reloaded and every
  uncommitted row match the result *or are absent*.  The step that needs an argument is the
  column-wise UPDATE (`PatchFits`): three rows of one game that all match, patched column by column,
  match again, because a game has two teams and flipping the team flips the result (`TwoTeams`).  Two
  concurrent switches can thus never leave team and result apart.
- *The ledger, if `Sequential`.*  `SInv` ties a transaction to the committed tables: what it has
  written so far and the calls still in `todo` add up to the change of its one registration (`Effect`
  for the registration, a sum over the calls for the counters); nobody else holds a row of its user.
  From it `TransactionsImplementBook`: a COMMIT is one step of `RankBook`, everything else a stutter.
  `BookTallyExact` proves the abstract book exact (`BookInv`; the work is `CountChange`, that
  replacing one game's entry changes a cell's cardinality by exactly `Change`).  The two give
  `LedgerStaysExact`, and that gives `CountedIsNotRefused`: a counter that stands for a registration
  is not zero, so taking the registration out of it cannot be refused.
- *The rankings, if `Serial`*: `CacheCatchesUp`.  `CInv` says who still owes Redis a write: a
  user's rankings are those of the rank rows unless a hook or a fill of that user is under way, and
  what that one has read are the sums as they are, or unless the last one failed (`missed`).
- *`RankTypesCorrect`, whatever overlaps.*  The point is in the counters and scores: `TInv` adds to
  `IInv` that committed, written and reloaded rank rows hold natural numbers (the decrement is
  refused at zero, and a column is patched only with such a number) and that sums and scores follow.
- *The pages.*  `EntriesOpen`, whatever overlaps: an entry of the list is found under its id, and it
  alone, because ids tell a user's registrations apart, in memory and in open transactions too
  (`DInv`).  `PagesStayConsistent`, if `Serial` and `FewRegistered`: the counts of the own page, of the
  record by opponent (`OppSum`) and of the ranking are all partitions of the registered games
  (`SumPartition`); the score of the ranking is compared for users whose last write did not fail.

The other components:

- `GameScoreJobProofs`: `TypeCorrect`, `DecisiveResults` and `JobOutlastsGame` from one `IInv`.
  Its core: the site, once final, stays; a page with a final status in some tick's hands has
  the site's status and, if no score is missing, is the site's page; a row or a loaded entity with a winner has the site's winner; and a stopped job
  means a final page was seen.  The theorems hold for any number of ticks in flight, so for
  overlapping ticks too.  `ResultOutlastsDay` (`ResultStays`) needs `OneInFlight`: a row or an entity
  that holds a result holds the site's (`RowRight`), the tick in flight has the row as it is, and one
  with a running score has found a row without a result (`KInv`).  Without that hypothesis
  it is false: a tick that waits for longer than a minute saves the older page last.
- `ScheduleUpsertProofs`: `TypeCorrect`, `RegistrationsKept` and `MonthSavedAtOnce` for any set of
  matches and number of slots.  The invariant `IInv` adds to the types that a registered number has a
  row (`RowsKept`); what carries it through a crawl is that `SaveGame` either fails or keeps every row
  but an unregistered number 0.
- `EmailCodesProofs`: `TypeCorrect`, `NewestIsAccepted` and `OneEntryAccepted` for any clients,
  addresses and overlapping requests.  `IInv` strengthens them by `MailInv` (outside `crossed`
  and `unsaved`, only the newest mail's own request holds a code to be cached, and nobody else is at
  work who could replace or delete it) and `EntryInv` (outside `doubled`, at most one entry is at work, and none has passed while the
  code is still there).
- `CredentialsProofs`: `TypeCorrect`; `AgreementsKept`, an action property from the types alone,
  because a save that would lose a row of an agreement is refused; `LoginKeepsWorking` from `PasswordInv` (the
  row holds the password last set, and a team), `EntityInv` (so does every entity that no later
  change has overtaken) and `EmailInv` (one user per address); `OffersTaken` from `ListInv` (a cached
  list, or one about to be cached, lacks no term but the late ones).
- `SocialAccountsProofs`: `TypeCorrect`, `OwnersUnique` and `EveryoneSignsIn` for any people,
  providers and overlapping flows.  `EveryoneCanSignIn` follows from three facts: an address has one
  user (`EmailInv`); a social account has one owner (`OneOwner`); and whoever is not `overtaken` has a
  team, and a password or the social account of the sign-up, whose address at the provider is the
  user's unless it has `moved` (`PrimaryInv`).  So the query finds nobody else first, but for an older
  user of a moved address.  `UnlinkRemove` deletes by id what an earlier request loaded; to carry
  `PrimaryInv` over it, ids tell rows apart, those in requests' hands included (`IdInv`), and a row
  about to be deleted is not the primary one.  `LinkSave` may insert old rows again; to carry
  `OneOwner` over it, a link's rows are of its own user and of distinct social accounts, and when that
  user is gone it is an overtaken one (`RequestOK`, which also says that a login knows the account's
  address unless that has moved).
- `AccountCacheProofs`: `TypesCorrect`, `MembersStayRanked` and `SwitchesKeepCounts` from one `AInv`,
  which says for each statement of a change of team what has been read: a row that is about to be
  deleted was summed to zero and the user's client waits, so no game has been counted since; and
  there is then a second row, the new team's.
- `SongLikesProofs`: `TypesCorrect`, `LikesCounted` and `WalksTrue` from one `WInv`.  `LikesOK`: a
  pair of user and song that is not `raced` has at most one row, at most one like at work, and no row
  when that like is about to insert; a sum of zeros and ones is the number of the ones (`SumOfOnes`).
  `SeenOK`: what has been shown is the list up to the cursor, between what was in it all along
  (`Sure`) and what has ever been in it (`Could`); likes and unlikes only widen that gap (`ReaderOK`).
  The order of a page rests on `PlaceOnto`: every place up to the size of a finite set of ids is taken.

The theorems rest on `LedgerAssumption`, `JobAssumption`, `ScheduleAssumption`, `CacheAssumption`,
`CodeAssumption`, `CredentialsAssumption`, `SocialAssumption` and `SongAssumption`, which TLC evaluates
in the runs.  They bound nothing: finite sets of users, games, teams, years and requests, and values
such as `NoRow` or `"total"` that are told apart from those they stand beside.
`ledger_free` checks its properties from the seeded start (`SeededSpec`), the theorems from `Init`.

Sums are written as the number of points below a function (`Sums`), not as a fold.  The value of a
fold for an arbitrary set can only be had by induction over the set, for which the library's
theorems take an operator as a parameter, out of the provers' reach; a number of points can be
compared with another by a bijection.  The last of a page, and the order of it, are likewise had from
places and not by induction.  TLC evaluates the same definitions.

Model-checked only: all liveness (`RequestsEnd`, `ScoreSettles`, `MonthsSettle`, `MembersServed`,
`FlowsEnd`, `AskedAgain`), with fairness and ENABLED out of the prover's reach; and the
counterexamples, which are TLC's by nature.

## Not covered

Cases of modelled parts that no run reaches:

- Two ticks of one job in flight, or a tick at 01:00 beside the crawl: `ResultStays` and
  `ScoreSettles` are checked with one tick at a time, and `ResultOutlastsDay` assumes it.  An older
  page saved last can revert a row.  Two ticks are beyond TLC at this size (over 30 million states);
  for them there are the other theorems on the score job.
- A game on the last day of a month whose job failed: the next night's crawl reads other months, and
  `ScoreSettles` does not hold with `LastOfMonth = TRUE`.
- A game called off with one of the two no-game texts that are neither "cancelled" nor "ended" is
  polled until the process restarts; `StoppedMeansOver` covers the other direction only.
- Registrations meeting the bulk update (they read the game first, insert later).
- Two requests of one member at once in `AccountCache`: a game counted between the sum and the delete
  of `updateUserProfile` is lost with its row, so `CountsKept` needs a client who waits.
- Two tabs of the walker in `SongLikes`: an unlike between the two queries of a page of liked songs
  shortens it, and the walk ends early.  A page of size 0, which the DTO accepts, never ends one.
- Eviction of single rankings: `AccountCache` has it, `CacheCaughtUp` of `RankLedger` does not.

## Not modelled

- Which images S3 holds: that deleting one may fail is a step of `AccountCache`, and of the commit hooks
  (`HookFails`).  Unchecked is that the old image of a registration is deleted only when its team
  changes as well.
- Reviews, seats, wording of nicknames; signing and expiry of tokens; the exchange with the
  providers beyond its outcome; limits of the routes other than that for codes.
- Reference tables (team, stadium, parking-info, songs and lyrics) and their seeds, the daily report,
  Slack and Discord, configuration, migrations and scripts: there is no state to go wrong.
- Functions without a caller: `updateRankingScoreByUserId`, `saveUserTermInfo`, `getUserTermInfo`, and
  `getCheeringSongLikes`, a song's number of likes, which no route shows; what `CountsLikers` says of it
  holds of the table all the same.

## Plan

Done: the ledger with its readers, the score job, the schedule crawl, accounts with their copies,
social sign-in, credentials and terms, codes and throttling, likes and lists; theorems for every
safety property of theirs.  What is left, in order:

1. Theorems: `CacheCatchesUp` under the weaker `Sequential` with the crossing of hooks as a named
   exception; the score job's result for overlapping ticks whose pages arrive in order.
2. `ImageStore`: which images are referenced and which deleted, for registrations, profiles, users.
3. Two ticks of one job, with a smaller page, for the reverting save.
