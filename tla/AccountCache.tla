----------------------------- MODULE AccountCache -----------------------------
(***************************************************************************)
(* Accounts and the two copies Redis keeps of them: the userInfo hash of   *)
(* every member, which renewing a token and every ranking list read, and   *)
(* the member's entries in the rankings.                                   *)
(*                                                                         *)
(* Signing up and leaving are transactions, a change of the profile is a   *)
(* chain of statements of its own; the commit hooks of signing up and of   *)
(* registering a game run after the answer, so they overlap what the       *)
(* client does next.  Both copies are filled from the database whenever    *)
(* Redis becomes ready.  A client waits for the answer to one request      *)
(* before it sends the next.                                               *)
(*                                                                         *)
(* A score is the number of counted games, all of one year; registering    *)
(* and withdrawing a game are the one-step commands of RankBook.           *)
(***************************************************************************)
EXTENDS Integers, FiniteSets, Sums

CONSTANTS User, Team, Name,
          MaxAtWork,        \* bound on requests, with their hooks, at work at once
          NoRow,            \* an absent row, hash or ranking entry
          Stub,             \* a hash that updateFieldsOfUser has created
          HookMayOverlap,   \* whether a client goes on before a hook has ended
          MaxRequests,      \* bound on the requests of a behaviour
          MaxFaults         \* bound on crashes, outages and evictions

ASSUME CacheAssumption ==
  /\ IsFiniteSet(Team) /\ "total" \notin Team
  /\ NoRow \notin Name \cup Nat \cup Team /\ Stub \notin Name /\ Stub # NoRow
  /\ HookMayOverlap \in BOOLEAN
  /\ MaxAtWork \in Nat \ {0} /\ MaxRequests \in Nat /\ MaxFaults \in Nat

Key == Team \cup {"total"}
Req == 1..MaxAtWork

VARIABLES
  life,      \* [User -> "new", "member" or "gone"]; ids are not used again
  profile,   \* the user table, [User -> [nickname, team]]
  games,     \* [User -> [Team -> number of registrations with a result]]
  rank,      \* the rank table, [User -> [Team -> counted games]]
  up,        \* whether Redis answers
  hash,      \* [User -> the nickname in the user's hash]
  zset,      \* [User -> [Key -> score]]
  dropped,   \* history: users without a hash where nothing restores it
  fill,      \* initCacheUsers: "idle", "find" or "save"
  infos,     \* [User -> the nickname initCacheUsers has read]
  sync,      \* initRankCaching per user: "idle", "aggregate" or "zadd"
  pulled,    \* [User -> the scores initRankCaching has read]
  step,      \* [Req -> what the request does next]
  cmd,       \* [Req -> [op, user, nickname, team]]
  prev,      \* [Req -> the team supported before]
  seen,      \* [Req -> the scores read]
  served, faults

db     == <<life, profile, games, rank>>
redis  == <<up, hash, zset, dropped>>
filler == <<fill, infos, sync, pulled>>
local  == <<cmd, prev, seen>>
bounds == <<served, faults>>
vars   == <<db, redis, filler, step, local, bounds>>

U(r) == cmd[r].user
NoScores == [k \in Key |-> NoRow]
NoRanks  == [t \in Team |-> NoRow]

\* Steps a request takes before its answer, and those of the hook behind it.
Leaving == {"remove", "image", "unhash", "unrank", "leave"}
Steps == Leaving \cup {"idle", "create", "join", "save", "drop", "exists", "rehash", "insert",
                       "total", "unrow", "unlist", "relist", "count",
                       "hset", "aggregate", "zadd"}
InHook == {"hset", "aggregate", "zadd"}

Member(u) == life[u] = "member"
Taken(n)  == \E v \in User : Member(v) /\ profile[v].nickname = n

-----------------------------------------------------------------------------
(* What readers make of the copies.                                         *)

\* getUserInfoByIds: the hash has an id.
Whole(u) == hash[u] \notin {NoRow, Stub}

\* checkUser means to load from the table whom it does not find in Redis, but an
\* empty hash is an error before that.
CheckUser(u) == Whole(u)

\* The refresh-token guard lets u through.
Renewable(u) == up /\ CheckUser(u)

\* getRefinedRankDataFromRedis, from the first to the last.
Ranked(k) == {u \in User : zset[u][k] # NoRow}

\* A ranking list is the profiles of all its members, or an error.
Listable(k) == \A u \in Ranked(k) : Whole(u)

\* aggregateRankStatsByUserId: one score per team with a row and one for the
\* total; no score at all when there is no row.
Aggregated(u) ==
  LET Of == {t \in Team : rank[u][t] # NoRow}
  IN [k \in (IF Of = {} THEN {} ELSE Of \cup {"total"}) |->
        IF k = "total" THEN SumOf([t \in Of |-> rank[u][t]]) ELSE rank[u][k]]

\* The pipeline of updateRankings.
Zadd(u, data) ==
  zset' = [zset EXCEPT ![u] = [k \in Key |-> IF k \in DOMAIN data THEN data[k] ELSE @[k]]]

-----------------------------------------------------------------------------
Init ==
  /\ life = [u \in User |-> "new"] /\ profile = [u \in User |-> NoRow]
  /\ games = [u \in User |-> [t \in Team |-> 0]] /\ rank = [u \in User |-> NoRanks]
  /\ up = TRUE /\ hash = [u \in User |-> NoRow] /\ zset = [u \in User |-> NoScores]
  /\ dropped = {}
  /\ fill = "idle" /\ infos = [u \in User |-> NoRow]
  /\ sync = [u \in User |-> "idle"] /\ pulled = [u \in User |-> NoRow]
  /\ step = [r \in Req |-> "idle"]
  /\ cmd = [r \in Req |-> NoRow] /\ prev = cmd /\ seen = cmd
  /\ served = 0 /\ faults = 0

\* The request, or its hook, is over.
Finish(r) ==
  /\ step' = [step EXCEPT ![r] = "idle"]
  /\ cmd'  = [cmd  EXCEPT ![r] = NoRow]
  /\ prev' = [prev EXCEPT ![r] = NoRow]
  /\ seen' = [seen EXCEPT ![r] = NoRow]

Go(r, next) == step' = [step EXCEPT ![r] = next] /\ UNCHANGED local

Busy(u) ==
  \E q \in Req : step[q] # "idle" /\ U(q) = u /\ (HookMayOverlap => step[q] \notin InHook)

\* Requests are told apart by their slots; the first free one is taken.
Begin(r, c, first) ==
  /\ step[r] = "idle" /\ \A q \in 1..(r - 1) : step[q] # "idle"
  /\ served < MaxRequests /\ ~Busy(c.user)
  /\ step' = [step EXCEPT ![r] = first]
  /\ cmd' = [cmd EXCEPT ![r] = c]
  /\ served' = served + 1
  /\ UNCHANGED <<db, redis, filler, prev, seen, faults>>

\* The requests.  A token outlives its user, but without the row the first
\* statement of each of them fails, so only a member's requests matter.
SignUp(r) ==
  \E u \in User, n \in Name, t \in Team :
    /\ life[u] = "new"
    /\ Begin(r, [nickname |-> n, op |-> "signUp", team |-> t, user |-> u], "create")

DeleteUser(r) ==
  \E u \in User :
    /\ Member(u)
    /\ Begin(r, [nickname |-> NoRow, op |-> "delete", team |-> NoRow, user |-> u], "remove")

ChangeImage(r) ==
  \E u \in User :
    /\ Member(u)
    /\ Begin(r, [nickname |-> NoRow, op |-> "image", team |-> NoRow, user |-> u], "save")

ChangeNickname(r) ==
  \E u \in User, n \in Name :
    /\ Member(u)
    /\ Begin(r, [nickname |-> n, op |-> "nickname", team |-> NoRow, user |-> u], "save")

ChangeTeam(r) ==
  \E u \in User, t \in Team :
    /\ Member(u)
    /\ Begin(r, [nickname |-> NoRow, op |-> "teamId", team |-> t, user |-> u], "save")

CountGame(r) ==
  \E u \in User, t \in Team, op \in {"register", "withdraw"} :
    /\ Member(u) /\ (op = "withdraw" => games[u][t] > 0)
    /\ Begin(r, [nickname |-> NoRow, op |-> op, team |-> t, user |-> u], "count")

-----------------------------------------------------------------------------
(* Signing up.                                                              *)

\* A sign-up that has inserted the nickname and not yet committed holds it.
Held(r, n) == \E q \in Req \ {r} : step[q] = "join" /\ cmd[q].nickname = n

\* INSERT of the user: the unique key on the nickname decides.
Create(r) ==
  /\ step[r] = "create" /\ ~Held(r, cmd[r].nickname)
  /\ IF Taken(cmd[r].nickname) THEN Finish(r) ELSE Go(r, "join")
  /\ UNCHANGED <<db, redis, filler, bounds>>

\* Mutant: a blank nickname is stored as it came.
CreatedBlank(r) == [nickname |-> NoRow, team |-> cmd[r].team]

\* A blank nickname has been replaced by a random free one before.
Created(r) == [nickname |-> cmd[r].nickname, team |-> cmd[r].team]

\* insertRankIfAbsent and COMMIT.
Join(r) ==
  /\ step[r] = "join"
  /\ life' = [life EXCEPT ![U(r)] = "member"]
  /\ profile' = [profile EXCEPT ![U(r)] = Created(r)]
  /\ rank' = [rank EXCEPT ![U(r)][cmd[r].team] = 0]
  /\ Go(r, "hset")
  /\ UNCHANGED <<games, redis, filler, bounds>>

\* The commit hook.  A pipeline that Redis does not answer ends without error.
HookHset(r) ==
  /\ step[r] = "hset"
  /\ hash' = IF up THEN [hash EXCEPT ![U(r)] = cmd[r].nickname] ELSE hash
  /\ dropped' = IF up THEN dropped \ {U(r)} ELSE dropped
  /\ Go(r, "aggregate")
  /\ UNCHANGED <<db, up, zset, filler, bounds>>

HookAggregate(r) ==
  /\ step[r] = "aggregate"
  /\ IF DOMAIN Aggregated(U(r)) = {}
     THEN Finish(r)
     ELSE /\ seen' = [seen EXCEPT ![r] = Aggregated(U(r))]
          /\ step' = [step EXCEPT ![r] = "zadd"]
          /\ UNCHANGED <<cmd, prev>>
  /\ UNCHANGED <<db, redis, filler, bounds>>

HookZadd(r) ==
  /\ step[r] = "zadd"
  /\ IF up THEN Zadd(U(r), seen[r]) ELSE UNCHANGED zset
  /\ Finish(r)
  /\ UNCHANGED <<db, up, hash, dropped, filler, bounds>>

-----------------------------------------------------------------------------
(* Leaving: everything before COMMIT is undone in the database only.        *)

\* DELETE of the user, seen by this transaction alone.
Remove(r) ==
  /\ step[r] = "remove"
  /\ \E next \in {"image", "unhash"} : Go(r, next)
  /\ UNCHANGED <<db, redis, filler, bounds>>

\* The profile image, unless it is the default one, leaves the bucket.
DeleteImage(r) ==
  /\ step[r] = "image"
  /\ Go(r, "unhash")
  /\ UNCHANGED <<db, redis, filler, bounds>>

\* DEL; without an answer the transaction is rolled back.
Unhash(r) ==
  /\ step[r] = "unhash"
  /\ IF up THEN hash' = [hash EXCEPT ![U(r)] = NoRow] /\ Go(r, "unrank")
           ELSE UNCHANGED hash /\ Finish(r)
  /\ UNCHANGED <<db, up, zset, dropped, filler, bounds>>

Unrank(r) ==
  /\ step[r] = "unrank"
  /\ zset' = IF up THEN [zset EXCEPT ![U(r)] = NoScores] ELSE zset
  /\ Go(r, "leave")
  /\ UNCHANGED <<db, up, hash, dropped, filler, bounds>>

\* COMMIT: the rows of the user and all that cascades from it are gone.
Leave(r) ==
  /\ step[r] = "leave"
  /\ life' = [life EXCEPT ![U(r)] = "gone"]
  /\ profile' = [profile EXCEPT ![U(r)] = NoRow]
  /\ games' = [games EXCEPT ![U(r)] = [t \in Team |-> 0]]
  /\ rank' = [rank EXCEPT ![U(r)] = NoRanks]
  /\ Finish(r)
  /\ UNCHANGED <<redis, filler, bounds>>

-----------------------------------------------------------------------------
(* Changing the profile: no transaction spans the statements.               *)

SaveImage(r) ==
  /\ step[r] = "save" /\ cmd[r].op = "image"
  /\ \E next \in {"drop", "exists"} : Go(r, next)
  /\ UNCHANGED <<db, redis, filler, bounds>>

\* The image the profile had leaves the bucket.
DropImage(r) ==
  /\ step[r] = "drop"
  /\ Go(r, "exists")
  /\ UNCHANGED <<db, redis, filler, bounds>>

SaveNickname(r) ==
  /\ step[r] = "save" /\ cmd[r].op = "nickname" /\ ~Held(r, cmd[r].nickname)
  /\ IF Taken(cmd[r].nickname)
     THEN Finish(r) /\ UNCHANGED profile
     ELSE Go(r, "exists") /\ profile' = [profile EXCEPT ![U(r)].nickname = cmd[r].nickname]
  /\ UNCHANGED <<life, games, rank, redis, filler, bounds>>

\* updateFieldsOfUser: EXISTS, then HSET of the update object itself, which
\* sets the hash's fields "field" and "value" and leaves its nickname alone.
HashExists(r) ==
  /\ step[r] = "exists"
  /\ IF up /\ hash[U(r)] # NoRow THEN Go(r, "rehash") ELSE Finish(r)
  /\ UNCHANGED <<db, redis, filler, bounds>>

Rehash(r) ==
  /\ step[r] = "rehash"
  /\ hash' = IF up /\ hash[U(r)] = NoRow THEN [hash EXCEPT ![U(r)] = Stub] ELSE hash
  /\ Finish(r)
  /\ UNCHANGED <<db, up, zset, dropped, filler, bounds>>

SaveTeam(r) ==
  /\ step[r] = "save" /\ cmd[r].op = "teamId"
  /\ prev' = [prev EXCEPT ![r] = profile[U(r)].team]
  /\ profile' = [profile EXCEPT ![U(r)].team = cmd[r].team]
  /\ step' = [step EXCEPT ![r] = "insert"]
  /\ UNCHANGED <<life, games, rank, redis, filler, cmd, seen, bounds>>

InsertRankIfAbsent(r) ==
  /\ step[r] = "insert"
  /\ rank' = [rank EXCEPT ![U(r)][cmd[r].team] = IF @ = NoRow THEN 0 ELSE @]
  /\ Go(r, "total")
  /\ UNCHANGED <<life, profile, games, redis, filler, bounds>>

\* Mutant: a switch to the team one already supports counts as a switch.
UnwantedSame(r, data) == prev[r] \in DOMAIN data /\ data[prev[r]] = 0

\* Mutant: the previous team goes whether or not games are counted for it.
UnwantedCounted(r, data) == prev[r] # cmd[r].team /\ prev[r] \in DOMAIN data

\* The previous team is dropped when no game was counted for it.
Unwanted(r, data) == prev[r] # cmd[r].team /\ prev[r] \in DOMAIN data /\ data[prev[r]] = 0

Total(r) ==
  /\ step[r] = "total"
  /\ IF DOMAIN Aggregated(U(r)) = {}
     THEN Finish(r)
     ELSE /\ seen' = [seen EXCEPT ![r] = Aggregated(U(r))]
          /\ step' = [step EXCEPT ![r] =
                        IF Unwanted(r, Aggregated(U(r))) THEN "unrow" ELSE "relist"]
          /\ UNCHANGED <<cmd, prev>>
  /\ UNCHANGED <<db, redis, filler, bounds>>

DeleteRank(r) ==
  /\ step[r] = "unrow"
  /\ rank' = [rank EXCEPT ![U(r)][prev[r]] = NoRow]
  /\ Go(r, "unlist")
  /\ UNCHANGED <<life, profile, games, redis, filler, bounds>>

Unlist(r) ==
  /\ step[r] = "unlist"
  /\ zset' = IF up THEN [zset EXCEPT ![U(r)]["total"] = NoRow, ![U(r)][prev[r]] = NoRow] ELSE zset
  /\ seen' = [seen EXCEPT ![r] = [k \in DOMAIN @ \ {prev[r]} |-> @[k]]]
  /\ step' = [step EXCEPT ![r] = "relist"]
  /\ UNCHANGED <<db, up, hash, dropped, filler, cmd, prev, bounds>>

Relist(r) ==
  /\ step[r] = "relist"
  /\ IF up THEN Zadd(U(r), seen[r]) ELSE UNCHANGED zset
  /\ Finish(r)
  /\ UNCHANGED <<db, up, hash, dropped, filler, bounds>>

\* A registration with a result is made or withdrawn.
Count(r) ==
  /\ step[r] = "count"
  /\ LET d == IF cmd[r].op = "register" THEN 1 ELSE -1
         n == rank[U(r)][cmd[r].team]
     IN IF d = -1 /\ n \in {NoRow, 0}
        THEN Finish(r) /\ UNCHANGED db
        ELSE /\ games' = [games EXCEPT ![U(r)][cmd[r].team] = @ + d]
             /\ rank' = [rank EXCEPT ![U(r)][cmd[r].team] = (IF n = NoRow THEN 0 ELSE n) + d]
             /\ Go(r, "aggregate")
             /\ UNCHANGED <<life, profile>>
  /\ UNCHANGED <<redis, filler, bounds>>

\* The database or the image store refuses: a transaction is undone, a chain of
\* statements stays where it is, and so does a hook whose query is rejected.
StatementFails(r) ==
  /\ step[r] \in {"create", "join", "remove", "image", "save", "drop", "insert", "total",
                  "unrow", "count", "aggregate"}
  /\ Finish(r)
  /\ UNCHANGED <<db, redis, filler, bounds>>

\* COMMIT fails after the hash and the entries were deleted: the member stays.
CommitFails(r) ==
  /\ step[r] = "leave"
  /\ dropped' = dropped \cup {u \in {U(r)} : ~Whole(u)}
  /\ Finish(r)
  /\ UNCHANGED <<db, up, hash, zset, filler, bounds>>

-----------------------------------------------------------------------------
(* Filling the copies when Redis is ready.                                  *)

\* initCacheUsers reads all users,
FillFind ==
  /\ fill = "find"
  /\ infos' = [u \in User |-> IF Member(u) THEN profile[u].nickname ELSE NoRow]
  /\ fill' = IF \E u \in User : Member(u) THEN "save" ELSE "idle"
  /\ UNCHANGED <<db, redis, sync, pulled, step, local, bounds>>

\* writes their hashes and hands their ids to initRankCaching.
FillSave ==
  /\ fill = "save"
  /\ hash' = IF up THEN [u \in User |-> IF infos[u] = NoRow THEN hash[u] ELSE infos[u]] ELSE hash
  /\ sync' = [u \in User |-> IF infos[u] = NoRow THEN sync[u] ELSE "aggregate"]
  /\ fill' = "idle"
  /\ infos' = [u \in User |-> NoRow]
  /\ dropped' = IF up THEN {u \in dropped : infos[u] = NoRow} ELSE dropped
  /\ UNCHANGED <<db, up, zset, pulled, step, local, bounds>>

\* The ping before it or the query itself is rejected: the error is logged, and
\* nobody fills the copies before Redis is ready once more.
FillFails ==
  /\ fill = "find"
  /\ fill' = "idle"
  /\ dropped' = dropped \cup {u \in User : Member(u) /\ ~Whole(u)}
  /\ UNCHANGED <<db, up, hash, zset, infos, sync, pulled, step, local, bounds>>

SyncAggregate(u) ==
  /\ sync[u] = "aggregate"
  /\ IF DOMAIN Aggregated(u) = {}
     THEN sync' = [sync EXCEPT ![u] = "idle"] /\ UNCHANGED pulled
     ELSE /\ sync' = [sync EXCEPT ![u] = "zadd"]
          /\ pulled' = [pulled EXCEPT ![u] = Aggregated(u)]
  /\ UNCHANGED <<db, redis, fill, infos, step, local, bounds>>

SyncZadd(u) ==
  /\ sync[u] = "zadd"
  /\ IF up THEN Zadd(u, pulled[u]) ELSE UNCHANGED zset
  /\ sync' = [sync EXCEPT ![u] = "idle"]
  /\ pulled' = [pulled EXCEPT ![u] = NoRow]
  /\ UNCHANGED <<db, up, hash, dropped, fill, infos, step, local, bounds>>

\* The query for one user is rejected; the others go on.
SyncFails(u) ==
  /\ sync[u] = "aggregate"
  /\ sync' = [sync EXCEPT ![u] = "idle"]
  /\ UNCHANGED <<db, redis, fill, infos, pulled, step, local, bounds>>

Filled == fill = "idle" /\ \A u \in User : sync[u] = "idle"

\* Redis is lost, with its data or without.
RedisLost ==
  /\ up /\ faults < MaxFaults
  /\ up' = FALSE
  /\ \/ UNCHANGED <<hash, zset>>
     \/ hash' = [u \in User |-> NoRow] /\ zset' = [u \in User |-> NoScores]
  /\ faults' = faults + 1
  /\ UNCHANGED <<db, dropped, filler, step, local, served>>

\* Redis keeps to its 100 MB by evicting a key, whichever was used least
\* recently: a user's hash or a whole ranking.
Evicts ==
  /\ up /\ faults < MaxFaults
  /\ \/ \E u \in User :
          /\ hash[u] # NoRow
          /\ hash' = [hash EXCEPT ![u] = NoRow]
          /\ dropped' = dropped \cup {u}
          /\ UNCHANGED zset
     \/ \E k \in Key :
          /\ zset' = [u \in User |-> [zset[u] EXCEPT ![k] = NoRow]]
          /\ UNCHANGED <<hash, dropped>>
  /\ faults' = faults + 1
  /\ UNCHANGED <<db, up, filler, step, local, served>>

\* Mutant: the fill runs at the start of the process only.
RedisReadyOnly ==
  /\ ~up /\ Filled
  /\ up' = TRUE
  /\ UNCHANGED <<db, hash, zset, dropped, filler, step, local, bounds>>

\* The ready event.  A fill that was at work when Redis was lost has ended by
\* then (a bound: an outage outlasts the fill).
RedisReady ==
  /\ ~up /\ Filled
  /\ up' = TRUE
  /\ fill' = "find"
  /\ UNCHANGED <<db, hash, zset, dropped, infos, sync, pulled, step, local, bounds>>

\* The process dies and starts again: open transactions are rolled back, hooks
\* are lost, and bootstrap fills the copies.
ProcessRestarts ==
  /\ faults < MaxFaults
  /\ faults' = faults + 1
  /\ fill' = IF up THEN "find" ELSE "idle"
  /\ infos' = [u \in User |-> NoRow]
  /\ sync' = [u \in User |-> "idle"] /\ pulled' = [u \in User |-> NoRow]
  /\ step' = [r \in Req |-> "idle"]
  /\ cmd' = [r \in Req |-> NoRow] /\ prev' = cmd' /\ seen' = cmd'
  /\ UNCHANGED <<db, redis, served>>

-----------------------------------------------------------------------------
Request(r) ==
  SignUp(r) \/ DeleteUser(r) \/ ChangeImage(r) \/ ChangeNickname(r) \/ ChangeTeam(r) \/ CountGame(r)

\* The program's own next move for request r.
Advance(r) ==
  \/ Create(r) \/ Join(r) \/ HookHset(r) \/ HookAggregate(r) \/ HookZadd(r)
  \/ Remove(r) \/ DeleteImage(r) \/ Unhash(r) \/ Unrank(r) \/ Leave(r)
  \/ SaveImage(r) \/ DropImage(r) \/ SaveNickname(r) \/ HashExists(r) \/ Rehash(r)
  \/ SaveTeam(r) \/ InsertRankIfAbsent(r) \/ Total(r) \/ DeleteRank(r) \/ Unlist(r) \/ Relist(r)
  \/ Count(r)

Fill == FillFind \/ FillSave

Sync(u) == SyncAggregate(u) \/ SyncZadd(u)

Next ==
  \/ \E r \in Req : Request(r) \/ Advance(r) \/ StatementFails(r) \/ CommitFails(r)
  \/ Fill \/ FillFails \/ \E u \in User : Sync(u) \/ SyncFails(u)
  \/ RedisLost \/ Evicts \/ RedisReady \/ ProcessRestarts

\* The event loop runs what it has started.  Nothing says that Redis comes back,
\* or that a query of the fill succeeds.
Fairness ==
  /\ \A r \in Req : WF_vars(Advance(r))
  /\ WF_vars(Fill) /\ \A u \in User : WF_vars(Sync(u))

Spec == Init /\ [][Next]_vars /\ Fairness

-----------------------------------------------------------------------------
TypeOK ==
  /\ life \in [User -> {"new", "member", "gone"}]
  /\ \A u \in User :
       IF Member(u) THEN profile[u] \in [nickname : Name, team : Team] ELSE profile[u] = NoRow
  /\ games \in [User -> [Team -> Nat]]
  /\ rank \in [User -> [Team -> Nat \cup {NoRow}]]
  /\ up \in BOOLEAN
  /\ hash \in [User -> Name \cup {NoRow, Stub}]
  /\ zset \in [User -> [Key -> Nat \cup {NoRow}]]
  /\ dropped \subseteq User
  /\ fill \in {"idle", "find", "save"}
  /\ infos \in [User -> Name \cup {NoRow}]
  /\ sync \in [User -> {"idle", "aggregate", "zadd"}]
  /\ step \in [Req -> Steps]
  /\ \A r \in Req : step[r] # "idle" => U(r) \in User

\* Every member always has a rank row, however switches of the supported team,
\* failed statements and crashes follow one another: without one the sums are
\* undefined, and both updateUserProfile and the hooks would fail on them.
RankedSomewhere == \A u \in User : Member(u) => rank[u] # NoRanks

\* No switch of the supported team ever drops a rank row with games in it: the
\* rank table counts the member's registrations.
CountsKept ==
  \A u \in User, t \in Team : (IF rank[u][t] = NoRow THEN 0 ELSE rank[u][t]) = games[u][t]

\* However outages of Redis and crashes of the process fall between the steps of
\* signing up and of leaving: once Redis stays up, every member can in the end
\* renew a token, or has left.  Three things lock a member out: an evicted hash, a
\* failed COMMIT of leaving, and a fill that failed while the hash was missing.
MembersServed ==
  <>[]up => \A u \in User : Member(u) ~> Renewable(u) \/ ~Member(u) \/ u \in dropped

Quiet == up /\ Filled /\ \A r \in Req : step[r] = "idle"

\* Once nothing is in flight the copies are those of the table: the cached
\* profile of a member is the member's profile, and nobody who has left is still
\* ranked, which would make every list the entry is in unreadable.
CopiesAgree ==
  Quiet => /\ \A u \in User : Member(u) => hash[u] = profile[u].nickname
           /\ \A k \in Key : Listable(k)
=============================================================================
