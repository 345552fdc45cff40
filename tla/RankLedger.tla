------------------------------ MODULE RankLedger ------------------------------
(***************************************************************************)
(* The registration commands as the transactions they are.                 *)
(*                                                                         *)
(* register, update and delete each run in one READ COMMITTED transaction  *)
(* of several statements; a statement sees the committed tables and the    *)
(* transaction's own writes, a row written by a transaction stays locked   *)
(* until that transaction ends, and TypeORM's save is a reload of the row  *)
(* by id, then an UPDATE of the columns that differ (an INSERT if the      *)
(* reload finds no row).  After the commit the command's hook, outside the *)
(* transaction, reads the user's summed rank rows and then writes the      *)
(* scores to the Redis rankings; initRankCaching does the same for every   *)
(* user whenever Redis becomes ready.                                      *)
(*                                                                         *)
(* Every table here is keyed by the user, so only requests of one user     *)
(* meet on a row.  Games do not change in this module: what the score job  *)
(* does to them is GameScoreJob's subject.                                 *)
(***************************************************************************)
EXTENDS Integers, Sequences, FiniteSets, RankScore, Sums

CONSTANTS User, Team, Year, Game,
          Home, Away,      \* [Game -> Team]
          YearOf,          \* [Game -> Year]
          Statuses,        \* the statuses games are in
          Req,             \* the requests that can be in flight at once
          NoRow,           \* an absent row or member
          MayOverlap,      \* what of the same user's work a new request may
                           \* run beside: "request", "hook", "sync"
          MaxRequests,     \* bound on the requests of a behaviour
          MaxFaults        \* bound on process crashes and Redis restarts

RegRow == [status : RegStatus, id : Nat, team : Team]

ASSUME LedgerAssumption ==
  /\ IsFiniteSet(Game) /\ IsFiniteSet(Team) /\ IsFiniteSet(Year)
  /\ Home \in [Game -> Team] /\ Away \in [Game -> Team]
  /\ YearOf \in [Game -> Year]
  /\ NoTeam \notin Team
  /\ Statuses \subseteq GameStatus
  /\ NoRow \notin RegRow \cup Counts \cup [status : RegStatus, team : Team]
  /\ MayOverlap \subseteq {"request", "hook", "sync"}
  /\ MaxRequests \in Nat /\ MaxFaults \in Nat

Plays(g, t) == t \in {Home[g], Away[g]}

\* Only a finished game has a winner, and only one of its two teams.
GameRows == [status : Statuses, winner : Team \cup {NoTeam}]
GameRow(g) == {x \in GameRows : x.winner # NoTeam => x.status = "ended" /\ Plays(g, x.winner)}

VARIABLES
  game,      \* the game table, [Game -> [status, winner]]
  reg,       \* committed registered_game rows, [User -> [Game -> row]]
  rank,      \* committed rank rows, [User -> [Team \X Year -> Counts]]
  orphan,    \* ids of committed registered_game rows whose user_id is null
  nextId,    \* the registered_game id sequence
  zset,      \* the Redis rankings, [User -> [Team \cup {"total"} -> score]]
  sync,      \* initRankCaching per user: "idle", "aggregate" or "zadd"
  pulled,    \* [User -> the scores initRankCaching has read]
  missed,    \* users whose last write to the rankings failed (history)
  step,      \* [Req -> the statement the request executes next]
  cmd,       \* [Req -> [game, id, team, user, op]]
  ent,       \* [Req -> the registration entity in memory]
  hook,      \* [Req -> whether a commit hook was registered]
  base,      \* [Req -> the registration row save reloaded]
  todo,      \* [Req -> the updateRankRecord calls still to make]
  row,       \* [Req -> the rank entity in memory]
  rbase,     \* [Req -> the rank row save reloaded]
  wreg,      \* [Req -> uncommitted registration writes, a function on games]
  wrank,     \* [Req -> uncommitted rank writes, a function on <<team, year>>]
  worphan,   \* [Req -> ids of the rows without a user it inserts or, as a
             \* delete, removes, uncommitted]
  seen,      \* [Req -> the scores the hook has read]
  served, faults

db     == <<reg, rank, orphan, nextId>>
cache  == <<zset, sync, pulled, missed>>
local  == <<cmd, ent, base, todo, hook, row, rbase>>
writes == <<wreg, wrank, worphan>>
bounds == <<served, faults>>
vars   == <<game, db, cache, step, local, writes, seen, bounds>>

\* Pending writes are functions on the keys written: none yet, one, and the
\* writes `new' laid over `old'.
Empty == [k \in {} |-> NoRow]

One(key, value) == [k \in {key} |-> value]

Over(new, old) ==
  [k \in DOMAIN new \cup DOMAIN old |-> IF k \in DOMAIN new THEN new[k] ELSE old[k]]

Steps == {"idle", "duplicate", "insert", "find", "reload", "store", "remove",
          "rankFind", "rankReload", "rankWrite", "commit", "aggregate", "zadd"}

\* The steps inside the transaction, and those of the hook behind it.
InTx   == Steps \ {"idle", "aggregate", "zadd"}
InHook == {"aggregate", "zadd"}

-----------------------------------------------------------------------------
(* What a statement of request r sees, and whose writes block it.           *)

U(r)  == cmd[r].user
G(r)  == cmd[r].game
Regs(r)  == Over(wreg[r], reg[U(r)])
Ranks(r) == Over(wrank[r], rank[U(r)])

RegOwner(r, q) == q # r /\ step[q] # "idle" /\ U(q) = U(r) /\ G(r) \in DOMAIN wreg[q]

RankKey(r) == <<todo[r][1].team, todo[r][1].year>>
RankOwner(r, q) == q # r /\ step[q] # "idle" /\ U(q) = U(r) /\ RankKey(r) \in DOMAIN wrank[q]

\* The registration row a statement WHERE id = i finds committed or own.
Matches(r, i) == Regs(r)[G(r)] # NoRow /\ Regs(r)[G(r)].id = i

\* q holds the row that r's next statement wants to write.
WaitsFor(r, q) ==
  \/ step[r] = "insert" /\ RegOwner(r, q)
  \/ step[r] = "store" /\ base[r] = NoRow /\ q # r /\ ent[r].id \in worphan[q]
  \/ step[r] = "store" /\ base[r] # NoRow /\ Matches(r, ent[r].id) /\ RegOwner(r, q)
  \/ step[r] = "remove" /\ Matches(r, cmd[r].id) /\ RegOwner(r, q)
  \/ step[r] = "rankWrite" /\ row[r] # rbase[r] /\ RankOwner(r, q)

Blocked(r) == \E q \in Req : WaitsFor(r, q)

-----------------------------------------------------------------------------
(* Scores of a user's rank rows: aggregateRankStatsByUserId.                *)

Sum(rows, keys) == [c \in Result |-> SumOf([k \in keys |-> rows[k][c]])]

Rows(u) == {k \in Team \X Year : rank[u][k] # NoRow}

\* One score per team that has a row in some year, and one for the total.
AggregateRankStats(u) ==
  [t \in {k[1] : k \in Rows(u)} \cup {"total"} |->
     IntegerScoreForRedis(
       Sum(rank[u], {k \in Rows(u) : t = "total" \/ k[1] = t}))]

\* Mutant: the pipeline leaves the total ranking out.
UpdateTeamRankings(u, data) ==
  zset' = [zset EXCEPT ![u] = Over([k \in DOMAIN data \ {"total"} |-> data[k]], @)]

UpdateRankings(u, data) == zset' = [zset EXCEPT ![u] = Over(data, @)]

-----------------------------------------------------------------------------
(* What the pages show of the committed tables.                             *)

\* The months' lists: a month only narrows the set.
Registered(u) == {g \in Game : reg[u][g] # NoRow}

\* The registration of u with an id; none is a 404.
GetOne(u, id) == {g \in Registered(u) : reg[u][g].id = id}

\* The page behind an entry of the list.
FindOne(u, g) == GetOne(u, reg[u][g].id)

\* The user's own page, from the rank rows of all teams and years.
MyPageInfo(u) ==
  LET n == Sum(rank[u], Rows(u))
  IN [win |-> n["Win"], lose |-> n["Lose"], tie |-> n["Tie"], cancel |-> n["NoGame"],
      total |-> TotalCount(n), score |-> PageScore(n)]

\* Mutant: called-off games are games against an opponent too.
Any(result) == TRUE

Counted(result) == result # "NoGame"

\* The record against each opponent, from the registrations and their games.
VersusTeamStats(u) ==
  LET games == {g \in Registered(u) : Counted(reg[u][g].status)}
      wins  == {g \in games : reg[u][g].status = "Win"}
      Opp(g) == IF Home[g] = reg[u][g].team THEN Away[g] ELSE Home[g]
  IN [totalWin |-> Cardinality(wins),
      homeWin  |-> Cardinality({g \in wins : Home[g] = reg[u][g].team}),
      oppTeam  |-> [t \in {Opp(g) : g \in games} |->
                      [total |-> Cardinality({g \in games : Opp(g) = t}),
                       win   |-> Cardinality({g \in wins  : Opp(g) = t})]]]

-----------------------------------------------------------------------------
\* The request is over: what it held in memory and its open writes are gone.
Forget(r, next) ==
  /\ step'  = [step  EXCEPT ![r] = next]
  /\ ent'   = [ent   EXCEPT ![r] = NoRow]
  /\ base'  = [base  EXCEPT ![r] = NoRow]
  /\ todo'  = [todo  EXCEPT ![r] = <<>>]
  /\ hook'  = [hook  EXCEPT ![r] = FALSE]
  /\ row'   = [row   EXCEPT ![r] = NoRow]
  /\ rbase' = [rbase EXCEPT ![r] = NoRow]
  /\ wreg'  = [wreg  EXCEPT ![r] = Empty]
  /\ wrank' = [wrank EXCEPT ![r] = Empty]
  /\ worphan' = [worphan EXCEPT ![r] = {}]

\* Mutant: a refused command is tried again instead of answered.
RetriedReject(r) ==
  /\ Forget(r, IF cmd[r].op = "register" THEN "duplicate" ELSE "find")
  /\ UNCHANGED <<game, db, cache, cmd, seen, bounds>>

\* The transaction rolls back and the client gets an error.
Reject(r) ==
  /\ Forget(r, "idle")
  /\ cmd' = [cmd EXCEPT ![r] = NoRow]
  /\ UNCHANGED <<game, db, cache, seen, bounds>>

\* A process at rest, with the rankings in step with the rank table.
AtRest ==
  /\ game \in [Game -> GameRows] /\ \A g \in Game : game[g] \in GameRow(g)
  /\ orphan = {}
  /\ zset = [u \in User |-> [k \in Team \cup {"total"} |->
               IF k \in DOMAIN AggregateRankStats(u)
               THEN AggregateRankStats(u)[k] ELSE NoRow]]
  /\ sync = [u \in User |-> "idle"] /\ pulled = [u \in User |-> NoRow] /\ missed = {}
  /\ step = [r \in Req |-> "idle"]
  /\ cmd = [r \in Req |-> NoRow]
  /\ ent = [r \in Req |-> NoRow] /\ base = ent
  /\ row = ent /\ rbase = ent /\ seen = ent
  /\ todo = [r \in Req |-> <<>>] /\ hook = [r \in Req |-> FALSE]
  /\ wreg = [r \in Req |-> Empty] /\ wrank = wreg /\ worphan = [r \in Req |-> {}]
  /\ served = 0 /\ faults = 0

Init ==
  /\ reg = [u \in User |-> [g \in Game |-> NoRow]]
  \* Signing up inserts a zero row for the supported team and the current year.
  /\ \E t \in Team, y \in Year :
       rank = [u \in User |-> [k \in Team \X Year |->
                 IF k = <<t, y>> THEN ZeroCounts ELSE NoRow]]
  /\ nextId = 1
  /\ AtRest

-----------------------------------------------------------------------------
(* A request arrives.  Its id is that of a registration the client has been  *)
(* shown; by the time the transaction looks for it, it may be gone.          *)

Busy(u, kind) ==
  CASE kind = "request" -> \E r \in Req : step[r] \in InTx /\ U(r) = u
    [] kind = "hook"    -> \E r \in Req : step[r] \in InHook /\ U(r) = u
    [] kind = "sync"    -> sync[u] # "idle"

Begin(r, c, first) ==
  /\ step[r] = "idle" /\ served < MaxRequests
  /\ \A kind \in {"request", "hook", "sync"} \ MayOverlap : ~Busy(c.user, kind)
  /\ cmd' = [cmd EXCEPT ![r] = c]
  /\ step' = [step EXCEPT ![r] = first]
  /\ served' = served + 1
  /\ UNCHANGED <<game, db, cache, ent, base, todo, hook, row, rbase, writes, seen, faults>>

Register(r) ==
  \E u \in User, g \in Game, t \in Team :
    Begin(r, [game |-> g, id |-> 0, team |-> t, user |-> u, op |-> "register"], "duplicate")

Update(r) ==
  \E u \in User, t \in Team :
    \E g \in Registered(u) :
      Begin(r, [game |-> g, id |-> reg[u][g].id, team |-> t, user |-> u, op |-> "update"], "find")

Delete(r) ==
  \E u \in User : \E g \in Registered(u) :
    Begin(r, [game |-> g, id |-> reg[u][g].id, team |-> NoTeam, user |-> u, op |-> "delete"], "find")

-----------------------------------------------------------------------------
(* The statements on registered_game.                                       *)

Adjust(t, g, s, add) == [status |-> s, team |-> t, year |-> YearOf[g], add |-> add]

\* Mutant: the previous team keeps its count.
SwitchOnlyAdds(g, old, new) ==
  IF new.team = old.team THEN <<>> ELSE <<Adjust(new.team, g, new.status, TRUE)>>

\* The calls after an update: the previous team loses, the new team gains.
SwitchCalls(g, old, new) ==
  IF new.team = old.team THEN <<>>
  ELSE <<Adjust(old.team, g, old.status, FALSE), Adjust(new.team, g, new.status, TRUE)>>

\* After a registration statement: the rank records, or straight to the commit.
Continue(r) == IF todo[r] = <<>> THEN "commit" ELSE "rankFind"

Locals(r, e, calls, hooked) ==
  /\ ent'  = [ent  EXCEPT ![r] = e]
  /\ todo' = [todo EXCEPT ![r] = calls]
  /\ hook' = [hook EXCEPT ![r] = hooked]
  /\ UNCHANGED <<game, db, cache, cmd, base, row, rbase, writes, seen, bounds>>

\* The entity of a new registration,
CreateReg(t, s) == [status |-> s, id |-> 0, team |-> t]

\* and one whose side is set.
UpdateCheeringTeam(e, t) ==
  IF t = e.team THEN e ELSE [e EXCEPT !.team = t, !.status = Flipped(@)]

\* register reads the game, looks for a duplicate and builds the entity.
CheckDuplicate(r) ==
  /\ step[r] = "duplicate"
  /\ LET t == cmd[r].team
         s == DetermineStatus(game[G(r)].status, game[G(r)].winner, t)
     IN IF Regs(r)[G(r)] # NoRow \/ ~Plays(G(r), t)
        THEN Reject(r)
        ELSE /\ Locals(r, CreateReg(t, s),
                       IF s = Pending THEN <<>> ELSE <<Adjust(t, G(r), s, TRUE)>>, TRUE)
             /\ step' = [step EXCEPT ![r] = "insert"]

\* INSERT: the unique key (game, user) decides, waiting for an open writer.
InsertReg(r) ==
  /\ step[r] = "insert" /\ ~Blocked(r)
  /\ IF reg[U(r)][G(r)] # NoRow
     THEN Reject(r)
     ELSE /\ wreg' = [wreg EXCEPT ![r] = One(G(r), [ent[r] EXCEPT !.id = nextId])]
          /\ nextId' = nextId + 1
          /\ step' = [step EXCEPT ![r] = Continue(r)]
          /\ UNCHANGED <<game, reg, rank, orphan, cache, local, wrank, worphan, seen, bounds>>

\* The row by id and user, and for an update the entity after its setters.
FindReg(r) ==
  /\ step[r] = "find"
  /\ LET old == Regs(r)[G(r)]
         t   == cmd[r].team
         new == UpdateCheeringTeam(old, t)
     IN CASE ~Matches(r, cmd[r].id) -> Reject(r)
          [] cmd[r].op = "delete" /\ Matches(r, cmd[r].id) ->
               /\ Locals(r, old, IF old.status = Pending THEN <<>>
                                 ELSE <<Adjust(old.team, G(r), old.status, FALSE)>>,
                         old.status # Pending)
               /\ step' = [step EXCEPT ![r] = "remove"]
          [] cmd[r].op = "update" /\ Matches(r, cmd[r].id) ->
               IF t # old.team /\ ~Plays(G(r), t) THEN Reject(r)
               ELSE /\ Locals(r, new, SwitchCalls(G(r), old, new), t # old.team)
                    /\ step' = [step EXCEPT ![r] = "reload"]

\* save's SELECT by id.  It finds a row without a user too, for which the entity
\* stands in: save then changes at most that row, which no page shows.
Reloaded(r) ==
  CASE Matches(r, ent[r].id) -> Regs(r)[G(r)]
    [] ~Matches(r, ent[r].id) /\ ent[r].id \in orphan -> ent[r]
    [] ~Matches(r, ent[r].id) /\ ent[r].id \notin orphan -> NoRow

ReloadReg(r) ==
  /\ step[r] = "reload"
  /\ base' = [base EXCEPT ![r] = Reloaded(r)]
  /\ step' = [step EXCEPT ![r] = "store"]
  /\ UNCHANGED <<game, db, cache, cmd, ent, todo, hook, row, rbase, writes, seen, bounds>>

\* Row `now' after an UPDATE of the columns in which `new' differs from `old'.
Patched(now, new, old) == [c \in DOMAIN now |-> IF new[c] # old[c] THEN new[c] ELSE now[c]]

\* save's second half.  UPDATE by id may find nothing any more.  When already
\* the reload found nothing, save INSERTs the entity again, under its old id and,
\* the user relation not being loaded, without a user.
StoreReg(r) ==
  /\ step[r] = "store" /\ ~Blocked(r)
  /\ IF base[r] = NoRow /\ ent[r].id \in orphan
     THEN Reject(r)
     ELSE /\ worphan' = [worphan EXCEPT ![r] = IF base[r] = NoRow THEN {ent[r].id} ELSE {}]
          /\ wreg' = IF base[r] # NoRow /\ Matches(r, ent[r].id)
                     THEN [wreg EXCEPT ![r] = One(G(r), Patched(reg[U(r)][G(r)], ent[r], base[r]))]
                     ELSE wreg
          /\ step' = [step EXCEPT ![r] = Continue(r)]
          /\ UNCHANGED <<game, db, cache, local, wrank, seen, bounds>>

\* remove: DELETE by id, whosever the row is by now; how many rows it deleted is
\* not looked at.
RemoveReg(r) ==
  /\ step[r] = "remove" /\ ~Blocked(r)
  /\ wreg' = IF Matches(r, cmd[r].id) THEN [wreg EXCEPT ![r] = One(G(r), NoRow)] ELSE wreg
  /\ worphan' = [worphan EXCEPT ![r] = orphan \cap {cmd[r].id}]
  /\ step' = [step EXCEPT ![r] = Continue(r)]
  /\ UNCHANGED <<game, db, cache, local, wrank, seen, bounds>>

-----------------------------------------------------------------------------
(* updateRankRecord for the call at the head of todo.                       *)

\* Mutant: adjustRecord counts up whatever it is told.
AdjustedUp(n, status, add) ==
  IF status = Pending THEN n ELSE [n EXCEPT ![status] = @ + 1]

\* Mutant: only decisive results are counted.
AdjustedDecisive(n, status, add) ==
  IF status \in {Pending, "Tie"} THEN n
  ELSE [n EXCEPT ![status] = IF add THEN @ + 1 ELSE @ - 1]

\* adjustRecord; a null status names no column, and then no counter changes.
Adjusted(n, status, add) ==
  IF status = Pending THEN n ELSE [n EXCEPT ![status] = IF add THEN @ + 1 ELSE @ - 1]

\* Mutant: validateDomain accepts a counter below zero.
RefusedOnlyMissing(call, old) == ~call.add /\ old = NoRow

\* No row to take from, or a counter already at zero.
Refused(call, old) ==
  ~call.add /\ (old = NoRow \/ (call.status # Pending /\ old[call.status] = 0))

FindRank(r) ==
  /\ step[r] = "rankFind"
  /\ LET call == todo[r][1]
         old  == Ranks(r)[RankKey(r)]
     IN IF Refused(call, old)
        THEN Reject(r)
        ELSE /\ row' = [row EXCEPT ![r] =
                         Adjusted(IF old = NoRow THEN ZeroCounts ELSE old, call.status, call.add)]
             /\ rbase' = [rbase EXCEPT ![r] = NoRow]
             /\ step' = [step EXCEPT ![r] = IF old = NoRow THEN "rankWrite" ELSE "rankReload"]
             /\ UNCHANGED <<game, db, cache, cmd, ent, base, todo, hook, writes, seen, bounds>>

ReloadRank(r) ==
  /\ step[r] = "rankReload"
  /\ rbase' = [rbase EXCEPT ![r] = Ranks(r)[RankKey(r)]]
  /\ step' = [step EXCEPT ![r] = "rankWrite"]
  /\ UNCHANGED <<game, db, cache, cmd, ent, base, todo, hook, row, writes, seen, bounds>>

WriteRank(r) ==
  /\ step[r] = "rankWrite" /\ ~Blocked(r)
  /\ IF rbase[r] = NoRow /\ Ranks(r)[RankKey(r)] # NoRow
     THEN Reject(r)
     ELSE /\ wrank' = IF row[r] = rbase[r] THEN wrank
                      ELSE [wrank EXCEPT ![r] =
                              Over(One(RankKey(r),
                                       IF rbase[r] = NoRow THEN row[r]
                                       ELSE Patched(Ranks(r)[RankKey(r)], row[r], rbase[r])), @)]
          /\ todo' = [todo EXCEPT ![r] = Tail(@)]
          /\ step' = [step EXCEPT ![r] = IF Tail(todo[r]) = <<>> THEN "commit" ELSE "rankFind"]
          /\ UNCHANGED <<game, db, cache, cmd, ent, base, hook, row, rbase, wreg, worphan, seen, bounds>>

-----------------------------------------------------------------------------
(* The end of the transaction, the hook behind it, and what may go wrong.   *)

\* COMMIT makes the writes visible at once; the client has its answer.
Commit(r) ==
  /\ step[r] = "commit"
  /\ reg'  = [reg  EXCEPT ![U(r)] = Over(wreg[r], @)]
  /\ rank' = [rank EXCEPT ![U(r)] = Over(wrank[r], @)]
  /\ orphan' = IF cmd[r].op = "delete" THEN orphan \ worphan[r] ELSE orphan \cup worphan[r]
  /\ Forget(r, IF hook[r] THEN "aggregate" ELSE "idle")
  /\ cmd' = IF hook[r] THEN cmd ELSE [cmd EXCEPT ![r] = NoRow]
  /\ UNCHANGED <<game, nextId, cache, seen, bounds>>

\* The commit hook's query, on whatever is committed by now.
HookAggregate(r) ==
  /\ step[r] = "aggregate"
  /\ seen' = [seen EXCEPT ![r] = AggregateRankStats(U(r))]
  /\ step' = [step EXCEPT ![r] = "zadd"]
  /\ UNCHANGED <<game, db, cache, local, writes, bounds>>

\* The commit hook's pipeline of ZADDs.
HookZadd(r) ==
  /\ step[r] = "zadd"
  /\ UpdateRankings(U(r), seen[r])
  /\ missed' = missed \ {U(r)}
  /\ seen' = [seen EXCEPT ![r] = NoRow]
  /\ step' = [step EXCEPT ![r] = "idle"]
  /\ cmd' = [cmd EXCEPT ![r] = NoRow]
  /\ UNCHANGED <<game, db, sync, pulled, ent, base, todo, hook, row, rbase, writes, bounds>>

\* The hook's query fails, or its pipeline of ZADDs, or the deletion of a picture before them.
\* Nothing catches that and nothing tries again; the process goes on (where it
\* does not, that is ProcessRestarts).
HookFails(r) ==
  /\ step[r] \in InHook
  /\ missed' = missed \cup {U(r)}
  /\ seen' = [seen EXCEPT ![r] = NoRow]
  /\ step' = [step EXCEPT ![r] = "idle"]
  /\ cmd' = [cmd EXCEPT ![r] = NoRow]
  /\ UNCHANGED <<game, db, zset, sync, pulled, ent, base, todo, hook, row, rbase, writes, bounds>>

\* Any statement may fail (connection, pool, timeout): the transaction is undone.
StatementFails(r) ==
  /\ step[r] \in InTx
  /\ Reject(r)

\* PostgreSQL breaks a cycle of waiting transactions by failing one of them.
DeadlockDetected(r) ==
  /\ \E S \in SUBSET Req :
       r \in S /\ \A q \in S : \E p \in S : WaitsFor(q, p)
  /\ Reject(r)

\* initRankCaching, for one user: aggregate, later the ZADDs.
SyncAggregate(u) ==
  /\ sync[u] = "aggregate"
  /\ pulled' = [pulled EXCEPT ![u] = AggregateRankStats(u)]
  /\ sync' = [sync EXCEPT ![u] = "zadd"]
  /\ UNCHANGED <<game, db, zset, missed, step, local, writes, seen, bounds>>

SyncZadd(u) ==
  /\ sync[u] = "zadd"
  /\ UpdateRankings(u, pulled[u])
  /\ missed' = missed \ {u}
  /\ pulled' = [pulled EXCEPT ![u] = NoRow]
  /\ sync' = [sync EXCEPT ![u] = "idle"]
  /\ UNCHANGED <<game, db, step, local, writes, seen, bounds>>

\* A user's query or ZADDs fail; the other users' go on.
SyncFails(u) ==
  /\ sync[u] # "idle"
  /\ missed' = missed \cup {u}
  /\ pulled' = [pulled EXCEPT ![u] = NoRow]
  /\ sync' = [sync EXCEPT ![u] = "idle"]
  /\ UNCHANGED <<game, db, zset, step, local, writes, seen, bounds>>

\* The process dies and is started again: open transactions are rolled back,
\* hooks that have not written are lost, and bootstrap fills the cache anew.
ProcessRestarts ==
  /\ faults < MaxFaults
  /\ faults' = faults + 1
  /\ sync' = [u \in User |-> "aggregate"] /\ pulled' = [u \in User |-> NoRow]
  /\ step' = [r \in Req |-> "idle"]
  /\ cmd' = [r \in Req |-> NoRow]
  /\ ent' = [r \in Req |-> NoRow] /\ base' = ent' /\ row' = ent' /\ rbase' = ent' /\ seen' = ent'
  /\ todo' = [r \in Req |-> <<>>] /\ hook' = [r \in Req |-> FALSE]
  /\ wreg' = [r \in Req |-> Empty] /\ wrank' = wreg'
  /\ worphan' = [r \in Req |-> {}]
  /\ UNCHANGED <<game, db, zset, missed, served>>

\* Redis persists nothing: it comes back empty and its ready event syncs again.
\* Unless syncs may run beside requests, it happens while none is in flight.
RedisRestarts ==
  /\ faults < MaxFaults
  /\ "sync" \in MayOverlap \/ \A r \in Req : step[r] = "idle"
  /\ faults' = faults + 1
  /\ zset' = [u \in User |-> [k \in Team \cup {"total"} |-> NoRow]]
  /\ sync' = [u \in User |-> "aggregate"] /\ pulled' = [u \in User |-> NoRow]
  /\ UNCHANGED <<game, db, missed, step, local, writes, seen, served>>

-----------------------------------------------------------------------------
\* The program's own next move for request r, or for the user's cache sync.
Advance(r) ==
  \/ CheckDuplicate(r) \/ InsertReg(r)
  \/ FindReg(r) \/ ReloadReg(r) \/ StoreReg(r) \/ RemoveReg(r)
  \/ FindRank(r) \/ ReloadRank(r) \/ WriteRank(r)
  \/ Commit(r) \/ DeadlockDetected(r)
  \/ HookAggregate(r) \/ HookZadd(r)

Sync(u) == SyncAggregate(u) \/ SyncZadd(u)

Next ==
  \/ \E r \in Req : Register(r) \/ Update(r) \/ Delete(r) \/ Advance(r)
                    \/ StatementFails(r) \/ HookFails(r)
  \/ \E u \in User : Sync(u) \/ SyncFails(u)
  \/ ProcessRestarts \/ RedisRestarts

\* The event loop and the database serve every request; clients owe nothing.
Fairness ==
  /\ \A r \in Req : WF_vars(Advance(r))
  /\ \A u \in User : WF_vars(Sync(u))

Spec == Init /\ [][Next]_vars /\ Fairness

-----------------------------------------------------------------------------
TypeOK ==
  /\ \A g \in Game : game[g] \in GameRow(g)
  /\ reg \in [User -> [Game -> RegRow \cup {NoRow}]]
  /\ rank \in [User -> [Team \X Year -> Counts \cup {NoRow}]]
  /\ nextId \in Nat \ {0} /\ orphan \subseteq Nat
  /\ zset \in [User -> [Team \cup {"total"} -> Int \cup {NoRow}]]
  /\ sync \in [User -> {"idle", "aggregate", "zadd"}] /\ missed \subseteq User
  /\ step \in [Req -> Steps]
  /\ ent \in [Req -> RegRow \cup {NoRow}] /\ base \in [Req -> RegRow \cup {NoRow}]
  /\ row \in [Req -> Counts \cup {NoRow}] /\ rbase \in [Req -> Counts \cup {NoRow}]
  /\ hook \in [Req -> BOOLEAN]
  /\ \A r \in Req :
       /\ step[r] # "idle" => U(r) \in User /\ G(r) \in Game /\ DOMAIN wreg[r] \subseteq {G(r)}
       /\ Len(todo[r]) <= 2 /\ DOMAIN wrank[r] \subseteq Team \X Year

\* One counter per team, year and result equals the number of the user's
\* registrations with that team, year and result.
LedgerExact ==
  \A u \in User : \A t \in Team, y \in Year : \A c \in Result :
    (IF rank[u][<<t, y>>] = NoRow THEN 0 ELSE rank[u][<<t, y>>][c])
      = Cardinality({g \in Game : /\ reg[u][g] # NoRow
                                  /\ reg[u][g].team = t /\ YearOf[g] = y
                                  /\ reg[u][g].status = c})

\* Every committed registration carries the result of its game for the team
\* it cheers for, however updates of team and result interleave.
ResultMatchesTeam ==
  \A u \in User, g \in Game :
    reg[u][g] # NoRow =>
      /\ Plays(g, reg[u][g].team)
      /\ reg[u][g].status = DetermineStatus(game[g].status, game[g].winner, reg[u][g].team)

\* The rank rows refuse nothing a client may ask for, but one thing: to switch
\* sides in a registration whose game has no result yet, when the user has no
\* row for the team left.  A result that was counted can be taken back.
RefusesOnlyPending ==
  [][\A r \in Req : FindRank(r) /\ step'[r] = "idle" =>
       cmd[r].op = "update" /\ reg[U(r)][G(r)].status = Pending]_vars

Quiet == (\A r \in Req : step[r] = "idle") /\ (\A u \in User : sync[u] = "idle")

\* Once nothing is in flight the rankings hold the scores of the rank table, but
\* for a user whose last hook or sync failed: nobody writes those scores again
\* before the user's next command or the next sync.
CacheCaughtUp ==
  Quiet => \A u \in User \ missed : \A k \in DOMAIN AggregateRankStats(u) :
             zset[u][k] = AggregateRankStats(u)[k]

\* The pages agree, though each counts in its own way and two of them in another
\* table: what the list shows opens as what it is; the wins against each opponent
\* are those of the user's own page, the games against each opponent the results
\* there and the games to come, and once nothing is in flight the score there is
\* the score in the ranking, unless the user's last write to it failed.
PagesAgree ==
  \A u \in User :
    LET page    == MyPageInfo(u)
        versus  == VersusTeamStats(u)
        pending == {g \in Registered(u) : reg[u][g].status = Pending}
    IN /\ \A g \in Registered(u) : FindOne(u, g) = {g}
       /\ versus.totalWin = page.win
       /\ SumOf([t \in DOMAIN versus.oppTeam |-> versus.oppTeam[t].win]) = page.win
       /\ SumOf([t \in DOMAIN versus.oppTeam |-> versus.oppTeam[t].total])
            = page.win + page.lose + page.tie + Cardinality(pending)
       /\ Quiet /\ u \notin missed /\ Rows(u) # {} =>
            ToDisplayScore(zset[u]["total"]) = page.score

\* Every request is answered and its hook ends, deadlocks included.
RequestsEnd == \A r \in Req : step[r] # "idle" ~> step[r] = "idle"

Book == INSTANCE RankBook WITH
  None  <- NoRow,
  book  <- [u \in User |-> [g \in Game |->
              IF reg[u][g] = NoRow THEN NoRow
              ELSE [status |-> reg[u][g].status, team |-> reg[u][g].team]]],
  tally <- [u \in User |-> [k \in Team \X Year \X Result |->
              IF rank[u][<<k[1], k[2]>>] = NoRow THEN 0 ELSE rank[u][<<k[1], k[2]>>][k[3]]]]

\* The transactions implement the one-step commands of RankBook.
BookSpec == Book!Spec
=============================================================================
