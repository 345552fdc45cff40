--------------------------- MODULE RankLedgerProofs ---------------------------
(***************************************************************************)
(* What is proved of RankLedger and the score it packs, for any users,     *)
(* teams, years, games and requests in flight:                             *)
(*                                                                         *)
(*  1. the packed score can be unpacked, and sorts by score and games;     *)
(*  2. every committed registration carries the result of its game for the *)
(*     team it cheers for, whatever overlaps (IInv);                       *)
(*  3. when requests of one user do not overlap, the transactions          *)
(*     implement the one-step commands of RankBook (SInv), whose tallies   *)
(*     are exact (BookInv), so that the rank counters are exact and no     *)
(*     counted result is refused;                                          *)
(*  4. when nothing of one user overlaps, the rankings catch up with the   *)
(*     rank rows, process and Redis restarts included (CInv);              *)
(*  5. whatever overlaps, tables, rankings and memory keep their types     *)
(*     (TInv);                                                             *)
(*  6. a registration is found by its id, whatever overlaps (DInv), and    *)
(*     the user's pages and ranking add up to the same games.              *)
(***************************************************************************)
EXTENDS RankLedger, FiniteSetTheorems, TLAPS

-----------------------------------------------------------------------------
(* 1. The packed score, as long as a user has fewer than 10000 games: the   *)
(* lists show the score unchanged, and Redis sorts by score, then by games. *)

LEMMA ScoreType ==
  ASSUME NEW n \in Counts
  PROVE  RawScore(n) \in Int /\ TotalCount(n) \in Nat
<1>1. n["Win"] \in Nat /\ n["Lose"] \in Nat /\ n["Tie"] \in Nat /\ n["NoGame"] \in Nat
  BY DEF Counts, Result
<1> QED
  BY <1>1 DEF RawScore, TotalCount, BASE_SCORE, SCORE_MULTIPLIER

\* toDisplayScore undoes the packing, for negative scores too.
THEOREM DisplayUndoesPacking ==
  ASSUME NEW n \in Counts, TotalCount(n) < SCALE_FACTOR
  PROVE  ToDisplayScore(IntegerScoreForRedis(n)) = RawScore(n)
<1> DEFINE raw == RawScore(n)
           total == TotalCount(n)
<1>1. raw \in Int /\ total \in Nat /\ total < 10000
  BY ScoreType DEF SCALE_FACTOR
<1>2. ToDisplayScore(IntegerScoreForRedis(n)) = (raw * 10000 + total) \div 10000
  BY DEF ToDisplayScore, IntegerScoreForRedis, SCALE_FACTOR
<1> HIDE DEF raw, total
<1>3. (raw * 10000 + total) \div 10000 = raw
  BY <1>1
<1> QED
  BY <1>2, <1>3 DEF raw

\* The packed numbers are in the lexicographic order of score and games.
THEOREM PackingSorts ==
  ASSUME NEW m \in Counts, NEW n \in Counts,
         TotalCount(m) < SCALE_FACTOR, TotalCount(n) < SCALE_FACTOR
  PROVE  IntegerScoreForRedis(m) > IntegerScoreForRedis(n) <=>
           \/ RawScore(m) > RawScore(n)
           \/ RawScore(m) = RawScore(n) /\ TotalCount(m) > TotalCount(n)
<1>1. /\ RawScore(m) \in Int /\ TotalCount(m) \in Nat /\ TotalCount(m) < 10000
      /\ RawScore(n) \in Int /\ TotalCount(n) \in Nat /\ TotalCount(n) < 10000
  BY ScoreType DEF SCALE_FACTOR
<1>2. \A rm, rn \in Int : \A tm, tn \in Nat :
        tm < 10000 /\ tn < 10000 =>
          (rm * 10000 + tm > rn * 10000 + tn <=> rm > rn \/ (rm = rn /\ tm > tn))
  OBVIOUS
<1>3. /\ IntegerScoreForRedis(m) = RawScore(m) * 10000 + TotalCount(m)
      /\ IntegerScoreForRedis(n) = RawScore(n) * 10000 + TotalCount(n)
  BY DEF IntegerScoreForRedis, SCALE_FACTOR
<1> QED
  BY <1>1, <1>2, <1>3

\* The user's own page and the ranking lists show one score although they compute
\* it by two formulas, for fewer than 1000 games: with the thousandth game the
\* page is a point ahead.
THEOREM PageShowsRankedScore ==
  ASSUME NEW n \in Counts, TotalCount(n) < 1000
  PROVE  PageScore(n) = ToDisplayScore(IntegerScoreForRedis(n))
<1> DEFINE raw == RawScore(n)
           total == TotalCount(n)
<1>1. raw \in Int /\ total \in Nat /\ total < 1000 /\ total < SCALE_FACTOR
  BY ScoreType DEF SCALE_FACTOR
<1>2. ToDisplayScore(IntegerScoreForRedis(n)) = raw
  BY <1>1, DisplayUndoesPacking
<1>3. PageScore(n) = (raw * 1000 + total) \div 1000
  BY DEF PageScore
<1> HIDE DEF raw, total
<1>4. (raw * 1000 + total) \div 1000 = raw
  BY <1>1
<1> QED
  BY <1>2, <1>3, <1>4

-----------------------------------------------------------------------------
(* 2. The column-wise UPDATE of TypeORM's save can combine the team of one  *)
(* request with the result of another only when both teams have that result.*)

StatusOf(g, t) == DetermineStatus(game[g].status, game[g].winner, t)

\* A registration row of game g as it should be.
Fits(g, x) == x \in RegRow /\ Plays(g, x.team) /\ x.status = StatusOf(g, x.team)

FitsIfAny(g, x) == x # NoRow => Fits(g, x)

GamesOK == \A g \in Game : game[g] \in GameRow(g)

TablesOK ==
  /\ reg \in [User -> [Game -> RegRow \cup {NoRow}]]
  /\ nextId \in Nat
  /\ \A u \in User, g \in Game : FitsIfAny(g, reg[u][g])

ShapesOK ==
  DOMAIN step = Req /\ DOMAIN cmd = Req /\ DOMAIN ent = Req /\ DOMAIN base = Req /\ DOMAIN wreg = Req

\* The steps behind a request's statement on registered_game.
AfterReg == {"rankFind", "rankReload", "rankWrite", "commit"}

\* What request r holds in memory and has written but not committed.
RequestOK(r) ==
  /\ step[r] \in Steps
  /\ step[r] # "idle" => U(r) \in User /\ G(r) \in Game
  /\ step[r] = "find" => cmd[r].op \in {"update", "delete"}
  /\ step[r] \notin AfterReg => DOMAIN wreg[r] = {}
  /\ \A g \in DOMAIN wreg[r] : g = G(r) /\ FitsIfAny(g, wreg[r][g])
  /\ step[r] \in {"insert", "reload", "store"} => Fits(G(r), ent[r])
  /\ step[r] = "store" => FitsIfAny(G(r), base[r])

IInv == GamesOK /\ TablesOK /\ ShapesOK /\ \A r \in Req : RequestOK(r)

-----------------------------------------------------------------------------
(* The rules.                                                               *)

\* A game has two teams, so what holds for two teams that play in it holds for
\* all of them; and its winner is one of the two.
LEMMA TwoTeams ==
  ASSUME GamesOK, NEW g \in Game, NEW a, NEW b, Plays(g, a), Plays(g, b), a # b
  PROVE  /\ Flipped(StatusOf(g, a)) = StatusOf(g, b)
         /\ StatusOf(g, a) = StatusOf(g, b) =>
              \A c : Plays(g, c) => StatusOf(g, c) = StatusOf(g, a)
<1>1. game[g].winner # NoTeam => game[g].status = "ended" /\ game[g].winner \in {a, b}
  BY DEF GamesOK, GameRow, Plays
<1>2. \A c : Plays(g, c) => c \in {a, b}
  BY DEF Plays
<1>3. Flipped(StatusOf(g, a)) = StatusOf(g, b)
  BY <1>1 DEF StatusOf, DetermineStatus, Flipped, NoGameStatus, Pending
<1> QED
  BY <1>2, <1>3

\* Patching a row that fits by the difference of two that fit leaves it fit.
LEMMA PatchFits ==
  ASSUME GamesOK, NEW g \in Game, NEW now, NEW new, NEW old,
         Fits(g, now), Fits(g, new), Fits(g, old)
  PROVE  Fits(g, Patched(now, new, old))
<1> DEFINE p == Patched(now, new, old)
<1>1. /\ p.status = (IF new.status # old.status THEN new.status ELSE now.status)
      /\ p.team = (IF new.team # old.team THEN new.team ELSE now.team)
      /\ p \in RegRow
  BY DEF Patched, Fits, RegRow
<1>2. CASE new.team = old.team
  BY <1>1, <1>2 DEF Fits
<1>3. CASE new.team # old.team /\ new.status # old.status
  BY <1>1, <1>3 DEF Fits
<1>4. CASE new.team # old.team /\ new.status = old.status
  <2>1. /\ Plays(g, now.team) /\ Plays(g, new.team) /\ Plays(g, old.team)
        /\ StatusOf(g, new.team) = StatusOf(g, old.team)
    BY <1>4 DEF Fits
  <2>2. \A c : Plays(g, c) => StatusOf(g, c) = StatusOf(g, new.team)
    BY <1>4, <2>1, TwoTeams
  <2>3. StatusOf(g, now.team) = StatusOf(g, new.team)
    BY <2>1, <2>2
  <2> QED
    BY <1>1, <1>4, <2>3 DEF Fits
<1> QED
  BY <1>2, <1>3, <1>4

-----------------------------------------------------------------------------
(* What a statement sees, and the frame of a step.                          *)

\* A request sees of its own game a row that fits, or none.
LEMMA SeenFits ==
  ASSUME IInv, NEW r \in Req, step[r] # "idle"
  PROVE  /\ FitsIfAny(G(r), Regs(r)[G(r)])
         /\ reg[U(r)][G(r)] \in RegRow \cup {NoRow} /\ FitsIfAny(G(r), reg[U(r)][G(r)])
<1>1. U(r) \in User /\ G(r) \in Game
  BY DEF IInv, RequestOK
<1>2. G(r) \in DOMAIN reg[U(r)]
  BY <1>1 DEF IInv, TablesOK
<1>3. Regs(r)[G(r)] = IF G(r) \in DOMAIN wreg[r] THEN wreg[r][G(r)] ELSE reg[U(r)][G(r)]
  BY <1>2 DEF Regs, Over
<1> QED
  BY <1>1, <1>3 DEF IInv, TablesOK, RequestOK

\* A step of request r leaves the others' part of the invariant alone.
LEMMA Frame ==
  ASSUME IInv, NEW r \in Req, UNCHANGED game, TablesOK', ShapesOK', RequestOK(r)',
         \A q \in Req \ {r} :
           /\ step'[q] = step[q] /\ cmd'[q] = cmd[q] /\ wreg'[q] = wreg[q]
           /\ ent'[q] = ent[q] /\ base'[q] = base[q]
  PROVE  IInv'
<1>1. GamesOK'
  BY DEF IInv, GamesOK, GameRow
<1>2. \A g, x : FitsIfAny(g, x)' <=> FitsIfAny(g, x)
  BY DEF FitsIfAny, Fits, StatusOf
<1>3. \A g, x : Fits(g, x)' <=> Fits(g, x)
  BY DEF Fits, StatusOf
<1>4. ASSUME NEW q \in Req \ {r} PROVE RequestOK(q)'
  <2>1. RequestOK(q)
    BY DEF IInv
  <2>2. U(q)' = U(q) /\ G(q)' = G(q)
    BY DEF U, G
  <2> QED
    BY <1>4, <2>1, <2>2 DEF RequestOK, Fits, FitsIfAny, StatusOf
<1> QED
  BY <1>1, <1>4 DEF IInv

\* The tables and games are as they were.
LEMMA TablesKept ==
  ASSUME IInv, UNCHANGED <<game, reg>>, nextId' \in Nat
  PROVE  TablesOK'
BY DEF IInv, TablesOK, FitsIfAny, Fits, StatusOf

\* The transaction is given up or over; committed rows may have changed.
LEMMA ForgetStep ==
  ASSUME IInv, NEW r \in Req, NEW next \in {"idle", "aggregate"}, Forget(r, next),
         step[r] # "idle", UNCHANGED game, TablesOK',
         DOMAIN cmd' = Req, \A q \in Req \ {r} : cmd'[q] = cmd[q],
         next # "idle" => cmd' = cmd
  PROVE  IInv'
<1>1. ShapesOK'
  BY DEF Forget, IInv, ShapesOK
<1>2. step'[r] = next /\ wreg'[r] = Empty
  BY DEF Forget, IInv, ShapesOK
<1>3. step'[r] # "idle" => U(r)' = U(r) /\ G(r)' = G(r)
  BY <1>2 DEF U, G
<1>4. DOMAIN wreg'[r] = {}
  BY <1>2 DEF Empty
<1>5. step'[r] \in Steps
  BY <1>2 DEF Steps
<1>6. step'[r] # "idle" => U(r)' \in User /\ G(r)' \in Game
  BY <1>3 DEF IInv, RequestOK
<1>7. RequestOK(r)'
  BY <1>2, <1>4, <1>5, <1>6 DEF RequestOK
<1>8. \A q \in Req \ {r} :
        /\ step'[q] = step[q] /\ cmd'[q] = cmd[q] /\ wreg'[q] = wreg[q]
        /\ ent'[q] = ent[q] /\ base'[q] = base[q]
  BY DEF Forget, IInv, ShapesOK
<1> QED
  BY <1>1, <1>7, <1>8, Frame

LEMMA RejectStep == ASSUME IInv, NEW r \in Req, step[r] # "idle", Reject(r) PROVE IInv'
<1>1. Forget(r, "idle") /\ cmd' = [cmd EXCEPT ![r] = NoRow] /\ UNCHANGED <<game, reg, nextId>>
  BY DEF Reject, db
<1>2. TablesOK'
  BY <1>1, TablesKept DEF IInv, TablesOK
<1>3. DOMAIN cmd' = Req /\ \A q \in Req \ {r} : cmd'[q] = cmd[q]
  BY <1>1 DEF IInv, ShapesOK
<1> QED
  BY <1>1, <1>2, <1>3, ForgetStep

\* A step that only moves request r along, its commands and writes unchanged.
LEMMA MoveStep ==
  ASSUME IInv, NEW r \in Req, UNCHANGED <<game, reg, nextId, cmd, wreg>>,
         NEW next \in Steps, step' = [step EXCEPT ![r] = next],
         step[r] # "idle",
         next # "find", next \in AfterReg \/ DOMAIN wreg[r] = {},
         DOMAIN ent' = Req, DOMAIN base' = Req,
         \A q \in Req \ {r} : ent'[q] = ent[q] /\ base'[q] = base[q],
         next \in {"insert", "reload", "store"} => Fits(G(r), ent'[r]),
         next = "store" => FitsIfAny(G(r), base'[r])
  PROVE  IInv'
<1>1. TablesOK'
  BY TablesKept DEF IInv, TablesOK
<1>2. ShapesOK'
  BY DEF IInv, ShapesOK
<1>3. step'[r] = next /\ U(r)' = U(r) /\ G(r)' = G(r)
  BY DEF IInv, ShapesOK, U, G
<1>4. RequestOK(r)
  BY DEF IInv
<1>5. RequestOK(r)'
  BY <1>3, <1>4 DEF RequestOK, Fits, FitsIfAny, StatusOf
<1>6. \A q \in Req \ {r} :
        /\ step'[q] = step[q] /\ cmd'[q] = cmd[q] /\ wreg'[q] = wreg[q]
        /\ ent'[q] = ent[q] /\ base'[q] = base[q]
  BY DEF IInv, ShapesOK
<1> QED
  BY <1>1, <1>2, <1>5, <1>6, Frame

\* A step that writes one registration of request r and moves it along.
LEMMA WriteStep ==
  ASSUME IInv, NEW r \in Req, UNCHANGED <<game, reg, cmd, ent, base>>, nextId' \in Nat,
         NEW next \in {"commit", "rankFind"}, step' = [step EXCEPT ![r] = next],
         step[r] # "idle",
         NEW x, wreg' = [wreg EXCEPT ![r] = x],
         \A g \in DOMAIN x : g = G(r) /\ FitsIfAny(g, x[g])
  PROVE  IInv'
<1>1. TablesOK'
  BY TablesKept
<1>2. ShapesOK'
  BY DEF IInv, ShapesOK
<1>3. step'[r] = next /\ wreg'[r] = x /\ U(r)' = U(r) /\ G(r)' = G(r)
  BY DEF IInv, ShapesOK, U, G
<1>4. RequestOK(r)
  BY DEF IInv
<1>5. next \in Steps /\ next \in AfterReg
  BY DEF Steps, AfterReg
<1>6. RequestOK(r)'
  BY <1>3, <1>4, <1>5 DEF RequestOK, Fits, FitsIfAny, StatusOf
<1>7. \A q \in Req \ {r} :
        /\ step'[q] = step[q] /\ cmd'[q] = cmd[q] /\ wreg'[q] = wreg[q]
        /\ ent'[q] = ent[q] /\ base'[q] = base[q]
  BY DEF IInv, ShapesOK
<1> QED
  BY <1>1, <1>2, <1>6, <1>7, Frame

-----------------------------------------------------------------------------
(* The actions.                                                             *)

LEMMA IInvInit == ASSUME Init PROVE IInv
<1> USE DEF Init, AtRest
<1>1. GamesOK
  BY DEF GamesOK
<1>2. TablesOK
  BY DEF TablesOK, FitsIfAny
<1>3. ShapesOK
  BY DEF ShapesOK
<1>4. ASSUME NEW r \in Req PROVE RequestOK(r)
  <2>1. step[r] = "idle" /\ wreg[r] = Empty
    OBVIOUS
  <2> QED
    BY <2>1 DEF RequestOK, Steps, Empty
<1> QED
  BY <1>1, <1>2, <1>3, <1>4 DEF IInv

LEMMA BeginStep ==
  ASSUME IInv, NEW r \in Req,
         NEW c, c.user \in User, c.game \in Game,
         NEW first \in {"duplicate", "find"}, Begin(r, c, first),
         first = "find" => c.op \in {"update", "delete"}
  PROVE  IInv'
<1> USE DEF Begin
<1>1. /\ step[r] = "idle" /\ cmd' = [cmd EXCEPT ![r] = c]
      /\ step' = [step EXCEPT ![r] = first]
      /\ UNCHANGED <<game, reg, nextId, ent, base, wreg>>
  BY DEF db, writes
<1>2. TablesOK'
  BY <1>1, TablesKept DEF IInv, TablesOK
<1>3. ShapesOK'
  BY <1>1 DEF IInv, ShapesOK
<1>4. step'[r] = first /\ cmd'[r] = c
  BY <1>1 DEF IInv, ShapesOK
<1>5. DOMAIN wreg'[r] = {}
  BY <1>1 DEF IInv, RequestOK, AfterReg
<1>6. RequestOK(r)'
  BY <1>4, <1>5 DEF RequestOK, Steps, U, G
<1>7. \A q \in Req \ {r} :
        /\ step'[q] = step[q] /\ cmd'[q] = cmd[q] /\ wreg'[q] = wreg[q]
        /\ ent'[q] = ent[q] /\ base'[q] = base[q]
  BY <1>1 DEF IInv, ShapesOK
<1> QED
  BY <1>1, <1>2, <1>3, <1>6, <1>7, Frame

LEMMA ArrivalStep ==
  ASSUME IInv, NEW r \in Req, Register(r) \/ Update(r) \/ Delete(r) PROVE IInv'
<1>1. CASE Register(r)
  BY <1>1, BeginStep DEF Register
<1>2. CASE Update(r)
  BY <1>2, BeginStep DEF Update, Registered
<1>3. CASE Delete(r)
  BY <1>3, BeginStep DEF Delete, Registered
<1> QED
  BY <1>1, <1>2, <1>3

LEMMA DuplicateStep == ASSUME IInv, NEW r \in Req, CheckDuplicate(r) PROVE IInv'
<1> DEFINE t == cmd[r].team
           s == DetermineStatus(game[G(r)].status, game[G(r)].winner, t)
           e == [status |-> s, id |-> 0, team |-> t]
<1>1. step[r] = "duplicate"
  BY DEF CheckDuplicate
<1>2. CASE Reject(r)
  BY <1>1, <1>2, RejectStep
<1>3. CASE ~Reject(r)
  <2>1. /\ Plays(G(r), t)
        /\ Locals(r, e, IF s = Pending THEN <<>> ELSE <<Adjust(t, G(r), s, TRUE)>>, TRUE)
        /\ step' = [step EXCEPT ![r] = "insert"]
    BY <1>3 DEF CheckDuplicate, CreateReg
  <2>2. G(r) \in Game
    BY <1>1 DEF IInv, RequestOK
  <2>3. s \in RegStatus
    BY DEF DetermineStatus, RegStatus, Result, Pending
  <2>4. t \in Team
    BY <2>1, <2>2, LedgerAssumption DEF Plays
  <2>5. Fits(G(r), e)
    BY <2>1, <2>3, <2>4 DEF Fits, RegRow, StatusOf
  <2> HIDE DEF e
  <2>6. UNCHANGED <<game, reg, nextId, cmd, wreg, base>> /\ ent' = [ent EXCEPT ![r] = e]
    BY <2>1 DEF Locals, db, writes
  <2>7. /\ DOMAIN ent' = Req /\ DOMAIN base' = Req /\ ent'[r] = e
        /\ \A q \in Req \ {r} : ent'[q] = ent[q] /\ base'[q] = base[q]
    BY <2>6 DEF IInv, ShapesOK
  <2> QED
    BY <1>1, <2>1, <2>5, <2>6, <2>7, MoveStep DEF Steps, AfterReg, IInv, RequestOK
<1> QED
  BY <1>2, <1>3

LEMMA InsertStep == ASSUME IInv, NEW r \in Req, InsertReg(r) PROVE IInv'
<1> DEFINE x == [ent[r] EXCEPT !.id = nextId]
<1>1. step[r] = "insert"
  BY DEF InsertReg
<1>2. CASE Reject(r)
  BY <1>1, <1>2, RejectStep
<1>3. CASE ~Reject(r)
  <2>1. /\ wreg' = [wreg EXCEPT ![r] = One(G(r), x)] /\ nextId' = nextId + 1
        /\ step' = [step EXCEPT ![r] = Continue(r)]
        /\ UNCHANGED <<game, reg, cmd, ent, base>>
    BY <1>3 DEF InsertReg, local
  <2>2. Fits(G(r), ent[r]) /\ nextId \in Nat
    BY <1>1 DEF IInv, RequestOK, TablesOK
  <2>3. Fits(G(r), x)
    BY <2>2 DEF Fits, RegRow
  <2> HIDE DEF x
  <2>4. \A g \in DOMAIN One(G(r), x) : g = G(r) /\ FitsIfAny(g, One(G(r), x)[g])
    BY <2>3 DEF One, FitsIfAny
  <2>5. Continue(r) \in {"commit", "rankFind"} /\ nextId' \in Nat
    BY <2>1, <2>2 DEF Continue
  <2> QED
    BY <1>1, <2>1, <2>4, <2>5, WriteStep
<1> QED
  BY <1>2, <1>3

LEMMA FindStep == ASSUME IInv, NEW r \in Req, FindReg(r) PROVE IInv'
<1> DEFINE old == Regs(r)[G(r)]
           t   == cmd[r].team
           new == UpdateCheeringTeam(old, t)
<1>1. step[r] = "find" /\ cmd[r].op \in {"update", "delete"}
  BY DEF FindReg, IInv, RequestOK
<1>2. G(r) \in Game /\ FitsIfAny(G(r), old)
  BY <1>1, SeenFits DEF IInv, RequestOK
<1>3. CASE Reject(r)
  BY <1>1, <1>3, RejectStep
<1>4. CASE ~Reject(r)
  <2>1. Matches(r, cmd[r].id)
    BY <1>4 DEF FindReg
  <2>2. Fits(G(r), old)
    BY <1>2, <2>1 DEF Matches, FitsIfAny
  <2>3. CASE cmd[r].op = "delete"
    <3>1. PICK calls, hooked : Locals(r, old, calls, hooked)
      BY <1>4, <2>1, <2>3 DEF FindReg
    <3>2. step' = [step EXCEPT ![r] = "remove"]
      BY <1>4, <2>1, <2>3 DEF FindReg
    <3> HIDE DEF old
    <3>3. UNCHANGED <<game, reg, nextId, cmd, wreg, base>> /\ ent' = [ent EXCEPT ![r] = old]
      BY <3>1 DEF Locals, db, writes
    <3>4. /\ DOMAIN ent' = Req /\ DOMAIN base' = Req
          /\ \A q \in Req \ {r} : ent'[q] = ent[q] /\ base'[q] = base[q]
      BY <3>3 DEF IInv, ShapesOK
    <3> QED
      BY <1>1, <3>2, <3>3, <3>4, MoveStep DEF Steps, AfterReg, IInv, RequestOK
  <2>4. CASE cmd[r].op = "update"
    <3>1. /\ ~(t # old.team /\ ~Plays(G(r), t))
          /\ \E calls, hooked : Locals(r, new, calls, hooked)
          /\ step' = [step EXCEPT ![r] = "reload"]
      BY <1>4, <2>1, <2>4 DEF FindReg
    <3>2. PICK calls, hooked : Locals(r, new, calls, hooked)
      BY <3>1
    <3>4. Fits(G(r), new)
      <4>1. CASE t = old.team
        BY <2>2, <4>1 DEF UpdateCheeringTeam
      <4>2. CASE t # old.team
        <5>1. Plays(G(r), t) /\ t \in Team
          BY <1>2, <3>1, <4>2, LedgerAssumption DEF Plays
        <5>2. Flipped(old.status) = StatusOf(G(r), t)
          BY <1>2, <2>2, <4>2, <5>1, TwoTeams DEF Fits, IInv
        <5>3. Flipped(old.status) \in RegStatus
          BY <2>2 DEF Fits, RegRow, Flipped, RegStatus, Result
        <5> QED
          BY <2>2, <4>2, <5>1, <5>2, <5>3 DEF Fits, RegRow, UpdateCheeringTeam
      <4> QED
        BY <4>1, <4>2
    <3> HIDE DEF new
    <3>5. UNCHANGED <<game, reg, nextId, cmd, wreg, base>> /\ ent' = [ent EXCEPT ![r] = new]
      BY <3>2 DEF Locals, db, writes
    <3>6. /\ DOMAIN ent' = Req /\ DOMAIN base' = Req /\ ent'[r] = new
          /\ \A q \in Req \ {r} : ent'[q] = ent[q] /\ base'[q] = base[q]
      BY <3>5 DEF IInv, ShapesOK
    <3> QED
      BY <1>1, <3>1, <3>4, <3>5, <3>6, MoveStep DEF Steps, AfterReg, IInv, RequestOK
  <2> QED
    BY <1>1, <2>3, <2>4
<1> QED
  BY <1>3, <1>4

LEMMA ReloadStep == ASSUME IInv, NEW r \in Req, ReloadReg(r) PROVE IInv'
<1>1. step[r] = "reload" /\ step' = [step EXCEPT ![r] = "store"]
  BY DEF ReloadReg
<1>2. UNCHANGED <<game, reg, nextId, cmd, wreg, ent>>
  BY DEF ReloadReg, db, writes
<1>3. /\ DOMAIN base' = Req /\ \A q \in Req \ {r} : base'[q] = base[q]
      /\ base'[r] \in {Regs(r)[G(r)], ent[r], NoRow}
  BY DEF ReloadReg, Reloaded, IInv, ShapesOK
<1>5. Fits(G(r), ent'[r]) /\ DOMAIN wreg[r] = {}
  BY <1>1, <1>2 DEF IInv, RequestOK, AfterReg
<1>4. FitsIfAny(G(r), base'[r])
  BY <1>1, <1>2, <1>3, <1>5, SeenFits DEF FitsIfAny
<1>6. DOMAIN ent' = Req /\ \A q \in Req \ {r} : ent'[q] = ent[q]
  BY <1>2 DEF IInv, ShapesOK
<1>7. "store" \in Steps /\ step[r] # "idle"
  BY <1>1 DEF Steps
<1> QED
  BY <1>1, <1>2, <1>3, <1>4, <1>5, <1>6, <1>7, MoveStep

\* The UPDATE may be based on a row that another request has changed since.
LEMMA StoreStep == ASSUME IInv, NEW r \in Req, StoreReg(r) PROVE IInv'
<1> DEFINE p == Patched(reg[U(r)][G(r)], ent[r], base[r])
           x == IF base[r] # NoRow /\ Matches(r, ent[r].id) THEN One(G(r), p) ELSE wreg[r]
<1>1. step[r] = "store"
  BY DEF StoreReg
<1>2. CASE Reject(r)
  BY <1>1, <1>2, RejectStep
<1>3. CASE ~Reject(r)
  <2>1. /\ UNCHANGED <<game, reg, nextId, cmd, ent, base>>
        /\ step' = [step EXCEPT ![r] = Continue(r)]
        /\ wreg' = IF base[r] # NoRow /\ Matches(r, ent[r].id)
                   THEN [wreg EXCEPT ![r] = One(G(r), p)] ELSE wreg
    BY <1>3 DEF StoreReg, db, local
  <2>2. Fits(G(r), ent[r]) /\ FitsIfAny(G(r), base[r]) /\ G(r) \in Game
    BY <1>1 DEF IInv, RequestOK
  <2>3. \A g \in DOMAIN wreg[r] : g = G(r) /\ FitsIfAny(g, wreg[r][g])
    BY DEF IInv, RequestOK
  <2>4. Continue(r) \in {"commit", "rankFind"}
    BY DEF Continue
  <2>5. nextId' \in Nat
    BY <2>1 DEF IInv, TablesOK
  <2>6. CASE base[r] # NoRow /\ Matches(r, ent[r].id)
    <3>1. CASE reg[U(r)][G(r)] = NoRow
      <4>1. DOMAIN wreg[r] = {}
        BY <1>1 DEF IInv, RequestOK, AfterReg
      <4>2. Regs(r)[G(r)] = reg[U(r)][G(r)]
        <5>1. U(r) \in User /\ G(r) \in Game
          BY <1>1 DEF IInv, RequestOK
        <5>2. G(r) \in DOMAIN reg[U(r)]
          BY <5>1 DEF IInv, TablesOK
        <5> QED
          BY <4>1, <5>2 DEF Regs, Over
      <4> QED
        BY <2>6, <3>1, <4>2 DEF Matches
    <3>2. CASE reg[U(r)][G(r)] # NoRow
      <4>1. Fits(G(r), reg[U(r)][G(r)])
        BY <1>1, <3>2, SeenFits DEF FitsIfAny
      <4>2. Fits(G(r), p)
        BY <2>2, <2>6, <4>1, PatchFits DEF FitsIfAny, IInv
      <4> HIDE DEF p
      <4>3. \A g \in DOMAIN One(G(r), p) : g = G(r) /\ FitsIfAny(g, One(G(r), p)[g])
        BY <4>2 DEF One, FitsIfAny
      <4> QED
        BY <1>1, <2>1, <2>4, <2>5, <2>6, <4>3, WriteStep
    <3> QED
      BY <3>1, <3>2
  <2>7. CASE ~(base[r] # NoRow /\ Matches(r, ent[r].id))
    <3>1. wreg' = wreg
      BY <2>1, <2>7
    <3> QED
      BY <1>1, <2>1, <2>3, <2>4, <3>1, MoveStep DEF Steps, AfterReg, IInv, ShapesOK, RequestOK
  <2> QED
    BY <2>6, <2>7
<1> QED
  BY <1>2, <1>3

LEMMA RemoveStep == ASSUME IInv, NEW r \in Req, RemoveReg(r) PROVE IInv'
<1> DEFINE x == IF Matches(r, cmd[r].id) THEN One(G(r), NoRow) ELSE wreg[r]
<1>1. step[r] = "remove" /\ step' = [step EXCEPT ![r] = Continue(r)]
  BY DEF RemoveReg
<1>2. UNCHANGED <<game, reg, nextId, cmd, ent, base>>
  BY DEF RemoveReg, db, local
<1>3. wreg' = [wreg EXCEPT ![r] = x] \/ wreg' = wreg
  BY DEF RemoveReg
<1>4. \A g \in DOMAIN One(G(r), NoRow) : g = G(r) /\ FitsIfAny(g, One(G(r), NoRow)[g])
  BY DEF One, FitsIfAny
<1>5. \A g \in DOMAIN x : g = G(r) /\ FitsIfAny(g, x[g])
  BY <1>4 DEF IInv, RequestOK
<1>6. Continue(r) \in {"commit", "rankFind"} /\ nextId' \in Nat
  BY <1>2 DEF Continue, IInv, TablesOK
<1>7. CASE wreg' = [wreg EXCEPT ![r] = x]
  <2> HIDE DEF x
  <2> QED
    BY <1>1, <1>2, <1>5, <1>6, <1>7, WriteStep
<1>8. CASE wreg' = wreg
  BY <1>1, <1>2, <1>6, <1>8, MoveStep DEF Steps, AfterReg, IInv, ShapesOK
<1> QED
  BY <1>3, <1>7, <1>8

\* The statements on the rank rows touch no registration.
LEMMA RankStep ==
  ASSUME IInv, NEW r \in Req, FindRank(r) \/ ReloadRank(r) \/ WriteRank(r) PROVE IInv'
<1>1. step[r] \in {"rankFind", "rankReload", "rankWrite"}
  BY DEF FindRank, ReloadRank, WriteRank
<1>2. CASE Reject(r)
  BY <1>1, <1>2, RejectStep
<1>3. CASE ~Reject(r)
  <2>1. UNCHANGED <<game, reg, nextId, cmd, wreg, ent, base>>
    BY <1>3 DEF FindRank, ReloadRank, WriteRank, db, writes
  <2>2. \E next \in AfterReg : step' = [step EXCEPT ![r] = next]
    BY <1>3 DEF FindRank, ReloadRank, WriteRank, AfterReg
  <2>3. PICK next \in AfterReg : step' = [step EXCEPT ![r] = next]
    BY <2>2
  <2> QED
    BY <1>1, <2>1, <2>3, MoveStep DEF Steps, AfterReg, IInv, ShapesOK
<1> QED
  BY <1>2, <1>3

\* A commit lays rows that fit over the committed ones.
LEMMA CommitStep == ASSUME IInv, NEW r \in Req, Commit(r) PROVE IInv'
<1> DEFINE next == IF hook[r] THEN "aggregate" ELSE "idle"
           rows == Over(wreg[r], reg[U(r)])
<1>1. step[r] = "commit" /\ Forget(r, next) /\ UNCHANGED <<game, nextId>>
      /\ reg' = [reg EXCEPT ![U(r)] = rows]
      /\ cmd' = IF hook[r] THEN cmd ELSE [cmd EXCEPT ![r] = NoRow]
  BY DEF Commit
<1>2. U(r) \in User /\ G(r) \in Game
  BY <1>1 DEF IInv, RequestOK
<1>3. DOMAIN reg[U(r)] = Game /\ DOMAIN wreg[r] \subseteq Game
  BY <1>2 DEF IInv, TablesOK, RequestOK
<1>4. rows = [g \in Game |-> IF g \in DOMAIN wreg[r] THEN wreg[r][g] ELSE reg[U(r)][g]]
  BY <1>3 DEF Over
<1>5. \A g \in DOMAIN wreg[r] : FitsIfAny(g, wreg[r][g]) /\ wreg[r][g] \in RegRow \cup {NoRow}
  BY DEF IInv, RequestOK, FitsIfAny, Fits
<1>6. rows \in [Game -> RegRow \cup {NoRow}] /\ \A g \in Game : FitsIfAny(g, rows[g])
  BY <1>2, <1>4, <1>5 DEF IInv, TablesOK
<1> HIDE DEF rows
<1>7. reg' \in [User -> [Game -> RegRow \cup {NoRow}]]
  BY <1>1, <1>6 DEF IInv, TablesOK
<1>8. \A u \in User, g \in Game : FitsIfAny(g, reg'[u][g])
  BY <1>1, <1>6 DEF IInv, TablesOK
<1>9. TablesOK'
  BY <1>1, <1>7, <1>8 DEF IInv, TablesOK, FitsIfAny, Fits, StatusOf
<1>10. DOMAIN cmd' = Req /\ \A q \in Req \ {r} : cmd'[q] = cmd[q]
  BY <1>1 DEF IInv, ShapesOK
<1> QED
  BY <1>1, <1>9, <1>10, ForgetStep

LEMMA HookStep ==
  ASSUME IInv, NEW r \in Req, HookAggregate(r) \/ HookZadd(r) \/ HookFails(r) PROVE IInv'
<1>1. CASE HookAggregate(r)
  <2>1. UNCHANGED <<game, reg, nextId, cmd, wreg, ent, base>>
        /\ step[r] = "aggregate" /\ step' = [step EXCEPT ![r] = "zadd"]
    BY <1>1 DEF HookAggregate, db, local, writes
  <2> QED
    BY <2>1, MoveStep DEF Steps, AfterReg, IInv, ShapesOK, RequestOK
<1>2. CASE HookZadd(r) \/ HookFails(r)
  <2>1. UNCHANGED <<game, reg, nextId, wreg, ent, base>> /\ step[r] \in InHook
        /\ step' = [step EXCEPT ![r] = "idle"] /\ cmd' = [cmd EXCEPT ![r] = NoRow]
    BY <1>2 DEF HookZadd, HookFails, InHook, db, writes
  <2>2. TablesOK'
    BY <2>1, TablesKept DEF IInv, TablesOK
  <2>3. ShapesOK'
    BY <2>1 DEF IInv, ShapesOK
  <2>4. step'[r] = "idle" /\ DOMAIN wreg'[r] = {}
    BY <2>1 DEF IInv, ShapesOK, RequestOK, AfterReg, InHook
  <2>5. RequestOK(r)'
    BY <2>4 DEF RequestOK, Steps
  <2>6. \A q \in Req \ {r} :
          /\ step'[q] = step[q] /\ cmd'[q] = cmd[q] /\ wreg'[q] = wreg[q]
          /\ ent'[q] = ent[q] /\ base'[q] = base[q]
    BY <2>1 DEF IInv, ShapesOK
  <2> QED
    BY <2>1, <2>2, <2>3, <2>5, <2>6, Frame
<1> QED
  BY <1>1, <1>2

LEMMA FailureStep ==
  ASSUME IInv, NEW r \in Req, StatementFails(r) \/ DeadlockDetected(r) PROVE IInv'
<1>1. step[r] # "idle"
  <2>1. CASE StatementFails(r)
    BY <2>1 DEF StatementFails, InTx
  <2>2. CASE DeadlockDetected(r)
    BY <2>2 DEF DeadlockDetected, WaitsFor
  <2> QED
    BY <2>1, <2>2
<1>2. Reject(r)
  BY DEF StatementFails, DeadlockDetected
<1> QED
  BY <1>1, <1>2, RejectStep

\* A restart empties every request; a sync or a Redis restart touches none.
LEMMA ProcessStep == ASSUME IInv, ProcessRestarts PROVE IInv'
<1>1. UNCHANGED <<game, reg, nextId>>
  BY DEF ProcessRestarts, db
<1>2. TablesOK'
  BY <1>1, TablesKept DEF IInv, TablesOK
<1>3. ShapesOK' /\ \A r \in Req : step'[r] = "idle" /\ wreg'[r] = Empty
  BY DEF ProcessRestarts, ShapesOK
<1>4. ASSUME NEW r \in Req PROVE RequestOK(r)'
  BY <1>3 DEF RequestOK, Steps, Empty
<1>5. GamesOK'
  BY <1>1 DEF IInv, GamesOK, GameRow
<1> QED
  BY <1>2, <1>3, <1>4, <1>5 DEF IInv

LEMMA StillStep ==
  ASSUME IInv, UNCHANGED <<game, reg, nextId, step, cmd, wreg, ent, base>> PROVE IInv'
BY DEF IInv, GamesOK, GameRow, TablesOK, ShapesOK, RequestOK, U, G, Fits, FitsIfAny, StatusOf

LEMMA IInvNext == ASSUME IInv, [Next]_vars PROVE IInv'
<1>1. ASSUME NEW r \in Req, Register(r) \/ Update(r) \/ Delete(r) PROVE IInv'
  BY <1>1, ArrivalStep
<1>2. ASSUME NEW r \in Req, Advance(r) PROVE IInv'
  BY <1>2, DuplicateStep, InsertStep, FindStep, ReloadStep, StoreStep, RemoveStep, RankStep,
     CommitStep, FailureStep, HookStep DEF Advance
<1>3. ASSUME NEW r \in Req, StatementFails(r) \/ HookFails(r) PROVE IInv'
  BY <1>3, FailureStep, HookStep
<1>4. ASSUME NEW u \in User, Sync(u) \/ SyncFails(u) PROVE IInv'
  BY <1>4, StillStep DEF Sync, SyncAggregate, SyncZadd, SyncFails, db, local, writes
<1>5. CASE ProcessRestarts
  BY <1>5, ProcessStep
<1>6. CASE RedisRestarts
  BY <1>6, StillStep DEF RedisRestarts, db, local, writes
<1>7. CASE UNCHANGED vars
  BY <1>7, StillStep DEF vars, db, local, writes
<1> QED
  BY <1>1, <1>2, <1>3, <1>4, <1>5, <1>6, <1>7 DEF Next

-----------------------------------------------------------------------------
\* Whatever requests of a user overlap, and whatever fails in between, a committed
\* registration has a team of its game and the game's result for that team.
THEOREM ResultsMatchTeams == Spec => []ResultMatchesTeam
<1>1. Init => IInv
  BY IInvInit
<1>2. IInv /\ [Next]_vars => IInv'
  BY IInvNext
<1>3. IInv => ResultMatchesTeam
  BY DEF IInv, TablesOK, FitsIfAny, Fits, StatusOf, ResultMatchesTeam
<1> QED
  BY <1>1, <1>2, <1>3, PTL DEF Spec

-----------------------------------------------------------------------------
(* 3. A client who waits for the answer to one request before sending the   *)
(* next; hooks and cache fills may overlap with its requests.               *)

\* Requests of one user do not overlap; hooks and cache fills may.
Sequential == "request" \notin MayOverlap

Cell == Team \X Year

\* Calls of updateRankRecord: none, one, or one for either team.
Call  == [status : RegStatus, team : Team, year : Year, add : BOOLEAN]
Calls == {<<>>} \cup {<<c>> : c \in Call} \cup {<<c, d>> : c \in Call, d \in Call}

\* What a rank row counts in column c, what a registration x of game g adds to
\* column c of cell k, and what replacing a registration by another adds.
CountOf(n, c)     == IF n = NoRow THEN 0 ELSE n[c]
Weight(x, g, k, c) == IF x # NoRow /\ x.team = k[1] /\ YearOf[g] = k[2] /\ x.status = c
                      THEN 1 ELSE 0
Effect(old, new, g, k, c) == Weight(new, g, k, c) - Weight(old, g, k, c)

\* What calls will add.
Added(call, k, c) ==
  IF call.team = k[1] /\ call.year = k[2] /\ call.status = c
  THEN IF call.add THEN 1 ELSE -1
  ELSE 0

Owed(calls, k, c) ==
  (IF calls = <<>> THEN 0 ELSE Added(calls[1], k, c))
    + (IF calls = <<>> \/ Tail(calls) = <<>> THEN 0 ELSE Added(calls[2], k, c))

\* The call that takes registration x of game g back.
Take(x, g) == Adjust(x.team, g, x.status, FALSE)

OrZero(n) == IF n = NoRow THEN ZeroCounts ELSE n

-----------------------------------------------------------------------------
(* The inductive invariant.                                                 *)

RankShapes ==
  /\ rank \in [User -> [Cell -> Counts \cup {NoRow}]]
  /\ DOMAIN todo = Req /\ DOMAIN row = Req /\ DOMAIN rbase = Req /\ DOMAIN wrank = Req
  /\ DOMAIN hook = Req

\* No other request of the user is in a transaction.
Alone ==
  \A r, q \in Req : step[r] \in InTx /\ step[q] \in InTx /\ U(r) = U(q) => r = q

Old(r) == reg[U(r)][G(r)]

\* Rank rows are written after the registration, and counters are natural.
Written(r) ==
  /\ step[r] \notin AfterReg => DOMAIN wrank[r] = {}
  /\ \A k \in DOMAIN wrank[r] : k \in Cell /\ wrank[r][k] \in Counts

\* The registration in the table is the one the request has found, and the calls
\* to come are what its replacement adds.
Plan(r) ==
  /\ step[r] = "insert" => Old(r) = NoRow
  /\ step[r] \in {"reload", "store"} => Old(r) # NoRow /\ Old(r).id = ent[r].id
  /\ step[r] = "store" => base[r] = Old(r)
  /\ step[r] = "remove" => Old(r) # NoRow /\ Old(r).id = cmd[r].id
  /\ step[r] \in {"insert", "reload", "store", "remove"} =>
       \A k \in Cell, c \in Result :
         Owed(todo[r], k, c)
           = Effect(Old(r), IF step[r] = "remove" THEN NoRow ELSE ent[r], G(r), k, c)

\* Written rank rows and calls to come together are what the written registration
\* adds.
Balance(r) ==
  step[r] \in AfterReg =>
    /\ todo[r] = <<>> <=> step[r] = "commit"
    /\ \A k \in Cell, c \in Result :
         CountOf(Ranks(r)[k], c) + Owed(todo[r], k, c)
           = CountOf(rank[U(r)][k], c) + Effect(Old(r), Regs(r)[G(r)], G(r), k, c)

\* The rank entity is the row with the call applied.
Record(r) ==
  step[r] \in {"rankReload", "rankWrite"} =>
    LET old == Ranks(r)[RankKey(r)]
    IN /\ ~Refused(todo[r][1], old)
       /\ row[r] = Adjusted(OrZero(old), todo[r][1].status, todo[r][1].add)
       /\ IF step[r] = "rankReload" THEN old # NoRow ELSE rbase[r] = old

\* A call that takes a result back comes first and takes back that of the
\* registration in the table.
Taking(r) ==
  /\ todo[r] # <<>> /\ ~todo[r][1].add =>
       /\ Old(r) # NoRow /\ todo[r][1] = Take(Old(r), G(r))
       /\ DOMAIN wrank[r] = {}
       /\ Old(r).status = Pending => cmd[r].op = "update"
  /\ todo[r] # <<>> /\ Tail(todo[r]) # <<>> => todo[r][2].add

InTxOK(r) == todo[r] \in Calls /\ Plan(r) /\ Balance(r) /\ Record(r) /\ Taking(r)

TxOK(r) == Written(r) /\ (step[r] \in {"insert", "reload", "store", "remove"} \cup AfterReg => InTxOK(r))

SInv == IInv /\ RankShapes /\ Alone /\ \A r \in Req : TxOK(r)

-----------------------------------------------------------------------------
(* Calls, counters and what a request sees.                                 *)

LEMMA CallsHead ==
  ASSUME NEW calls \in Calls, calls # <<>>
  PROVE  /\ calls[1] \in Call /\ Tail(calls) \in Calls
         /\ Tail(calls) # <<>> => calls[2] \in Call /\ Tail(calls)[1] = calls[2]
         /\ Tail(calls) # <<>> => Tail(Tail(calls)) = <<>>
<1>1. CASE \E c \in Call : calls = <<c>>
  BY <1>1 DEF Calls
<1>2. CASE \E c \in Call, d \in Call : calls = <<c, d>>
  BY <1>2 DEF Calls
<1> QED
  BY <1>1, <1>2 DEF Calls

\* The first call is paid, the rest is still owed.
LEMMA OwedTail ==
  ASSUME NEW calls \in Calls, calls # <<>>, NEW k \in Cell, NEW c \in Result
  PROVE  /\ Owed(calls, k, c) = Added(calls[1], k, c) + Owed(Tail(calls), k, c)
         /\ Owed(Tail(calls), k, c) \in Int /\ Added(calls[1], k, c) \in Int
<1>1. \A x : Added(x, k, c) \in Int
  BY DEF Added
<1>2. CASE Tail(calls) = <<>>
  BY <1>1, <1>2 DEF Owed
<1>3. CASE Tail(calls) # <<>>
  <2>1. Tail(Tail(calls)) = <<>> /\ Tail(calls)[1] = calls[2]
    BY <1>3, CallsHead
  <2>2. Owed(Tail(calls), k, c) = Added(calls[2], k, c)
    BY <1>1, <1>3, <2>1 DEF Owed
  <2> QED
    BY <1>1, <1>3, <2>2 DEF Owed
<1> QED
  BY <1>2, <1>3

LEMMA OwedNone == \A k, c : Owed(<<>>, k, c) = 0
BY DEF Owed

\* An adjusted row has one more or one less in the call's column.
LEMMA AdjustedCount ==
  ASSUME NEW old \in Counts \cup {NoRow}, NEW call \in Call, ~Refused(call, old)
  PROVE  LET n == Adjusted(OrZero(old), call.status, call.add)
         IN /\ n \in Counts /\ n # NoRow
            /\ \A c \in Result : CountOf(n, c) = CountOf(old, c) +
                 (IF call.status = c THEN IF call.add THEN 1 ELSE -1 ELSE 0)
<1> DEFINE n == Adjusted(OrZero(old), call.status, call.add)
           z == OrZero(old)
<1>1. z \in Counts /\ \A c \in Result : z[c] = CountOf(old, c)
  BY DEF OrZero, ZeroCounts, Counts, CountOf
<1>2. call.status \in RegStatus /\ call.add \in BOOLEAN
  BY DEF Call
<1>3. Pending \notin Result
  BY DEF Pending, Result
<1>4. NoRow \notin Counts
  BY LedgerAssumption
<1>5. CASE call.status = Pending
  BY <1>1, <1>3, <1>4, <1>5 DEF Adjusted, CountOf, Counts
<1>6. CASE call.status # Pending
  <2>1. call.status \in Result
    BY <1>2, <1>6 DEF RegStatus
  <2>2. ~call.add => z[call.status] >= 1
    BY <1>1, <1>6, <2>1, <1>4 DEF Refused, CountOf, Counts
  <2>3. n = [z EXCEPT ![call.status] = IF call.add THEN @ + 1 ELSE @ - 1]
    BY <1>6 DEF Adjusted
  <2> HIDE DEF z, n
  <2>4. n \in Counts
    BY <1>1, <1>2, <2>1, <2>2, <2>3 DEF Counts
  <2>5. \A c \in Result : n[c] = z[c] + (IF call.status = c THEN IF call.add THEN 1 ELSE -1 ELSE 0)
    BY <1>1, <1>2, <2>1, <2>3 DEF Counts
  <2>6. n # NoRow
    BY <1>4, <2>4
  <2> QED
    BY <1>1, <2>4, <2>5, <2>6 DEF CountOf, n
<1> QED
  BY <1>5, <1>6

LEMMA SeenRanks ==
  ASSUME SInv, NEW r \in Req, step[r] # "idle"
  PROVE  /\ U(r) \in User /\ G(r) \in Game
         /\ Ranks(r) = [k \in Cell |-> IF k \in DOMAIN wrank[r] THEN wrank[r][k] ELSE rank[U(r)][k]]
         /\ \A k \in Cell : Ranks(r)[k] \in Counts \cup {NoRow}
         /\ Regs(r)[G(r)] = IF G(r) \in DOMAIN wreg[r] THEN wreg[r][G(r)] ELSE Old(r)
         /\ Old(r) \in RegRow \cup {NoRow} /\ FitsIfAny(G(r), Old(r))
         /\ Regs(r)[G(r)] \in RegRow \cup {NoRow} /\ FitsIfAny(G(r), Regs(r)[G(r)])
<1>1. U(r) \in User /\ G(r) \in Game
  BY DEF SInv, IInv, RequestOK
<1>2. DOMAIN rank[U(r)] = Cell /\ DOMAIN wrank[r] \subseteq Cell
  BY <1>1 DEF SInv, RankShapes, TxOK, Written
<1>3. Ranks(r) = [k \in Cell |-> IF k \in DOMAIN wrank[r] THEN wrank[r][k] ELSE rank[U(r)][k]]
  <2>1. DOMAIN wrank[r] \cup DOMAIN rank[U(r)] = Cell
    BY <1>2
  <2> QED
    BY <2>1 DEF Ranks, Over
<1>4. \A k \in Cell : Ranks(r)[k] \in Counts \cup {NoRow}
  BY <1>1, <1>3 DEF SInv, RankShapes, TxOK, Written
<1>5. G(r) \in DOMAIN reg[U(r)]
  BY <1>1 DEF SInv, IInv, TablesOK
<1>6. Regs(r)[G(r)] = IF G(r) \in DOMAIN wreg[r] THEN wreg[r][G(r)] ELSE Old(r)
  BY <1>5 DEF Regs, Over, Old
<1> QED
  BY <1>1, <1>3, <1>4, <1>6, SeenFits DEF Old, SInv, FitsIfAny, Fits

-----------------------------------------------------------------------------
(* The frame of a step.                                                     *)

\* A step that is not request q's.
Same(q) ==
  /\ step'[q] = step[q] /\ cmd'[q] = cmd[q] /\ ent'[q] = ent[q] /\ base'[q] = base[q]
  /\ todo'[q] = todo[q] /\ row'[q] = row[q] /\ rbase'[q] = rbase[q]
  /\ wreg'[q] = wreg[q] /\ wrank'[q] = wrank[q]

Working == {"insert", "reload", "store", "remove"} \cup AfterReg

LEMMA Kept ==
  ASSUME SInv, NEW q \in Req, Same(q),
         step[q] \in InTx => reg'[U(q)] = reg[U(q)] /\ rank'[U(q)] = rank[U(q)]
  PROVE  TxOK(q)'
<1>1. U(q)' = U(q) /\ G(q)' = G(q) /\ RankKey(q)' = RankKey(q)
  BY DEF Same, U, G, RankKey
<1>2. TxOK(q)
  BY DEF SInv
<1>3. Written(q)'
  BY <1>2 DEF Same, TxOK, Written
<1>4. CASE step[q] \in Working
  <2>1. step[q] \in InTx
    BY <1>4 DEF Working, AfterReg, InTx, Steps
  <2>2. Old(q)' = Old(q) /\ Regs(q)' = Regs(q) /\ Ranks(q)' = Ranks(q)
    BY <1>1, <2>1 DEF Same, Old, Regs, Ranks
  <2>3. InTxOK(q)
    BY <1>2, <1>4 DEF TxOK, Working
  <2>4. todo'[q] \in Calls
    BY <2>3 DEF InTxOK, Same
  <2>5. Plan(q)'
    BY <1>1, <2>2, <2>3 DEF InTxOK, Plan, Same
  <2>6. Balance(q)'
    BY <1>1, <2>1, <2>2, <2>3 DEF InTxOK, Balance, Same
  <2>7. Record(q)'
    BY <1>1, <2>2, <2>3 DEF InTxOK, Record, Same
  <2>8. Taking(q)'
    BY <1>1, <2>2, <2>3 DEF InTxOK, Taking, Same
  <2> QED
    BY <1>3, <2>4, <2>5, <2>6, <2>7, <2>8 DEF TxOK, InTxOK
<1>5. CASE step[q] \notin Working
  BY <1>3, <1>5 DEF TxOK, Working, Same
<1> QED
  BY <1>4, <1>5

\* A step of request r that commits nothing.
LEMMA LocalStep ==
  ASSUME SInv, IInv', NEW r \in Req, UNCHANGED <<reg, rank>>,
         DOMAIN todo' = Req, DOMAIN row' = Req, DOMAIN rbase' = Req, DOMAIN wrank' = Req,
         DOMAIN hook' = Req,
         \A q \in Req \ {r} : Same(q),
         step'[r] \in InTx => step[r] \in InTx /\ cmd'[r] = cmd[r],
         TxOK(r)'
  PROVE  SInv'
<1>1. RankShapes'
  BY DEF SInv, RankShapes
<1>2. \A q \in Req : TxOK(q)'
  BY Kept
<1>3. \A q \in Req : step'[q] \in InTx => step[q] \in InTx /\ U(q)' = U(q)
  BY DEF Same, U
<1>4. Alone'
  BY <1>3 DEF SInv, Alone
<1> QED
  BY <1>1, <1>2, <1>4 DEF SInv

\* The transaction is given up.
LEMMA SRejectStep ==
  ASSUME SInv, IInv', NEW r \in Req, Reject(r)
  PROVE  SInv'
<1>1. /\ Forget(r, "idle") /\ UNCHANGED <<reg, rank>>
      /\ cmd' = [cmd EXCEPT ![r] = NoRow]
  BY DEF Reject, db
<1>2. /\ DOMAIN todo' = Req /\ DOMAIN row' = Req /\ DOMAIN rbase' = Req
      /\ DOMAIN wrank' = Req /\ DOMAIN hook' = Req
  BY <1>1 DEF Forget, SInv, RankShapes
<1>3. \A q \in Req \ {r} : Same(q)
  BY <1>1 DEF Forget, Same, SInv, RankShapes, IInv, ShapesOK
<1>4. step'[r] = "idle" /\ wrank'[r] = Empty
  BY <1>1 DEF Forget, SInv, RankShapes, IInv, ShapesOK
<1>5. TxOK(r)'
  BY <1>4 DEF TxOK, Written, Empty, AfterReg
<1>6. step'[r] \notin InTx
  BY <1>4 DEF InTx
<1> QED
  BY <1>1, <1>2, <1>3, <1>5, <1>6, LocalStep

LEMMA SInit == ASSUME Init PROVE SInv
<1> USE DEF Init, AtRest
<1>1. IInv
  BY IInvInit
<1>2. ZeroCounts \in Counts
  BY DEF ZeroCounts, Counts
<1>3. RankShapes
  BY <1>2 DEF RankShapes, Cell
<1>4. \A r \in Req : step[r] = "idle" /\ wrank[r] = Empty
  OBVIOUS
<1>5. Alone
  BY <1>4 DEF Alone, InTx
<1>6. \A r \in Req : TxOK(r)
  BY <1>4 DEF TxOK, Written, Empty, AfterReg
<1> QED
  BY <1>1, <1>3, <1>5, <1>6 DEF SInv

LEMMA SBeginStep ==
  ASSUME Sequential, SInv, IInv', NEW r \in Req, NEW c, NEW first \in {"duplicate", "find"},
         Begin(r, c, first)
  PROVE  SInv'
<1>1. /\ step[r] = "idle" /\ cmd' = [cmd EXCEPT ![r] = c] /\ step' = [step EXCEPT ![r] = first]
      /\ UNCHANGED <<reg, rank, ent, base, todo, hook, row, rbase, wreg, wrank>>
  BY DEF Begin, db, writes
<1>2. \A q \in Req \ {r} : Same(q)
  BY <1>1 DEF Same, SInv, RankShapes, IInv, ShapesOK
<1>3. step'[r] = first /\ cmd'[r] = c
  BY <1>1 DEF SInv, IInv, ShapesOK
<1>4. RankShapes'
  BY <1>1 DEF SInv, RankShapes
<1>5. TxOK(r)'
  BY <1>1, <1>3 DEF SInv, TxOK, Written, AfterReg
<1>6. ~Busy(c.user, "request")
  BY DEF Begin, Sequential
<1>7. \A q \in Req \ {r} : step'[q] \in InTx => step[q] \in InTx /\ U(q)' = U(q) /\ U(q) # c.user
  BY <1>2, <1>6 DEF Same, U, Busy
<1>8. U(r)' = c.user
  BY <1>3 DEF U
<1>9. Alone'
  BY <1>7, <1>8 DEF SInv, Alone
<1>10. \A q \in Req \ {r} : TxOK(q)'
  BY <1>1, <1>2, Kept
<1> QED
  BY <1>4, <1>5, <1>9, <1>10 DEF SInv

-----------------------------------------------------------------------------
(* The statements on registered_game.                                       *)

\* The entity and the calls are laid out.
LEMMA LayOut ==
  ASSUME SInv, IInv', NEW r \in Req, NEW e, NEW calls \in Calls, NEW hooked,
         Locals(r, e, calls, hooked),
         NEW next \in {"insert", "reload", "remove"}, step' = [step EXCEPT ![r] = next],
         step[r] \in {"duplicate", "find"},
         next = "insert" => Old(r) = NoRow,
         next = "reload" => Old(r) # NoRow /\ Old(r).id = e.id,
         next = "remove" => Old(r) # NoRow /\ Old(r).id = cmd[r].id,
         next # "remove" =>
           \A k \in Cell, c \in Result : Owed(calls, k, c) = Effect(Old(r), e, G(r), k, c),
         next = "remove" =>
           \A k \in Cell, c \in Result : Owed(calls, k, c) = Effect(Old(r), NoRow, G(r), k, c),
         calls # <<>> /\ ~calls[1].add =>
           /\ Old(r) # NoRow /\ calls[1] = Take(Old(r), G(r))
           /\ Old(r).status = Pending => cmd[r].op = "update",
         calls # <<>> /\ Tail(calls) # <<>> => calls[2].add
  PROVE  SInv'
<1>1. /\ ent' = [ent EXCEPT ![r] = e] /\ todo' = [todo EXCEPT ![r] = calls]
      /\ hook' = [hook EXCEPT ![r] = hooked]
      /\ UNCHANGED <<reg, rank, cmd, base, row, rbase, wreg, wrank>>
  BY DEF Locals, db, writes
<1>2. \A q \in Req \ {r} : Same(q)
  BY <1>1 DEF Same, SInv, RankShapes, IInv, ShapesOK
<1>3. step'[r] = next /\ ent'[r] = e /\ todo'[r] = calls
  BY <1>1 DEF SInv, RankShapes, IInv, ShapesOK
<1>4. Old(r)' = Old(r) /\ G(r)' = G(r) /\ cmd'[r] = cmd[r]
  BY <1>1 DEF Old, U, G
<1>5. DOMAIN wrank'[r] = {}
  BY <1>1 DEF SInv, TxOK, Written, AfterReg
<1>6. step'[r] \notin AfterReg /\ step'[r] \notin {"rankReload", "rankWrite", "store"}
  BY <1>3 DEF AfterReg
<1>7. Written(r)'
  BY <1>5 DEF Written
<1>8. Plan(r)'
  BY <1>3, <1>4, <1>6 DEF Plan
<1>9. Balance(r)' /\ Record(r)'
  BY <1>6 DEF Balance, Record
<1>10. Taking(r)'
  BY <1>3, <1>4, <1>5 DEF Taking
<1>11. TxOK(r)'
  BY <1>3, <1>7, <1>8, <1>9, <1>10 DEF TxOK, InTxOK
<1>12. step[r] \in InTx
  BY DEF InTx, Steps
<1>13. /\ DOMAIN todo' = Req /\ DOMAIN row' = Req /\ DOMAIN rbase' = Req
       /\ DOMAIN wrank' = Req /\ DOMAIN hook' = Req
  BY <1>1 DEF SInv, RankShapes
<1> QED
  BY <1>1, <1>2, <1>4, <1>11, <1>12, <1>13, LocalStep

LEMMA OneCall == \A call \in Call : <<call>> \in Calls
BY DEF Calls

LEMMA TwoCalls == \A call \in Call, other \in Call : <<call, other>> \in Calls
BY DEF Calls

\* The calls of a single adjustment.
LEMMA OwedOne ==
  ASSUME NEW call, NEW k, NEW c
  PROVE  /\ Owed(<<call>>, k, c) = Added(call, k, c)
         /\ <<call>> # <<>> /\ <<call>>[1] = call /\ Tail(<<call>>) = <<>>
<1>1. <<call>> # <<>> /\ <<call>>[1] = call /\ Tail(<<call>>) = <<>>
  OBVIOUS
<1>2. Added(call, k, c) \in Int
  BY DEF Added
<1> QED
  BY <1>1, <1>2 DEF Owed

\* Before the registration is written a request sees the table.
LEMMA SeenBefore ==
  ASSUME SInv, NEW r \in Req, step[r] # "idle", step[r] \notin AfterReg
  PROVE  Regs(r)[G(r)] = Old(r)
<1>1. DOMAIN wreg[r] = {}
  BY DEF SInv, IInv, RequestOK
<1> QED
  BY <1>1, SeenRanks

LEMMA SDuplicateStep == ASSUME SInv, IInv', NEW r \in Req, CheckDuplicate(r) PROVE SInv'
<1> DEFINE t == cmd[r].team
           s == DetermineStatus(game[G(r)].status, game[G(r)].winner, t)
           e == CreateReg(t, s)
           calls == IF s = Pending THEN <<>> ELSE <<Adjust(t, G(r), s, TRUE)>>
<1>1. step[r] = "duplicate"
  BY DEF CheckDuplicate
<1>2. CASE Reject(r)
  BY <1>2, SRejectStep
<1>3. CASE ~Reject(r)
  <2>1. /\ Plays(G(r), t) /\ Regs(r)[G(r)] = NoRow
        /\ \E hooked : Locals(r, e, calls, hooked)
        /\ step' = [step EXCEPT ![r] = "insert"]
    BY <1>3 DEF CheckDuplicate
  <2>2. G(r) \in Game /\ Old(r) = NoRow
    BY <1>1, <2>1, SeenRanks, SeenBefore DEF AfterReg
  <2>3. t \in Team
    BY <2>1, <2>2, LedgerAssumption DEF Plays
  <2>4. s \in RegStatus
    BY DEF DetermineStatus, RegStatus, Result, Pending
  <2> DEFINE call == Adjust(t, G(r), s, TRUE)
  <2>5. call = [status |-> s, team |-> t, year |-> YearOf[G(r)], add |-> TRUE]
    BY DEF Adjust
  <2> HIDE DEF call
  <2>6. /\ <<call>> \in Calls /\ call.add
        /\ \A k \in Cell, c \in Result :
             Added(call, k, c) = IF t = k[1] /\ YearOf[G(r)] = k[2] /\ s = c THEN 1 ELSE 0
    <3> HIDE DEF t, s
    <3>1. YearOf[G(r)] \in Year
      BY <2>2, LedgerAssumption
    <3>2. call \in Call
      BY <2>3, <2>4, <2>5, <3>1 DEF Call
    <3>3. call.add /\ call.team = t /\ call.year = YearOf[G(r)] /\ call.status = s
      BY <2>5
    <3> QED
      BY <3>2, <3>3, OneCall DEF Added
  <2>7. calls = IF s = Pending THEN <<>> ELSE <<call>>
    BY DEF call
  <2>8. e # NoRow /\ e.team = t /\ e.status = s
    BY <2>3, <2>4, LedgerAssumption DEF CreateReg, RegRow
  <2> HIDE DEF calls, e, t, s
  <2>9. calls \in Calls /\ (calls # <<>> => calls[1].add /\ Tail(calls) = <<>>)
    BY <2>6, <2>7, OwedOne DEF Calls
  <2>10. ASSUME NEW k \in Cell, NEW c \in Result PROVE Owed(calls, k, c) = Effect(Old(r), e, G(r), k, c)
    <3>1. Effect(Old(r), e, G(r), k, c) = IF t = k[1] /\ YearOf[G(r)] = k[2] /\ s = c THEN 1 ELSE 0
      BY <2>2, <2>8 DEF Effect, Weight
    <3>2. CASE s = Pending
      BY <2>7, <3>1, <3>2, OwedNone DEF Pending, Result
    <3>3. CASE s # Pending
      <4>1. Owed(calls, k, c) = Added(call, k, c)
        BY <2>7, <3>3, OwedOne
      <4> QED
        BY <2>6, <3>1, <4>1
    <3> QED
      BY <3>2, <3>3
  <2> QED
    <3>1. PICK hooked : Locals(r, e, calls, hooked)
      BY <2>1
    <3> QED
      BY <1>1, <2>1, <2>2, <2>9, <2>10, <3>1, LayOut
<1> QED
  BY <1>2, <1>3

\* Two calls owe what either adds.
LEMMA OwedTwo ==
  ASSUME NEW a, NEW b, NEW k, NEW c
  PROVE  /\ Owed(<<a, b>>, k, c) = Added(a, k, c) + Added(b, k, c)
         /\ <<a, b>> # <<>> /\ <<a, b>>[1] = a /\ <<a, b>>[2] = b
<1>1. <<a, b>> # <<>> /\ <<a, b>>[1] = a /\ <<a, b>>[2] = b /\ Tail(<<a, b>>) # <<>>
  OBVIOUS
<1> QED
  BY <1>1 DEF Owed

LEMMA SFindStep == ASSUME SInv, IInv', NEW r \in Req, FindReg(r) PROVE SInv'
<1> DEFINE old == Old(r)
           t   == cmd[r].team
           new == UpdateCheeringTeam(old, t)
           g   == G(r)
<1>1. step[r] = "find" /\ cmd[r].op \in {"update", "delete"}
  BY DEF FindReg, SInv, IInv, RequestOK
<1>2. Regs(r)[g] = old /\ g \in Game /\ FitsIfAny(g, old)
  BY <1>1, SeenBefore, SeenRanks DEF AfterReg
<1>3. CASE Reject(r)
  BY <1>3, SRejectStep
<1>4. CASE ~Reject(r)
  <2>1. Matches(r, cmd[r].id)
    BY <1>4 DEF FindReg
  <2>2. old # NoRow /\ old.id = cmd[r].id /\ Fits(g, old)
    BY <1>2, <2>1 DEF Matches, FitsIfAny
  <2>3. old.team \in Team /\ old.status \in RegStatus
    BY <2>2 DEF Fits, RegRow
  <2> DEFINE take == Take(old, g)
  <2>4. take = [status |-> old.status, team |-> old.team, year |-> YearOf[g], add |-> FALSE]
    BY DEF Take, Adjust
  <2> HIDE DEF take
  <2>5. /\ take \in Call /\ <<take>> \in Calls /\ ~take.add
        /\ \A k \in Cell, c \in Result :
             Added(take, k, c) = IF old.team = k[1] /\ YearOf[g] = k[2] /\ old.status = c THEN -1 ELSE 0
    <3>1. YearOf[g] \in Year
      BY <1>2, LedgerAssumption
    <3>2. take \in Call
      BY <2>3, <2>4, <3>1 DEF Call
    <3>3. ~take.add /\ take.team = old.team /\ take.year = YearOf[g] /\ take.status = old.status
      BY <2>4
    <3> QED
      BY <3>2, <3>3, OneCall DEF Added
  <2>6. CASE cmd[r].op = "delete"
    <3> DEFINE calls == IF old.status = Pending THEN <<>> ELSE <<take>>
    <3>1. /\ \E hooked : Locals(r, old, calls, hooked)
          /\ step' = [step EXCEPT ![r] = "remove"]
      BY <1>2, <1>4, <2>1, <2>6 DEF FindReg, take, Take
    <3> HIDE DEF old, g, calls
    <3>2. calls \in Calls /\ (calls # <<>> => calls[1] = take /\ Tail(calls) = <<>>)
      BY <2>5, OwedOne DEF Calls, calls
    <3>3. ASSUME NEW k \in Cell, NEW c \in Result PROVE Owed(calls, k, c) = Effect(old, NoRow, g, k, c)
      <4>1. Effect(old, NoRow, g, k, c)
              = IF old.team = k[1] /\ YearOf[g] = k[2] /\ old.status = c THEN -1 ELSE 0
        BY <2>2 DEF Effect, Weight
      <4>2. CASE old.status = Pending
        BY <4>1, <4>2, OwedNone DEF calls, Pending, Result
      <4>3. CASE old.status # Pending
        <5>1. Owed(calls, k, c) = Added(take, k, c)
          BY <4>3, OwedOne DEF calls
        <5> QED
          BY <2>5, <4>1, <5>1
      <4> QED
        BY <4>2, <4>3
    <3>4. calls # <<>> => old.status # Pending
      BY DEF calls
    <3> QED
      <4>1. \A k \in Cell, c \in Result : Owed(calls, k, c) = Effect(Old(r), NoRow, G(r), k, c)
        BY <3>3 DEF old, g
      <4>2. calls # <<>> /\ ~calls[1].add =>
              /\ Old(r) # NoRow /\ calls[1] = Take(Old(r), G(r))
              /\ Old(r).status = Pending => cmd[r].op = "update"
        BY <2>2, <3>2, <3>4 DEF old, g, take
      <4>3. calls # <<>> /\ Tail(calls) # <<>> => calls[2].add
        BY <3>2
      <4>4. Old(r) # NoRow /\ Old(r).id = cmd[r].id
        BY <2>2 DEF old
      <4>5. PICK hooked : Locals(r, old, calls, hooked)
        BY <3>1
      <4> QED
        BY <1>1, <3>1, <3>2, <4>1, <4>2, <4>3, <4>4, <4>5, LayOut
  <2>7. CASE cmd[r].op = "update"
    <3> DEFINE calls == SwitchCalls(g, old, new)
    <3>1. /\ t = old.team \/ Plays(g, t)
          /\ \E hooked : Locals(r, new, calls, hooked)
          /\ step' = [step EXCEPT ![r] = "reload"]
      BY <1>2, <1>4, <2>1, <2>7 DEF FindReg
    <3> PICK hooked : Locals(r, new, calls, hooked)
      BY <3>1
    <3>2. CASE t = old.team
      <4>1. new = old /\ calls = <<>>
        BY <3>2 DEF UpdateCheeringTeam, SwitchCalls
      <4> HIDE DEF calls, new, old, g
      <4>2. \A k \in Cell, c \in Result : Owed(calls, k, c) = Effect(old, new, g, k, c)
        BY <4>1, OwedNone DEF Effect, Weight
      <4> QED
        <5>1. \A k \in Cell, c \in Result : Owed(calls, k, c) = Effect(Old(r), new, G(r), k, c)
          BY <4>2 DEF old, g
        <5>2. Old(r) # NoRow /\ Old(r).id = new.id /\ calls \in Calls /\ calls = <<>>
          BY <2>2, <4>1 DEF old, Calls
        <5> QED
          BY <1>1, <3>1, <5>1, <5>2, LayOut
    <3>3. CASE t # old.team
      <4>1. t \in Team
        BY <1>2, <3>1, <3>3, LedgerAssumption DEF Plays
      <4>2. /\ new.team = t /\ new.status = Flipped(old.status) /\ new.id = old.id
            /\ Flipped(old.status) \in RegStatus /\ new # NoRow
        <5>1. Flipped(old.status) \in RegStatus
          BY <2>2 DEF Fits, RegRow, Flipped, RegStatus, Result
        <5>2. new \in RegRow /\ new.team = t /\ new.status = Flipped(old.status) /\ new.id = old.id
          BY <2>2, <3>3, <4>1, <5>1 DEF Fits, RegRow, UpdateCheeringTeam
        <5> QED
          BY <5>1, <5>2, LedgerAssumption
      <4> DEFINE add == Adjust(new.team, g, new.status, TRUE)
      <4>3. add = [status |-> new.status, team |-> new.team, year |-> YearOf[g], add |-> TRUE]
        BY DEF Adjust
      <4>4. calls = <<take, add>>
        BY <3>3, <4>2 DEF SwitchCalls, take, Take
      <4> HIDE DEF add
      <4> HIDE DEF calls, new, old, g
      <4>5. /\ add \in Call /\ add.add
            /\ \A k \in Cell, c \in Result :
                 Added(add, k, c) = IF new.team = k[1] /\ YearOf[g] = k[2] /\ new.status = c THEN 1 ELSE 0
        <5>1. YearOf[g] \in Year
          BY <1>2, LedgerAssumption
        <5>2. add \in Call
          BY <4>1, <4>2, <4>3, <5>1 DEF Call
        <5>3. add.add /\ add.team = new.team /\ add.year = YearOf[g] /\ add.status = new.status
          BY <4>3
        <5> QED
          BY <5>2, <5>3 DEF Added
      <4>6. calls \in Calls /\ calls[1] = take /\ calls[2] = add
        BY <2>5, <4>4, <4>5, TwoCalls, OwedTwo
      <4>7. ASSUME NEW k \in Cell, NEW c \in Result PROVE Owed(calls, k, c) = Effect(old, new, g, k, c)
        <5>1. Owed(calls, k, c) = Added(take, k, c) + Added(add, k, c)
          BY <4>4, OwedTwo
        <5> QED
          BY <2>2, <2>5, <4>2, <4>5, <5>1 DEF Effect, Weight
      <4> QED
        <5>1. \A k \in Cell, c \in Result : Owed(calls, k, c) = Effect(Old(r), new, G(r), k, c)
          BY <4>7 DEF old, g
        <5>2. calls # <<>> /\ ~calls[1].add =>
                /\ Old(r) # NoRow /\ calls[1] = Take(Old(r), G(r))
                /\ Old(r).status = Pending => cmd[r].op = "update"
          BY <2>2, <2>7, <4>6 DEF old, g, take
        <5>3. Old(r) # NoRow /\ Old(r).id = new.id
          BY <2>2, <4>2 DEF old
        <5> QED
          BY <1>1, <3>1, <4>5, <4>6, <5>1, <5>2, <5>3, LayOut
    <3> QED
      BY <3>2, <3>3
  <2> QED
    BY <1>1, <2>6, <2>7
<1> QED
  BY <1>3, <1>4

\* The registration x is written.
LEMMA Landed ==
  ASSUME SInv, IInv', NEW r \in Req, step[r] \in {"insert", "store", "remove"},
         UNCHANGED <<reg, rank, cmd, ent, base, todo, hook, row, rbase, wrank>>,
         step' = [step EXCEPT ![r] = Continue(r)],
         NEW x, wreg' = [wreg EXCEPT ![r] = One(G(r), x)],
         \A k \in Cell, c \in Result : Owed(todo[r], k, c) = Effect(Old(r), x, G(r), k, c)
  PROVE  SInv'
<1>1. \A q \in Req \ {r} : Same(q)
  BY DEF Same, SInv, IInv, ShapesOK
<1>2. step'[r] = Continue(r) /\ wreg'[r] = One(G(r), x)
  BY DEF SInv, IInv, ShapesOK
<1>3. U(r)' = U(r) /\ G(r)' = G(r) /\ Old(r)' = Old(r) /\ Ranks(r)' = Ranks(r)
  BY DEF U, G, Old, Ranks
<1>4. DOMAIN wrank[r] = {} /\ todo[r] \in Calls /\ Taking(r)
  BY DEF SInv, TxOK, Written, InTxOK, AfterReg
<1>5. Continue(r) \in {"commit", "rankFind"} /\ (Continue(r) = "commit" <=> todo[r] = <<>>)
  BY DEF Continue
<1>6. Written(r)'
  BY <1>4 DEF Written
<1>7. Plan(r)' /\ Record(r)'
  BY <1>2, <1>5 DEF Plan, Record
<1>8. Regs(r)'[G(r)] = x
  BY <1>2, <1>3 DEF Regs, Over, One, U, G
<1>9. \A k \in Cell : Ranks(r)[k] = rank[U(r)][k]
  BY <1>4, SeenRanks
<1>10. Balance(r)'
  <2>1. ASSUME NEW k \in Cell, NEW c \in Result
        PROVE  CountOf(Ranks(r)[k], c) + Owed(todo[r], k, c)
                 = CountOf(rank[U(r)][k], c) + Effect(Old(r), x, G(r), k, c)
    BY <1>9
  <2> QED
    BY <1>2, <1>3, <1>5, <1>8, <2>1 DEF Balance
<1>11. Taking(r)'
  BY <1>3, <1>4 DEF Taking
<1>12. TxOK(r)'
  BY <1>4, <1>6, <1>7, <1>10, <1>11 DEF TxOK, InTxOK
<1>13. step[r] \in InTx
  BY DEF InTx, Steps
<1>14. /\ DOMAIN todo' = Req /\ DOMAIN row' = Req /\ DOMAIN rbase' = Req
       /\ DOMAIN wrank' = Req /\ DOMAIN hook' = Req
  BY DEF SInv, RankShapes
<1> QED
  BY <1>1, <1>12, <1>13, <1>14, LocalStep

LEMMA SInsertStep == ASSUME SInv, IInv', NEW r \in Req, InsertReg(r) PROVE SInv'
<1> DEFINE x == [ent[r] EXCEPT !.id = nextId]
<1>1. step[r] = "insert"
  BY DEF InsertReg
<1>2. CASE Reject(r)
  BY <1>2, SRejectStep
<1>3. CASE ~Reject(r)
  <2>1. /\ wreg' = [wreg EXCEPT ![r] = One(G(r), x)]
        /\ step' = [step EXCEPT ![r] = Continue(r)]
        /\ UNCHANGED <<reg, rank, cmd, ent, base, todo, hook, row, rbase, wrank>>
    BY <1>3 DEF InsertReg, local
  <2>2. Fits(G(r), ent[r]) /\ nextId \in Nat /\ InTxOK(r)
    BY <1>1 DEF SInv, TxOK, IInv, RequestOK, TablesOK
  <2>3. /\ x.team = ent[r].team /\ x.status = ent[r].status
        /\ x # NoRow /\ ent[r] # NoRow
    BY <2>2, LedgerAssumption DEF Fits, RegRow
  <2> HIDE DEF x
  <2>4. \A k \in Cell, c \in Result : Owed(todo[r], k, c) = Effect(Old(r), ent[r], G(r), k, c)
    BY <1>1, <2>2 DEF InTxOK, Plan
  <2>5. \A k, c : Effect(Old(r), x, G(r), k, c) = Effect(Old(r), ent[r], G(r), k, c)
    BY <2>3 DEF Effect, Weight
  <2>6. \A k \in Cell, c \in Result : Owed(todo[r], k, c) = Effect(Old(r), x, G(r), k, c)
    BY <2>4, <2>5
  <2> QED
    BY <1>1, <2>1, <2>6, Landed
<1> QED
  BY <1>2, <1>3

LEMMA SReloadStep == ASSUME SInv, IInv', NEW r \in Req, ReloadReg(r) PROVE SInv'
<1>1. step[r] = "reload" /\ step' = [step EXCEPT ![r] = "store"]
  BY DEF ReloadReg
<1>2. UNCHANGED <<reg, rank, cmd, ent, todo, hook, row, rbase, wreg, wrank>>
  BY DEF ReloadReg, db, writes
<1>3. InTxOK(r) /\ Written(r) /\ Regs(r)[G(r)] = Old(r)
  BY <1>1, SeenBefore DEF SInv, TxOK, AfterReg
<1>4. Matches(r, ent[r].id)
  BY <1>1, <1>3 DEF InTxOK, Plan, Matches
<1>5. /\ \A q \in Req \ {r} : base'[q] = base[q]
      /\ base'[r] = Old(r) /\ step'[r] = "store"
  BY <1>1, <1>3, <1>4 DEF ReloadReg, Reloaded, SInv, IInv, ShapesOK
<1>6. \A q \in Req \ {r} : Same(q)
  BY <1>1, <1>2, <1>5 DEF Same, SInv, IInv, ShapesOK
<1>7. U(r)' = U(r) /\ G(r)' = G(r) /\ Old(r)' = Old(r)
  BY <1>2 DEF U, G, Old
<1>8. Written(r)'
  BY <1>1, <1>2, <1>3, <1>5 DEF Written, AfterReg
<1>9. Plan(r)'
  BY <1>1, <1>2, <1>3, <1>5, <1>7 DEF InTxOK, Plan
<1>10. Balance(r)' /\ Record(r)'
  BY <1>5 DEF Balance, Record, AfterReg
<1>11. Taking(r)'
  BY <1>2, <1>3, <1>7 DEF InTxOK, Taking
<1>12. TxOK(r)'
  BY <1>2, <1>3, <1>8, <1>9, <1>10, <1>11 DEF TxOK, InTxOK
<1>13. step[r] \in InTx
  BY <1>1 DEF InTx, Steps
<1>14. /\ DOMAIN todo' = Req /\ DOMAIN row' = Req /\ DOMAIN rbase' = Req
       /\ DOMAIN wrank' = Req /\ DOMAIN hook' = Req
  BY <1>2 DEF SInv, RankShapes
<1> QED
  BY <1>2, <1>6, <1>12, <1>13, <1>14, LocalStep

\* A row patched by its difference to the entity is the entity.
LEMMA PatchedWhole ==
  ASSUME NEW old, NEW new, DOMAIN old = DOMAIN new, new = [c \in DOMAIN new |-> new[c]]
  PROVE  Patched(old, new, old) = new
BY DEF Patched

LEMMA SStoreStep == ASSUME SInv, IInv', NEW r \in Req, StoreReg(r) PROVE SInv'
<1>1. step[r] = "store"
  BY DEF StoreReg
<1>2. CASE Reject(r)
  BY <1>2, SRejectStep
<1>3. CASE ~Reject(r)
  <2>1. InTxOK(r) /\ Regs(r)[G(r)] = Old(r) /\ Fits(G(r), ent[r])
    BY <1>1, SeenBefore DEF SInv, TxOK, AfterReg, IInv, RequestOK
  <2>2. base[r] = Old(r) /\ Old(r) # NoRow /\ Matches(r, ent[r].id)
    BY <1>1, <2>1 DEF InTxOK, Plan, Matches
  <2>3. /\ wreg' = [wreg EXCEPT ![r] = One(G(r), Patched(Old(r), ent[r], Old(r)))]
        /\ step' = [step EXCEPT ![r] = Continue(r)]
        /\ UNCHANGED <<reg, rank, cmd, ent, base, todo, hook, row, rbase, wrank>>
    BY <1>3, <2>2 DEF StoreReg, db, local, Old
  <2>4. Old(r) \in RegRow /\ ent[r] \in RegRow
    BY <1>1, <2>1, <2>2, SeenRanks DEF Fits
  <2>5. Patched(Old(r), ent[r], Old(r)) = ent[r]
    BY <2>4, PatchedWhole DEF RegRow
  <2>6. \A k \in Cell, c \in Result : Owed(todo[r], k, c) = Effect(Old(r), ent[r], G(r), k, c)
    BY <1>1, <2>1 DEF InTxOK, Plan
  <2> QED
    BY <1>1, <2>3, <2>5, <2>6, Landed
<1> QED
  BY <1>2, <1>3

LEMMA SRemoveStep == ASSUME SInv, IInv', NEW r \in Req, RemoveReg(r) PROVE SInv'
<1>1. step[r] = "remove"
  BY DEF RemoveReg
<1>2. InTxOK(r) /\ Regs(r)[G(r)] = Old(r)
  BY <1>1, SeenBefore DEF SInv, TxOK, AfterReg
<1>3. Matches(r, cmd[r].id)
  BY <1>1, <1>2 DEF InTxOK, Plan, Matches
<1>4. /\ wreg' = [wreg EXCEPT ![r] = One(G(r), NoRow)]
      /\ step' = [step EXCEPT ![r] = Continue(r)]
      /\ UNCHANGED <<reg, rank, cmd, ent, base, todo, hook, row, rbase, wrank>>
  BY <1>3 DEF RemoveReg, db, local
<1>5. \A k \in Cell, c \in Result : Owed(todo[r], k, c) = Effect(Old(r), NoRow, G(r), k, c)
  BY <1>1, <1>2 DEF InTxOK, Plan
<1> QED
  BY <1>1, <1>4, <1>5, Landed

-----------------------------------------------------------------------------
(* The statements on the rank rows.                                         *)

LEMMA CountOfInt ==
  ASSUME NEW n \in Counts \cup {NoRow}, NEW c \in Result PROVE CountOf(n, c) \in Int
<1>1. CASE n = NoRow
  BY <1>1 DEF CountOf
<1>2. CASE n # NoRow
  <2>1. n \in [Result -> Nat]
    BY <1>2 DEF Counts
  <2>2. n[c] \in Nat
    BY <2>1
  <2> QED
    BY <1>2, <2>2 DEF CountOf
<1> QED
  BY <1>1, <1>2

\* The call a request is at.
LEMMA AtCall ==
  ASSUME SInv, NEW r \in Req, step[r] \in {"rankFind", "rankReload", "rankWrite"}
  PROVE  /\ InTxOK(r) /\ Written(r)
         /\ todo[r] \in Calls /\ todo[r] # <<>> /\ todo[r][1] \in Call
         /\ RankKey(r) \in Cell /\ Ranks(r)[RankKey(r)] \in Counts \cup {NoRow}
         /\ \A k \in Cell, c \in Result :
              Added(todo[r][1], k, c) =
                IF k = RankKey(r) /\ todo[r][1].status = c THEN IF todo[r][1].add THEN 1 ELSE -1 ELSE 0
<1>1. InTxOK(r) /\ Written(r) /\ step[r] \in AfterReg /\ step[r] # "commit"
  BY DEF SInv, TxOK, AfterReg
<1>2. todo[r] \in Calls /\ todo[r] # <<>>
  BY <1>1 DEF InTxOK, Balance
<1>3. todo[r][1] \in Call
  BY <1>2, CallsHead
<1>4. RankKey(r) = <<todo[r][1].team, todo[r][1].year>>
  BY DEF RankKey
<1>5. todo[r][1].team \in Team /\ todo[r][1].year \in Year
  BY <1>3 DEF Call
<1>6. RankKey(r) \in Cell
  BY <1>4, <1>5 DEF Cell
<1>7. \A k \in Cell : k = RankKey(r) <=> todo[r][1].team = k[1] /\ todo[r][1].year = k[2]
  BY <1>4 DEF Cell
<1>8. \A k \in Cell, c \in Result :
        Added(todo[r][1], k, c) =
          IF k = RankKey(r) /\ todo[r][1].status = c THEN IF todo[r][1].add THEN 1 ELSE -1 ELSE 0
  BY <1>7 DEF Added
<1>9. Ranks(r)[RankKey(r)] \in Counts \cup {NoRow}
  BY <1>6, SeenRanks
<1> QED
  BY <1>1, <1>2, <1>3, <1>6, <1>8, <1>9

LEMMA RankFrame ==
  ASSUME SInv, IInv', NEW r \in Req, step[r] \in {"rankFind", "rankReload", "rankWrite"},
         UNCHANGED <<reg, rank, cmd, ent, base, hook, wreg>>,
         NEW next \in AfterReg, step' = [step EXCEPT ![r] = next],
         DOMAIN todo' = Req, DOMAIN row' = Req, DOMAIN rbase' = Req, DOMAIN wrank' = Req,
         \A q \in Req \ {r} : /\ todo'[q] = todo[q] /\ row'[q] = row[q]
                              /\ rbase'[q] = rbase[q] /\ wrank'[q] = wrank[q],
         Written(r)', todo'[r] \in Calls, Balance(r)', Record(r)', Taking(r)'
  PROVE  SInv'
<1>1. \A q \in Req \ {r} : Same(q)
  BY DEF Same, SInv, IInv, ShapesOK
<1>2. step'[r] = next
  BY DEF SInv, IInv, ShapesOK
<1>3. Plan(r)'
  BY <1>2 DEF Plan, AfterReg
<1>4. TxOK(r)'
  BY <1>3 DEF TxOK, InTxOK
<1>5. step[r] \in InTx
  BY DEF InTx, Steps
<1>6. DOMAIN hook' = Req
  BY DEF SInv, RankShapes
<1> QED
  BY <1>1, <1>4, <1>5, <1>6, LocalStep

LEMMA SFindRankStep == ASSUME SInv, IInv', NEW r \in Req, FindRank(r) PROVE SInv'
<1> DEFINE call == todo[r][1]
           old  == Ranks(r)[RankKey(r)]
           next == IF old = NoRow THEN "rankWrite" ELSE "rankReload"
<1>1. step[r] = "rankFind"
  BY DEF FindRank
<1>2. CASE Refused(call, old)
  BY <1>2, SRejectStep DEF FindRank
<1>3. CASE ~Refused(call, old)
  <2>1. /\ row' = [row EXCEPT ![r] = Adjusted(OrZero(old), call.status, call.add)]
        /\ rbase' = [rbase EXCEPT ![r] = NoRow]
        /\ step' = [step EXCEPT ![r] = next]
        /\ UNCHANGED <<reg, rank, cmd, ent, base, todo, hook, wreg, wrank>>
    BY <1>3 DEF FindRank, OrZero, db, writes
  <2>2. /\ row'[r] = Adjusted(OrZero(old), call.status, call.add)
        /\ rbase'[r] = NoRow /\ step'[r] = next
    BY <2>1 DEF SInv, RankShapes, IInv, ShapesOK
  <2>3. /\ U(r)' = U(r) /\ G(r)' = G(r) /\ Old(r)' = Old(r) /\ Ranks(r)' = Ranks(r)
        /\ Regs(r)' = Regs(r) /\ RankKey(r)' = RankKey(r)
    BY <2>1 DEF U, G, Old, Ranks, Regs, RankKey
  <2>4. InTxOK(r) /\ Written(r) /\ todo[r] # <<>>
    BY <1>1, AtCall
  <2>5. next \in AfterReg /\ next # "commit" /\ step[r] \in AfterReg
    BY <1>1 DEF AfterReg
  <2> HIDE DEF next
  <2>6. Written(r)'
    BY <2>1, <2>2, <2>4, <2>5 DEF Written
  <2>7. Balance(r)'
    BY <2>1, <2>2, <2>3, <2>4, <2>5 DEF InTxOK, Balance
  <2>8. Record(r)'
    BY <1>3, <2>1, <2>2, <2>3 DEF Record, next
  <2>9. Taking(r)'
    BY <2>1, <2>3, <2>4 DEF InTxOK, Taking
  <2>10. todo'[r] \in Calls
    BY <2>1, <2>4 DEF InTxOK
  <2>11. /\ DOMAIN todo' = Req /\ DOMAIN row' = Req /\ DOMAIN rbase' = Req /\ DOMAIN wrank' = Req
         /\ \A q \in Req \ {r} : /\ todo'[q] = todo[q] /\ row'[q] = row[q]
                                 /\ rbase'[q] = rbase[q] /\ wrank'[q] = wrank[q]
    BY <2>1 DEF SInv, RankShapes
  <2> QED
    BY <1>1, <2>1, <2>5, <2>6, <2>7, <2>8, <2>9, <2>10, <2>11, RankFrame
<1> QED
  BY <1>2, <1>3

LEMMA SReloadRankStep == ASSUME SInv, IInv', NEW r \in Req, ReloadRank(r) PROVE SInv'
<1>1. /\ step[r] = "rankReload" /\ step' = [step EXCEPT ![r] = "rankWrite"]
      /\ rbase' = [rbase EXCEPT ![r] = Ranks(r)[RankKey(r)]]
      /\ UNCHANGED <<reg, rank, cmd, ent, base, todo, hook, row, wreg, wrank>>
  BY DEF ReloadRank, db, writes
<1>2. rbase'[r] = Ranks(r)[RankKey(r)] /\ step'[r] = "rankWrite"
  BY <1>1 DEF SInv, RankShapes, IInv, ShapesOK
<1>3. /\ U(r)' = U(r) /\ G(r)' = G(r) /\ Old(r)' = Old(r) /\ Ranks(r)' = Ranks(r)
      /\ Regs(r)' = Regs(r) /\ RankKey(r)' = RankKey(r)
  BY <1>1 DEF U, G, Old, Ranks, Regs, RankKey
<1>4. InTxOK(r) /\ Written(r) /\ todo[r] # <<>>
  BY <1>1, AtCall
<1>5. "rankWrite" \in AfterReg /\ step[r] \in AfterReg
  BY <1>1 DEF AfterReg
<1>6. Written(r)'
  BY <1>1, <1>2, <1>4, <1>5 DEF Written
<1>7. Balance(r)'
  BY <1>1, <1>2, <1>3, <1>4, <1>5 DEF InTxOK, Balance
<1>8. Record(r)'
  BY <1>1, <1>2, <1>3, <1>4 DEF InTxOK, Record
<1>9. Taking(r)'
  BY <1>1, <1>3, <1>4 DEF InTxOK, Taking
<1>10. todo'[r] \in Calls
  BY <1>1, <1>4 DEF InTxOK
<1>11. /\ DOMAIN todo' = Req /\ DOMAIN row' = Req /\ DOMAIN rbase' = Req /\ DOMAIN wrank' = Req
       /\ \A q \in Req \ {r} : /\ todo'[q] = todo[q] /\ row'[q] = row[q]
                               /\ rbase'[q] = rbase[q] /\ wrank'[q] = wrank[q]
  BY <1>1 DEF SInv, RankShapes
<1> QED
  BY <1>1, <1>5, <1>6, <1>7, <1>8, <1>9, <1>10, <1>11, RankFrame

LEMMA SWriteRankStep == ASSUME SInv, IInv', NEW r \in Req, WriteRank(r) PROVE SInv'
<1> DEFINE call == todo[r][1]
           key  == RankKey(r)
           old  == Ranks(r)[key]
           next == IF Tail(todo[r]) = <<>> THEN "commit" ELSE "rankFind"
<1>1. step[r] = "rankWrite"
  BY DEF WriteRank
<1>2. /\ InTxOK(r) /\ Written(r) /\ todo[r] \in Calls /\ todo[r] # <<>> /\ call \in Call
      /\ key \in Cell /\ old \in Counts \cup {NoRow}
  BY <1>1, AtCall
<1>3. rbase[r] = old /\ ~Refused(call, old) /\ row[r] = Adjusted(OrZero(old), call.status, call.add)
  BY <1>1, <1>2 DEF InTxOK, Record
<1>4. /\ row[r] \in Counts /\ row[r] # NoRow
      /\ \A c \in Result : CountOf(row[r], c) = CountOf(old, c) +
           (IF call.status = c THEN IF call.add THEN 1 ELSE -1 ELSE 0)
  <2> HIDE DEF old, call
  <2> QED
    BY <1>2, <1>3, AdjustedCount
<1> DEFINE written == IF rbase[r] = NoRow THEN row[r] ELSE Patched(old, row[r], rbase[r])
<1>5. /\ wrank' = IF row[r] = rbase[r] THEN wrank
                  ELSE [wrank EXCEPT ![r] = Over(One(key, written), @)]
      /\ todo' = [todo EXCEPT ![r] = Tail(@)]
      /\ step' = [step EXCEPT ![r] = next]
      /\ UNCHANGED <<reg, rank, cmd, ent, base, hook, row, rbase, wreg>>
  BY <1>3 DEF WriteRank, db
<1>6. written = row[r]
  <2>1. CASE old = NoRow
    BY <1>3, <2>1
  <2>2. CASE old # NoRow
    <3>1. old \in [Result -> Nat] /\ row[r] \in [Result -> Nat]
      BY <1>2, <1>4, <2>2 DEF Counts
    <3> HIDE DEF old
    <3>2. DOMAIN old = DOMAIN row[r] /\ row[r] = [c \in DOMAIN row[r] |-> row[r][c]]
      BY <3>1
    <3>3. Patched(old, row[r], old) = row[r]
      BY <3>2, PatchedWhole
    <3> QED
      BY <1>3, <2>2, <3>3
  <2> QED
    BY <2>1, <2>2
<1>7. /\ todo'[r] = Tail(todo[r]) /\ step'[r] = next
      /\ wrank'[r] = IF row[r] = old THEN wrank[r] ELSE Over(One(key, row[r]), wrank[r])
  BY <1>3, <1>5, <1>6 DEF SInv, RankShapes, IInv, ShapesOK
<1>8. U(r)' = U(r) /\ G(r)' = G(r) /\ Old(r)' = Old(r) /\ Regs(r)' = Regs(r)
  BY <1>5 DEF U, G, Old, Regs
<1>9. step[r] \in AfterReg /\ next \in AfterReg
      /\ (next = "commit" <=> Tail(todo[r]) = <<>>) /\ next \notin {"rankReload", "rankWrite"}
  BY <1>1 DEF AfterReg
<1> HIDE DEF next, old, key, written, call
<1>10. \A k \in DOMAIN wrank'[r] :
         k \in Cell /\ wrank'[r][k] = IF k = key /\ row[r] # old THEN row[r] ELSE wrank[r][k]
  BY <1>2, <1>7 DEF Over, One, Written
<1>11. Written(r)'
  BY <1>2, <1>4, <1>7, <1>9, <1>10 DEF Written, Over, One
<1>12. /\ DOMAIN rank[U(r)] = Cell /\ rank'[U(r)'] = rank[U(r)]
       /\ Ranks(r) = [k \in Cell |-> IF k \in DOMAIN wrank[r] THEN wrank[r][k] ELSE rank[U(r)][k]]
  <2>1. U(r) \in User
    BY <1>1, SeenRanks
  <2> QED
    BY <1>1, <1>5, <1>8, <2>1, SeenRanks DEF SInv, RankShapes
<1>13. \A k \in Cell : Ranks(r)'[k] = IF k = key THEN row[r] ELSE Ranks(r)[k]
  <2>1. Ranks(r)' = Over(wrank'[r], rank[U(r)])
    BY <1>12 DEF Ranks
  <2>2. CASE row[r] = old
    <3>1. Ranks(r)' = Ranks(r)
      BY <1>7, <2>1, <2>2 DEF Ranks
    <3> QED
      BY <2>2, <3>1 DEF old
  <2>3. CASE row[r] # old
    <3>1. wrank'[r] = Over(One(key, row[r]), wrank[r])
      BY <1>7, <2>3
    <3>2. DOMAIN wrank'[r] = {key} \cup DOMAIN wrank[r]
      BY <3>1 DEF Over, One
    <3>3. wrank'[r][key] = row[r] /\ \A k \in DOMAIN wrank[r] \ {key} : wrank'[r][k] = wrank[r][k]
      BY <3>1 DEF Over, One
    <3>4. \A k \in Cell : Over(wrank'[r], rank[U(r)])[k] =
            IF k \in DOMAIN wrank'[r] THEN wrank'[r][k] ELSE rank[U(r)][k]
      BY <1>12 DEF Over
    <3> QED
      BY <1>12, <2>1, <3>2, <3>3, <3>4
  <2> QED
    BY <2>2, <2>3
<1>14. Balance(r)'
  <2>1. ASSUME NEW k \in Cell, NEW c \in Result
        PROVE  CountOf(Ranks(r)'[k], c) + Owed(Tail(todo[r]), k, c)
                 = CountOf(rank[U(r)][k], c) + Effect(Old(r), Regs(r)[G(r)], G(r), k, c)
    <3>1. CountOf(Ranks(r)[k], c) + Owed(todo[r], k, c)
            = CountOf(rank[U(r)][k], c) + Effect(Old(r), Regs(r)[G(r)], G(r), k, c)
      BY <1>2, <1>9 DEF InTxOK, Balance
    <3>2. /\ Owed(todo[r], k, c) = Added(call, k, c) + Owed(Tail(todo[r]), k, c)
          /\ Owed(Tail(todo[r]), k, c) \in Int /\ Added(call, k, c) \in Int
      BY <1>2, OwedTail DEF call
    <3>3. Added(call, k, c) = IF k = key /\ call.status = c THEN IF call.add THEN 1 ELSE -1 ELSE 0
      BY <1>1, AtCall DEF call, key
    <3>4. CountOf(Ranks(r)[k], c) \in Int
      BY <1>1, SeenRanks, CountOfInt
    <3>5. CountOf(Ranks(r)'[k], c) = CountOf(Ranks(r)[k], c) + Added(call, k, c)
      <4>1. CASE k = key
        BY <1>4, <1>13, <3>3, <4>1 DEF old
      <4>2. CASE k # key
        BY <1>13, <3>3, <3>4, <4>2
      <4> QED
        BY <4>1, <4>2
    <3> QED
      BY <3>1, <3>2, <3>4, <3>5
  <2>2. Tail(todo[r]) = <<>> <=> next = "commit"
    BY <1>9
  <2> QED
    BY <1>7, <1>8, <1>12, <2>1, <2>2 DEF Balance
<1>15. Record(r)'
  BY <1>7, <1>9 DEF Record
<1>16. /\ Tail(todo[r]) \in Calls
       /\ Tail(todo[r]) # <<>> => Tail(todo[r])[1] = todo[r][2] /\ todo[r][2].add
       /\ Tail(todo[r]) # <<>> => Tail(Tail(todo[r])) = <<>>
  BY <1>2, CallsHead DEF InTxOK, Taking
<1>17. Taking(r)'
  BY <1>7, <1>16 DEF Taking
<1>18. /\ DOMAIN todo' = Req /\ DOMAIN row' = Req /\ DOMAIN rbase' = Req /\ DOMAIN wrank' = Req
       /\ \A q \in Req \ {r} : /\ todo'[q] = todo[q] /\ row'[q] = row[q]
                               /\ rbase'[q] = rbase[q] /\ wrank'[q] = wrank[q]
  BY <1>5 DEF SInv, RankShapes
<1> QED
  BY <1>1, <1>5, <1>7, <1>9, <1>11, <1>14, <1>15, <1>16, <1>17, <1>18, RankFrame

-----------------------------------------------------------------------------
(* The end of a transaction, and what happens outside of one.               *)

\* No other transaction of the user is open, so the others see what they saw.
LEMMA SCommitStep == ASSUME SInv, IInv', NEW r \in Req, Commit(r) PROVE SInv'
<1> DEFINE next == IF hook[r] THEN "aggregate" ELSE "idle"
<1>1. /\ step[r] = "commit" /\ Forget(r, next)
      /\ reg' = [reg EXCEPT ![U(r)] = Over(wreg[r], @)]
      /\ rank' = [rank EXCEPT ![U(r)] = Over(wrank[r], @)]
      /\ cmd' = IF hook[r] THEN cmd ELSE [cmd EXCEPT ![r] = NoRow]
  BY DEF Commit
<1>2. U(r) \in User
  BY <1>1, SeenRanks
<1>3. next \notin InTx /\ next \notin Working /\ next \notin AfterReg
  BY DEF InTx, Working, AfterReg
<1> HIDE DEF next
<1>4. step'[r] = next /\ wrank'[r] = Empty
  BY <1>1 DEF Forget, SInv, RankShapes, IInv, ShapesOK
<1>5. \A q \in Req \ {r} : Same(q)
  BY <1>1 DEF Forget, Same, SInv, RankShapes, IInv, ShapesOK
<1>6. RankShapes'
  <2>1. Over(wrank[r], rank[U(r)]) \in [Cell -> Counts \cup {NoRow}]
    <3>1. Ranks(r) = [k \in Cell |-> IF k \in DOMAIN wrank[r] THEN wrank[r][k] ELSE rank[U(r)][k]]
          /\ \A k \in Cell : Ranks(r)[k] \in Counts \cup {NoRow}
      BY <1>1, SeenRanks
    <3> QED
      BY <3>1 DEF Ranks
  <2>2. rank' \in [User -> [Cell -> Counts \cup {NoRow}]]
    BY <1>1, <1>2, <2>1 DEF SInv, RankShapes
  <2>3. /\ DOMAIN todo' = Req /\ DOMAIN row' = Req /\ DOMAIN rbase' = Req
        /\ DOMAIN wrank' = Req /\ DOMAIN hook' = Req
    BY <1>1 DEF Forget, SInv, RankShapes
  <2> QED
    BY <2>2, <2>3 DEF RankShapes
<1>7. \A q \in Req \ {r} : step'[q] \in InTx => step[q] \in InTx /\ U(q)' = U(q)
  BY <1>5 DEF Same, U
<1>8. Alone'
  BY <1>3, <1>4, <1>7 DEF SInv, Alone
<1>9. \A q \in Req \ {r} : step[q] \in InTx => U(q) # U(r)
  BY <1>1 DEF SInv, Alone, InTx, Steps
<1>10. \A q \in Req \ {r} : step[q] \in InTx => reg'[U(q)] = reg[U(q)] /\ rank'[U(q)] = rank[U(q)]
  BY <1>1, <1>9
<1>11. \A q \in Req \ {r} : TxOK(q)'
  BY <1>5, <1>10, Kept
<1>12. TxOK(r)'
  BY <1>3, <1>4 DEF TxOK, Written, Empty, Working
<1> QED
  BY <1>6, <1>8, <1>11, <1>12 DEF SInv

LEMMA SHookStep ==
  ASSUME SInv, IInv', NEW r \in Req, HookAggregate(r) \/ HookZadd(r) \/ HookFails(r) PROVE SInv'
<1>1. /\ step[r] \in InHook
      /\ \E next \in {"zadd", "idle"} : step' = [step EXCEPT ![r] = next]
      /\ cmd' = cmd \/ cmd' = [cmd EXCEPT ![r] = NoRow]
      /\ UNCHANGED <<reg, rank, ent, base, todo, hook, row, rbase, wreg, wrank>>
  BY DEF HookAggregate, HookZadd, HookFails, db, local, writes, InHook
<1>2. \A q \in Req \ {r} : Same(q)
  BY <1>1 DEF Same, SInv, IInv, ShapesOK
<1>3. step'[r] \in {"zadd", "idle"} /\ wrank'[r] = wrank[r]
  BY <1>1 DEF SInv, IInv, ShapesOK
<1>4. step'[r] \notin InTx /\ step'[r] \notin Working /\ step[r] \notin AfterReg
  BY <1>1, <1>3 DEF InTx, Working, AfterReg, InHook
<1>5. TxOK(r)'
  BY <1>3, <1>4 DEF SInv, TxOK, Written, Working
<1>6. /\ DOMAIN todo' = Req /\ DOMAIN row' = Req /\ DOMAIN rbase' = Req
      /\ DOMAIN wrank' = Req /\ DOMAIN hook' = Req
  BY <1>1 DEF SInv, RankShapes
<1> QED
  BY <1>1, <1>2, <1>4, <1>5, <1>6, LocalStep

LEMMA SProcessStep == ASSUME SInv, IInv', ProcessRestarts PROVE SInv'
<1>1. /\ \A r \in Req : step'[r] = "idle" /\ wrank'[r] = Empty
      /\ UNCHANGED <<reg, rank>>
      /\ DOMAIN todo' = Req /\ DOMAIN row' = Req /\ DOMAIN rbase' = Req
      /\ DOMAIN wrank' = Req /\ DOMAIN hook' = Req
  BY DEF ProcessRestarts, db
<1>2. RankShapes'
  BY <1>1 DEF SInv, RankShapes
<1>3. Alone'
  BY <1>1 DEF Alone, InTx
<1>4. \A r \in Req : TxOK(r)'
  BY <1>1 DEF TxOK, Written, Empty, AfterReg
<1> QED
  BY <1>2, <1>3, <1>4 DEF SInv

LEMMA SStillStep ==
  ASSUME SInv, IInv',
         UNCHANGED <<reg, rank, step, cmd, ent, base, todo, hook, row, rbase, wreg, wrank>>
  PROVE  SInv'
<1>1. \A q \in Req : TxOK(q)'
  BY Kept DEF Same
<1>2. RankShapes' /\ Alone'
  BY DEF SInv, RankShapes, Alone, U
<1> QED
  BY <1>1, <1>2 DEF SInv

LEMMA SInvNext == ASSUME Sequential, SInv, [Next]_vars PROVE SInv'
<1>1. IInv'
  BY IInvNext DEF SInv
<1>2. ASSUME NEW r \in Req, Register(r) \/ Update(r) \/ Delete(r) PROVE SInv'
  <2>1. CASE Register(r)
    BY <1>1, <2>1, SBeginStep DEF Register
  <2>2. CASE Update(r)
    BY <1>1, <2>2, SBeginStep DEF Update
  <2>3. CASE Delete(r)
    BY <1>1, <2>3, SBeginStep DEF Delete
  <2> QED
    BY <1>2, <2>1, <2>2, <2>3
<1>3. ASSUME NEW r \in Req, Advance(r) PROVE SInv'
  <2>1. CASE DeadlockDetected(r)
    BY <1>1, <2>1, SRejectStep DEF DeadlockDetected
  <2> QED
    BY <1>1, <1>3, <2>1, SDuplicateStep, SInsertStep, SFindStep, SReloadStep, SStoreStep,
       SRemoveStep, SFindRankStep, SReloadRankStep, SWriteRankStep, SCommitStep, SHookStep
    DEF Advance
<1>4. ASSUME NEW r \in Req, StatementFails(r) \/ HookFails(r) PROVE SInv'
  BY <1>1, <1>4, SRejectStep, SHookStep DEF StatementFails
<1>5. ASSUME NEW u \in User, Sync(u) \/ SyncFails(u) PROVE SInv'
  BY <1>1, <1>5, SStillStep DEF Sync, SyncAggregate, SyncZadd, SyncFails, db, local, writes
<1>6. CASE ProcessRestarts
  BY <1>1, <1>6, SProcessStep
<1>7. CASE RedisRestarts
  BY <1>1, <1>7, SStillStep DEF RedisRestarts, db, local, writes
<1>8. CASE UNCHANGED vars
  BY <1>1, <1>8, SStillStep DEF vars, db, local, writes
<1> QED
  BY <1>2, <1>3, <1>4, <1>5, <1>6, <1>7, <1>8 DEF Next

-----------------------------------------------------------------------------
(* The refinement.                                                          *)

\* What RankBook is shown of the tables.
Shown(x) == IF x = NoRow THEN NoRow ELSE [status |-> x.status, team |-> x.team]

Column == Team \X Year \X Result

TheBook  == [u \in User |-> [g \in Game |-> Shown(reg[u][g])]]
TheTally == [u \in User |-> [k \in Column |-> CountOf(rank[u][<<k[1], k[2]>>], k[3])]]

LEMMA BookMapping ==
  /\ Book!Init <=> /\ TheBook = [u \in User |-> [g \in Game |-> NoRow]]
                   /\ TheTally = [u \in User |-> [k \in Column |-> 0]]
  /\ Book!vars = <<TheBook, TheTally>> /\ Book!vars' = <<TheBook', TheTally'>>
BY DEF Book!Init, Book!vars, Book!Result, Result, TheBook, TheTally, Shown, CountOf, Column

LEMMA BookPut ==
  ASSUME NEW u \in User, NEW g \in Game, NEW e,
         TheBook' = [TheBook EXCEPT ![u][g] = e],
         TheTally' = [TheTally EXCEPT ![u] =
                        [k \in Column |-> @[k] + Book!Change(TheBook[u][g], e, g, k)]]
  PROVE  Book!Put(u, g, e)
BY DEF Book!Put, Book!Result, Result, TheBook, TheTally, Shown, CountOf, Column

\* Both registrations' shown forms weigh what they weigh.
LEMMA ShownChange ==
  ASSUME NEW g \in Game, NEW old \in RegRow \cup {NoRow}, NEW new \in RegRow \cup {NoRow},
         NEW t \in Team, NEW y \in Year, NEW c \in Result
  PROVE  Book!Change(Shown(old), Shown(new), g, <<t, y, c>>) = Effect(old, new, g, <<t, y>>, c)
<1>1. ASSUME NEW x \in RegRow \cup {NoRow}
      PROVE  (IF Book!CountsIn(Shown(x), g, <<t, y, c>>) THEN 1 ELSE 0) = Weight(x, g, <<t, y>>, c)
  <2>1. CASE x = NoRow
    BY <2>1 DEF Shown, Book!CountsIn, Weight
  <2>2. CASE x # NoRow
    <3>1. Shown(x) = [status |-> x.status, team |-> x.team] /\ x \in RegRow
      BY <2>2 DEF Shown
    <3>2. Shown(x) # NoRow /\ Shown(x).status = x.status /\ Shown(x).team = x.team
      BY <3>1, LedgerAssumption DEF RegRow
    <3> QED
      BY <2>2, <3>2 DEF Book!CountsIn, Weight
  <2> QED
    BY <2>1, <2>2
<1> QED
  BY <1>1 DEF Book!Change, Effect

\* A commit is a command of RankBook, or changes nothing RankBook shows.
LEMMA CommitImplements ==
  ASSUME SInv, NEW r \in Req, Commit(r) PROVE [Book!Next]_(Book!vars)
<1> PICK u, g, old, new : u = U(r) /\ g = G(r) /\ old = Old(r) /\ new = Regs(r)[G(r)]
  OBVIOUS
<1> PICK shown : shown = Shown(new)
  OBVIOUS
<1>1. /\ step[r] = "commit"
      /\ reg' = [reg EXCEPT ![u] = Regs(r)] /\ rank' = [rank EXCEPT ![u] = Ranks(r)]
  BY DEF Commit, Regs, Ranks
<1>2. /\ u \in User /\ g \in Game /\ old \in RegRow \cup {NoRow} /\ new \in RegRow \cup {NoRow}
      /\ FitsIfAny(g, old) /\ FitsIfAny(g, new)
      /\ \A k \in Cell : Ranks(r)[k] \in Counts \cup {NoRow}
  BY <1>1, SeenRanks
<1>3. reg \in [User -> [Game -> RegRow \cup {NoRow}]]
      /\ rank \in [User -> [Cell -> Counts \cup {NoRow}]]
  BY DEF SInv, IInv, TablesOK, RankShapes
<1>4. Regs(r) = [reg[u] EXCEPT ![g] = new]
  <2>1. DOMAIN reg[u] = Game /\ DOMAIN wreg[r] \subseteq {g}
    BY <1>2, <1>3 DEF SInv, IInv, RequestOK
  <2>2. Regs(r) = [h \in Game |-> IF h \in DOMAIN wreg[r] THEN wreg[r][h] ELSE reg[u][h]]
    BY <1>2, <2>1 DEF Regs, Over
  <2> QED
    BY <1>2, <1>3, <2>1, <2>2
<1>5. InTxOK(r) /\ todo[r] = <<>>
  BY <1>1 DEF SInv, TxOK, AfterReg, InTxOK, Balance
<1>6. ASSUME NEW k \in Cell, NEW c \in Result
      PROVE  CountOf(Ranks(r)[k], c) = CountOf(rank[u][k], c) + Effect(old, new, g, k, c)
  <2>1. CountOf(Ranks(r)[k], c) + Owed(<<>>, k, c) = CountOf(rank[u][k], c) + Effect(old, new, g, k, c)
    BY <1>1, <1>5 DEF InTxOK, Balance, AfterReg
  <2>2. CountOf(Ranks(r)[k], c) \in Int
    BY <1>2, CountOfInt
  <2> QED
    BY <2>1, <2>2, OwedNone
<1>7. TheBook' = [TheBook EXCEPT ![u][g] = Shown(new)]
  BY <1>1, <1>2, <1>3, <1>4 DEF TheBook
<1>8. TheBook[u][g] = Shown(old)
  BY <1>2 DEF TheBook, Old
<1>9. TheTally' = [TheTally EXCEPT ![u] =
                     [k \in Column |-> @[k] + Book!Change(Shown(old), Shown(new), g, k)]]
  <2>1. ASSUME NEW k \in Column
        PROVE  CountOf(Ranks(r)[<<k[1], k[2]>>], k[3])
                 = CountOf(rank[u][<<k[1], k[2]>>], k[3]) + Book!Change(Shown(old), Shown(new), g, k)
    <3>1. k[1] \in Team /\ k[2] \in Year /\ k[3] \in Result /\ k = <<k[1], k[2], k[3]>>
      BY DEF Column
    <3>2. <<k[1], k[2]>> \in Cell
      BY <3>1 DEF Cell
    <3>3. Book!Change(Shown(old), Shown(new), g, <<k[1], k[2], k[3]>>)
            = Effect(old, new, g, <<k[1], k[2]>>, k[3])
      BY <1>2, <3>1, ShownChange
    <3> QED
      BY <1>6, <3>1, <3>2, <3>3
  <2>2. rank'[u] = Ranks(r) /\ \A v \in User \ {u} : rank'[v] = rank[v]
    BY <1>1, <1>2, <1>3
  <2>3. TheTally'[u] = [k \in Column |-> CountOf(Ranks(r)[<<k[1], k[2]>>], k[3])]
    BY <1>2, <2>2 DEF TheTally
  <2>4. TheTally[u] = [k \in Column |-> CountOf(rank[u][<<k[1], k[2]>>], k[3])]
    BY <1>2 DEF TheTally
  <2>5. TheTally'[u] = [k \in Column |-> TheTally[u][k] + Book!Change(Shown(old), Shown(new), g, k)]
    BY <2>1, <2>3, <2>4
  <2>6. \A v \in User \ {u} : TheTally'[v] = TheTally[v]
    BY <2>2 DEF TheTally
  <2>7. DOMAIN TheTally = User /\ DOMAIN TheTally' = User
        /\ TheTally = [v \in User |-> TheTally[v]] /\ TheTally' = [v \in User |-> TheTally'[v]]
    BY DEF TheTally
  <2> QED
    BY <1>2, <2>5, <2>6, <2>7
<1>10. Book!Put(u, g, shown)
  <2>1. TheTally' = [TheTally EXCEPT ![u] =
                       [k \in Column |-> @[k] + Book!Change(TheBook[u][g], shown, g, k)]]
    BY <1>8, <1>9
  <2>2. TheBook' = [TheBook EXCEPT ![u][g] = shown]
    BY <1>7
  <2> QED
    BY <1>2, <2>1, <2>2, BookPut
<1>11. ASSUME NEW x \in RegRow \cup {NoRow}
       PROVE  /\ x = NoRow => Shown(x) = NoRow
              /\ x # NoRow => Shown(x) \in Book!Entry /\ Shown(x) # NoRow /\ Shown(x).team = x.team
  <2>1. CASE x = NoRow
    BY <2>1 DEF Shown
  <2>2. CASE x # NoRow
    <3>1. Shown(x) = [status |-> x.status, team |-> x.team] /\ x.team \in Team /\ x.status \in RegStatus
      BY <2>2 DEF Shown, RegRow
    <3>2. Shown(x) \in [status : RegStatus, team : Team]
      BY <3>1
    <3>3. Book!Entry = [status : RegStatus, team : Team]
      BY DEF Book!Entry, Book!RegStatus, RegStatus, Book!Result, Result, Book!Pending, Pending
    <3> QED
      BY <2>2, <3>1, <3>2, <3>3, LedgerAssumption
  <2> QED
    BY <2>1, <2>2
<1>12. CASE Shown(old) = Shown(new)
  <2>1. TheBook' = TheBook
    <3>1. TheBook[u] = [h \in Game |-> TheBook[u][h]] /\ TheBook = [v \in User |-> TheBook[v]]
      BY <1>2 DEF TheBook
    <3>2. [TheBook[u] EXCEPT ![g] = Shown(new)] = TheBook[u]
      BY <1>2, <1>8, <1>12, <3>1
    <3> QED
      BY <1>2, <1>7, <3>1, <3>2
  <2>2. \A k \in Column : Book!Change(Shown(old), Shown(new), g, k) = 0
    BY <1>12 DEF Book!Change
  <2>3. TheTally' = TheTally
    <3>1. TheTally[u] = [k \in Column |-> TheTally[u][k]] /\ \A k \in Column : TheTally[u][k] \in Int
      BY <1>2, <1>3, CountOfInt DEF TheTally, Column, Cell
    <3>2. [k \in Column |-> TheTally[u][k] + Book!Change(Shown(old), Shown(new), g, k)] = TheTally[u]
      BY <2>2, <3>1
    <3>3. TheTally = [v \in User |-> TheTally[v]]
      BY DEF TheTally
    <3> QED
      BY <1>9, <3>2, <3>3
  <2> QED
    BY <2>1, <2>3, BookMapping
<1>13. CASE Shown(old) # Shown(new)
  <2>1. Book!Register(u, g) \/ Book!ChangeTeam(u, g) \/ Book!Withdraw(u, g)
    <3>1. /\ Book!Register(u, g) <=> TheBook[u][g] = NoRow /\ \E e \in Book!Entry : Book!Put(u, g, e)
          /\ Book!ChangeTeam(u, g) <=>
               /\ TheBook[u][g] # NoRow
               /\ \E e \in Book!Entry : e.team # TheBook[u][g].team /\ Book!Put(u, g, e)
          /\ Book!Withdraw(u, g) <=> TheBook[u][g] # NoRow /\ Book!Put(u, g, NoRow)
      BY DEF Book!Register, Book!ChangeTeam, Book!Withdraw, TheBook, Shown
    <3>2. CASE old = NoRow
      BY <1>8, <1>10, <1>11, <1>13, <1>2, <3>1, <3>2
    <3>3. CASE old # NoRow /\ new = NoRow
      BY <1>8, <1>10, <1>11, <1>2, <3>1, <3>3
    <3>4. CASE old # NoRow /\ new # NoRow
      <4>1. Fits(g, old) /\ Fits(g, new)
        BY <1>2, <3>4 DEF FitsIfAny
      <4>2. old.team # new.team
        BY <1>13, <3>4, <4>1 DEF Fits, Shown
      <4> QED
        BY <1>2, <1>8, <1>10, <1>11, <3>1, <3>4, <4>2
    <3> QED
      BY <3>2, <3>3, <3>4
  <2> QED
    BY <1>2, <2>1 DEF Book!Next
<1> QED
  BY <1>12, <1>13

LEMMA StepImplements ==
  ASSUME SInv, [Next]_vars PROVE [Book!Next]_(Book!vars)
<1>1. ASSUME UNCHANGED <<reg, rank>> PROVE [Book!Next]_(Book!vars)
  <2>1. TheBook' = TheBook /\ TheTally' = TheTally
    BY <1>1 DEF TheBook, TheTally
  <2> QED
    BY <2>1, BookMapping
<1>2. CASE \E r \in Req : Commit(r)
  BY <1>2, CommitImplements
<1>3. ASSUME NEW r \in Req, Register(r) \/ Update(r) \/ Delete(r) \/ StatementFails(r)
                                 \/ HookFails(r)
      PROVE  UNCHANGED <<reg, rank>>
  BY <1>3 DEF Register, Update, Delete, Begin, StatementFails, HookFails, Reject, db
<1>4. ASSUME NEW r \in Req, Advance(r), ~Commit(r) PROVE UNCHANGED <<reg, rank>>
  <2>1. CASE CheckDuplicate(r) \/ InsertReg(r) \/ FindReg(r)
    <3>1. Reject(r) => UNCHANGED <<reg, rank>>
      BY DEF Reject, db
    <3>2. \A e, calls, hooked : Locals(r, e, calls, hooked) => UNCHANGED <<reg, rank>>
      BY DEF Locals, db
    <3>3. CASE CheckDuplicate(r)
      <4>1. Reject(r) \/ \E e, calls, hooked : Locals(r, e, calls, hooked)
        BY <3>3 DEF CheckDuplicate
      <4> QED
        BY <3>1, <3>2, <4>1
    <3>4. CASE InsertReg(r)
      BY <3>1, <3>4 DEF InsertReg
    <3>5. CASE FindReg(r)
      <4>1. step[r] = "find"
        BY <3>5 DEF FindReg
      <4>2. cmd[r].op \in {"update", "delete"}
        BY <4>1 DEF SInv, IInv, RequestOK
      <4>3. Reject(r) \/ \E e, calls, hooked : Locals(r, e, calls, hooked)
        BY <3>5, <4>2 DEF FindReg
      <4> QED
        BY <3>1, <3>2, <4>3
    <3> QED
      BY <2>1, <3>3, <3>4, <3>5
  <2>2. CASE ReloadReg(r) \/ StoreReg(r) \/ RemoveReg(r)
    BY <2>2 DEF ReloadReg, StoreReg, RemoveReg, Reject, db
  <2>3. CASE FindRank(r) \/ ReloadRank(r) \/ WriteRank(r)
    BY <2>3 DEF FindRank, ReloadRank, WriteRank, Reject, db
  <2>4. CASE DeadlockDetected(r) \/ HookAggregate(r) \/ HookZadd(r)
    BY <2>4 DEF DeadlockDetected, HookAggregate, HookZadd, Reject, db
  <2> QED
    BY <1>4, <2>1, <2>2, <2>3, <2>4 DEF Advance
<1>5. ASSUME NEW u \in User, Sync(u) \/ SyncFails(u) PROVE UNCHANGED <<reg, rank>>
  BY <1>5 DEF Sync, SyncAggregate, SyncZadd, SyncFails, db
<1>6. CASE ProcessRestarts \/ RedisRestarts \/ UNCHANGED vars
  BY <1>1, <1>6 DEF ProcessRestarts, RedisRestarts, vars, db
<1> QED
  BY <1>1, <1>2, <1>3, <1>4, <1>5, <1>6 DEF Next

LEMMA InitImplements == ASSUME Init PROVE Book!Init
<1>1. reg = [u \in User |-> [g \in Game |-> NoRow]]
  BY DEF Init
<1>2. TheBook = [u \in User |-> [g \in Game |-> NoRow]]
  BY <1>1 DEF TheBook, Shown
<1>3. PICK t \in Team, y \in Year :
        rank = [u \in User |-> [k \in Team \X Year |-> IF k = <<t, y>> THEN ZeroCounts ELSE NoRow]]
  BY DEF Init
<1>4. \A u \in User, k \in Column : CountOf(rank[u][<<k[1], k[2]>>], k[3]) = 0
  <2>1. ASSUME NEW u \in User, NEW k \in Column
        PROVE  CountOf(rank[u][<<k[1], k[2]>>], k[3]) = 0
    <3>1. k[1] \in Team /\ k[2] \in Year /\ k[3] \in Result
      BY DEF Column
    <3>2. rank[u][<<k[1], k[2]>>] \in {ZeroCounts, NoRow}
      BY <1>3, <3>1
    <3> QED
      BY <3>1, <3>2 DEF CountOf, ZeroCounts
  <2> QED
    BY <2>1
<1>5. TheTally = [u \in User |-> [k \in Column |-> 0]]
  BY <1>4 DEF TheTally
<1> QED
  BY <1>2, <1>5, BookMapping

\* As long as the requests of one user do not overlap, the transactions of
\* register, update and delete, their statements interleaved with other users',
\* with hooks and cache fills, failing and restarting anywhere, do what RankBook's
\* one-step commands do.
THEOREM TransactionsImplementBook == Sequential => (Spec => BookSpec)
<1> SUFFICES ASSUME Sequential PROVE Spec => BookSpec
  OBVIOUS
<1>1. Init => SInv /\ Book!Init
  BY SInit, InitImplements
<1>2. SInv /\ [Next]_vars => SInv' /\ [Book!Next]_(Book!vars)
  BY SInvNext, StepImplements
<1> QED
  BY <1>1, <1>2, PTL DEF Spec, BookSpec, Book!Spec

\* What RankBook says of the tables, by the names it goes under here.
LEMMA BookNames ==
  /\ Book!TypeOK <=> /\ TheBook \in [User -> Book!Page]
                     /\ TheTally \in [User -> [Column -> Int]]
  /\ Book!TallyExact <=>
       \A u \in User, k \in Column :
         TheTally[u][k] = Cardinality({g \in Game : Book!CountsIn(TheBook[u][g], g, k)})
  /\ \A u \in User, g \in Game : \A e : Book!Put(u, g, e) <=>
       /\ TheBook' = [TheBook EXCEPT ![u][g] = e]
       /\ TheTally' = [TheTally EXCEPT ![u] =
                         [k \in Column |-> @[k] + Book!Change(TheBook[u][g], e, g, k)]]
<1>1. \A S : Book!Cardinality(S) = Cardinality(S)
  BY DEF Book!Cardinality, Cardinality
<1> USE DEF Book!Result, Result, TheBook, TheTally, Shown, CountOf, Column
<1>2. Book!TypeOK <=> TheBook \in [User -> Book!Page] /\ TheTally \in [User -> [Column -> Int]]
  BY DEF Book!TypeOK
<1>3. Book!TallyExact <=>
       \A u \in User, k \in Column :
         TheTally[u][k] = Cardinality({g \in Game : Book!CountsIn(TheBook[u][g], g, k)})
  BY <1>1 DEF Book!TallyExact, Book!Counted
<1>4. \A u \in User, g \in Game : \A e : Book!Put(u, g, e) <=>
       /\ TheBook' = [TheBook EXCEPT ![u][g] = e]
       /\ TheTally' = [TheTally EXCEPT ![u] =
                         [k \in Column |-> @[k] + Book!Change(TheBook[u][g], e, g, k)]]
  BY DEF Book!Put
<1> QED
  BY <1>2, <1>3, <1>4

\* And of the tables after a step.
LEMMA NextNames ==
  /\ Book!TypeOK' <=> /\ TheBook' \in [User -> Book!Page]
                      /\ TheTally' \in [User -> [Column -> Int]]
  /\ Book!TallyExact' <=>
       \A u \in User, k \in Column :
         TheTally'[u][k] = Cardinality({g \in Game : Book!CountsIn(TheBook'[u][g], g, k)})
<1>1. \A S : Book!Cardinality(S) = Cardinality(S)
  BY DEF Book!Cardinality, Cardinality
<1> USE DEF Book!Result, Result, TheBook, TheTally, Shown, CountOf, Column
<1>2. Book!TypeOK' <=> TheBook' \in [User -> Book!Page] /\ TheTally' \in [User -> [Column -> Int]]
  BY DEF Book!TypeOK
<1>3. Book!TallyExact' <=>
       \A u \in User, k \in Column :
         TheTally'[u][k] = Cardinality({g \in Game : Book!CountsIn(TheBook'[u][g], g, k)})
  BY <1>1 DEF Book!TallyExact, Book!Counted
<1> QED
  BY <1>2, <1>3

\* The games counted in a cell are finitely many, and replacing the entry of
\* one game changes their number by Change.
LEMMA CountChange ==
  ASSUME NEW page \in Book!Page, NEW g \in Game, NEW new \in (Book!Entry \cup {NoRow}), NEW k \in Column
  PROVE  Cardinality({h \in Game : Book!CountsIn([page EXCEPT ![g] = new][h], h, k)})
           = Cardinality({h \in Game : Book!CountsIn(page[h], h, k)}) + Book!Change(page[g], new, g, k)
<1> DEFINE A == {h \in Game : Book!CountsIn(page[h], h, k)}
           B == {h \in Game : Book!CountsIn([page EXCEPT ![g] = new][h], h, k)}
<1>1. IsFiniteSet(A) /\ Cardinality(A) \in Nat
  <2>1. A \subseteq Game
    OBVIOUS
  <2> QED
    BY <2>1, FS_Subset, FS_CardinalityType, LedgerAssumption
<1>2. \A h \in Game \ {g} : h \in A <=> h \in B
  BY DEF Book!Page
<1>3. g \in A <=> Book!CountsIn(page[g], g, k)
  OBVIOUS
<1>4. g \in B <=> Book!CountsIn(new, g, k)
  BY DEF Book!Page
<1> DEFINE d == Book!Change(page[g], new, g, k)
<1> HIDE DEF A, B
<1>5. ASSUME Book!CountsIn(page[g], g, k) <=> Book!CountsIn(new, g, k)
      PROVE  Cardinality(B) = Cardinality(A) + d
  <2>1. A = B
    BY <1>2, <1>3, <1>4, <1>5 DEF A, B
  <2>2. d = 0
    BY <1>5 DEF Book!Change
  <2> HIDE DEF d
  <2> QED
    BY <1>1, <2>1, <2>2
<1>6. ASSUME Book!CountsIn(page[g], g, k), ~Book!CountsIn(new, g, k)
      PROVE  Cardinality(B) = Cardinality(A) + d
  <2>1. g \in A /\ B = A \ {g}
    BY <1>2, <1>3, <1>4, <1>6 DEF A, B
  <2>2. Cardinality(B) = Cardinality(A) - 1
    BY <1>1, <2>1, FS_RemoveElement
  <2>3. d = -1
    BY <1>6 DEF Book!Change
  <2> HIDE DEF d
  <2> QED
    BY <1>1, <2>2, <2>3
<1>7. ASSUME ~Book!CountsIn(page[g], g, k), Book!CountsIn(new, g, k)
      PROVE  Cardinality(B) = Cardinality(A) + d
  <2>1. g \notin A /\ B = A \cup {g}
    BY <1>2, <1>3, <1>4, <1>7 DEF A, B
  <2>2. Cardinality(B) = Cardinality(A) + 1
    BY <1>1, <2>1, FS_AddElement
  <2>3. d = 1
    BY <1>7 DEF Book!Change
  <2> HIDE DEF d
  <2> QED
    BY <1>1, <2>2, <2>3
<1>8. Cardinality(B) = Cardinality(A) + d
  BY <1>5, <1>6, <1>7
<1> QED
  BY <1>8, Zenon DEF A, B

BookInv == Book!TypeOK /\ Book!TallyExact

\* Replacing one entry together with its change of the tally keeps the books.
LEMMA PutKeeps ==
  ASSUME BookInv, NEW u \in User, NEW g \in Game, NEW new \in (Book!Entry \cup {NoRow}),
         Book!Put(u, g, new)
  PROVE  BookInv'
<1> DEFINE page == [TheBook[u] EXCEPT ![g] = new]
           tallies == [k \in Column |-> TheTally[u][k] + Book!Change(TheBook[u][g], new, g, k)]
<1>1. /\ TheBook \in [User -> Book!Page] /\ TheTally \in [User -> [Column -> Int]]
      /\ \A v \in User, k \in Column :
           TheTally[v][k] = Cardinality({h \in Game : Book!CountsIn(TheBook[v][h], h, k)})
  BY BookNames DEF BookInv
<1>2. TheBook[u] \in Book!Page /\ TheTally[u] \in [Column -> Int]
  BY <1>1
<1>3. TheBook' = [TheBook EXCEPT ![u] = page] /\ TheTally' = [TheTally EXCEPT ![u] = tallies]
  BY BookNames
<1>4. page \in Book!Page
  BY <1>2 DEF Book!Page
<1>5. tallies \in [Column -> Int]
  BY <1>2 DEF Book!Change
<1>6. \A k \in Column : tallies[k] = Cardinality({h \in Game : Book!CountsIn(page[h], h, k)})
  <2> SUFFICES ASSUME NEW k \in Column
               PROVE  tallies[k] = Cardinality({h \in Game : Book!CountsIn(page[h], h, k)})
    OBVIOUS
  <2>1. tallies[k] = TheTally[u][k] + Book!Change(TheBook[u][g], new, g, k)
    OBVIOUS
  <2>2. TheTally[u][k] = Cardinality({h \in Game : Book!CountsIn(TheBook[u][h], h, k)})
    BY <1>1
  <2>3. Cardinality({h \in Game : Book!CountsIn(page[h], h, k)})
          = Cardinality({h \in Game : Book!CountsIn(TheBook[u][h], h, k)})
              + Book!Change(TheBook[u][g], new, g, k)
    BY <1>2, CountChange
  <2> QED
    BY <2>1, <2>2, <2>3
<1> HIDE DEF page, tallies
<1>7. TheBook' \in [User -> Book!Page] /\ TheTally' \in [User -> [Column -> Int]]
  BY <1>1, <1>3, <1>4, <1>5
<1>8. ASSUME NEW v \in User, NEW k \in Column
      PROVE  TheTally'[v][k] = Cardinality({h \in Game : Book!CountsIn(TheBook'[v][h], h, k)})
  <2>1. CASE v = u
    <3>1. TheBook'[v] = page /\ TheTally'[v] = tallies
      BY <1>1, <1>3, <2>1
    <3> QED
      BY <1>6, <3>1
  <2>2. CASE v # u
    <3>1. TheBook'[v] = TheBook[v] /\ TheTally'[v] = TheTally[v]
      BY <1>1, <1>3, <2>2
    <3> QED
      BY <1>1, <3>1
  <2> QED
    BY <2>1, <2>2
<1> QED
  BY <1>7, <1>8, NextNames DEF BookInv

LEMMA BookInvInit == ASSUME Book!Init PROVE BookInv
<1>1. /\ TheBook = [u \in User |-> [g \in Game |-> NoRow]]
      /\ TheTally = [u \in User |-> [k \in Column |-> 0]]
  BY BookMapping
<1>2. TheBook \in [User -> Book!Page] /\ TheTally \in [User -> [Column -> Int]]
  BY <1>1 DEF Book!Page
<1>3. \A u \in User, k \in Column : {g \in Game : Book!CountsIn(TheBook[u][g], g, k)} = {}
  BY <1>1 DEF Book!CountsIn
<1> QED
  BY <1>1, <1>2, <1>3, FS_EmptySet, BookNames DEF BookInv

LEMMA BookInvNext == ASSUME BookInv, [Book!Next]_(Book!vars) PROVE BookInv'
<1>1. ASSUME UNCHANGED Book!vars PROVE BookInv'
  <2>1. TheBook' = TheBook /\ TheTally' = TheTally
    BY <1>1, BookMapping
  <2> QED
    BY <2>1, BookNames, NextNames DEF BookInv
<1>2. ASSUME NEW u \in User, NEW g \in Game,
             Book!Register(u, g) \/ Book!ChangeTeam(u, g) \/ Book!Withdraw(u, g)
      PROVE  BookInv'
  <2>1. \E new \in (Book!Entry \cup {NoRow}) : Book!Put(u, g, new)
    BY <1>2 DEF Book!Register, Book!ChangeTeam, Book!Withdraw
  <2> QED
    BY <2>1, PutKeeps
<1> QED
  BY <1>1, <1>2 DEF Book!Next

\* In the book of one-step commands every rank counter is the number of the
\* user's registrations it stands for.
THEOREM BookTallyExact == BookSpec => [](Book!TypeOK /\ Book!TallyExact)
<1>1. Book!Init => BookInv
  BY BookInvInit
<1>2. BookInv /\ [Book!Next]_(Book!vars) => BookInv'
  BY BookInvNext
<1>3. BookInv => Book!TypeOK /\ Book!TallyExact
  BY DEF BookInv
<1> QED
  BY <1>1, <1>2, <1>3, PTL DEF BookSpec, Book!Spec

\* The registrations a counter stands for.
CountedGames(u, t, y, c) ==
  {g \in Game : /\ reg[u][g] # NoRow
                /\ reg[u][g].team = t /\ YearOf[g] = y
                /\ reg[u][g].status = c}

LEMMA TalliesExact == ASSUME SInv, Book!TallyExact PROVE LedgerExact
<1> SUFFICES ASSUME NEW u \in User, NEW t \in Team, NEW y \in Year, NEW c \in Result
             PROVE  CountOf(rank[u][<<t, y>>], c) = Cardinality(CountedGames(u, t, y, c))
  BY DEF LedgerExact, CountOf, CountedGames
<1>2. \A v \in User, k \in Column :
        TheTally[v][k] = Cardinality({g \in Game : Book!CountsIn(TheBook[v][g], g, k)})
  BY BookNames
<1>3. <<t, y, c>> \in Column
  BY DEF Column
<1>4. TheTally[u][<<t, y, c>>] = CountOf(rank[u][<<t, y>>], c)
  BY <1>3 DEF TheTally
<1>5. \A g \in Game : Book!CountsIn(TheBook[u][g], g, <<t, y, c>>) <=> g \in CountedGames(u, t, y, c)
  <2> SUFFICES ASSUME NEW g \in Game
               PROVE  Book!CountsIn(Shown(reg[u][g]), g, <<t, y, c>>) <=> g \in CountedGames(u, t, y, c)
    BY DEF TheBook
  <2>1. CASE reg[u][g] = NoRow
    BY <2>1 DEF Shown, CountedGames, Book!CountsIn
  <2>2. CASE reg[u][g] # NoRow
    <3>1. reg[u][g] \in RegRow
      BY <2>2 DEF SInv, IInv, TablesOK
    <3>2. /\ Shown(reg[u][g]) # NoRow /\ Shown(reg[u][g]).team = reg[u][g].team
          /\ Shown(reg[u][g]).status = reg[u][g].status
      BY <2>2, <3>1, LedgerAssumption DEF Shown, RegRow
    <3> QED
      BY <2>2, <3>2 DEF CountedGames, Book!CountsIn
  <2> QED
    BY <2>1, <2>2
<1>6. {g \in Game : Book!CountsIn(TheBook[u][g], g, <<t, y, c>>)} = CountedGames(u, t, y, c)
  BY <1>5 DEF CountedGames
<1> QED
  BY <1>2, <1>3, <1>4, <1>6

LEMMA Sequentially == Sequential => (Spec => []SInv)
<1> SUFFICES ASSUME Sequential PROVE Spec => []SInv
  OBVIOUS
<1>1. Init => SInv
  BY SInit
<1>2. SInv /\ [Next]_vars => SInv'
  BY SInvNext
<1> QED
  BY <1>1, <1>2, PTL DEF Spec

\* As long as the requests of one user do not overlap, every rank counter is at
\* every moment the number of committed registrations it stands for, whatever
\* statement fails, whatever process dies, and whoever else is served meanwhile.
THEOREM LedgerStaysExact == Sequential => (Spec => []LedgerExact)
<1> SUFFICES ASSUME Sequential PROVE Spec => []LedgerExact
  OBVIOUS
<1>1. Spec => []SInv
  BY Sequentially
<1>2. Spec => BookSpec
  BY TransactionsImplementBook
<1>3. BookSpec => []Book!TallyExact
  BY BookTallyExact, PTL
<1>4. SInv /\ Book!TallyExact => LedgerExact
  BY TalliesExact
<1> QED
  BY <1>1, <1>2, <1>3, <1>4, PTL

\* A counter that stands for a registration is not zero.
LEMMA CountedOnce ==
  ASSUME SInv, LedgerExact, NEW u \in User, NEW g \in Game, reg[u][g] # NoRow,
         reg[u][g].status \in Result
  PROVE  CountOf(rank[u][<<reg[u][g].team, YearOf[g]>>], reg[u][g].status) # 0
<1> DEFINE S == CountedGames(u, reg[u][g].team, YearOf[g], reg[u][g].status)
<1>1. reg[u][g].team \in Team /\ YearOf[g] \in Year
  BY LedgerAssumption DEF SInv, IInv, TablesOK, RegRow
<1>2. CountOf(rank[u][<<reg[u][g].team, YearOf[g]>>], reg[u][g].status) = Cardinality(S)
  BY <1>1 DEF LedgerExact, CountOf, CountedGames
<1>3. IsFiniteSet(S) /\ g \in S
  BY LedgerAssumption, FS_Subset DEF CountedGames
<1> HIDE DEF S
<1>4. Cardinality(S) # 0
  BY <1>3, FS_EmptySet
<1> QED
  BY <1>2, <1>4

LEMMA RefusalStep ==
  ASSUME SInv, LedgerExact, NEW r \in Req, FindRank(r), step'[r] = "idle"
  PROVE  cmd[r].op = "update" /\ reg[U(r)][G(r)].status = Pending
<1> DEFINE call == todo[r][1]
           old  == Ranks(r)[RankKey(r)]
<1>1. step[r] = "rankFind"
  BY DEF FindRank
<1>2. Refused(call, old)
  BY DEF FindRank, SInv, IInv, ShapesOK
<1>3. InTxOK(r) /\ todo[r] # <<>> /\ call \in Call /\ RankKey(r) \in Cell
  BY <1>1, AtCall
<1>4. ~call.add
  BY <1>2 DEF Refused
<1>5. /\ Old(r) # NoRow /\ call = Take(Old(r), G(r)) /\ DOMAIN wrank[r] = {}
      /\ Old(r).status = Pending => cmd[r].op = "update"
  BY <1>3, <1>4 DEF InTxOK, Taking
<1>6. call = [status |-> Old(r).status, team |-> Old(r).team, year |-> YearOf[G(r)], add |-> FALSE]
  BY <1>5 DEF Take, Adjust
<1>7. RankKey(r) = <<Old(r).team, YearOf[G(r)]>> /\ call.status = Old(r).status
  BY <1>6 DEF RankKey
<1>8. old = rank[U(r)][RankKey(r)] /\ U(r) \in User /\ G(r) \in Game /\ Old(r) \in RegRow
  BY <1>1, <1>3, <1>5, SeenRanks
<1>9. ASSUME Old(r).status \in Result PROVE FALSE
  <2>1. CountOf(old, Old(r).status) # 0
    BY <1>5, <1>7, <1>8, <1>9, CountedOnce DEF Old
  <2>2. CountOf(old, Old(r).status) = 0
    BY <1>2, <1>7, <1>9 DEF Refused, CountOf, Pending, Result
  <2> QED
    BY <2>1, <2>2
<1>10. Old(r).status = Pending
  BY <1>8, <1>9 DEF RegRow, RegStatus
<1> QED
  BY <1>5, <1>10 DEF Old

\* What was counted can be taken back: a request that comes to a rank row with a
\* call for it is turned away only when it switches sides in a registration
\* whose game has no result yet.
THEOREM CountedIsNotRefused == Sequential => (Spec => RefusesOnlyPending)
<1> SUFFICES ASSUME Sequential PROVE Spec => RefusesOnlyPending
  OBVIOUS
<1>1. Spec => []SInv /\ []LedgerExact
  BY Sequentially, LedgerStaysExact, PTL
<1>2. SInv /\ LedgerExact => [\A r \in Req : FindRank(r) /\ step'[r] = "idle" =>
                                cmd[r].op = "update" /\ reg[U(r)][G(r)].status = Pending]_vars
  BY RefusalStep
<1> QED
  BY <1>1, <1>2, PTL DEF RefusesOnlyPending

-----------------------------------------------------------------------------
(* 4. Requests, hooks and cache fills of one user, one after the other.     *)

\* A new request of a user finds nothing of that user's work under way.
Serial == MayOverlap = {}

Stats(u) == AggregateRankStats(u)

\* The rankings hold the scores of the user's committed rank rows.
Current(u) == \A k \in DOMAIN Stats(u) : zset[u][k] = Stats(u)[k]

CacheShapes ==
  /\ DOMAIN zset = User /\ DOMAIN sync = User /\ DOMAIN pulled = User /\ DOMAIN seen = Req
  /\ \A u \in User : sync[u] \in {"idle", "aggregate", "zadd"}

\* A user has one request under way, in its transaction or in the hook behind it,
\* or is being synced, or neither.
Single ==
  /\ \A r, q \in Req : step[r] # "idle" /\ step[q] # "idle" /\ U(r) = U(q) => r = q
  /\ \A r \in Req : step[r] # "idle" => sync[U(r)] = "idle"

\* What a sync has read is still so; the rankings are behind only during a sync or
\* a hook, or after one that failed.
CacheOK(u) ==
  /\ sync[u] = "zadd" => pulled[u] = Stats(u)
  /\ sync[u] = "idle" /\ u \notin missed /\ (\A r \in Req : step[r] \in InHook => U(r) # u) => Current(u)

\* What a hook has read is still so; a request without a hook writes no rank row.
HookOK(r) ==
  /\ step[r] = "zadd" => seen[r] = Stats(U(r))
  /\ step[r] \in Working /\ ~hook[r] => todo[r] = <<>> /\ DOMAIN wrank[r] = {}

CInv ==
  SInv /\ CacheShapes /\ Single /\ (\A u \in User : CacheOK(u)) /\ (\A r \in Req : HookOK(r))

LEMMA StatsKept == ASSUME NEW u, rank'[u] = rank[u] PROVE Stats(u)' = Stats(u)
BY DEF Stats, AggregateRankStats, Rows

LEMMA CInit == ASSUME Init PROVE CInv
<1>1. SInv
  BY SInit
<1>2. CacheShapes /\ \A r \in Req : step[r] = "idle"
  BY DEF Init, AtRest, CacheShapes
<1>3. Single
  BY <1>2 DEF Single
<1>4. ASSUME NEW u \in User PROVE CacheOK(u)
  <2>1. sync[u] = "idle"
    BY DEF Init, AtRest
  <2>2. DOMAIN Stats(u) \subseteq Team \cup {"total"}
    BY DEF Stats, AggregateRankStats, Rows
  <2>3. \A k \in Team \cup {"total"} : k \in DOMAIN Stats(u) => zset[u][k] = Stats(u)[k]
    BY DEF Init, AtRest, Stats
  <2> QED
    BY <2>1, <2>2, <2>3 DEF CacheOK, Current
<1>5. \A r \in Req : HookOK(r)
  BY <1>2 DEF HookOK, Working, AfterReg
<1> QED
  BY <1>1, <1>2, <1>3, <1>4, <1>5 DEF CInv

\* The frame of a step: request r may come to an end but no request may begin; no
\* rank row, ranking or sync changes.
LEMMA CacheKept ==
  ASSUME CInv, SInv', NEW r \in Req, UNCHANGED <<rank, zset, sync, pulled, missed, seen>>,
         \A q \in Req \ {r} : Same(q) /\ hook'[q] = hook[q],
         step[r] \in InTx, step'[r] \in InTx \cup {"idle"},
         step'[r] # "idle" => U(r)' = U(r),
         step'[r] \in Working /\ ~hook'[r] => todo'[r] = <<>> /\ DOMAIN wrank'[r] = {}
  PROVE  CInv'
<1>1. \A u \in User : Stats(u)' = Stats(u)
  BY StatsKept
<1>2. \A q \in Req \ {r} : U(q)' = U(q) /\ step'[q] = step[q]
  BY DEF Same, U
<1>3. \A q \in Req : step'[q] # "idle" => step[q] # "idle" /\ U(q)' = U(q)
  BY <1>2 DEF InTx
<1>4. \A q \in Req : step'[q] \in InHook <=> step[q] \in InHook
  BY <1>2 DEF InTx, InHook
<1>5. CacheShapes' /\ Single'
  BY <1>3 DEF CInv, CacheShapes, Single
<1>6. ASSUME NEW u \in User PROVE CacheOK(u)'
  <2>1. CacheOK(u)
    BY DEF CInv
  <2>2. Current(u) => Current(u)'
    BY <1>1 DEF Current
  <2>3. \A q \in Req : step[q] \in InHook => U(q)' = U(q) /\ step'[q] \in InHook
    BY <1>2, <1>4 DEF InTx, InHook
  <2> QED
    BY <1>1, <2>1, <2>2, <2>3 DEF CacheOK
<1>7. \A q \in Req \ {r} : HookOK(q)'
  <2>1. ASSUME NEW q \in Req \ {r} PROVE HookOK(q)'
    <3>1. HookOK(q)
      BY DEF CInv
    <3>2. step[q] = "zadd" => Stats(U(q))' = Stats(U(q))
      BY <1>1, <1>2, SeenRanks, StatsKept DEF CInv
    <3> QED
      BY <1>2, <3>1, <3>2 DEF HookOK, Same
  <2> QED
    BY <2>1
<1>8. HookOK(r)'
  BY DEF HookOK, InTx
<1> QED
  BY <1>5, <1>6, <1>7, <1>8 DEF CInv

LEMMA CRejectStep ==
  ASSUME CInv, SInv', NEW r \in Req, step[r] \in InTx, Reject(r) PROVE CInv'
<1>1. Forget(r, "idle") /\ UNCHANGED <<rank, zset, sync, pulled, missed, seen>>
      /\ cmd' = [cmd EXCEPT ![r] = NoRow]
  BY DEF Reject, db, cache
<1>2. \A q \in Req \ {r} : Same(q) /\ hook'[q] = hook[q]
  BY <1>1 DEF Forget, Same, CInv, SInv, RankShapes, IInv, ShapesOK
<1>3. step'[r] = "idle"
  BY <1>1 DEF Forget, CInv, SInv, IInv, ShapesOK
<1> QED
  BY <1>1, <1>2, <1>3, CacheKept DEF Working, AfterReg

LEMMA CBeginStep ==
  ASSUME Serial, CInv, SInv', NEW r \in Req, NEW c, c.user \in User,
         NEW first \in {"duplicate", "find"}, Begin(r, c, first)
  PROVE  CInv'
<1>1. /\ step[r] = "idle" /\ cmd' = [cmd EXCEPT ![r] = c] /\ step' = [step EXCEPT ![r] = first]
      /\ UNCHANGED <<reg, rank, zset, sync, pulled, missed, ent, base, todo, hook, row, rbase, wreg, wrank, seen>>
  BY DEF Begin, db, cache, writes
<1>2. step'[r] = first /\ U(r)' = c.user
  BY <1>1 DEF U, CInv, SInv, IInv, ShapesOK
<1>3. \A q \in Req \ {r} : step'[q] = step[q] /\ U(q)' = U(q)
  BY <1>1 DEF U, CInv, SInv, IInv, ShapesOK
<1>4. \A u \in User : Stats(u)' = Stats(u)
  BY <1>1, StatsKept
<1>5. /\ sync[c.user] = "idle"
      /\ \A q \in Req : step[q] # "idle" => U(q) # c.user
  <2>1. ~Busy(c.user, "request") /\ ~Busy(c.user, "hook") /\ ~Busy(c.user, "sync")
    BY DEF Begin, Serial
  <2>2. \A q \in Req : step[q] # "idle" => step[q] \in InTx \/ step[q] \in InHook
    BY DEF CInv, SInv, IInv, RequestOK, InTx, InHook
  <2> QED
    BY <2>1, <2>2 DEF Busy
<1>6. CacheShapes'
  BY <1>1 DEF CInv, CacheShapes
<1>7. Single'
  BY <1>1, <1>2, <1>3, <1>5 DEF CInv, Single
<1>8. ASSUME NEW u \in User PROVE CacheOK(u)'
  <2>1. CacheOK(u) /\ (Current(u) => Current(u)')
    BY <1>1, <1>4 DEF CInv, Current
  <2>2. \A q \in Req : step[q] \in InHook => U(q)' = U(q) /\ step'[q] \in InHook
    BY <1>1, <1>3 DEF InHook
  <2> QED
    BY <1>1, <1>4, <2>1, <2>2 DEF CacheOK
<1>9. ASSUME NEW q \in Req PROVE HookOK(q)'
  <2>1. HookOK(q)
    BY DEF CInv
  <2>2. CASE q = r
    BY <1>2, <2>2 DEF HookOK, Working, AfterReg
  <2>3. CASE q # r
    <3>1. step[q] = "zadd" => Stats(U(q))' = Stats(U(q))
      BY <1>3, <1>4, <2>3, SeenRanks DEF CInv
    <3> QED
      BY <1>1, <1>3, <2>1, <2>3, <3>1 DEF HookOK
  <2> QED
    BY <2>2, <2>3
<1> QED
  BY <1>6, <1>7, <1>8, <1>9 DEF CInv

\* The statements of a transaction.
LEMMA CStatementStep ==
  ASSUME CInv, SInv', NEW r \in Req,
         \/ CheckDuplicate(r) \/ InsertReg(r) \/ FindReg(r) \/ ReloadReg(r) \/ StoreReg(r)
         \/ RemoveReg(r) \/ FindRank(r) \/ ReloadRank(r) \/ WriteRank(r)
  PROVE  CInv'
<1>1. step[r] \in InTx
  BY DEF CheckDuplicate, InsertReg, FindReg, ReloadReg, StoreReg, RemoveReg, FindRank,
         ReloadRank, WriteRank, InTx, Steps
<1>2. CASE Reject(r)
  BY <1>1, <1>2, CRejectStep
<1>3. ASSUME ~Reject(r), NEW e, NEW calls, NEW hooked, Locals(r, e, calls, hooked),
             ~hooked => calls = <<>>, step[r] \notin AfterReg,
             NEW next \in InTx, step' = [step EXCEPT ![r] = next]
      PROVE  CInv'
  <2>1. /\ UNCHANGED <<rank, zset, sync, pulled, missed, seen, cmd, base, row, rbase, wreg, wrank>>
        /\ ent' = [ent EXCEPT ![r] = e] /\ todo' = [todo EXCEPT ![r] = calls]
        /\ hook' = [hook EXCEPT ![r] = hooked]
    BY <1>3 DEF Locals, db, cache, writes
  <2>2. \A q \in Req \ {r} : Same(q) /\ hook'[q] = hook[q]
    BY <1>3, <2>1 DEF Same, CInv, SInv, RankShapes, IInv, ShapesOK
  <2>3. step'[r] = next /\ U(r)' = U(r) /\ todo'[r] = calls /\ hook'[r] = hooked
    BY <1>3, <2>1 DEF U, CInv, SInv, RankShapes, IInv, ShapesOK
  <2>4. DOMAIN wrank'[r] = {}
    BY <1>3, <2>1 DEF CInv, SInv, TxOK, Written
  <2> QED
    BY <1>1, <1>3, <2>1, <2>2, <2>3, <2>4, CacheKept
<1>4. ASSUME ~Reject(r), step[r] \in Working,
             UNCHANGED <<rank, zset, sync, pulled, missed, seen, cmd, hook>>,
             \A q \in Req \ {r} : Same(q),
             step'[r] \in InTx, ~hook[r] => todo'[r] = todo[r] /\ wrank'[r] = wrank[r]
      PROVE  CInv'
  <2>1. \A q \in Req \ {r} : Same(q) /\ hook'[q] = hook[q]
    BY <1>4
  <2>2. HookOK(r) /\ U(r)' = U(r)
    BY <1>4 DEF CInv, U
  <2> QED
    BY <1>1, <1>4, <2>1, <2>2, CacheKept DEF HookOK
<1>5. CASE CheckDuplicate(r) /\ ~Reject(r)
  <2>1. \E e, calls, hooked : Locals(r, e, calls, hooked) /\ (~hooked => calls = <<>>)
    BY <1>5 DEF CheckDuplicate
  <2>2. step[r] \notin AfterReg /\ step' = [step EXCEPT ![r] = "insert"] /\ "insert" \in InTx
    BY <1>5 DEF CheckDuplicate, AfterReg, InTx, Steps
  <2> QED
    BY <1>3, <1>5, <2>1, <2>2
<1>6. CASE FindReg(r) /\ ~Reject(r)
  <2>1. step[r] = "find" /\ cmd[r].op \in {"update", "delete"}
    BY <1>6 DEF FindReg, CInv, SInv, IInv, RequestOK
  <2>2. step[r] \notin AfterReg /\ {"remove", "reload"} \subseteq InTx
    BY <2>1 DEF AfterReg, InTx, Steps
  <2> DEFINE old == Regs(r)[G(r)]
             t   == cmd[r].team
             new == UpdateCheeringTeam(old, t)
  <2>3. CASE cmd[r].op = "delete"
    <3>1. \E e, calls, hooked : Locals(r, e, calls, hooked) /\ (~hooked => calls = <<>>)
      BY <1>6, <2>3 DEF FindReg
    <3>2. step' = [step EXCEPT ![r] = "remove"]
      BY <1>6, <2>3 DEF FindReg
    <3> QED
      BY <1>3, <1>6, <2>2, <3>1, <3>2
  <2>4. CASE cmd[r].op = "update"
    <3>1. t = old.team => SwitchCalls(G(r), old, new) = <<>>
      BY DEF UpdateCheeringTeam, SwitchCalls
    <3>2. \E hooked : /\ Locals(r, new, SwitchCalls(G(r), old, new), hooked)
                      /\ ~hooked => t = old.team
      BY <1>6, <2>4 DEF FindReg
    <3>3. \E e, calls, hooked : Locals(r, e, calls, hooked) /\ (~hooked => calls = <<>>)
      BY <3>1, <3>2
    <3>4. step' = [step EXCEPT ![r] = "reload"]
      BY <1>6, <2>4 DEF FindReg
    <3> QED
      BY <1>3, <1>6, <2>2, <3>3, <3>4
  <2> QED
    BY <2>1, <2>3, <2>4
<1>7. CASE (InsertReg(r) \/ ReloadReg(r) \/ StoreReg(r) \/ RemoveReg(r)) /\ ~Reject(r)
  <2>1. /\ UNCHANGED <<rank, zset, sync, pulled, missed, seen, cmd, hook, todo, row, rbase, wrank, ent>>
        /\ step'[r] \in {"commit", "rankFind", "store"}
        /\ \A q \in Req \ {r} : step'[q] = step[q] /\ base'[q] = base[q] /\ wreg'[q] = wreg[q]
    <3> USE DEF db, cache, local, writes, Continue
    <3>1. DOMAIN step = Req /\ DOMAIN base = Req /\ DOMAIN wreg = Req
      BY DEF CInv, SInv, IInv, ShapesOK
    <3>2. CASE InsertReg(r)
      BY <1>7, <3>1, <3>2 DEF InsertReg
    <3>3. CASE ReloadReg(r)
      BY <1>7, <3>1, <3>3 DEF ReloadReg
    <3>4. CASE StoreReg(r)
      BY <1>7, <3>1, <3>4 DEF StoreReg
    <3>5. CASE RemoveReg(r)
      BY <1>7, <3>1, <3>5 DEF RemoveReg
    <3> QED
      BY <1>7, <3>2, <3>3, <3>4, <3>5
  <2>2. \A q \in Req \ {r} : Same(q)
    BY <2>1 DEF Same, CInv, SInv, IInv, ShapesOK
  <2>3. step[r] \in Working
    BY <1>7 DEF InsertReg, ReloadReg, StoreReg, RemoveReg, Working
  <2>4. step'[r] \in InTx
    BY <2>1 DEF InTx, Steps, CInv, SInv, IInv, ShapesOK
  <2> QED
    BY <1>4, <1>7, <2>1, <2>2, <2>3, <2>4
<1>8. CASE (FindRank(r) \/ ReloadRank(r) \/ WriteRank(r)) /\ ~Reject(r)
  <2>1. /\ UNCHANGED <<rank, zset, sync, pulled, missed, seen, cmd, hook, ent, base, wreg>>
        /\ step'[r] \in {"rankFind", "rankReload", "rankWrite", "commit"}
        /\ \A q \in Req \ {r} : /\ todo'[q] = todo[q] /\ row'[q] = row[q] /\ step'[q] = step[q]
                                /\ rbase'[q] = rbase[q] /\ wrank'[q] = wrank[q]
    <3> USE DEF db, cache, writes
    <3>1. DOMAIN step = Req /\ DOMAIN todo = Req /\ DOMAIN row = Req /\ DOMAIN rbase = Req
          /\ DOMAIN wrank = Req
      BY DEF CInv, SInv, RankShapes, IInv, ShapesOK
    <3>2. CASE FindRank(r)
      <4>1. /\ UNCHANGED <<rank, zset, sync, pulled, missed, seen, cmd, hook, ent, base, wreg, todo, wrank>>
            /\ \E v : row' = [row EXCEPT ![r] = v]
            /\ \E v : rbase' = [rbase EXCEPT ![r] = v]
            /\ \E v \in {"rankWrite", "rankReload"} : step' = [step EXCEPT ![r] = v]
        BY <1>8, <3>2 DEF FindRank
      <4> QED
        BY <3>1, <4>1
    <3>3. CASE ReloadRank(r)
      BY <1>8, <3>1, <3>3 DEF ReloadRank
    <3>4. CASE WriteRank(r)
      <4>1. /\ UNCHANGED <<rank, zset, sync, pulled, missed, seen, cmd, hook, ent, base, wreg, row, rbase>>
            /\ wrank' = wrank \/ \E v : wrank' = [wrank EXCEPT ![r] = v]
            /\ todo' = [todo EXCEPT ![r] = Tail(@)]
            /\ \E v \in {"rankFind", "commit"} : step' = [step EXCEPT ![r] = v]
        BY <1>8, <3>4 DEF WriteRank
      <4>2. \A q \in Req \ {r} : wrank'[q] = wrank[q]
        BY <3>1, <4>1
      <4>3. \A q \in Req \ {r} : todo'[q] = todo[q] /\ step'[q] = step[q]
        BY <3>1, <4>1
      <4>4. step'[r] \in {"rankFind", "commit"}
        BY <3>1, <4>1
      <4> QED
        BY <4>1, <4>2, <4>3, <4>4
    <3> QED
      BY <1>8, <3>2, <3>3, <3>4
  <2>2. \A q \in Req \ {r} : Same(q)
    BY <2>1 DEF Same, CInv, SInv, IInv, ShapesOK
  <2>3. step[r] \in {"rankFind", "rankReload", "rankWrite"}
    BY <1>8 DEF FindRank, ReloadRank, WriteRank
  <2>4. step[r] \in Working /\ hook[r]
    BY <2>3, AtCall DEF Working, AfterReg, CInv, HookOK
  <2>5. step'[r] \in InTx
    BY <2>1 DEF InTx, Steps, CInv, SInv, IInv, ShapesOK
  <2> QED
    BY <1>4, <1>8, <2>1, <2>2, <2>4, <2>5
<1> QED
  BY <1>2, <1>5, <1>6, <1>7, <1>8

\* The commit of a request without a hook changes no rank row.
LEMMA CCommitStep == ASSUME CInv, SInv', NEW r \in Req, Commit(r) PROVE CInv'
<1>1. /\ step[r] = "commit" /\ Forget(r, IF hook[r] THEN "aggregate" ELSE "idle")
      /\ rank' = [rank EXCEPT ![U(r)] = Ranks(r)]
      /\ cmd' = IF hook[r] THEN cmd ELSE [cmd EXCEPT ![r] = NoRow]
      /\ UNCHANGED <<zset, sync, pulled, missed, seen>>
  BY DEF Commit, Ranks, cache
<1>2. U(r) \in User /\ step[r] \in InTx /\ step[r] \in Working
  BY <1>1, SeenRanks DEF InTx, Steps, Working, AfterReg, CInv
<1>3. step'[r] = IF hook[r] THEN "aggregate" ELSE "idle"
  BY <1>1 DEF Forget, CInv, SInv, IInv, ShapesOK
<1>4. \A q \in Req \ {r} : Same(q) /\ hook'[q] = hook[q]
  BY <1>1 DEF Forget, Same, CInv, SInv, RankShapes, IInv, ShapesOK
<1>5. CASE ~hook[r]
  <2>1. DOMAIN wrank[r] = {}
    BY <1>2, <1>5 DEF CInv, HookOK
  <2>2. Ranks(r) = rank[U(r)]
    <3>1. rank[U(r)] = [k \in Cell |-> rank[U(r)][k]]
      BY <1>2 DEF CInv, SInv, RankShapes
    <3>2. Ranks(r) = [k \in Cell |-> IF k \in DOMAIN wrank[r] THEN wrank[r][k] ELSE rank[U(r)][k]]
      BY <1>1, SeenRanks DEF CInv
    <3> QED
      BY <2>1, <3>1, <3>2
  <2>3. rank' = rank
    BY <1>1, <1>2, <2>2 DEF CInv, SInv, RankShapes
  <2> QED
    BY <1>1, <1>2, <1>3, <1>4, <1>5, <2>3, CacheKept DEF Working, AfterReg
<1>6. CASE hook[r]
  <2>1. step'[r] = "aggregate" /\ cmd' = cmd /\ \A q \in Req : U(q)' = U(q)
    BY <1>1, <1>3, <1>6 DEF U
  <2>2. \A q \in Req \ {r} : step'[q] = step[q]
    BY <1>4 DEF Same
  <2>3. \A q \in Req : step'[q] # "idle" => step[q] # "idle"
    BY <1>1, <2>2
  <2>4. CacheShapes' /\ Single'
    BY <1>1, <2>1, <2>3 DEF CInv, CacheShapes, Single
  <2>5. \A u \in User \ {U(r)} : Stats(u)' = Stats(u)
    BY <1>1, StatsKept DEF CInv, SInv, RankShapes
  <2>6. ASSUME NEW u \in User PROVE CacheOK(u)'
    <3>1. CASE u = U(r)
      <4>1. sync'[u] = "idle"
        BY <1>1, <3>1 DEF CInv, Single
      <4> QED
        BY <2>1, <3>1, <4>1 DEF CacheOK, InHook
    <3>2. CASE u # U(r)
      <4>1. CacheOK(u) /\ (Current(u) => Current(u)')
        BY <1>1, <2>5, <3>2 DEF CInv, Current
      <4>2. \A q \in Req : step[q] \in InHook => U(q)' = U(q) /\ step'[q] \in InHook
        BY <1>1, <2>1, <2>2 DEF InHook
      <4> QED
        BY <1>1, <2>5, <3>2, <4>1, <4>2 DEF CacheOK
    <3> QED
      BY <3>1, <3>2
  <2>7. ASSUME NEW q \in Req PROVE HookOK(q)'
    <3>1. CASE q = r
      BY <2>1, <3>1 DEF HookOK, Working, AfterReg
    <3>2. CASE q # r
      <4>1. HookOK(q)
        BY DEF CInv
      <4>2. step[q] = "zadd" => U(q) \in User /\ U(q) # U(r)
        BY <1>1, <3>2, SeenRanks DEF CInv, Single
      <4>3. step[q] = "zadd" => Stats(U(q))' = Stats(U(q))
        BY <1>1, <2>1, <4>2, StatsKept DEF CInv, SInv, RankShapes, Stats
      <4> QED
        BY <1>1, <1>4, <2>1, <3>2, <4>1, <4>3 DEF HookOK, Same
    <3> QED
      BY <3>1, <3>2
  <2> QED
    BY <2>4, <2>6, <2>7 DEF CInv
<1> QED
  BY <1>5, <1>6

\* Scores just read and written to the rankings of user u.
LEMMA Zadded ==
  ASSUME CInv, NEW u \in User, rank' = rank, UpdateRankings(u, Stats(u))
  PROVE  /\ DOMAIN zset' = User /\ Current(u)'
         /\ \A v \in User \ {u} : Current(v) => Current(v)'
<1>1. zset' = [zset EXCEPT ![u] = Over(Stats(u), @)]
  BY DEF UpdateRankings
<1>2. DOMAIN zset' = User /\ zset'[u] = Over(Stats(u), zset[u])
      /\ \A v \in User \ {u} : zset'[v] = zset[v]
  BY <1>1 DEF CInv, CacheShapes
<1>3. \A v \in User : Stats(v)' = Stats(v)
  BY StatsKept
<1>4. \A k \in DOMAIN Stats(u) : zset'[u][k] = Stats(u)[k]
  BY <1>2 DEF Over
<1> QED
  BY <1>2, <1>3, <1>4 DEF Current

LEMMA CHookStep ==
  ASSUME CInv, SInv', NEW r \in Req, HookAggregate(r) \/ HookZadd(r) \/ HookFails(r) PROVE CInv'
<1>1. U(r) \in User /\ step[r] \in InHook /\ sync[U(r)] = "idle"
      /\ \A q \in Req \ {r} : step[q] # "idle" => U(q) # U(r)
  <2>1. step[r] \in InHook
    BY DEF HookAggregate, HookZadd, HookFails, InHook
  <2>2. step[r] # "idle"
    BY <2>1 DEF InHook
  <2> QED
    BY <2>1, <2>2, SeenRanks DEF CInv, Single
<1>2. CASE HookAggregate(r)
  <2>1. /\ step[r] = "aggregate" /\ seen' = [seen EXCEPT ![r] = Stats(U(r))]
        /\ step' = [step EXCEPT ![r] = "zadd"]
        /\ UNCHANGED <<rank, zset, sync, pulled, missed, cmd, todo, hook, wrank>>
    BY <1>2 DEF HookAggregate, Stats, db, cache, local, writes
  <2>2. /\ seen'[r] = Stats(U(r)) /\ step'[r] = "zadd" /\ \A q \in Req : U(q)' = U(q)
        /\ \A q \in Req \ {r} : step'[q] = step[q] /\ seen'[q] = seen[q]
    BY <2>1 DEF CInv, CacheShapes, SInv, IInv, ShapesOK, U
  <2>3. \A u \in User : Stats(u)' = Stats(u)
    BY <2>1, StatsKept
  <2>4. CacheShapes' /\ Single'
    BY <2>1, <2>2 DEF CInv, CacheShapes, Single
  <2>5. ASSUME NEW u \in User PROVE CacheOK(u)'
    <3>1. CacheOK(u) /\ (Current(u) => Current(u)')
      BY <2>1, <2>3 DEF CInv, Current
    <3>2. \A q \in Req : step[q] \in InHook => step'[q] \in InHook
      BY <2>2 DEF InHook
    <3> QED
      BY <2>1, <2>2, <2>3, <3>1, <3>2 DEF CacheOK
  <2>6. ASSUME NEW q \in Req PROVE HookOK(q)'
    <3>1. HookOK(q)
      BY DEF CInv
    <3>2. step'[q] = "zadd" => U(q) \in User
      BY <1>1, <2>2, SeenRanks DEF CInv
    <3>3. step'[q] = "zadd" => Stats(U(q))' = Stats(U(q))
      BY <2>1, <2>2, <3>2, StatsKept DEF Stats
    <3>4. CASE q = r
      BY <2>2, <3>3, <3>4 DEF HookOK, Working, AfterReg
    <3>5. CASE q # r
      BY <2>1, <2>2, <3>1, <3>3, <3>5 DEF HookOK
    <3> QED
      BY <3>4, <3>5
  <2> QED
    BY <2>4, <2>5, <2>6 DEF CInv
<1>3. CASE HookZadd(r) \/ HookFails(r)
  <2>1. PICK u : u = U(r)
    OBVIOUS
  <2>2. /\ step[r] \in InHook
        /\ seen' = [seen EXCEPT ![r] = NoRow]
        /\ step' = [step EXCEPT ![r] = "idle"] /\ cmd' = [cmd EXCEPT ![r] = NoRow]
        /\ UNCHANGED <<rank, sync, pulled, todo, hook, wrank>>
    BY <1>3, <2>1 DEF HookZadd, HookFails, InHook, db, writes
  <2>3. /\ DOMAIN zset' = User /\ (u \in missed' \/ Current(u)')
        /\ \A v \in User \ {u} : /\ Current(v) => Current(v)'
                                 /\ v \in missed' <=> v \in missed
    <3>1. CASE HookZadd(r)
      <4>1. step[r] = "zadd" /\ UpdateRankings(u, seen[r]) /\ missed' = missed \ {u}
        BY <2>1, <3>1 DEF HookZadd
      <4>2. seen[r] = Stats(u) /\ u \in User
        BY <1>1, <2>1, <4>1 DEF CInv, HookOK
      <4>3. UpdateRankings(u, Stats(u))
        BY <4>1, <4>2
      <4> QED
        BY <2>2, <4>1, <4>2, <4>3, Zadded
    <3>2. CASE HookFails(r)
      <4>1. zset' = zset /\ missed' = missed \cup {u}
        BY <2>1, <3>2 DEF HookFails
      <4>2. \A v \in User : Stats(v)' = Stats(v)
        BY <2>2, StatsKept
      <4> QED
        BY <4>1, <4>2 DEF CInv, CacheShapes, Current
    <3> QED
      BY <1>3, <3>1, <3>2
  <2>4. u \in User
    BY <1>1, <2>1
  <2>5. /\ step'[r] = "idle"
        /\ \A q \in Req \ {r} : step'[q] = step[q] /\ seen'[q] = seen[q] /\ U(q)' = U(q)
    BY <2>2 DEF CInv, CacheShapes, SInv, IInv, ShapesOK, U
  <2>6. \A v \in User : Stats(v)' = Stats(v)
    BY <2>2, StatsKept
  <2>7. CacheShapes' /\ Single'
    BY <2>2, <2>3, <2>5 DEF CInv, CacheShapes, Single
  <2>8. ASSUME NEW v \in User PROVE CacheOK(v)'
    <3>1. CacheOK(v)
      BY DEF CInv
    <3>2. CASE v = u
      BY <2>2, <2>3, <2>6, <3>1, <3>2 DEF CacheOK
    <3>3. CASE v # u
      <4>1. \A q \in Req : step[q] \in InHook /\ U(q) = v => U(q)' = v /\ step'[q] \in InHook
        BY <2>1, <2>5, <3>3
      <4> QED
        BY <2>2, <2>3, <2>6, <3>1, <3>3, <4>1 DEF CacheOK
    <3> QED
      BY <3>2, <3>3
  <2>9. ASSUME NEW q \in Req PROVE HookOK(q)'
    <3>1. HookOK(q)
      BY DEF CInv
    <3>2. CASE q = r
      BY <2>5, <3>2 DEF HookOK, Working, AfterReg
    <3>3. CASE q # r
      <4>1. step[q] = "zadd" => Stats(U(q))' = Stats(U(q))
        BY <2>2, <2>5, <3>3, StatsKept DEF Stats
      <4> QED
        BY <2>2, <2>5, <3>1, <3>3, <4>1 DEF HookOK
    <3> QED
      BY <3>2, <3>3
  <2> QED
    BY <2>7, <2>8, <2>9 DEF CInv
<1> QED
  BY <1>2, <1>3

LEMMA CSyncStep == ASSUME CInv, SInv', NEW u \in User, Sync(u) \/ SyncFails(u) PROVE CInv'
<1>1. /\ UNCHANGED <<rank, step, cmd, todo, hook, wrank, seen>>
      /\ sync[u] # "idle"
  BY DEF Sync, SyncAggregate, SyncZadd, SyncFails, db, local, writes
<1>2. \A v \in User : Stats(v)' = Stats(v)
  BY <1>1, StatsKept
<1>3. \A q \in Req : step[q] # "idle" => U(q) # u
  BY <1>1 DEF CInv, Single
<1>4. ASSUME NEW q \in Req PROVE HookOK(q)' /\ U(q)' = U(q)
  <2>1. HookOK(q) /\ U(q)' = U(q)
    BY <1>1 DEF CInv, U
  <2>2. Stats(U(q))' = Stats(U(q))
    BY <1>1, <2>1, StatsKept DEF Stats
  <2> QED
    BY <1>1, <2>1, <2>2 DEF HookOK
<1>5. CASE SyncAggregate(u)
  <2>1. /\ sync[u] = "aggregate" /\ pulled' = [pulled EXCEPT ![u] = Stats(u)]
        /\ sync' = [sync EXCEPT ![u] = "zadd"] /\ zset' = zset /\ missed' = missed
    BY <1>5 DEF SyncAggregate, Stats
  <2>2. CacheShapes' /\ Single'
    BY <1>1, <1>3, <1>4, <2>1 DEF CInv, CacheShapes, Single
  <2>3. \A v \in User : CacheOK(v)'
    BY <1>1, <1>2, <1>4, <2>1 DEF CInv, CacheShapes, CacheOK, Current
  <2> QED
    BY <1>4, <2>2, <2>3 DEF CInv
<1>6. CASE SyncZadd(u) \/ SyncFails(u)
  <2>1. pulled' = [pulled EXCEPT ![u] = NoRow] /\ sync' = [sync EXCEPT ![u] = "idle"]
    BY <1>6 DEF SyncZadd, SyncFails
  <2>3. /\ DOMAIN zset' = User /\ (u \in missed' \/ Current(u)')
        /\ \A v \in User \ {u} : /\ Current(v) => Current(v)'
                                 /\ v \in missed' <=> v \in missed
    <3>1. CASE SyncZadd(u)
      <4>1. sync[u] = "zadd" /\ UpdateRankings(u, pulled[u]) /\ missed' = missed \ {u}
        BY <3>1 DEF SyncZadd
      <4>2. pulled[u] = Stats(u)
        BY <4>1 DEF CInv, CacheOK
      <4>3. UpdateRankings(u, Stats(u))
        BY <4>1, <4>2
      <4> QED
        BY <1>1, <4>1, <4>3, Zadded
    <3>2. CASE SyncFails(u)
      <4>1. zset' = zset /\ missed' = missed \cup {u}
        BY <3>2 DEF SyncFails
      <4> QED
        BY <1>2, <4>1 DEF CInv, CacheShapes, Current
    <3> QED
      BY <1>6, <3>1, <3>2
  <2>4. CacheShapes' /\ Single'
    BY <1>1, <1>3, <1>4, <2>1, <2>3 DEF CInv, CacheShapes, Single
  <2>5. ASSUME NEW v \in User PROVE CacheOK(v)'
    <3>1. CacheOK(v)
      BY DEF CInv
    <3>2. CASE v = u
      BY <2>1, <2>3, <3>2 DEF CacheOK, CInv, CacheShapes
    <3>3. CASE v # u
      <4>1. sync'[v] = sync[v] /\ pulled'[v] = pulled[v]
        BY <2>1, <3>3 DEF CInv, CacheShapes
      <4> QED
        BY <1>1, <1>2, <1>4, <2>3, <3>1, <3>3, <4>1 DEF CacheOK
    <3> QED
      BY <3>2, <3>3
  <2> QED
    BY <1>4, <2>4, <2>5 DEF CInv
<1> QED
  BY <1>5, <1>6 DEF Sync

\* After a restart of the process or of Redis every user is being synced.
LEMMA CRestartStep ==
  ASSUME Serial, CInv, SInv', ProcessRestarts \/ RedisRestarts PROVE CInv'
<1>1. /\ \A r \in Req : step'[r] = "idle"
      /\ sync' = [u \in User |-> "aggregate"]
      /\ DOMAIN zset' = User /\ DOMAIN pulled' = User /\ DOMAIN seen' = Req
  <2>1. CASE ProcessRestarts
    BY <2>1 DEF ProcessRestarts, CInv, CacheShapes
  <2>2. CASE RedisRestarts
    BY <2>2 DEF RedisRestarts, CInv, CacheShapes, Serial
  <2> QED
    BY <2>1, <2>2
<1>2. CacheShapes' /\ Single'
  BY <1>1 DEF CacheShapes, Single
<1>3. \A u \in User : CacheOK(u)'
  BY <1>1 DEF CacheOK
<1>4. \A r \in Req : HookOK(r)'
  BY <1>1 DEF HookOK, Working, AfterReg
<1> QED
  BY <1>2, <1>3, <1>4 DEF CInv

LEMMA CStillStep == ASSUME CInv, SInv', UNCHANGED vars PROVE CInv'
<1> USE DEF vars, db, cache, local, writes
<1>1. CacheShapes' /\ Single'
  BY DEF CInv, CacheShapes, Single, U
<1>2. \A u : Stats(u)' = Stats(u)
  BY StatsKept
<1>3. \A u \in User : CacheOK(u)'
  BY <1>2 DEF CInv, CacheOK, Current, U
<1>4. ASSUME NEW q \in Req PROVE HookOK(q)'
  <2>1. HookOK(q) /\ U(q)' = U(q)
    BY DEF CInv, U
  <2>2. Stats(U(q))' = Stats(U(q))
    BY <2>1, StatsKept DEF Stats
  <2> QED
    BY <2>1, <2>2 DEF HookOK
<1> QED
  BY <1>1, <1>3, <1>4 DEF CInv

LEMMA CInvNext == ASSUME Serial, CInv, [Next]_vars PROVE CInv'
<1>1. Sequential
  BY DEF Serial, Sequential
<1>2. SInv'
  BY <1>1, SInvNext DEF CInv
<1>3. ASSUME NEW r \in Req, Register(r) \/ Update(r) \/ Delete(r) PROVE CInv'
  <2>1. CASE Register(r)
    BY <1>2, <2>1, CBeginStep DEF Register
  <2>2. CASE Update(r)
    BY <1>2, <2>2, CBeginStep DEF Update
  <2>3. CASE Delete(r)
    BY <1>2, <2>3, CBeginStep DEF Delete
  <2> QED
    BY <1>3, <2>1, <2>2, <2>3
<1>4. ASSUME NEW r \in Req, Advance(r) PROVE CInv'
  <2>1. CASE DeadlockDetected(r)
    <3>1. step[r] \in InTx
      BY <2>1 DEF DeadlockDetected, WaitsFor, InTx, Steps
    <3> QED
      BY <1>2, <2>1, <3>1, CRejectStep DEF DeadlockDetected
  <2> QED
    BY <1>2, <1>4, <2>1, CStatementStep, CCommitStep, CHookStep DEF Advance
<1>5. ASSUME NEW r \in Req, StatementFails(r) \/ HookFails(r) PROVE CInv'
  BY <1>2, <1>5, CRejectStep, CHookStep DEF StatementFails
<1>6. ASSUME NEW u \in User, Sync(u) \/ SyncFails(u) PROVE CInv'
  BY <1>2, <1>6, CSyncStep
<1>7. CASE ProcessRestarts \/ RedisRestarts
  BY <1>2, <1>7, CRestartStep
<1>8. CASE UNCHANGED vars
  BY <1>2, <1>8, CStillStep
<1> QED
  BY <1>3, <1>4, <1>5, <1>6, <1>7, <1>8 DEF Next

\* A client that waits for each answer and for the hook behind it finds, once
\* nothing is in flight, the Redis rankings at the scores of the rank table,
\* through failed statements and restarts of either process that lose hooks and
\* syncs; but for users whose last hook or sync failed while the process went on,
\* whose scores nobody writes again before their next command or the next sync.
THEOREM CacheCatchesUp == Serial => (Spec => []CacheCaughtUp)
<1> SUFFICES ASSUME Serial PROVE Spec => []CacheCaughtUp
  OBVIOUS
<1>1. Init => CInv
  BY CInit
<1>2. CInv /\ [Next]_vars => CInv'
  BY CInvNext
<1>3. CInv => CacheCaughtUp
  BY DEF CInv, CacheOK, Current, CacheCaughtUp, Quiet, Stats, InHook
<1> QED
  BY <1>1, <1>2, <1>3, PTL DEF Spec

-----------------------------------------------------------------------------
(* 5. The types of tables, rankings and memory, whatever overlaps.  The     *)
(* point is in the counters and scores: that a count taken back was there,  *)
(* and that a rank row once found is still there when it is reloaded and    *)
(* patched, since nothing deletes rank rows.                                *)

\* Scores as a hook or a sync reads them.
Scores(data) == DOMAIN data \subseteq Team \cup {"total"} /\ \A k \in DOMAIN data : data[k] \in Int

RankSteps == {"rankFind", "rankReload", "rankWrite"}

TableTypes ==
  /\ rank \in [User -> [Cell -> Counts \cup {NoRow}]]
  /\ nextId \in Nat \ {0} /\ orphan \subseteq Nat

CacheTypes ==
  /\ zset \in [User -> [Team \cup {"total"} -> Int \cup {NoRow}]]
  /\ sync \in [User -> {"idle", "aggregate", "zadd"}] /\ missed \subseteq User
  /\ DOMAIN pulled = User
  /\ \A u \in User : sync[u] = "zadd" => Scores(pulled[u])

MemoryTypes ==
  /\ step \in [Req -> Steps]
  /\ ent \in [Req -> RegRow \cup {NoRow}] /\ base \in [Req -> RegRow \cup {NoRow}]
  /\ row \in [Req -> Counts \cup {NoRow}] /\ rbase \in [Req -> Counts \cup {NoRow}]
  /\ hook \in [Req -> BOOLEAN] /\ worphan \in [Req -> SUBSET Nat] /\ todo \in [Req -> Calls]
  /\ DOMAIN wrank = Req /\ DOMAIN seen = Req

\* The rank rows a request has written; one that it has found is still there.
RankOK(r) ==
  /\ \A k \in DOMAIN wrank[r] : k \in Cell /\ wrank[r][k] \in Counts
  /\ step[r] \in RankSteps => todo[r] # <<>>
  /\ step[r] \in {"rankReload", "rankWrite"} => row[r] \in Counts
  /\ step[r] = "rankReload" \/ (step[r] = "rankWrite" /\ rbase[r] # NoRow)
       => Ranks(r)[RankKey(r)] # NoRow
  /\ step[r] = "zadd" => Scores(seen[r])

TInv == IInv /\ TableTypes /\ CacheTypes /\ MemoryTypes /\ \A r \in Req : RankOK(r)

-----------------------------------------------------------------------------
(* What a request sees, and the frame of a step.                            *)

LEMMA TSeen ==
  ASSUME TInv, NEW r \in Req, step[r] # "idle"
  PROVE  /\ U(r) \in User /\ G(r) \in Game
         /\ Ranks(r) = [k \in Cell |-> IF k \in DOMAIN wrank[r] THEN wrank[r][k] ELSE rank[U(r)][k]]
         /\ \A k \in Cell : Ranks(r)[k] \in Counts \cup {NoRow}
         /\ todo[r] # <<>> =>
              todo[r][1] \in Call /\ RankKey(r) \in Cell /\ Tail(todo[r]) \in Calls
<1>1. U(r) \in User /\ G(r) \in Game
  BY DEF TInv, IInv, RequestOK
<1>2. DOMAIN rank[U(r)] = Cell /\ DOMAIN wrank[r] \subseteq Cell
  BY <1>1 DEF TInv, TableTypes, RankOK
<1>3. Ranks(r) = [k \in Cell |-> IF k \in DOMAIN wrank[r] THEN wrank[r][k] ELSE rank[U(r)][k]]
  <2>1. DOMAIN wrank[r] \cup DOMAIN rank[U(r)] = Cell
    BY <1>2
  <2> QED
    BY <2>1 DEF Ranks, Over
<1>4. \A k \in Cell : Ranks(r)[k] \in Counts \cup {NoRow}
  BY <1>1, <1>3 DEF TInv, TableTypes, RankOK
<1>5. todo[r] \in Calls
  BY DEF TInv, MemoryTypes
<1>6. todo[r] # <<>> => todo[r][1] \in Call /\ Tail(todo[r]) \in Calls
  BY <1>5, CallsHead
<1>7. todo[r][1] \in Call => RankKey(r) \in Cell
  BY DEF RankKey, Call, Cell
<1> QED
  BY <1>1, <1>3, <1>4, <1>6, <1>7

\* A step that is not request q's: rank rows change but none vanishes.
LEMMA RankKept ==
  ASSUME TInv, NEW q \in Req,
         /\ step'[q] = step[q] /\ cmd'[q] = cmd[q] /\ todo'[q] = todo[q] /\ row'[q] = row[q]
         /\ rbase'[q] = rbase[q] /\ wrank'[q] = wrank[q] /\ seen'[q] = seen[q],
         TableTypes',
         \A u \in User, k \in Cell : rank[u][k] # NoRow => rank'[u][k] # NoRow
  PROVE  RankOK(q)'
<1>1. U(q)' = U(q) /\ RankKey(q)' = RankKey(q) /\ RankOK(q)
  BY DEF U, RankKey, TInv
<1>2. ASSUME step[q] \in RankSteps, Ranks(q)[RankKey(q)] # NoRow
      PROVE  Ranks(q)'[RankKey(q)] # NoRow
  <2>1. U(q) \in User /\ RankKey(q) \in Cell
        /\ Ranks(q) = [k \in Cell |-> IF k \in DOMAIN wrank[q] THEN wrank[q][k] ELSE rank[U(q)][k]]
    BY <1>1, <1>2, TSeen DEF RankOK, RankSteps
  <2>2. DOMAIN rank'[U(q)] = Cell /\ DOMAIN wrank[q] \subseteq Cell
    BY <1>1, <2>1 DEF TableTypes, RankOK
  <2>3. Ranks(q)' = [k \in Cell |-> IF k \in DOMAIN wrank[q] THEN wrank[q][k] ELSE rank'[U(q)][k]]
    <3>1. DOMAIN wrank[q] \cup DOMAIN rank'[U(q)] = Cell
      BY <2>2
    <3> QED
      BY <1>1, <3>1 DEF Ranks, Over
  <2> QED
    BY <1>2, <2>1, <2>3
<1>3. step[q] = "rankReload" \/ (step[q] = "rankWrite" /\ rbase[q] # NoRow)
        => Ranks(q)'[RankKey(q)] # NoRow
  BY <1>1, <1>2 DEF RankOK, RankSteps
<1> QED
  BY <1>1, <1>3 DEF RankOK

\* A step of request r.
LEMMA TFrame ==
  ASSUME TInv, IInv', NEW r \in Req, TableTypes', CacheTypes', MemoryTypes', RankOK(r)',
         \A q \in Req \ {r} :
           /\ step'[q] = step[q] /\ cmd'[q] = cmd[q] /\ todo'[q] = todo[q] /\ row'[q] = row[q]
           /\ rbase'[q] = rbase[q] /\ wrank'[q] = wrank[q] /\ seen'[q] = seen[q],
         \A u \in User, k \in Cell : rank[u][k] # NoRow => rank'[u][k] # NoRow
  PROVE  TInv'
<1>1. \A q \in Req \ {r} : RankOK(q)'
  BY RankKept
<1> QED
  BY <1>1 DEF TInv

\* A step that writes no rank row and no rank entity.
LEMMA TMove ==
  ASSUME TInv, IInv', NEW r \in Req, UNCHANGED <<rank, zset, sync, pulled, missed, seen, row, rbase, wrank>>,
         TableTypes', MemoryTypes', \A q \in Req \ {r} : cmd'[q] = cmd[q] /\ todo'[q] = todo[q],
         NEW next \in Steps \ {"rankReload", "rankWrite", "zadd"}, step' = [step EXCEPT ![r] = next],
         next = "rankFind" => todo'[r] # <<>>
  PROVE  TInv'
<1>1. step'[r] = next /\ \A q \in Req \ {r} : step'[q] = step[q]
  BY DEF TInv, MemoryTypes
<1>2. CacheTypes'
  BY DEF TInv, CacheTypes, Scores
<1>3. RankOK(r)'
  BY <1>1 DEF TInv, RankOK, RankSteps
<1> QED
  BY <1>1, <1>2, <1>3, TFrame

LEMMA TForget ==
  ASSUME TInv, IInv', NEW r \in Req, NEW next \in {"idle", "aggregate"}, Forget(r, next),
         UNCHANGED <<zset, sync, pulled, missed, seen>>, TableTypes',
         \A q \in Req \ {r} : cmd'[q] = cmd[q],
         \A u \in User, k \in Cell : rank[u][k] # NoRow => rank'[u][k] # NoRow
  PROVE  TInv'
<1>1. <<>> \in Calls /\ {"idle", "aggregate"} \subseteq Steps /\ {} \in SUBSET Nat
      /\ FALSE \in BOOLEAN
  BY DEF Calls, Steps
<1>2. MemoryTypes'
  BY <1>1 DEF Forget, TInv, MemoryTypes
<1>3. CacheTypes'
  BY DEF TInv, CacheTypes, Scores
<1>4. step'[r] = next /\ wrank'[r] = Empty
  BY DEF Forget, TInv, MemoryTypes
<1>5. RankOK(r)'
  BY <1>4 DEF RankOK, RankSteps, Empty
<1>6. \A q \in Req \ {r} :
        /\ step'[q] = step[q] /\ cmd'[q] = cmd[q] /\ todo'[q] = todo[q] /\ row'[q] = row[q]
        /\ rbase'[q] = rbase[q] /\ wrank'[q] = wrank[q] /\ seen'[q] = seen[q]
  BY DEF Forget, TInv, MemoryTypes
<1> QED
  BY <1>2, <1>3, <1>5, <1>6, TFrame

LEMMA TReject == ASSUME TInv, IInv', NEW r \in Req, Reject(r) PROVE TInv'
<1>1. /\ Forget(r, "idle") /\ cmd' = [cmd EXCEPT ![r] = NoRow]
      /\ UNCHANGED <<rank, nextId, orphan, zset, sync, pulled, missed, seen>>
  BY DEF Reject, db, cache
<1>2. TableTypes' /\ \A q \in Req \ {r} : cmd'[q] = cmd[q]
  BY <1>1 DEF TInv, TableTypes, IInv, ShapesOK
<1> QED
  BY <1>1, <1>2, TForget


-----------------------------------------------------------------------------
(* The scores of a user's rank rows are numbers.                            *)

LEMMA SumType ==
  ASSUME NEW S, IsFiniteSet(S), NEW f \in [S -> Nat] PROVE SumOf(f) \in Nat
<1> DEFINE F(s) == {s} \X (1..f[s])
           T == {F(s) : s \in S}
           h == [s \in S |-> F(s)]
<1>1. h \in Surjection(S, T)
  BY DEF Surjection
<1>2. IsFiniteSet(T)
  BY <1>1, FS_Surjection
<1>3. ASSUME NEW s \in S PROVE IsFiniteSet(F(s))
  <2>1. f[s] \in Int /\ 1 \in Int
    OBVIOUS
  <2>2. IsFiniteSet(1..f[s])
    BY <2>1, FS_Interval
  <2>3. IsFiniteSet({s})
    BY FS_Singleton
  <2> QED
    BY <2>2, <2>3, FS_Product
<1>4. \A x \in T : IsFiniteSet(x)
  BY <1>3
<1>5. IsFiniteSet(UNION T)
  <2> HIDE DEF T
  <2> QED
    BY <1>2, <1>4, FS_UNION
<1>6. SumOf(f) = Cardinality(UNION T)
  BY DEF SumOf
<1> HIDE DEF T
<1> QED
  BY <1>5, <1>6, FS_CardinalityType

LEMMA CellsFinite == IsFiniteSet(Cell)
BY LedgerAssumption, FS_Product DEF Cell

LEMMA SumCounts ==
  ASSUME rank \in [User -> [Cell -> Counts \cup {NoRow}]], NEW u \in User, NEW keys \in SUBSET Rows(u)
  PROVE  Sum(rank[u], keys) \in Counts
<1>1. \A k \in keys : k \in Cell /\ rank[u][k] \in Counts
  BY DEF Rows, Cell
<1>2. IsFiniteSet(keys)
  BY <1>1, CellsFinite, FS_Subset
<1>3. ASSUME NEW c \in Result PROVE SumOf([k \in keys |-> rank[u][k][c]]) \in Nat
  <2>1. [k \in keys |-> rank[u][k][c]] \in [keys -> Nat]
    BY <1>1 DEF Counts
  <2> QED
    BY <1>2, <2>1, SumType
<1> QED
  BY <1>3 DEF Sum, Counts

LEMMA ScoresType ==
  ASSUME rank \in [User -> [Cell -> Counts \cup {NoRow}]], NEW u \in User
  PROVE  Scores(AggregateRankStats(u))
<1> DEFINE keys(t) == {k \in Rows(u) : t = "total" \/ k[1] = t}
           D == {k[1] : k \in Rows(u)} \cup {"total"}
<1>1. D \subseteq Team \cup {"total"}
  BY DEF Rows
<1>2. ASSUME NEW t \in D PROVE IntegerScoreForRedis(Sum(rank[u], keys(t))) \in Int
  <2>1. keys(t) \in SUBSET Rows(u)
    OBVIOUS
  <2>2. Sum(rank[u], keys(t)) \in Counts
    BY <2>1, SumCounts
  <2>3. /\ RawScore(Sum(rank[u], keys(t))) \in Int
        /\ TotalCount(Sum(rank[u], keys(t))) \in Nat
    BY <2>2, ScoreType
  <2> QED
    BY <2>3 DEF IntegerScoreForRedis, SCALE_FACTOR
<1>3. AggregateRankStats(u) = [t \in D |-> IntegerScoreForRedis(Sum(rank[u], keys(t)))]
  BY DEF AggregateRankStats
<1> HIDE DEF D, keys
<1> QED
  BY <1>1, <1>2, <1>3 DEF Scores

-----------------------------------------------------------------------------
(* The actions.                                                             *)

LEMMA TInit == ASSUME Init, IInv PROVE TInv
<1> USE DEF Init, AtRest
<1>1. rank \in [User -> [Cell -> Counts \cup {NoRow}]]
  <2>1. ZeroCounts \in Counts
    BY DEF ZeroCounts, Counts
  <2> QED
    BY <2>1 DEF Cell
<1>2. TableTypes
  BY <1>1 DEF TableTypes
<1>3. ASSUME NEW u \in User
      PROVE  [k \in Team \cup {"total"} |-> IF k \in DOMAIN AggregateRankStats(u)
                                            THEN AggregateRankStats(u)[k] ELSE NoRow]
               \in [Team \cup {"total"} -> Int \cup {NoRow}]
  <2>1. Scores(AggregateRankStats(u))
    BY <1>1, ScoresType
  <2> QED
    BY <2>1 DEF Scores
<1>4. CacheTypes
  BY <1>3 DEF CacheTypes
<1>5. MemoryTypes
  <2>1. <<>> \in Calls /\ "idle" \in Steps /\ {} \in SUBSET Nat /\ FALSE \in BOOLEAN
    BY DEF Calls, Steps
  <2> QED
    BY <2>1 DEF MemoryTypes
<1>6. ASSUME NEW r \in Req PROVE RankOK(r)
  <2>1. step[r] = "idle" /\ wrank[r] = Empty
    OBVIOUS
  <2> QED
    BY <2>1 DEF RankOK, RankSteps, Empty
<1> QED
  BY <1>2, <1>4, <1>5, <1>6 DEF TInv

LEMMA TArrivalStep ==
  ASSUME TInv, IInv', NEW r \in Req, Register(r) \/ Update(r) \/ Delete(r) PROVE TInv'
<1>1. \E c : Begin(r, c, "duplicate") \/ Begin(r, c, "find")
  <2>1. CASE Register(r)
    BY <2>1 DEF Register
  <2>2. CASE Update(r)
    BY <2>2 DEF Update
  <2>3. CASE Delete(r)
    BY <2>3 DEF Delete
  <2> QED
    BY <2>1, <2>2, <2>3
<1> PICK c : Begin(r, c, "duplicate") \/ Begin(r, c, "find")
  BY <1>1
<1> PICK first \in {"duplicate", "find"} : Begin(r, c, first)
  OBVIOUS
<1>2. /\ cmd' = [cmd EXCEPT ![r] = c] /\ step' = [step EXCEPT ![r] = first]
      /\ UNCHANGED <<rank, nextId, orphan, zset, sync, pulled, missed, ent, base, todo, hook, row, rbase,
                     wreg, wrank, worphan, seen>>
  BY DEF Begin, db, cache, writes
<1>3. first \in Steps \ {"rankReload", "rankWrite", "zadd"} /\ first # "rankFind"
  BY DEF Steps
<1>4. TableTypes' /\ MemoryTypes'
  BY <1>2, <1>3 DEF TInv, TableTypes, MemoryTypes
<1>5. \A q \in Req \ {r} : cmd'[q] = cmd[q] /\ todo'[q] = todo[q]
  BY <1>2 DEF TInv, IInv, ShapesOK
<1> QED
  BY <1>2, <1>3, <1>4, <1>5, TMove

\* The entity, the calls and the hook of a command are laid out.
LEMMA TLocals ==
  ASSUME TInv, IInv', NEW r \in Req, NEW e \in RegRow, NEW calls \in Calls, NEW hooked \in BOOLEAN,
         Locals(r, e, calls, hooked), NEW next \in {"insert", "remove", "reload"},
         step' = [step EXCEPT ![r] = next]
  PROVE  TInv'
<1>1. /\ ent' = [ent EXCEPT ![r] = e] /\ todo' = [todo EXCEPT ![r] = calls]
      /\ hook' = [hook EXCEPT ![r] = hooked]
      /\ UNCHANGED <<rank, nextId, orphan, zset, sync, pulled, missed, cmd, base, row, rbase,
                     wreg, wrank, worphan, seen>>
  BY DEF Locals, db, cache, writes
<1>2. next \in Steps \ {"rankReload", "rankWrite", "zadd"} /\ next # "rankFind"
  BY DEF Steps
<1>3. TableTypes'
  BY <1>1 DEF TInv, TableTypes
<1>4. MemoryTypes'
  BY <1>1, <1>2 DEF TInv, MemoryTypes
<1>5. \A q \in Req \ {r} : cmd'[q] = cmd[q] /\ todo'[q] = todo[q]
  BY <1>1 DEF TInv, MemoryTypes
<1> QED
  BY <1>1, <1>2, <1>3, <1>4, <1>5, TMove

\* The calls of a command that counts one registration of a game.
LEMMA AdjustCall ==
  ASSUME NEW t \in Team, NEW g \in Game, NEW s \in RegStatus, NEW add \in BOOLEAN
  PROVE  Adjust(t, g, s, add) \in Call
<1>1. YearOf[g] \in Year
  BY LedgerAssumption
<1> QED
  BY <1>1 DEF Adjust, Call

LEMMA TDuplicateStep == ASSUME TInv, IInv', NEW r \in Req, CheckDuplicate(r) PROVE TInv'
<1> DEFINE t == cmd[r].team
           s == DetermineStatus(game[G(r)].status, game[G(r)].winner, t)
           e == CreateReg(t, s)
           calls == IF s = Pending THEN <<>> ELSE <<Adjust(t, G(r), s, TRUE)>>
<1>1. step[r] = "duplicate"
  BY DEF CheckDuplicate
<1>2. CASE Reject(r)
  BY <1>2, TReject
<1>3. CASE ~Reject(r)
  <2>1. /\ Plays(G(r), t) /\ \E hooked : hooked \in BOOLEAN /\ Locals(r, e, calls, hooked)
        /\ step' = [step EXCEPT ![r] = "insert"]
    BY <1>3 DEF CheckDuplicate
  <2>2. G(r) \in Game
    BY <1>1, TSeen
  <2>3. t \in Team
    BY <2>1, <2>2, LedgerAssumption DEF Plays
  <2>4. s \in RegStatus
    BY DEF DetermineStatus, RegStatus, Result, Pending
  <2>5. e \in RegRow
    BY <2>3, <2>4 DEF CreateReg, RegRow
  <2>6. calls \in Calls
    <3>1. <<>> \in Calls
      BY DEF Calls
    <3>2. \A add \in BOOLEAN : Adjust(t, G(r), s, add) \in Call
      BY <2>2, <2>3, <2>4, AdjustCall
    <3>3. <<Adjust(t, G(r), s, TRUE)>> \in Calls
      BY <3>2, OneCall
    <3> QED
      BY <3>1, <3>3
  <2> HIDE DEF e, calls
  <2>7. PICK hooked \in BOOLEAN : Locals(r, e, calls, hooked)
    BY <2>1
  <2> QED
    BY <2>1, <2>5, <2>6, <2>7, TLocals
<1> QED
  BY <1>2, <1>3

LEMMA TFindStep == ASSUME TInv, IInv', NEW r \in Req, FindReg(r) PROVE TInv'
<1> DEFINE old == Regs(r)[G(r)]
           t   == cmd[r].team
           new == UpdateCheeringTeam(old, t)
<1>1. step[r] = "find" /\ cmd[r].op \in {"update", "delete"} /\ G(r) \in Game
  BY TSeen DEF FindReg, TInv, IInv, RequestOK
<1>2. CASE Reject(r)
  BY <1>2, TReject
<1>3. CASE ~Reject(r)
  <2>1. Matches(r, cmd[r].id)
    BY <1>3 DEF FindReg
  <2>2. Fits(G(r), old) /\ old.team \in Team /\ old.status \in RegStatus /\ old \in RegRow
    <3>1. Fits(G(r), old)
      BY <1>1, <2>1, SeenFits DEF Matches, FitsIfAny, TInv
    <3> QED
      BY <3>1 DEF Fits, RegRow
  <2>3. CASE cmd[r].op = "delete"
    <3> DEFINE calls == IF old.status = Pending THEN <<>>
                        ELSE <<Adjust(old.team, G(r), old.status, FALSE)>>
    <3>1. /\ step' = [step EXCEPT ![r] = "remove"]
          /\ \E hooked : hooked \in BOOLEAN /\ Locals(r, old, calls, hooked)
      BY <1>3, <2>1, <2>3 DEF FindReg
    <3>2. calls \in Calls
      <4>1. <<>> \in Calls
        BY DEF Calls
      <4>2. \A add \in BOOLEAN : Adjust(old.team, G(r), old.status, add) \in Call
        BY <1>1, <2>2, AdjustCall
      <4>3. <<Adjust(old.team, G(r), old.status, FALSE)>> \in Calls
        BY <4>2, OneCall
      <4> QED
        BY <4>1, <4>3
    <3> HIDE DEF calls, old
    <3>3. PICK hooked \in BOOLEAN : Locals(r, old, calls, hooked)
      BY <3>1
    <3> QED
      BY <2>2, <3>1, <3>2, <3>3, TLocals
  <2>4. CASE cmd[r].op = "update"
    <3> DEFINE calls == SwitchCalls(G(r), old, new)
    <3>1. /\ step' = [step EXCEPT ![r] = "reload"] /\ (t # old.team => Plays(G(r), t))
          /\ \E hooked : hooked \in BOOLEAN /\ Locals(r, new, calls, hooked)
      BY <1>3, <2>1, <2>4 DEF FindReg
    <3>2. t \in Team
      BY <1>1, <2>2, <3>1, LedgerAssumption DEF Plays
    <3>3. Flipped(old.status) \in RegStatus
      BY <2>2 DEF Flipped, RegStatus, Result
    <3>4. new \in RegRow /\ new.team \in Team /\ new.status \in RegStatus
      BY <2>2, <3>2, <3>3 DEF UpdateCheeringTeam, RegRow
    <3>5. calls \in Calls
      <4> HIDE DEF old, new
      <4>1. <<>> \in Calls
        BY DEF Calls
      <4>2. /\ \A add \in BOOLEAN : Adjust(old.team, G(r), old.status, add) \in Call
            /\ \A add \in BOOLEAN : Adjust(new.team, G(r), new.status, add) \in Call
        BY <1>1, <2>2, <3>4, AdjustCall
      <4>3. <<Adjust(old.team, G(r), old.status, FALSE),
              Adjust(new.team, G(r), new.status, TRUE)>> \in Calls
        BY <4>2, TwoCalls
      <4> QED
        BY <4>1, <4>3 DEF SwitchCalls
    <3> HIDE DEF calls, new
    <3>6. PICK hooked \in BOOLEAN : Locals(r, new, calls, hooked)
      BY <3>1
    <3> QED
      BY <3>1, <3>4, <3>5, <3>6, TLocals
  <2> QED
    BY <1>1, <2>3, <2>4
<1> QED
  BY <1>2, <1>3

\* A registration statement goes on to the rank records only if there are calls.
LEMMA TContinue ==
  ASSUME TInv, IInv', NEW r \in Req,
         UNCHANGED <<rank, orphan, zset, sync, pulled, missed, cmd, ent, base, todo, hook, row, rbase, wrank, seen>>,
         nextId' \in Nat \ {0}, worphan' \in [Req -> SUBSET Nat],
         step' = [step EXCEPT ![r] = Continue(r)]
  PROVE  TInv'
<1>1. /\ Continue(r) \in Steps \ {"rankReload", "rankWrite", "zadd"}
      /\ Continue(r) = "rankFind" => todo'[r] # <<>>
  BY DEF Continue, Steps
<1>2. TableTypes'
  BY DEF TInv, TableTypes
<1>3. MemoryTypes'
  BY <1>1 DEF TInv, MemoryTypes
<1> QED
  BY <1>1, <1>2, <1>3, TMove

LEMMA TInsertStep == ASSUME TInv, IInv', NEW r \in Req, InsertReg(r) PROVE TInv'
<1>1. CASE Reject(r)
  BY <1>1, TReject
<1>2. CASE ~Reject(r)
  <2>1. /\ UNCHANGED <<rank, orphan, zset, sync, pulled, missed, cmd, ent, base, todo, hook, row, rbase,
                       wrank, worphan, seen>>
        /\ nextId' = nextId + 1 /\ step' = [step EXCEPT ![r] = Continue(r)]
    BY <1>2 DEF InsertReg, cache, local
  <2>2. nextId' \in Nat \ {0} /\ worphan' \in [Req -> SUBSET Nat]
    BY <2>1 DEF TInv, TableTypes, MemoryTypes
  <2> QED
    BY <2>1, <2>2, TContinue
<1> QED
  BY <1>1, <1>2

LEMMA TReloadStep == ASSUME TInv, IInv', NEW r \in Req, ReloadReg(r) PROVE TInv'
<1>1. /\ step[r] = "reload" /\ step' = [step EXCEPT ![r] = "store"]
      /\ base' = [base EXCEPT ![r] = Reloaded(r)]
      /\ UNCHANGED <<rank, nextId, orphan, zset, sync, pulled, missed, cmd, ent, todo, hook, row, rbase,
                     wrank, worphan, seen>>
  BY DEF ReloadReg, db, cache, writes
<1>2. Reloaded(r) \in RegRow \cup {NoRow}
  <2>1. Regs(r)[G(r)] \in RegRow \cup {NoRow}
    BY <1>1, SeenFits DEF FitsIfAny, Fits, TInv
  <2>2. ent[r] \in RegRow \cup {NoRow}
    BY DEF TInv, MemoryTypes
  <2>3. Reloaded(r) \in {Regs(r)[G(r)], ent[r], NoRow}
    BY DEF Reloaded
  <2> QED
    BY <2>1, <2>2, <2>3
<1>3. TableTypes'
  BY <1>1 DEF TInv, TableTypes
<1>4. "store" \in Steps \ {"rankReload", "rankWrite", "zadd"}
  BY DEF Steps
<1>5. MemoryTypes'
  BY <1>1, <1>2, <1>4 DEF TInv, MemoryTypes
<1> QED
  BY <1>1, <1>3, <1>4, <1>5, TMove

LEMMA TStoreStep == ASSUME TInv, IInv', NEW r \in Req, StoreReg(r) PROVE TInv'
<1>1. CASE Reject(r)
  BY <1>1, TReject
<1>2. CASE ~Reject(r)
  <2>1. /\ UNCHANGED <<rank, nextId, orphan, zset, sync, pulled, missed, cmd, ent, base, todo, hook, row,
                       rbase, wrank, seen>>
        /\ worphan' = [worphan EXCEPT ![r] = IF base[r] = NoRow THEN {ent[r].id} ELSE {}]
        /\ step' = [step EXCEPT ![r] = Continue(r)] /\ step[r] = "store"
    BY <1>2 DEF StoreReg, db, cache, local
  <2>2. ent[r].id \in Nat
    BY <2>1 DEF TInv, IInv, RequestOK, Fits, RegRow
  <2>3. nextId' \in Nat \ {0} /\ worphan' \in [Req -> SUBSET Nat]
    BY <2>1, <2>2 DEF TInv, TableTypes, MemoryTypes
  <2> QED
    BY <2>1, <2>3, TContinue
<1> QED
  BY <1>1, <1>2

LEMMA TRemoveStep == ASSUME TInv, IInv', NEW r \in Req, RemoveReg(r) PROVE TInv'
<1>1. /\ UNCHANGED <<rank, nextId, orphan, zset, sync, pulled, missed, cmd, ent, base, todo, hook, row,
                     rbase, wrank, seen>>
      /\ step' = [step EXCEPT ![r] = Continue(r)]
      /\ worphan' = [worphan EXCEPT ![r] = orphan \cap {cmd[r].id}]
  BY DEF RemoveReg, db, cache, local
<1>2. nextId' \in Nat \ {0} /\ worphan' \in [Req -> SUBSET Nat]
  BY <1>1 DEF TInv, TableTypes, MemoryTypes
<1> QED
  BY <1>1, <1>2, TContinue

\* The statements on a rank row: r alone writes its entity and its rows.
LEMMA TRankMove ==
  ASSUME TInv, IInv', NEW r \in Req, NEW next \in RankSteps \cup {"commit"},
         UNCHANGED <<rank, nextId, orphan, zset, sync, pulled, missed, cmd, ent, base, hook, worphan, seen>>,
         NEW n \in Counts \cup {NoRow}, row' = [row EXCEPT ![r] = n],
         NEW m \in Counts \cup {NoRow}, rbase' = [rbase EXCEPT ![r] = m],
         NEW calls \in Calls, todo' = [todo EXCEPT ![r] = calls],
         step' = [step EXCEPT ![r] = next],
         DOMAIN wrank' = Req, \A q \in Req \ {r} : wrank'[q] = wrank[q], RankOK(r)'
  PROVE  TInv'
<1>1. next \in Steps
  BY DEF RankSteps, Steps
<1>2. TableTypes' /\ CacheTypes'
  BY DEF TInv, TableTypes, CacheTypes, Scores
<1>3. MemoryTypes'
  BY <1>1 DEF TInv, MemoryTypes
<1>4. \A q \in Req \ {r} :
        /\ step'[q] = step[q] /\ cmd'[q] = cmd[q] /\ todo'[q] = todo[q] /\ row'[q] = row[q]
        /\ rbase'[q] = rbase[q] /\ wrank'[q] = wrank[q] /\ seen'[q] = seen[q]
  BY DEF TInv, MemoryTypes
<1> QED
  BY <1>2, <1>3, <1>4, TFrame

\* The request at a call: the row it is for and what it sees of it.
LEMMA TAtCall ==
  ASSUME TInv, NEW r \in Req, step[r] \in RankSteps
  PROVE  /\ todo[r] \in Calls /\ todo[r] # <<>> /\ todo[r][1] \in Call /\ Tail(todo[r]) \in Calls
         /\ RankKey(r) \in Cell /\ Ranks(r)[RankKey(r)] \in Counts \cup {NoRow}
<1>1. todo[r] \in Calls /\ todo[r] # <<>> /\ step[r] # "idle"
  BY DEF TInv, MemoryTypes, RankOK, RankSteps
<1> QED
  BY <1>1, TSeen

LEMMA TFindRankStep == ASSUME TInv, IInv', NEW r \in Req, FindRank(r) PROVE TInv'
<1> DEFINE call == todo[r][1]
           old  == Ranks(r)[RankKey(r)]
           n    == Adjusted(OrZero(old), call.status, call.add)
           next == IF old = NoRow THEN "rankWrite" ELSE "rankReload"
<1>1. step[r] = "rankFind" /\ step[r] \in RankSteps
  BY DEF FindRank, RankSteps
<1>2. CASE Reject(r)
  BY <1>2, TReject
<1>3. CASE ~Reject(r)
  <2>1. /\ ~Refused(call, old)
        /\ row' = [row EXCEPT ![r] = n] /\ rbase' = [rbase EXCEPT ![r] = NoRow]
        /\ step' = [step EXCEPT ![r] = next]
        /\ UNCHANGED <<rank, nextId, orphan, zset, sync, pulled, missed, cmd, ent, base, todo, hook,
                       wrank, worphan, seen>>
    BY <1>3 DEF FindRank, OrZero, db, cache, writes
  <2>2. call \in Call /\ old \in Counts \cup {NoRow} /\ todo[r] \in Calls /\ todo[r] # <<>>
    BY <1>1, TAtCall
  <2>3. n \in Counts
    BY <2>1, <2>2, AdjustedCount
  <2>4. next \in RankSteps /\ todo' = [todo EXCEPT ![r] = todo[r]]
    BY <2>1 DEF RankSteps, TInv, MemoryTypes
  <2>5. U(r)' = U(r) /\ RankKey(r)' = RankKey(r) /\ Ranks(r)' = Ranks(r)
    BY <2>1 DEF U, RankKey, Ranks
  <2>6. step'[r] = next /\ row'[r] = n /\ rbase'[r] = NoRow
    BY <2>1 DEF TInv, MemoryTypes
  <2>7. RankOK(r)'
    <3> HIDE DEF n
    <3>1. RankOK(r)
      BY DEF TInv
    <3>2. next = "rankReload" => Ranks(r)'[RankKey(r)'] # NoRow
      BY <2>5
    <3>3. next \in {"rankReload", "rankWrite"}
      OBVIOUS
    <3> HIDE DEF next, old
    <3> QED
      BY <2>1, <2>2, <2>3, <2>6, <3>1, <3>2, <3>3 DEF RankOK
  <2>8. DOMAIN wrank' = Req /\ \A q \in Req \ {r} : wrank'[q] = wrank[q]
    BY <2>1 DEF TInv, MemoryTypes
  <2> HIDE DEF n, next, old, call
  <2> QED
    BY <2>1, <2>2, <2>3, <2>4, <2>7, <2>8, TRankMove
<1> QED
  BY <1>2, <1>3

LEMMA TReloadRankStep == ASSUME TInv, IInv', NEW r \in Req, ReloadRank(r) PROVE TInv'
<1> DEFINE old == Ranks(r)[RankKey(r)]
<1>1. /\ step[r] = "rankReload" /\ step[r] \in RankSteps
      /\ rbase' = [rbase EXCEPT ![r] = old] /\ step' = [step EXCEPT ![r] = "rankWrite"]
      /\ UNCHANGED <<rank, nextId, orphan, zset, sync, pulled, missed, cmd, ent, base, todo, hook, row,
                     wrank, worphan, seen>>
  BY DEF ReloadRank, RankSteps, db, cache, writes
<1>2. todo[r] \in Calls /\ todo[r] # <<>> /\ old \in Counts \cup {NoRow} /\ old # NoRow /\ row[r] \in Counts
      /\ RankOK(r)
  BY <1>1, TAtCall DEF TInv, RankOK
<1>3. /\ todo' = [todo EXCEPT ![r] = todo[r]] /\ row' = [row EXCEPT ![r] = row[r]]
      /\ DOMAIN wrank' = Req /\ \A q \in Req \ {r} : wrank'[q] = wrank[q]
  BY <1>1 DEF TInv, MemoryTypes
<1>4. Ranks(r)' = Ranks(r) /\ RankKey(r)' = RankKey(r)
  BY <1>1 DEF U, RankKey, Ranks
<1>5. step'[r] = "rankWrite"
  BY <1>1 DEF TInv, MemoryTypes
<1>6. RankOK(r)'
  BY <1>1, <1>2, <1>4, <1>5 DEF RankOK
<1>7. "rankWrite" \in RankSteps
  BY DEF RankSteps
<1> HIDE DEF old
<1> QED
  BY <1>1, <1>2, <1>3, <1>6, <1>7, TRankMove

LEMMA TWriteRankStep == ASSUME TInv, IInv', NEW r \in Req, WriteRank(r) PROVE TInv'
<1> DEFINE k    == RankKey(r)
           old  == Ranks(r)[k]
           n    == IF rbase[r] = NoRow THEN row[r] ELSE Patched(old, row[r], rbase[r])
           rows == IF row[r] = rbase[r] THEN wrank[r] ELSE Over(One(k, n), wrank[r])
           next == IF Tail(todo[r]) = <<>> THEN "commit" ELSE "rankFind"
<1>1. step[r] = "rankWrite" /\ step[r] \in RankSteps
  BY DEF WriteRank, RankSteps
<1>2. CASE Reject(r)
  BY <1>2, TReject
<1>3. CASE ~Reject(r)
  <2>1. /\ wrank' = IF row[r] = rbase[r] THEN wrank ELSE [wrank EXCEPT ![r] = Over(One(k, n), @)]
        /\ todo' = [todo EXCEPT ![r] = Tail(@)] /\ step' = [step EXCEPT ![r] = next]
        /\ UNCHANGED <<rank, nextId, orphan, zset, sync, pulled, missed, cmd, ent, base, hook, row, rbase,
                       worphan, seen>>
    BY <1>3 DEF WriteRank, db, cache
  <2>2. /\ Tail(todo[r]) \in Calls /\ k \in Cell /\ RankOK(r) /\ row[r] \in Counts
        /\ rbase[r] \in Counts \cup {NoRow} /\ (rbase[r] # NoRow => old \in Counts)
    BY <1>1, TAtCall DEF TInv, RankOK, MemoryTypes
  <2>3. n \in Counts
    <3>1. CASE rbase[r] = NoRow
      BY <2>2, <3>1
    <3>2. CASE rbase[r] # NoRow
      <4> HIDE DEF old
      <4>1. Patched(old, row[r], rbase[r]) \in Counts
        BY <2>2, <3>2 DEF Patched, Counts
      <4> QED
        BY <3>2, <4>1
    <3> QED
      BY <3>1, <3>2
  <2> HIDE DEF n
  <2>4. DOMAIN wrank' = Req /\ wrank'[r] = rows /\ \A q \in Req \ {r} : wrank'[q] = wrank[q]
    BY <2>1 DEF TInv, MemoryTypes
  <2>5. \A j \in DOMAIN rows : j \in Cell /\ rows[j] \in Counts
    BY <2>2, <2>3 DEF RankOK, Over, One
  <2>6. step'[r] = next /\ todo'[r] = Tail(todo[r])
    BY <2>1 DEF TInv, MemoryTypes
  <2>7. RankOK(r)'
    <3>1. next \in {"commit", "rankFind"} /\ (next = "rankFind" => todo'[r] # <<>>)
      BY <2>6
    <3> HIDE DEF rows, next
    <3> QED
      BY <2>4, <2>5, <2>6, <3>1 DEF RankOK, RankSteps
  <2>8. next \in RankSteps \cup {"commit"}
    BY DEF RankSteps
  <2>9. /\ todo' = [todo EXCEPT ![r] = Tail(todo[r])]
        /\ row' = [row EXCEPT ![r] = row[r]] /\ rbase' = [rbase EXCEPT ![r] = rbase[r]]
    BY <2>1 DEF TInv, MemoryTypes
  <2> HIDE DEF next, rows
  <2> QED
    BY <2>1, <2>2, <2>4, <2>7, <2>8, <2>9, TRankMove
<1> QED
  BY <1>2, <1>3

LEMMA TCommitStep == ASSUME TInv, IInv', NEW r \in Req, Commit(r) PROVE TInv'
<1> DEFINE u    == U(r)
           rows == Over(wrank[r], rank[u])
           next == IF hook[r] THEN "aggregate" ELSE "idle"
<1>1. /\ step[r] = "commit" /\ rank' = [rank EXCEPT ![u] = rows]
      /\ orphan' \in {orphan \ worphan[r], orphan \cup worphan[r]} /\ Forget(r, next)
      /\ cmd' = (IF hook[r] THEN cmd ELSE [cmd EXCEPT ![r] = NoRow])
      /\ UNCHANGED <<nextId, zset, sync, pulled, missed, seen>>
  BY DEF Commit, cache
<1>2. u \in User
  BY <1>1, TSeen
<1>3. \A k \in DOMAIN wrank[r] : k \in Cell /\ wrank[r][k] \in Counts
  BY DEF TInv, RankOK
<1>4. rank[u] \in [Cell -> Counts \cup {NoRow}]
  BY <1>2 DEF TInv, TableTypes
<1>5. DOMAIN wrank[r] \cup DOMAIN rank[u] = Cell
  BY <1>3, <1>4
<1>6. rows = [k \in Cell |-> IF k \in DOMAIN wrank[r] THEN wrank[r][k] ELSE rank[u][k]]
  BY <1>5 DEF Over
<1>7. /\ rows \in [Cell -> Counts \cup {NoRow}]
      /\ \A k \in Cell : rank[u][k] # NoRow => rows[k] # NoRow
  BY <1>3, <1>4, <1>6, LedgerAssumption
<1> HIDE DEF rows
<1>8. /\ rank' \in [User -> [Cell -> Counts \cup {NoRow}]]
      /\ \A v \in User, k \in Cell : rank[v][k] # NoRow => rank'[v][k] # NoRow
  BY <1>1, <1>2, <1>7 DEF TInv, TableTypes
<1>9. orphan' \subseteq Nat
  BY <1>1 DEF TInv, TableTypes, MemoryTypes
<1>10. TableTypes'
  BY <1>1, <1>8, <1>9 DEF TInv, TableTypes
<1>11. \A q \in Req \ {r} : cmd'[q] = cmd[q]
  BY <1>1 DEF TInv, IInv, ShapesOK
<1>12. next \in {"idle", "aggregate"}
  OBVIOUS
<1> HIDE DEF next
<1> QED
  BY <1>1, <1>8, <1>10, <1>11, <1>12, TForget

\* Scores laid over a user's rankings are scores.
LEMMA ZaddTypes ==
  ASSUME TInv, NEW u \in User, NEW data, Scores(data), UpdateRankings(u, data)
  PROVE  zset' \in [User -> [Team \cup {"total"} -> Int \cup {NoRow}]]
<1>1. zset[u] \in [Team \cup {"total"} -> Int \cup {NoRow}]
  BY DEF TInv, CacheTypes
<1>2. DOMAIN data \cup DOMAIN zset[u] = Team \cup {"total"}
  BY <1>1 DEF Scores
<1>3. Over(data, zset[u]) \in [Team \cup {"total"} -> Int \cup {NoRow}]
  BY <1>1, <1>2 DEF Over, Scores
<1>4. zset' = [zset EXCEPT ![u] = Over(data, zset[u])]
  BY DEF UpdateRankings
<1> QED
  BY <1>3, <1>4 DEF TInv, CacheTypes

LEMMA THookStep ==
  ASSUME TInv, IInv', NEW r \in Req, HookAggregate(r) \/ HookZadd(r) \/ HookFails(r) PROVE TInv'
<1>1. U(r) \in User
  <2>1. step[r] # "idle"
    BY DEF HookAggregate, HookZadd, HookFails, InHook
  <2> QED
    BY <2>1, TSeen
<1>2. CASE HookAggregate(r)
  <2>1. /\ step[r] = "aggregate" /\ seen' = [seen EXCEPT ![r] = AggregateRankStats(U(r))]
        /\ step' = [step EXCEPT ![r] = "zadd"]
        /\ UNCHANGED <<rank, nextId, orphan, zset, sync, pulled, missed, cmd, ent, base, todo, hook, row,
                       rbase, wrank, worphan>>
    BY <1>2 DEF HookAggregate, db, cache, local, writes
  <2>2. PICK data : data = AggregateRankStats(U(r)) /\ Scores(data)
    BY <1>1, ScoresType DEF TInv, TableTypes
  <2>3. /\ step'[r] = "zadd" /\ seen'[r] = data /\ DOMAIN seen' = Req
        /\ \A q \in Req \ {r} : step'[q] = step[q] /\ seen'[q] = seen[q]
    BY <2>1, <2>2 DEF TInv, MemoryTypes
  <2>4. "zadd" \in Steps
    BY DEF Steps
  <2>5. TableTypes' /\ CacheTypes'
    BY <2>1 DEF TInv, TableTypes, CacheTypes, Scores
  <2>6. MemoryTypes'
    BY <2>1, <2>3, <2>4 DEF TInv, MemoryTypes
  <2>7. Scores(seen[r])'
    BY <2>2, <2>3 DEF Scores
  <2>8. RankOK(r)'
    <3>1. RankOK(r)
      BY DEF TInv
    <3> QED
      BY <2>1, <2>3, <2>7, <3>1 DEF RankOK, RankSteps
  <2> QED
    BY <2>1, <2>3, <2>5, <2>6, <2>8, TFrame
<1>3. CASE HookZadd(r) \/ HookFails(r)
  <2>1. /\ step[r] \in InHook
        /\ seen' = [seen EXCEPT ![r] = NoRow] /\ step' = [step EXCEPT ![r] = "idle"]
        /\ cmd' = [cmd EXCEPT ![r] = NoRow]
        /\ UNCHANGED <<rank, nextId, orphan, sync, pulled, ent, base, todo, hook, row, rbase,
                       wrank, worphan>>
    BY <1>3 DEF HookZadd, HookFails, InHook, db, writes
  <2>2. PICK u, data : u \in User /\ u = U(r) /\ data = seen[r]
    BY <1>1
  <2>4. zset' \in [User -> [Team \cup {"total"} -> Int \cup {NoRow}]] /\ missed' \subseteq User
    <3>1. CASE HookZadd(r)
      <4>1. Scores(data) /\ UpdateRankings(u, data) /\ missed' = missed \ {u}
        BY <2>2, <3>1 DEF HookZadd, TInv, RankOK
      <4> QED
        BY <2>2, <4>1, ZaddTypes DEF TInv, CacheTypes
    <3>2. CASE HookFails(r)
      BY <1>1, <3>2 DEF HookFails, TInv, CacheTypes
    <3> QED
      BY <1>3, <3>1, <3>2
  <2>5. /\ step'[r] = "idle" /\ DOMAIN seen' = Req
        /\ \A q \in Req \ {r} : step'[q] = step[q] /\ seen'[q] = seen[q] /\ cmd'[q] = cmd[q]
    BY <2>1 DEF TInv, MemoryTypes, IInv, ShapesOK
  <2>6. "idle" \in Steps
    BY DEF Steps
  <2>7. TableTypes' /\ CacheTypes'
    BY <2>1, <2>4 DEF TInv, TableTypes, CacheTypes, Scores
  <2>8. MemoryTypes'
    BY <2>1, <2>5, <2>6 DEF TInv, MemoryTypes
  <2>9. RankOK(r)'
    <3>1. RankOK(r)
      BY DEF TInv
    <3> QED
      BY <2>1, <2>5, <3>1 DEF RankOK, RankSteps
  <2> QED
    BY <2>1, <2>5, <2>7, <2>8, <2>9, TFrame
<1> QED
  BY <1>2, <1>3

\* A sync, a Redis restart or no step at all leaves tables and requests as they are.
LEMMA TCacheStep ==
  ASSUME TInv, IInv', CacheTypes',
         UNCHANGED <<rank, nextId, orphan, step, cmd, ent, base, todo, hook, row, rbase,
                     wrank, worphan, seen>>
  PROVE  TInv'
<1>1. TableTypes' /\ MemoryTypes'
  BY DEF TInv, TableTypes, MemoryTypes
<1>2. ASSUME NEW q \in Req PROVE RankOK(q)'
  BY <1>1, RankKept
<1> QED
  BY <1>1, <1>2 DEF TInv

LEMMA TSyncStep == ASSUME TInv, IInv', NEW u \in User, Sync(u) \/ SyncFails(u) PROVE TInv'
<1>1. UNCHANGED <<rank, nextId, orphan, step, cmd, ent, base, todo, hook, row, rbase,
                  wrank, worphan, seen>>
  BY DEF Sync, SyncAggregate, SyncZadd, SyncFails, db, local, writes
<1>2. CASE SyncAggregate(u)
  <2>1. /\ pulled' = [pulled EXCEPT ![u] = AggregateRankStats(u)]
        /\ sync' = [sync EXCEPT ![u] = "zadd"] /\ zset' = zset /\ missed' = missed
    BY <1>2 DEF SyncAggregate
  <2>2. PICK data : data = AggregateRankStats(u) /\ Scores(data)
    BY ScoresType DEF TInv, TableTypes
  <2>3. /\ pulled'[u] = data /\ DOMAIN pulled' = User
        /\ \A v \in User \ {u} : pulled'[v] = pulled[v] /\ sync'[v] = sync[v]
    BY <2>1, <2>2 DEF TInv, CacheTypes
  <2>4. \A v \in User : sync'[v] = "zadd" => Scores(pulled'[v])
    BY <2>2, <2>3 DEF TInv, CacheTypes
  <2>5. CacheTypes'
    BY <2>1, <2>3, <2>4 DEF TInv, CacheTypes, Scores
  <2> QED
    BY <1>1, <2>5, TCacheStep
<1>3. CASE SyncZadd(u) \/ SyncFails(u)
  <2>1. pulled' = [pulled EXCEPT ![u] = NoRow] /\ sync' = [sync EXCEPT ![u] = "idle"]
    BY <1>3 DEF SyncZadd, SyncFails
  <2>2. zset' \in [User -> [Team \cup {"total"} -> Int \cup {NoRow}]] /\ missed' \subseteq User
    <3>1. CASE SyncZadd(u)
      <4>1. sync[u] = "zadd" /\ UpdateRankings(u, pulled[u]) /\ missed' = missed \ {u}
        BY <3>1 DEF SyncZadd
      <4> QED
        BY <4>1, ZaddTypes DEF TInv, CacheTypes
    <3>2. CASE SyncFails(u)
      BY <3>2 DEF SyncFails, TInv, CacheTypes
    <3> QED
      BY <1>3, <3>1, <3>2
  <2>3. /\ DOMAIN pulled' = User /\ sync'[u] = "idle"
        /\ \A v \in User \ {u} : pulled'[v] = pulled[v] /\ sync'[v] = sync[v]
    BY <2>1 DEF TInv, CacheTypes
  <2>4. \A v \in User : sync'[v] = "zadd" => Scores(pulled'[v])
    BY <2>3 DEF TInv, CacheTypes
  <2>5. CacheTypes'
    BY <2>1, <2>2, <2>3, <2>4 DEF TInv, CacheTypes, Scores
  <2> QED
    BY <1>1, <2>5, TCacheStep
<1> QED
  BY <1>2, <1>3 DEF Sync

LEMMA TProcessStep == ASSUME TInv, IInv', ProcessRestarts PROVE TInv'
<1> USE DEF ProcessRestarts
<1>1. TableTypes'
  BY DEF db, TInv, TableTypes
<1>2. CacheTypes'
  BY DEF TInv, CacheTypes
<1>3. MemoryTypes'
  <2>1. <<>> \in Calls /\ "idle" \in Steps /\ {} \in SUBSET Nat /\ FALSE \in BOOLEAN
    BY DEF Calls, Steps
  <2> QED
    BY <2>1 DEF MemoryTypes
<1>4. ASSUME NEW r \in Req PROVE RankOK(r)'
  <2>1. step'[r] = "idle" /\ wrank'[r] = Empty
    OBVIOUS
  <2> QED
    BY <2>1 DEF RankOK, RankSteps, Empty
<1> QED
  BY <1>1, <1>2, <1>3, <1>4 DEF TInv

LEMMA TRedisStep == ASSUME TInv, IInv', RedisRestarts PROVE TInv'
<1>1. UNCHANGED <<rank, nextId, orphan, step, cmd, ent, base, todo, hook, row, rbase,
                  wrank, worphan, seen>>
  BY DEF RedisRestarts, db, local, writes
<1>2. CacheTypes'
  BY DEF RedisRestarts, TInv, CacheTypes
<1> QED
  BY <1>1, <1>2, TCacheStep

LEMMA TInvNext == ASSUME TInv, [Next]_vars PROVE TInv'
<1>0. IInv'
  BY IInvNext DEF TInv
<1>1. ASSUME NEW r \in Req, Register(r) \/ Update(r) \/ Delete(r) PROVE TInv'
  BY <1>0, <1>1, TArrivalStep
<1>2. ASSUME NEW r \in Req, Advance(r) PROVE TInv'
  <2>1. CASE DeadlockDetected(r)
    BY <1>0, <2>1, TReject DEF DeadlockDetected
  <2> QED
    BY <1>0, <1>2, <2>1, TDuplicateStep, TInsertStep, TFindStep, TReloadStep, TStoreStep, TRemoveStep,
       TFindRankStep, TReloadRankStep, TWriteRankStep, TCommitStep, THookStep DEF Advance
<1>3. ASSUME NEW r \in Req, StatementFails(r) \/ HookFails(r) PROVE TInv'
  BY <1>0, <1>3, TReject, THookStep DEF StatementFails
<1>4. ASSUME NEW u \in User, Sync(u) \/ SyncFails(u) PROVE TInv'
  BY <1>0, <1>4, TSyncStep
<1>5. CASE ProcessRestarts
  BY <1>0, <1>5, TProcessStep
<1>6. CASE RedisRestarts
  BY <1>0, <1>6, TRedisStep
<1>7. CASE UNCHANGED vars
  <2>1. CacheTypes'
    BY <1>7 DEF vars, cache, TInv, CacheTypes, Scores
  <2> QED
    BY <1>0, <1>7, <2>1, TCacheStep DEF vars, db, local, writes
<1> QED
  BY <1>1, <1>2, <1>3, <1>4, <1>5, <1>6, <1>7 DEF Next

LEMMA TInvTypes == ASSUME TInv PROVE TypeOK
<1>1. ASSUME NEW calls \in Calls PROVE Len(calls) <= 2
  <2>1. CASE calls = <<>>
    BY <2>1
  <2>2. CASE \E c \in Call : calls = <<c>>
    BY <2>2
  <2>3. CASE \E c \in Call, d \in Call : calls = <<c, d>>
    BY <2>3
  <2> QED
    BY <2>1, <2>2, <2>3 DEF Calls
<1>2. ASSUME NEW r \in Req
      PROVE  /\ step[r] # "idle" => U(r) \in User /\ G(r) \in Game /\ DOMAIN wreg[r] \subseteq {G(r)}
             /\ Len(todo[r]) <= 2 /\ DOMAIN wrank[r] \subseteq Team \X Year
  <2>1. todo[r] \in Calls /\ RequestOK(r) /\ RankOK(r)
    BY DEF TInv, MemoryTypes, IInv
  <2>2. Len(todo[r]) <= 2
    BY <1>1, <2>1
  <2>3. step[r] # "idle" => U(r) \in User /\ G(r) \in Game /\ DOMAIN wreg[r] \subseteq {G(r)}
    BY <2>1 DEF RequestOK
  <2>4. DOMAIN wrank[r] \subseteq Team \X Year
    BY <2>1 DEF RankOK, Cell
  <2> QED
    BY <2>2, <2>3, <2>4
<1>3. /\ \A g \in Game : game[g] \in GameRow(g)
      /\ reg \in [User -> [Game -> RegRow \cup {NoRow}]]
  BY DEF TInv, IInv, GamesOK, TablesOK
<1>4. rank \in [User -> [Team \X Year -> Counts \cup {NoRow}]] /\ nextId \in Nat \ {0} /\ orphan \subseteq Nat
  BY DEF TInv, TableTypes, Cell
<1>5. /\ zset \in [User -> [Team \cup {"total"} -> Int \cup {NoRow}]]
      /\ sync \in [User -> {"idle", "aggregate", "zadd"}] /\ missed \subseteq User
  BY DEF TInv, CacheTypes
<1>6. /\ step \in [Req -> Steps]
      /\ ent \in [Req -> RegRow \cup {NoRow}] /\ base \in [Req -> RegRow \cup {NoRow}]
      /\ row \in [Req -> Counts \cup {NoRow}] /\ rbase \in [Req -> Counts \cup {NoRow}]
      /\ hook \in [Req -> BOOLEAN]
  BY DEF TInv, MemoryTypes
<1> QED
  BY <1>2, <1>3, <1>4, <1>5, <1>6 DEF TypeOK

\* Whatever overlaps and fails: games keep one of their teams as winner, a
\* counter of a rank row never becomes negative, a transaction has written only
\* its own game's registration and rank rows that exist, and makes at most two
\* calls of updateRankRecord.
THEOREM RankTypesCorrect == Spec => []TypeOK
<1>1. Init => TInv
  BY IInvInit, TInit
<1>2. TInv /\ [Next]_vars => TInv'
  BY TInvNext
<1>3. TInv => TypeOK
  BY TInvTypes
<1> QED
  BY <1>1, <1>2, <1>3, PTL DEF Spec

-----------------------------------------------------------------------------
(* 6. The pages.  A registration's id is its own among the user's, so that  *)
(* an entry of the list opens as itself; and the pages' several ways of     *)
(* counting are sums over partitions of the same registrations.             *)

\* The ids in use for the registration of user u for game g.
Ids(u, g) ==
  {reg[u][k].id : k \in {g} \cap Registered(u)}
    \cup {wreg[r][g].id : r \in {q \in Req : /\ step[q] # "idle" /\ U(q) = u
                                             /\ g \in DOMAIN wreg[q] /\ wreg[q][g] # NoRow}}

\* An id is drawn once; a store writes the id it has found.
IdsOK ==
  /\ \A u \in User, g \in Game : \A i \in Ids(u, g) : i < nextId
  /\ \A u \in User, g \in Game, h \in Game : g # h => Ids(u, g) \cap Ids(u, h) = {}
  /\ \A r \in Req : step[r] = "store" /\ base[r] # NoRow => base[r].id = ent[r].id

DInv == IInv /\ IdsOK

LEMMA InIds ==
  ASSUME NEW u, NEW g \in Game
  PROVE  /\ reg[u][g] # NoRow => reg[u][g].id \in Ids(u, g)
         /\ \A r \in Req : step[r] # "idle" /\ U(r) = u /\ g \in DOMAIN wreg[r] /\ wreg[r][g] # NoRow
              => wreg[r][g].id \in Ids(u, g)
BY DEF Ids, Registered

LEMMA IdsFrame ==
  ASSUME DInv, IInv', NEW r \in Req, nextId' \in {nextId, nextId + 1},
         \A q \in Req \ {r} :
           /\ step'[q] = step[q] /\ cmd'[q] = cmd[q] /\ wreg'[q] = wreg[q]
           /\ ent'[q] = ent[q] /\ base'[q] = base[q],
         \A u \in User, g \in Game : reg'[u][g] # NoRow => reg'[u][g].id \in Ids(u, g),
         \A g \in DOMAIN wreg'[r] : step'[r] # "idle" /\ wreg'[r][g] # NoRow =>
           \/ wreg'[r][g].id \in Ids(U(r)', g)
           \/ wreg'[r][g].id = nextId /\ nextId' = nextId + 1,
         step'[r] = "store" /\ base'[r] # NoRow => base'[r].id = ent'[r].id
  PROVE  DInv'
<1>1. nextId \in Nat
  BY DEF DInv, IInv, TablesOK
<1>2. \A q \in Req \ {r} : U(q)' = U(q)
  BY DEF U
<1>3. \A g \in DOMAIN wreg'[r] : g = G(r)'
  BY DEF IInv, RequestOK
<1>4. ASSUME NEW u \in User, NEW g \in Game, NEW i \in Ids(u, g)'
      PROVE  i \in Ids(u, g) \/ (g = G(r)' /\ i = nextId /\ nextId' = nextId + 1)
  <2>1. CASE reg'[u][g] # NoRow /\ i = reg'[u][g].id
    BY <2>1
  <2>2. ASSUME NEW q \in Req, step'[q] # "idle", U(q)' = u, g \in DOMAIN wreg'[q],
               wreg'[q][g] # NoRow, i = wreg'[q][g].id
        PROVE  i \in Ids(u, g) \/ (g = G(r)' /\ i = nextId /\ nextId' = nextId + 1)
    <3>1. CASE q = r
      BY <1>3, <2>2, <3>1
    <3>2. CASE q # r
      BY <1>2, <2>2, <3>2, InIds
    <3> QED
      BY <3>1, <3>2
  <2> QED
    BY <2>1, <2>2 DEF Ids, Registered
<1>5. \A u \in User, g \in Game : \A i \in Ids(u, g) : i < nextId /\ i \in Nat
  <2>1. ASSUME NEW u \in User, NEW g \in Game PROVE Ids(u, g) \subseteq Nat
    <3>1. reg[u][g] # NoRow => reg[u][g].id \in Nat
      BY DEF DInv, IInv, TablesOK, RegRow
    <3>2. \A q \in Req : g \in DOMAIN wreg[q] /\ wreg[q][g] # NoRow => wreg[q][g].id \in Nat
      BY DEF DInv, IInv, RequestOK, FitsIfAny, Fits, RegRow
    <3> QED
      BY <3>1, <3>2 DEF Ids, Registered
  <2> QED
    BY <2>1 DEF DInv, IdsOK
<1>6. ASSUME NEW u \in User, NEW g \in Game, NEW i \in Ids(u, g)' PROVE i < nextId'
  <2>1. CASE i \in Ids(u, g)
    BY <1>1, <1>5, <2>1
  <2>2. CASE i = nextId /\ nextId' = nextId + 1
    BY <1>1, <2>2
  <2> QED
    BY <1>4, <2>1, <2>2
<1>7. ASSUME NEW u \in User, NEW g \in Game, NEW h \in Game, g # h,
             NEW i, i \in Ids(u, g)', i \in Ids(u, h)'
      PROVE  FALSE
  <2>1. CASE i \in Ids(u, g) /\ i \in Ids(u, h)
    BY <1>7, <2>1 DEF DInv, IdsOK
  <2>2. CASE i \in Ids(u, g) /\ i = nextId
    BY <1>1, <1>5, <2>2
  <2>3. CASE i \in Ids(u, h) /\ i = nextId
    BY <1>1, <1>5, <2>3
  <2>4. CASE g = G(r)' /\ h = G(r)'
    BY <1>7, <2>4
  <2> QED
    BY <1>4, <1>7, <2>1, <2>2, <2>3, <2>4
<1>8. \A q \in Req : step'[q] = "store" /\ base'[q] # NoRow => base'[q].id = ent'[q].id
  BY DEF DInv, IdsOK
<1>9. \A u \in User, g \in Game, h \in Game : g # h => Ids(u, g)' \cap Ids(u, h)' = {}
  BY <1>7
<1> QED
  BY <1>6, <1>8, <1>9 DEF DInv, IdsOK

\* A step that writes no registration.
LEMMA IdsMove ==
  ASSUME DInv, IInv', NEW r \in Req, UNCHANGED <<reg, nextId>>,
         \A q \in Req \ {r} :
           /\ step'[q] = step[q] /\ cmd'[q] = cmd[q] /\ wreg'[q] = wreg[q]
           /\ ent'[q] = ent[q] /\ base'[q] = base[q],
         \/ wreg'[r] = wreg[r] /\ cmd'[r] = cmd[r] /\ step[r] # "idle"
         \/ \A g \in DOMAIN wreg'[r] : wreg'[r][g] = NoRow,
         step'[r] = "store" /\ base'[r] # NoRow => base'[r].id = ent'[r].id
  PROVE  DInv'
<1>1. \A u \in User, g \in Game : reg'[u][g] # NoRow => reg'[u][g].id \in Ids(u, g)
  BY InIds
<1>2. ASSUME NEW g \in DOMAIN wreg'[r], step'[r] # "idle", wreg'[r][g] # NoRow
      PROVE  wreg'[r][g].id \in Ids(U(r)', g)
  <2>1. wreg'[r] = wreg[r] /\ U(r)' = U(r) /\ step[r] # "idle"
    BY <1>2 DEF U
  <2>2. g \in Game
    BY <2>1, <1>2 DEF DInv, IInv, RequestOK
  <2> QED
    BY <1>2, <2>1, <2>2, InIds
<1> QED
  BY <1>1, <1>2, IdsFrame

LEMMA DReject == ASSUME DInv, IInv', NEW r \in Req, Reject(r) PROVE DInv'
<1>1. Forget(r, "idle") /\ cmd' = [cmd EXCEPT ![r] = NoRow] /\ UNCHANGED <<reg, nextId>>
  BY DEF Reject, db
<1>2. /\ step'[r] = "idle" /\ wreg'[r] = Empty
      /\ \A q \in Req \ {r} :
           /\ step'[q] = step[q] /\ cmd'[q] = cmd[q] /\ wreg'[q] = wreg[q]
           /\ ent'[q] = ent[q] /\ base'[q] = base[q]
  BY <1>1 DEF Forget, DInv, IInv, ShapesOK
<1>3. \A g \in DOMAIN wreg'[r] : wreg'[r][g] = NoRow
  BY <1>2 DEF Empty
<1> QED
  BY <1>1, <1>2, <1>3, IdsMove

LEMMA DArrivalStep ==
  ASSUME DInv, IInv', NEW r \in Req, Register(r) \/ Update(r) \/ Delete(r) PROVE DInv'
<1>1. \E c : Begin(r, c, "duplicate") \/ Begin(r, c, "find")
  <2>1. CASE Register(r)
    BY <2>1 DEF Register
  <2>2. CASE Update(r)
    BY <2>2 DEF Update
  <2>3. CASE Delete(r)
    BY <2>3 DEF Delete
  <2> QED
    BY <2>1, <2>2, <2>3
<1> PICK c : Begin(r, c, "duplicate") \/ Begin(r, c, "find")
  BY <1>1
<1> PICK first \in {"duplicate", "find"} : Begin(r, c, first)
  OBVIOUS
<1>2. /\ step[r] = "idle" /\ cmd' = [cmd EXCEPT ![r] = c] /\ step' = [step EXCEPT ![r] = first]
      /\ UNCHANGED <<reg, nextId, wreg, ent, base>>
  BY DEF Begin, db, writes
<1>3. /\ step'[r] # "store"
      /\ \A q \in Req \ {r} : step'[q] = step[q] /\ cmd'[q] = cmd[q]
  BY <1>2 DEF DInv, IInv, ShapesOK
<1>4. DOMAIN wreg'[r] = {}
  BY <1>2 DEF DInv, IInv, RequestOK, AfterReg
<1> QED
  BY <1>2, <1>3, <1>4, IdsMove

\* The statements that only read, and the rank records.
LEMMA DReadStep ==
  ASSUME DInv, IInv', NEW r \in Req,
         \/ CheckDuplicate(r) \/ FindReg(r) \/ ReloadReg(r)
         \/ FindRank(r) \/ ReloadRank(r) \/ WriteRank(r) \/ HookAggregate(r)
  PROVE  DInv'
<1>1. CASE Reject(r)
  BY <1>1, DReject
<1>2. CASE ~Reject(r)
  <2>1. /\ step[r] # "idle" /\ UNCHANGED <<reg, nextId, cmd, wreg>>
        /\ \E next \in Steps : step' = [step EXCEPT ![r] = next] /\ (next = "store" => ReloadReg(r))
        /\ \A q \in Req \ {r} : ent'[q] = ent[q] /\ base'[q] = base[q]
    <3>1. DOMAIN ent = Req /\ DOMAIN base = Req
      BY DEF DInv, IInv, ShapesOK
    <3>3. CASE CheckDuplicate(r)
      BY <1>2, <3>1, <3>3 DEF CheckDuplicate, Locals, db, writes, Steps
    <3>4. CASE FindReg(r)
      BY <1>2, <3>1, <3>4 DEF FindReg, Locals, db, writes, Steps, DInv, IInv, RequestOK
    <3>5. CASE ReloadReg(r)
      BY <3>1, <3>5 DEF ReloadReg, db, writes, Steps
    <3>6. CASE FindRank(r)
      BY <1>2, <3>1, <3>6 DEF FindRank, db, writes, Steps
    <3>7. CASE ReloadRank(r)
      BY <3>1, <3>7 DEF ReloadRank, db, writes, Steps
    <3>8. CASE WriteRank(r)
      BY <1>2, <3>1, <3>8 DEF WriteRank, db, Steps
    <3>9. CASE HookAggregate(r)
      BY <3>1, <3>9 DEF HookAggregate, db, local, writes, Steps
    <3> QED
      BY <3>3, <3>4, <3>5, <3>6, <3>7, <3>8, <3>9
  <2>2. PICK next : step' = [step EXCEPT ![r] = next] /\ (next = "store" => ReloadReg(r))
    BY <2>1
  <2>3. /\ step'[r] = next
        /\ \A q \in Req \ {r} :
             /\ step'[q] = step[q] /\ cmd'[q] = cmd[q] /\ wreg'[q] = wreg[q]
             /\ ent'[q] = ent[q] /\ base'[q] = base[q]
    BY <2>1, <2>2 DEF DInv, IInv, ShapesOK
  <2>4. ASSUME step'[r] = "store", base'[r] # NoRow PROVE base'[r].id = ent'[r].id
    <3>1. base' = [base EXCEPT ![r] = Reloaded(r)] /\ ent' = ent
      BY <2>2, <2>3, <2>4 DEF ReloadReg
    <3>2. base'[r] = Reloaded(r)
      BY <3>1 DEF DInv, IInv, ShapesOK
    <3> QED
      BY <2>4, <3>1, <3>2 DEF Reloaded, Matches
  <2> QED
    BY <2>1, <2>3, <2>4, IdsMove
<1> QED
  BY <1>1, <1>2

LEMMA DInsertStep == ASSUME DInv, IInv', NEW r \in Req, InsertReg(r) PROVE DInv'
<1>1. CASE Reject(r)
  BY <1>1, DReject
<1>2. CASE ~Reject(r)
  <2>1. /\ step[r] = "insert" /\ wreg' = [wreg EXCEPT ![r] = One(G(r), [ent[r] EXCEPT !.id = nextId])]
        /\ nextId' = nextId + 1 /\ step' = [step EXCEPT ![r] = Continue(r)]
        /\ UNCHANGED <<reg, cmd, ent, base>>
    BY <1>2 DEF InsertReg, local
  <2>2. ent[r] \in RegRow
    BY <2>1 DEF DInv, IInv, RequestOK, Fits
  <2>3. [ent[r] EXCEPT !.id = nextId].id = nextId
    BY <2>2 DEF RegRow
  <2>4. wreg'[r] = One(G(r), [ent[r] EXCEPT !.id = nextId]) /\ step'[r] = Continue(r)
        /\ \A q \in Req \ {r} : step'[q] = step[q] /\ wreg'[q] = wreg[q]
    BY <2>1 DEF DInv, IInv, ShapesOK
  <2>5. \A g \in DOMAIN wreg'[r] : wreg'[r][g].id = nextId
    BY <2>3, <2>4 DEF One
  <2>6. step'[r] # "store"
    BY <2>4 DEF Continue
  <2>7. \A u \in User, g \in Game : reg'[u][g] # NoRow => reg'[u][g].id \in Ids(u, g)
    BY <2>1, InIds
  <2> QED
    BY <2>1, <2>4, <2>5, <2>6, <2>7, IdsFrame
<1> QED
  BY <1>1, <1>2

LEMMA DStoreStep == ASSUME DInv, IInv', NEW r \in Req, StoreReg(r) PROVE DInv'
<1>1. CASE Reject(r)
  BY <1>1, DReject
<1>2. CASE ~Reject(r)
  <2> DEFINE now == reg[U(r)][G(r)]
             p == Patched(now, ent[r], base[r])
  <2>1. /\ step[r] = "store" /\ UNCHANGED <<reg, nextId, cmd, ent, base>>
        /\ step' = [step EXCEPT ![r] = Continue(r)]
        /\ wreg' = IF base[r] # NoRow /\ Matches(r, ent[r].id)
                   THEN [wreg EXCEPT ![r] = One(G(r), p)] ELSE wreg
    BY <1>2 DEF StoreReg, db, local
  <2>2. step'[r] = Continue(r) /\ step'[r] # "store"
        /\ \A q \in Req \ {r} : step'[q] = step[q] /\ wreg'[q] = wreg[q]
    BY <2>1 DEF DInv, IInv, ShapesOK, Continue
  <2>3. CASE base[r] # NoRow /\ Matches(r, ent[r].id)
    <3>1. U(r) \in User /\ G(r) \in Game /\ DOMAIN wreg[r] = {}
      BY <2>1 DEF DInv, IInv, RequestOK, AfterReg
    <3>2. Regs(r)[G(r)] = now
      <4>1. G(r) \in DOMAIN reg[U(r)]
        BY <3>1 DEF DInv, IInv, TablesOK
      <4> QED
        BY <3>1, <4>1 DEF Regs, Over
    <3>3. now \in RegRow /\ now # NoRow
      BY <2>3, <3>1, <3>2 DEF Matches, DInv, IInv, TablesOK
    <3>4. p.id = now.id
      <4>1. base[r].id = ent[r].id
        BY <2>1, <2>3 DEF DInv, IdsOK
      <4>2. "id" \in DOMAIN now
        BY <3>3 DEF RegRow
      <4> HIDE DEF now
      <4> QED
        BY <4>1, <4>2 DEF Patched
    <3>5. now.id \in Ids(U(r), G(r)) /\ U(r)' = U(r)
      BY <2>1, <3>1, <3>3, InIds DEF U
    <3> HIDE DEF p, now
    <3>6. wreg'[r] = One(G(r), p)
      BY <2>1, <2>3 DEF DInv, IInv, ShapesOK
    <3>7. \A g \in DOMAIN wreg'[r] : wreg'[r][g].id \in Ids(U(r)', g)
      BY <3>4, <3>5, <3>6 DEF One
    <3>8. \A u \in User, g \in Game : reg'[u][g] # NoRow => reg'[u][g].id \in Ids(u, g)
      BY <2>1, InIds
    <3> QED
      BY <2>1, <2>2, <3>7, <3>8, IdsFrame
  <2>4. CASE ~(base[r] # NoRow /\ Matches(r, ent[r].id))
    BY <2>1, <2>2, <2>4, IdsMove
  <2> QED
    BY <2>3, <2>4
<1> QED
  BY <1>1, <1>2

LEMMA DRemoveStep == ASSUME DInv, IInv', NEW r \in Req, RemoveReg(r) PROVE DInv'
<1>1. /\ step[r] = "remove" /\ step' = [step EXCEPT ![r] = Continue(r)]
      /\ wreg' = [wreg EXCEPT ![r] = One(G(r), NoRow)] \/ wreg' = wreg
      /\ UNCHANGED <<reg, nextId, cmd, ent, base>>
  BY DEF RemoveReg, db, local
<1>2. /\ step'[r] # "store" /\ (wreg'[r] = One(G(r), NoRow) \/ wreg'[r] = wreg[r])
      /\ \A q \in Req \ {r} : step'[q] = step[q] /\ wreg'[q] = wreg[q]
  BY <1>1 DEF DInv, IInv, ShapesOK, Continue
<1>3. \A g \in DOMAIN One(G(r), NoRow) : One(G(r), NoRow)[g] = NoRow
  BY DEF One
<1> QED
  BY <1>1, <1>2, <1>3, IdsMove

LEMMA DCommitStep == ASSUME DInv, IInv', NEW r \in Req, Commit(r) PROVE DInv'
<1> DEFINE next == IF hook[r] THEN "aggregate" ELSE "idle"
           rows == Over(wreg[r], reg[U(r)])
<1>1. step[r] = "commit" /\ Forget(r, next) /\ UNCHANGED nextId
      /\ reg' = [reg EXCEPT ![U(r)] = rows]
      /\ cmd' = IF hook[r] THEN cmd ELSE [cmd EXCEPT ![r] = NoRow]
  BY DEF Commit
<1>2. U(r) \in User /\ G(r) \in Game
  BY <1>1 DEF DInv, IInv, RequestOK
<1>3. DOMAIN reg[U(r)] = Game /\ DOMAIN wreg[r] \subseteq Game
  BY <1>2 DEF DInv, IInv, TablesOK, RequestOK
<1>4. rows = [g \in Game |-> IF g \in DOMAIN wreg[r] THEN wreg[r][g] ELSE reg[U(r)][g]]
  BY <1>3 DEF Over
<1>5. \A g \in Game : rows[g] # NoRow => rows[g].id \in Ids(U(r), g)
  BY <1>1, <1>4, InIds
<1> HIDE DEF rows
<1>6. \A u \in User, g \in Game : reg'[u][g] # NoRow => reg'[u][g].id \in Ids(u, g)
  BY <1>1, <1>5, InIds DEF DInv, IInv, TablesOK
<1>7. next # "store"
  OBVIOUS
<1> HIDE DEF next
<1>8. /\ step'[r] # "store" /\ wreg'[r] = Empty
      /\ \A q \in Req \ {r} :
           /\ step'[q] = step[q] /\ cmd'[q] = cmd[q] /\ wreg'[q] = wreg[q]
           /\ ent'[q] = ent[q] /\ base'[q] = base[q]
  BY <1>1, <1>7 DEF Forget, DInv, IInv, ShapesOK
<1>9. DOMAIN wreg'[r] = {}
  BY <1>8 DEF Empty
<1> QED
  BY <1>1, <1>6, <1>8, <1>9, IdsFrame

LEMMA DZaddStep == ASSUME DInv, IInv', NEW r \in Req, HookZadd(r) \/ HookFails(r) PROVE DInv'
<1>1. /\ step[r] \in InHook /\ step' = [step EXCEPT ![r] = "idle"] /\ cmd' = [cmd EXCEPT ![r] = NoRow]
      /\ UNCHANGED <<reg, nextId, wreg, ent, base>>
  BY DEF HookZadd, HookFails, InHook, db, writes
<1>2. /\ step'[r] # "store"
      /\ \A q \in Req \ {r} : step'[q] = step[q] /\ cmd'[q] = cmd[q]
  BY <1>1 DEF DInv, IInv, ShapesOK
<1>3. DOMAIN wreg'[r] = {}
  BY <1>1 DEF DInv, IInv, RequestOK, AfterReg, InHook
<1> QED
  BY <1>1, <1>2, <1>3, IdsMove

\* A restart, a sync or no step at all takes no new id into use.
LEMMA DOtherStep ==
  ASSUME DInv, IInv', UNCHANGED <<reg, nextId>>,
         \/ UNCHANGED <<step, cmd, wreg, ent, base>>
         \/ \A r \in Req : step'[r] = "idle"
  PROVE  DInv'
<1>1. ASSUME NEW u \in User, NEW g \in Game PROVE Ids(u, g)' \subseteq Ids(u, g)
  BY DEF Ids, Registered, U
<1>2. \A r \in Req : step'[r] = "store" /\ base'[r] # NoRow => base'[r].id = ent'[r].id
  BY DEF DInv, IdsOK
<1>3. \A u \in User, g \in Game : \A i \in Ids(u, g)' : i < nextId'
  BY <1>1 DEF DInv, IdsOK
<1>4. \A u \in User, g \in Game, h \in Game : g # h => Ids(u, g)' \cap Ids(u, h)' = {}
  BY <1>1 DEF DInv, IdsOK
<1> QED
  BY <1>2, <1>3, <1>4 DEF DInv, IdsOK

LEMMA DInvNext == ASSUME DInv, [Next]_vars PROVE DInv'
<1>0. IInv'
  BY IInvNext DEF DInv
<1>1. ASSUME NEW r \in Req, Register(r) \/ Update(r) \/ Delete(r) PROVE DInv'
  BY <1>0, <1>1, DArrivalStep
<1>2. ASSUME NEW r \in Req, Advance(r) PROVE DInv'
  <2>1. CASE DeadlockDetected(r)
    BY <1>0, <2>1, DReject DEF DeadlockDetected
  <2> QED
    BY <1>0, <1>2, <2>1, DReadStep, DInsertStep, DStoreStep, DRemoveStep, DCommitStep, DZaddStep
    DEF Advance
<1>3. ASSUME NEW r \in Req, StatementFails(r) \/ HookFails(r) PROVE DInv'
  BY <1>0, <1>3, DReject, DZaddStep DEF StatementFails
<1>4. ASSUME NEW u \in User, Sync(u) \/ SyncFails(u) PROVE DInv'
  BY <1>0, <1>4, DOtherStep DEF Sync, SyncAggregate, SyncZadd, SyncFails, db, local, writes
<1>5. CASE ProcessRestarts
  BY <1>0, <1>5, DOtherStep DEF ProcessRestarts, db
<1>6. CASE RedisRestarts
  BY <1>0, <1>6, DOtherStep DEF RedisRestarts, db, local, writes
<1>7. CASE UNCHANGED vars
  BY <1>0, <1>7, DOtherStep DEF vars, db, local, writes
<1> QED
  BY <1>1, <1>2, <1>3, <1>4, <1>5, <1>6, <1>7 DEF Next

LEMMA DInit == ASSUME Init PROVE DInv
<1> USE DEF Init, AtRest
<1>1. \A u \in User, g \in Game : Ids(u, g) = {}
  BY DEF Ids, Registered
<1>2. \A r \in Req : step[r] = "idle"
  OBVIOUS
<1> QED
  BY <1>1, <1>2, IInvInit DEF DInv, IdsOK

-----------------------------------------------------------------------------
(* Sums over partitions.                                                    *)

\* When f counts the members of P that p sends to each s, its sum is their number.
LEMMA SumPartition ==
  ASSUME NEW P, IsFiniteSet(P), NEW S, NEW p \in [P -> S], NEW f \in [S -> Nat],
         \A s \in S : f[s] = Cardinality({x \in P : p[x] = s})
  PROVE  SumOf(f) = Cardinality(P)
<1> DEFINE At(s) == {x \in P : p[x] = s}
           IsCount(b, s) == b \in Bijection(1..f[s], At(s))
           count == [s \in S |-> CHOOSE b : IsCount(b, s)]
           Pts == UNION {{s} \X (1..f[s]) : s \in S}
           h == [z \in Pts |-> count[z[1]][z[2]]]
<1>1. ASSUME NEW s \in S PROVE IsCount(count[s], s)
  <2>1. IsFiniteSet(At(s))
    BY FS_Subset
  <2>2. Cardinality(At(s)) = f[s]
    OBVIOUS
  <2>3. ExistsBijection(1..f[s], At(s))
    <3> HIDE DEF At
    <3> QED
      BY <2>1, <2>2, FS_CardinalityType
  <2>4. \E b : IsCount(b, s)
    BY <2>3 DEF ExistsBijection
  <2> HIDE DEF IsCount
  <2> QED
    BY <2>4
<1> HIDE DEF count
<1>2. \A z : z \in Pts <=> \E s \in S : \E i \in 1..f[s] : z = <<s, i>>
  <2>1. \A z : z \in Pts <=> \E s \in S : z \in {s} \X (1..f[s])
    OBVIOUS
  <2>2. \A s \in S : \A z : z \in {s} \X (1..f[s]) <=> \E i \in 1..f[s] : z = <<s, i>>
    OBVIOUS
  <2> QED
    BY <2>1, <2>2
<1>3. ASSUME NEW s \in S
      PROVE  /\ \A i \in 1..f[s] : count[s][i] \in P /\ p[count[s][i]] = s
             /\ \A i \in 1..f[s], j \in 1..f[s] : count[s][i] = count[s][j] => i = j
             /\ \A x \in P : p[x] = s => \E i \in 1..f[s] : count[s][i] = x
  <2>1. count[s] \in Bijection(1..f[s], At(s))
    BY <1>1
  <2>2. \A i \in 1..f[s] : count[s][i] \in At(s)
    BY <2>1 DEF Bijection, Injection, IsInjective
  <2>3. \A i \in 1..f[s], j \in 1..f[s] : count[s][i] = count[s][j] => i = j
    BY <2>1 DEF Bijection, Injection, IsInjective
  <2>4. \A x \in At(s) : \E i \in 1..f[s] : count[s][i] = x
    BY <2>1 DEF Bijection, Surjection
  <2> QED
    BY <2>2, <2>3, <2>4
<1> HIDE DEF Pts, At, IsCount
<1>4. \A z \in Pts : z[1] \in S /\ z[2] \in 1..f[z[1]] /\ z = <<z[1], z[2]>>
  BY <1>2
<1>5. \A z \in Pts : h[z] \in P /\ p[h[z]] = z[1]
  BY <1>3, <1>4
<1>6. \A y \in Pts, z \in Pts : h[y] = h[z] => y = z
  <2> SUFFICES ASSUME NEW y \in Pts, NEW z \in Pts, h[y] = h[z] PROVE y = z
    OBVIOUS
  <2>1. y[1] = z[1]
    BY <1>5
  <2>2. count[y[1]][y[2]] = count[y[1]][z[2]]
    BY <2>1
  <2>3. y[2] = z[2]
    BY <1>3, <1>4, <2>1, <2>2
  <2> QED
    BY <1>4, <2>1, <2>3
<1>7. \A x \in P : \E z \in Pts : h[z] = x
  <2> SUFFICES ASSUME NEW x \in P PROVE \E z \in Pts : h[z] = x
    OBVIOUS
  <2>1. p[x] \in S
    OBVIOUS
  <2>2. PICK i \in 1..f[p[x]] : count[p[x]][i] = x
    BY <1>3, <2>1
  <2>3. <<p[x], i>> \in Pts
    BY <1>2, <2>1
  <2>4. h[<<p[x], i>>] = x
    BY <2>2, <2>3
  <2> QED
    BY <2>3, <2>4
<1>8. h \in [Pts -> P]
  BY <1>5
<1> HIDE DEF h
<1>9. h \in Injection(Pts, P) /\ h \in Surjection(Pts, P)
  BY <1>6, <1>7, <1>8 DEF Injection, IsInjective, Surjection
<1>10. Cardinality(Pts) = Cardinality(P)
  BY <1>9, FS_Injection
<1>11. SumOf(f) = Cardinality(Pts)
  BY DEF SumOf, Pts
<1> QED
  BY <1>10, <1>11

-----------------------------------------------------------------------------
(* The pages agree.                                                         *)

\* No user has a thousand registrations: from there on the own page, in which a
\* game counts a thousandth of a point, is ahead of the ranking.
FewRegistered == \A u \in User : Cardinality(Registered(u)) < 1000

ResultsOf(u, c) == {g \in Registered(u) : reg[u][g].status = c}

LEMMA RegisteredFinite ==
  ASSUME NEW u, NEW T \in SUBSET Registered(u)
  PROVE  IsFiniteSet(T) /\ Cardinality(T) \in Nat /\ Cardinality(T) <= Cardinality(Registered(u))
<1>1. Registered(u) \in SUBSET Game
  BY DEF Registered
<1>2. IsFiniteSet(Registered(u))
  BY <1>1, LedgerAssumption, FS_Subset
<1>3. IsFiniteSet(T) /\ Cardinality(T) <= Cardinality(Registered(u))
  BY <1>2, FS_Subset
<1> QED
  BY <1>3, FS_CardinalityType

\* Registrations with one of four results are counted result by result.
LEMMA ByResult ==
  ASSUME NEW u, NEW d, d \notin {"Win", "Lose", "Tie"}
  PROVE  Cardinality(ResultsOf(u, "Win") \cup ResultsOf(u, "Lose") \cup ResultsOf(u, "Tie") \cup ResultsOf(u, d))
           = Cardinality(ResultsOf(u, "Win")) + Cardinality(ResultsOf(u, "Lose"))
               + Cardinality(ResultsOf(u, "Tie")) + Cardinality(ResultsOf(u, d))
<1> DEFINE A == ResultsOf(u, "Win")
           B == ResultsOf(u, "Lose")
           C == ResultsOf(u, "Tie")
           D == ResultsOf(u, d)
<1>1. /\ IsFiniteSet(A) /\ IsFiniteSet(B) /\ IsFiniteSet(C) /\ IsFiniteSet(D)
      /\ Cardinality(A) \in Nat /\ Cardinality(B) \in Nat
      /\ Cardinality(C) \in Nat /\ Cardinality(D) \in Nat
  <2>1. /\ A \in SUBSET Registered(u) /\ B \in SUBSET Registered(u)
        /\ C \in SUBSET Registered(u) /\ D \in SUBSET Registered(u)
    BY DEF ResultsOf
  <2> QED
    BY <2>1, RegisteredFinite
<1>2. A \cap B = {} /\ C \cap D = {} /\ (A \cup B) \cap (C \cup D) = {}
  BY DEF ResultsOf
<1>3. \A X, Y : IsFiniteSet(X) /\ IsFiniteSet(Y) /\ X \cap Y = {} /\ Cardinality(X) \in Nat /\ Cardinality(Y) \in Nat
        => IsFiniteSet(X \cup Y) /\ Cardinality(X \cup Y) = Cardinality(X) + Cardinality(Y)
  <2> TAKE X, Y
  <2> HAVE /\ IsFiniteSet(X) /\ IsFiniteSet(Y) /\ X \cap Y = {}
           /\ Cardinality(X) \in Nat /\ Cardinality(Y) \in Nat
  <2>1. IsFiniteSet(X \cup Y) /\ Cardinality(X \cup Y) = Cardinality(X) + Cardinality(Y) - Cardinality(X \cap Y)
    BY FS_Union
  <2>2. Cardinality(X \cap Y) = 0
    BY FS_EmptySet
  <2> QED
    BY <2>1, <2>2
<1>4. A \cup B \cup C \cup D = (A \cup B) \cup (C \cup D)
  OBVIOUS
<1> HIDE DEF A, B, C, D
<1>5. /\ IsFiniteSet(A \cup B) /\ Cardinality(A \cup B) = Cardinality(A) + Cardinality(B)
      /\ IsFiniteSet(C \cup D) /\ Cardinality(C \cup D) = Cardinality(C) + Cardinality(D)
  BY <1>1, <1>2, <1>3
<1>6. Cardinality((A \cup B) \cup (C \cup D)) = Cardinality(A \cup B) + Cardinality(C \cup D)
  <2>1. Cardinality(A \cup B) \in Nat /\ Cardinality(C \cup D) \in Nat
    BY <1>1, <1>5
  <2> DEFINE X == A \cup B
             Y == C \cup D
  <2> HIDE DEF X, Y
  <2>2. IsFiniteSet(X) /\ IsFiniteSet(Y) /\ X \cap Y = {} /\ Cardinality(X) \in Nat /\ Cardinality(Y) \in Nat
    BY <1>2, <1>5, <2>1 DEF X, Y
  <2>3. Cardinality(X \cup Y) = Cardinality(X) + Cardinality(Y)
    BY <1>3, <2>2
  <2> QED
    BY <2>3 DEF X, Y
<1>7. Cardinality(A \cup B \cup C \cup D) = Cardinality(A) + Cardinality(B) + Cardinality(C) + Cardinality(D)
  <2>1. Cardinality(A \cup B \cup C \cup D) = Cardinality(A \cup B) + Cardinality(C \cup D)
    BY <1>4, <1>6
  <2>2. Cardinality(A \cup B) + Cardinality(C \cup D)
          = Cardinality(A) + Cardinality(B) + Cardinality(C) + Cardinality(D)
    BY <1>1, <1>5
  <2> QED
    BY <2>1, <2>2
<1> QED
  BY <1>7 DEF A, B, C, D

\* The own page's counters are the registrations with that result.
LEMMA PageCounts ==
  ASSUME TInv, LedgerExact, NEW u \in User, NEW c \in Result
  PROVE  Sum(rank[u], Rows(u))[c] = Cardinality(ResultsOf(u, c))
<1> DEFINE P == ResultsOf(u, c)
           S == Rows(u)
           cell(g) == <<reg[u][g].team, YearOf[g]>>
           p == [g \in P |-> cell(g)]
           f == [k \in S |-> rank[u][k][c]]
           Of(t, y) == {g \in Game : /\ reg[u][g] # NoRow
                                     /\ reg[u][g].team = t /\ YearOf[g] = y
                                     /\ reg[u][g].status = c}
<1>1. \A t \in Team, y \in Year :
        (IF rank[u][<<t, y>>] = NoRow THEN 0 ELSE rank[u][<<t, y>>][c]) = Cardinality(Of(t, y))
  BY DEF LedgerExact
<1>2. \A g \in P : g \in Game /\ reg[u][g].team \in Team /\ YearOf[g] \in Year
  BY LedgerAssumption DEF ResultsOf, Registered, TInv, IInv, TablesOK, RegRow
<1>3. ASSUME NEW g \in P PROVE cell(g) \in S
  <2> DEFINE t == reg[u][g].team
             y == YearOf[g]
  <2>1. g \in Of(t, y)
    BY <1>2 DEF ResultsOf, Registered
  <2>2. IsFiniteSet(Of(t, y))
    BY LedgerAssumption, FS_Subset
  <2>3. Cardinality(Of(t, y)) # 0
    <3> HIDE DEF Of
    <3> QED
      BY <2>1, <2>2, FS_EmptySet
  <2>4. rank[u][<<t, y>>] # NoRow
    BY <1>1, <1>2, <2>3
  <2> QED
    BY <1>2, <2>4 DEF Rows
<1>4. \A k \in S : rank[u][k] \in Counts /\ k \in Cell
  BY DEF Rows, TInv, TableTypes, Cell
<1>5. ASSUME NEW k \in S PROVE f[k] = Cardinality({x \in P : p[x] = k})
  <2>1. PICK t \in Team, y \in Year : k = <<t, y>>
    BY <1>4 DEF Cell
  <2>2. f[k] = Cardinality(Of(t, y))
    BY <1>1, <2>1 DEF Rows
  <2>3. Of(t, y) = {x \in P : p[x] = k}
    BY <2>1 DEF ResultsOf, Registered
  <2> QED
    BY <2>2, <2>3
<1>6. IsFiniteSet(P)
  BY RegisteredFinite DEF ResultsOf
<1>7. p \in [P -> S] /\ f \in [S -> Nat]
  BY <1>3, <1>4 DEF Counts
<1>8. Sum(rank[u], Rows(u))[c] = SumOf(f)
  BY DEF Sum
<1> HIDE DEF P, S, p, f
<1>9. SumOf(f) = Cardinality(P)
  BY <1>5, <1>6, <1>7, SumPartition
<1> QED
  BY <1>8, <1>9 DEF P

\* What an opponent's line adds up to over all opponents.
LEMMA OppSum ==
  ASSUME NEW u, NEW games \in SUBSET Registered(u), NEW part \in SUBSET games, NEW S,
         NEW opp \in [games -> S], NEW f, f = [t \in S |-> f[t]],
         \A t \in S : f[t] = Cardinality({g \in part : opp[g] = t})
  PROVE  SumOf(f) = Cardinality(part)
<1> DEFINE p == [g \in part |-> opp[g]]
<1>1. ASSUME NEW t \in S
      PROVE  Cardinality({g \in part : opp[g] = t}) \in Nat
             /\ f[t] = Cardinality({g \in part : p[g] = t})
  <2>1. {g \in part : opp[g] = t} \in SUBSET Registered(u)
    OBVIOUS
  <2>2. {g \in part : opp[g] = t} = {g \in part : p[g] = t}
    OBVIOUS
  <2> QED
    BY <2>1, <2>2, RegisteredFinite
<1>2. p \in [part -> S] /\ f \in [S -> Nat]
  BY <1>1
<1>3. IsFiniteSet(part)
  BY RegisteredFinite
<1>4. \A t \in S : f[t] = Cardinality({g \in part : p[g] = t})
  BY <1>1
<1> HIDE DEF p
<1> QED
  BY <1>2, <1>3, <1>4, SumPartition

LEMMA OpensItself ==
  ASSUME DInv, NEW u \in User PROVE \A g \in Registered(u) : FindOne(u, g) = {g}
<1> SUFFICES ASSUME NEW g \in Registered(u), NEW h \in Registered(u), reg[u][h].id = reg[u][g].id
             PROVE  h = g
  BY DEF FindOne, GetOne
<1>1. g \in Game /\ h \in Game /\ reg[u][g].id \in Ids(u, g) /\ reg[u][h].id \in Ids(u, h)
  BY InIds DEF Registered
<1> QED
  BY <1>1 DEF DInv, IdsOK

\* An entry of a user's list opens as itself, whatever requests overlap: no two
\* registrations of a user ever get the same id, though save may store a
\* registration that another request has removed.
THEOREM EntriesOpen == Spec => [](\A u \in User : \A g \in Registered(u) : FindOne(u, g) = {g})
<1>1. Init => DInv
  BY DInit
<1>2. DInv /\ [Next]_vars => DInv'
  BY DInvNext
<1>3. DInv => \A u \in User : \A g \in Registered(u) : FindOne(u, g) = {g}
  BY OpensItself
<1> QED
  BY <1>1, <1>2, <1>3, PTL DEF Spec

LEMMA PagesFromCounts ==
  ASSUME DInv, TInv, LedgerExact, CacheCaughtUp, FewRegistered PROVE PagesAgree
<1> SUFFICES ASSUME NEW u \in User
             PROVE  LET page    == MyPageInfo(u)
                        versus  == VersusTeamStats(u)
                        pending == {g \in Registered(u) : reg[u][g].status = Pending}
                    IN /\ \A g \in Registered(u) : FindOne(u, g) = {g}
                       /\ versus.totalWin = page.win
                       /\ SumOf([t \in DOMAIN versus.oppTeam |-> versus.oppTeam[t].win]) = page.win
                       /\ SumOf([t \in DOMAIN versus.oppTeam |-> versus.oppTeam[t].total])
                            = page.win + page.lose + page.tie + Cardinality(pending)
                       /\ Quiet /\ u \notin missed /\ Rows(u) # {} =>
                            ToDisplayScore(zset[u]["total"]) = page.score
  BY DEF PagesAgree
<1> DEFINE n     == Sum(rank[u], Rows(u))
           page  == MyPageInfo(u)
           versus == VersusTeamStats(u)
           games == {g \in Registered(u) : Counted(reg[u][g].status)}
           wins  == {g \in games : reg[u][g].status = "Win"}
           Opp(g) == IF Home[g] = reg[u][g].team THEN Away[g] ELSE Home[g]
           opp   == [g \in games |-> Opp(g)]
           S     == {opp[g] : g \in games}
<1>1. /\ page.win = n["Win"] /\ page.lose = n["Lose"] /\ page.tie = n["Tie"]
      /\ page.score = PageScore(n)
  BY DEF MyPageInfo
<1>2. /\ n \in Counts
      /\ n["Win"] = Cardinality(ResultsOf(u, "Win")) /\ n["Lose"] = Cardinality(ResultsOf(u, "Lose"))
      /\ n["Tie"] = Cardinality(ResultsOf(u, "Tie"))
      /\ n["NoGame"] = Cardinality(ResultsOf(u, "NoGame"))
  <2>1. n \in Counts
    BY SumCounts DEF TInv, TableTypes
  <2>2. {"Win", "Lose", "Tie", "NoGame"} \subseteq Result
    BY DEF Result
  <2> HIDE DEF n
  <2> QED
    BY <2>1, <2>2, PageCounts DEF n
<1>3. /\ versus.totalWin = Cardinality(wins) /\ DOMAIN versus.oppTeam = S
      /\ \A t \in S : /\ versus.oppTeam[t].win = Cardinality({g \in wins : opp[g] = t})
                      /\ versus.oppTeam[t].total = Cardinality({g \in games : opp[g] = t})
  <2> DEFINE W(t) == Cardinality({g \in wins : Opp(g) = t})
             N(t) == Cardinality({g \in games : Opp(g) = t})
             T    == {Opp(g) : g \in games}
  <2>1. T = S
    OBVIOUS
  <2>2. ASSUME NEW t
        PROVE  /\ W(t) = Cardinality({g \in wins : opp[g] = t})
               /\ N(t) = Cardinality({g \in games : opp[g] = t})
    <3>1. /\ {g \in games : Opp(g) = t} = {g \in games : opp[g] = t}
          /\ {g \in wins : Opp(g) = t} = {g \in wins : opp[g] = t}
      OBVIOUS
    <3> QED
      BY <3>1
  <2>3. /\ versus.totalWin = Cardinality(wins)
        /\ versus.oppTeam = [t \in T |-> [total |-> N(t), win |-> W(t)]]
    BY DEF VersusTeamStats
  <2> HIDE DEF N, W, T, versus
  <2>4. DOMAIN versus.oppTeam = T
        /\ \A t \in T : versus.oppTeam[t].win = W(t) /\ versus.oppTeam[t].total = N(t)
    BY <2>3
  <2> HIDE DEF games, wins, opp, S
  <2> QED
    BY <2>1, <2>2, <2>3, <2>4
<1>4. wins = ResultsOf(u, "Win")
  BY DEF ResultsOf, Counted
<1>5. games \in SUBSET Registered(u) /\ wins \in SUBSET games
  OBVIOUS
<1>6. opp \in [games -> S]
  OBVIOUS
<1>7. Cardinality(games)
        = n["Win"] + n["Lose"] + n["Tie"] + Cardinality(ResultsOf(u, Pending))
  <2>1. \A g \in Registered(u) : reg[u][g].status \in RegStatus
    BY DEF Registered, DInv, IInv, TablesOK, RegRow
  <2>2. games = ResultsOf(u, "Win") \cup ResultsOf(u, "Lose") \cup ResultsOf(u, "Tie")
                  \cup ResultsOf(u, Pending)
    BY <2>1 DEF ResultsOf, Counted, RegStatus, Result, Pending
  <2> HIDE DEF games, n
  <2> QED
    BY <1>2, <2>2, ByResult DEF Pending
<1>8. \A g \in Registered(u) : FindOne(u, g) = {g}
  BY OpensItself
<1>9. versus.totalWin = page.win
  BY <1>1, <1>2, <1>3, <1>4
<1>10. SumOf([t \in DOMAIN versus.oppTeam |-> versus.oppTeam[t].win]) = page.win
  <2> DEFINE f == [t \in DOMAIN versus.oppTeam |-> versus.oppTeam[t].win]
  <2>1. f = [t \in S |-> f[t]] /\ \A t \in S : f[t] = Cardinality({g \in wins : opp[g] = t})
    <3> HIDE DEF versus, wins, opp, S
    <3> QED
      BY <1>3
  <2> HIDE DEF f, wins, games, opp, S
  <2>2. SumOf(f) = Cardinality(wins)
    BY <1>5, <1>6, <2>1, OppSum
  <2> QED
    BY <1>1, <1>2, <1>4, <2>2 DEF f
<1>11. SumOf([t \in DOMAIN versus.oppTeam |-> versus.oppTeam[t].total])
         = page.win + page.lose + page.tie + Cardinality(ResultsOf(u, Pending))
  <2> DEFINE f == [t \in DOMAIN versus.oppTeam |-> versus.oppTeam[t].total]
             part == games
  <2>1. f = [t \in S |-> f[t]] /\ \A t \in S : f[t] = Cardinality({g \in part : opp[g] = t})
    <3> HIDE DEF versus, games, opp, S
    <3> QED
      BY <1>3
  <2>2. part \in SUBSET games
    OBVIOUS
  <2> HIDE DEF f, part, games, opp, S
  <2>3. SumOf(f) = Cardinality(part)
    BY <1>5, <1>6, <2>1, <2>2, OppSum
  <2> QED
    BY <1>1, <1>7, <2>3 DEF f, part
<1>12. ASSUME Quiet, u \notin missed PROVE ToDisplayScore(zset[u]["total"]) = page.score
  <2>1. zset[u]["total"] = AggregateRankStats(u)["total"]
    BY <1>12 DEF CacheCaughtUp, AggregateRankStats
  <2>2. AggregateRankStats(u)["total"] = IntegerScoreForRedis(n)
    <3>1. {k \in Rows(u) : "total" = "total" \/ k[1] = "total"} = Rows(u)
      OBVIOUS
    <3> QED
      BY <3>1 DEF AggregateRankStats
  <2>3. TotalCount(n) < 1000
    <3> DEFINE all == ResultsOf(u, "Win") \cup ResultsOf(u, "Lose") \cup ResultsOf(u, "Tie")
                        \cup ResultsOf(u, "NoGame")
    <3>1. all \in SUBSET Registered(u)
      BY DEF ResultsOf
    <3>2. IsFiniteSet(all) /\ Cardinality(all) \in Nat /\ Cardinality(all) <= Cardinality(Registered(u))
      <4> HIDE DEF all
      <4> QED
        BY <3>1, RegisteredFinite
    <3>3. Cardinality(all) = TotalCount(n)
      <4> HIDE DEF n
      <4> QED
        BY <1>2, ByResult DEF TotalCount
    <3>4. Cardinality(Registered(u)) \in Nat /\ Cardinality(Registered(u)) < 1000
      BY RegisteredFinite DEF FewRegistered
    <3> HIDE DEF all
    <3>5. Cardinality(all) < 1000
      BY <3>2, <3>4
    <3> QED
      BY <3>3, <3>5
  <2>4. PageScore(n) = ToDisplayScore(IntegerScoreForRedis(n))
    <3> HIDE DEF n
    <3> QED
      BY <1>2, <2>3, PageShowsRankedScore
  <2> QED
    BY <1>1, <2>1, <2>2, <2>4
<1>13. {g \in Registered(u) : reg[u][g].status = Pending} = ResultsOf(u, Pending)
  BY DEF ResultsOf
<1> HIDE DEF page, versus
<1> QED
  BY <1>8, <1>9, <1>10, <1>11, <1>12, <1>13 DEF page, versus

\* For a client that waits, and as long as no user has 1000 registrations, what the
\* list shows opens as what it is, the wins against each opponent are those of the
\* own page, the games against each opponent the results there and the games to
\* come, and at rest the own page's score is the one in the ranking, unless the
\* user's last hook or sync failed.
THEOREM PagesStayConsistent == Serial => (Spec => [](FewRegistered => PagesAgree))
<1> SUFFICES ASSUME Serial PROVE Spec => [](FewRegistered => PagesAgree)
  OBVIOUS
<1>1. Init => DInv /\ TInv
  BY DInit, IInvInit, TInit
<1>2. (DInv /\ TInv) /\ [Next]_vars => (DInv /\ TInv)'
  BY DInvNext, TInvNext
<1>3. Sequential
  BY DEF Serial, Sequential
<1>4. Spec => []LedgerExact /\ []CacheCaughtUp
  BY <1>3, LedgerStaysExact, CacheCatchesUp
<1>5. DInv /\ TInv /\ LedgerExact /\ CacheCaughtUp => (FewRegistered => PagesAgree)
  BY PagesFromCounts
<1> QED
  BY <1>1, <1>2, <1>4, <1>5, PTL DEF Spec
=============================================================================
