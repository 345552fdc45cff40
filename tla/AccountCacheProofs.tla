-------------------------- MODULE AccountCacheProofs --------------------------
(***************************************************************************)
(* In AccountCache every member has a rank row at every moment, and no     *)
(* switch of the supported team drops a row with games in it, for any      *)
(* users and teams, any number of requests at work and any order of        *)
(* failed statements, outages and crashes.  Both rest on what a switch     *)
(* remembers from one statement to the next: the row it has made is still  *)
(* there and the one it will drop still counts nothing, because the        *)
(* client's next request waits for the answer and no hook writes a row.    *)
(***************************************************************************)
EXTENDS AccountCache, FiniteSetTheorems, TLAPS

\* The steps of a request before its answer.
Working == Steps \ (InHook \cup {"idle"})

IsScores(data) == \A k \in DOMAIN data : data[k] \in Nat

-----------------------------------------------------------------------------
(* The inductive invariant.                                                 *)

TablesOK ==
  /\ life \in [User -> {"new", "member", "gone"}]
  /\ DOMAIN profile = User
  /\ \A u \in User :
       IF Member(u) THEN profile[u] \in [nickname : Name, team : Team] ELSE profile[u] = NoRow
  /\ games \in [User -> [Team -> Nat]]
  /\ rank \in [User -> [Team -> Nat \cup {NoRow}]]
  /\ \A u \in User : life[u] = "new" => games[u] = [t \in Team |-> 0]
  /\ CountsKept /\ RankedSomewhere

RedisOK ==
  /\ up \in BOOLEAN
  /\ hash \in [User -> Name \cup {NoRow, Stub}]
  /\ zset \in [User -> [Key -> Nat \cup {NoRow}]]
  /\ dropped \subseteq User

FillOK ==
  /\ fill \in {"idle", "find", "save"}
  /\ infos \in [User -> Name \cup {NoRow}]
  /\ sync \in [User -> {"idle", "aggregate", "zadd"}]
  /\ DOMAIN pulled = User
  /\ \A u \in User : sync[u] = "zadd" => IsScores(pulled[u])

ShapesOK ==
  /\ step \in [Req -> Steps]
  /\ DOMAIN cmd = Req /\ DOMAIN prev = Req /\ DOMAIN seen = Req

\* A client waits for the answer.
OneByOne ==
  \A r, q \in Req : step[r] \in Working /\ step[q] \in Working /\ U(r) = U(q) => r = q

\* The command of request r and the scores it has read.
CommandOK(r) ==
  /\ step[r] # "idle" => U(r) \in User
  /\ step[r] \in {"create", "join", "hset"} \/ (step[r] = "save" /\ cmd[r].op = "nickname")
       => cmd[r].nickname \in Name
  /\ step[r] \in {"create", "join", "insert", "total", "unrow", "count"}
       \/ (step[r] = "save" /\ cmd[r].op = "teamId")
       => cmd[r].team \in Team
  /\ step[r] = "save" => cmd[r].op \in {"image", "nickname", "teamId"}
  /\ step[r] \in {"insert", "total", "unrow", "unlist"} => prev[r] \in Team
  /\ step[r] \in {"zadd", "unrow", "unlist", "relist"} => IsScores(seen[r])

\* What the tables hold for request r from one of its statements to the next.
RowsOK(r) ==
  /\ step[r] \in {"create", "join"} => life[U(r)] = "new"
  /\ step[r] \in Working \ {"create", "join"} => Member(U(r))
  /\ step[r] \in {"total", "unrow"} => rank[U(r)][cmd[r].team] # NoRow
  /\ step[r] = "unrow" => prev[r] # cmd[r].team /\ rank[U(r)][prev[r]] = 0

AInv ==
  /\ TablesOK /\ RedisOK /\ FillOK /\ ShapesOK /\ OneByOne
  /\ \A r \in Req : CommandOK(r)
  /\ \A r \in Req : RowsOK(r)

-----------------------------------------------------------------------------
(* The scores that are read, and the frame of a step.                       *)

LEMMA SumType ==
  ASSUME NEW S, IsFiniteSet(S), NEW f \in [S -> Nat] PROVE SumOf(f) \in Nat
<1> DEFINE F(s) == {s} \X (1..f[s])
           T == {F(s) : s \in S}
           h == [s \in S |-> F(s)]
<1>1. h \in Surjection(S, T)
  BY DEF Surjection
<1>2. IsFiniteSet(T)
  BY <1>1, FS_Surjection
<1>3. ASSUME NEW s \in S PROVE IsFiniteSet(F(s))
  <2>1. f[s] \in Int /\ 1 \in Int
    OBVIOUS
  <2>2. IsFiniteSet(1..f[s])
    BY <2>1, FS_Interval
  <2>3. IsFiniteSet({s})
    BY FS_Singleton
  <2> QED
    BY <2>2, <2>3, FS_Product
<1>4. \A x \in T : IsFiniteSet(x)
  BY <1>3
<1>5. IsFiniteSet(UNION T)
  <2> HIDE DEF T
  <2> QED
    BY <1>2, <1>4, FS_UNION
<1>6. SumOf(f) = Cardinality(UNION T)
  BY DEF SumOf
<1> HIDE DEF T
<1> QED
  BY <1>5, <1>6, FS_CardinalityType

LEMMA AggregatedIsScores ==
  ASSUME TablesOK, NEW u \in User PROVE IsScores(Aggregated(u))
<1> DEFINE Of == {t \in Team : rank[u][t] # NoRow}
           f == [t \in Of |-> rank[u][t]]
<1>1. \A t \in Of : rank[u][t] \in Nat
  BY DEF TablesOK
<1>2. IsFiniteSet(Of)
  BY FS_Subset, CacheAssumption
<1>3. SumOf(f) \in Nat
  <2>1. f \in [Of -> Nat]
    BY <1>1
  <2> HIDE DEF Of, f
  <2> QED
    BY <1>2, <2>1, SumType
<1>4. Aggregated(u) = [k \in (IF Of = {} THEN {} ELSE Of \cup {"total"}) |->
                         IF k = "total" THEN SumOf(f) ELSE rank[u][k]]
  BY DEF Aggregated
<1> HIDE DEF f
<1> QED
  BY <1>1, <1>3, <1>4 DEF IsScores

\* A previous team has a score of its own only if it has a row.
LEMMA UnwantedRow ==
  ASSUME TablesOK, NEW r \in Req, U(r) \in User, prev[r] \in Team, Unwanted(r, Aggregated(U(r)))
  PROVE  prev[r] # cmd[r].team /\ rank[U(r)][prev[r]] = 0
BY CacheAssumption DEF Unwanted, Aggregated

\* A step of request r leaves the others what they have read and what they rely on.
LEMMA RequestsKept ==
  ASSUME AInv, NEW r \in Req, ShapesOK',
         \A q \in Req \ {r} : /\ step'[q] = step[q] /\ cmd'[q] = cmd[q]
                              /\ prev'[q] = prev[q] /\ seen'[q] = seen[q],
         step'[r] \in Working => step[r] \in Working /\ U(r)' = U(r),
         step[r] \in Working \/ UNCHANGED <<life, rank>>,
         \A u \in User \ {U(r)} : life'[u] = life[u] /\ rank'[u] = rank[u],
         CommandOK(r)', RowsOK(r)'
  PROVE  OneByOne' /\ (\A q \in Req : CommandOK(q)') /\ (\A q \in Req : RowsOK(q)')
<1>1. \A q \in Req \ {r} : U(q)' = U(q)
  BY DEF U
<1>2. OneByOne'
  BY <1>1 DEF AInv, OneByOne
<1>3. ASSUME NEW q \in Req \ {r} PROVE CommandOK(q)'
  BY <1>1 DEF AInv, CommandOK, U
<1>4. ASSUME NEW q \in Req \ {r} PROVE RowsOK(q)'
  <2>1. RowsOK(q) /\ (step[q] \in Working => U(q) \in User)
    BY DEF AInv, CommandOK, Working
  <2>2. step[q] \in Working => life'[U(q)] = life[U(q)] /\ rank'[U(q)] = rank[U(q)]
    BY <2>1 DEF AInv, OneByOne
  <2>3. {"create", "join", "total", "unrow"} \subseteq Working
    BY DEF Working, Steps, InHook, Leaving
  <2>4. UNCHANGED <<step[q], cmd[q], prev[q], seen[q]>> /\ U(q)' = U(q)
    BY <1>1
  <2> QED
    BY <2>1, <2>2, <2>3, <2>4 DEF RowsOK, Member
<1> QED
  BY <1>2, <1>3, <1>4

\* A request that ends has nothing to keep.
LEMMA Finishes ==
  ASSUME AInv, NEW r \in Req, Finish(r), TablesOK', RedisOK', FillOK',
         step[r] \in Working \/ UNCHANGED <<life, rank>>,
         \A u \in User \ {U(r)} : life'[u] = life[u] /\ rank'[u] = rank[u]
  PROVE  AInv'
<1>1. ShapesOK' /\ step'[r] = "idle"
  BY DEF AInv, ShapesOK, Finish, Steps
<1>2. \A q \in Req \ {r} : /\ step'[q] = step[q] /\ cmd'[q] = cmd[q]
                           /\ prev'[q] = prev[q] /\ seen'[q] = seen[q]
  BY DEF AInv, ShapesOK, Finish
<1>3. CommandOK(r)' /\ RowsOK(r)' /\ "idle" \notin Working
  BY <1>1 DEF CommandOK, RowsOK, Working
<1> QED
  BY <1>1, <1>2, <1>3, RequestsKept DEF AInv

\* A request that goes on.
LEMMA GoesOn ==
  ASSUME AInv, NEW r \in Req, NEW next \in Steps, Go(r, next), TablesOK', RedisOK', FillOK',
         step[r] \in Working \/ (next \in InHook /\ UNCHANGED <<life, rank>>),
         \A u \in User \ {U(r)} : life'[u] = life[u] /\ rank'[u] = rank[u],
         step'[r] = next => CommandOK(r)', step'[r] = next => RowsOK(r)'
  PROVE  AInv'
<1>1. ShapesOK' /\ step'[r] = next
  BY DEF AInv, ShapesOK, Go, local
<1>2. \A q \in Req \ {r} : /\ step'[q] = step[q] /\ cmd'[q] = cmd[q]
                           /\ prev'[q] = prev[q] /\ seen'[q] = seen[q]
  BY DEF AInv, ShapesOK, Go, local
<1>3. next \in InHook => next \notin Working
  BY DEF Working
<1>4. U(r)' = U(r)
  BY DEF Go, local, U
<1> QED
  BY <1>1, <1>2, <1>3, <1>4, RequestsKept DEF AInv

-----------------------------------------------------------------------------
(* Requests.                                                                *)

LEMMA InitOK == ASSUME Init PROVE AInv
<1>1. TablesOK
  BY DEF Init, TablesOK, Member, NoRanks, CountsKept, RankedSomewhere
<1>2. RedisOK /\ FillOK /\ ShapesOK
  BY DEF Init, RedisOK, FillOK, ShapesOK, NoScores, Steps
<1>3. \A r \in Req : step[r] = "idle"
  BY DEF Init
<1> QED
  BY <1>1, <1>2, <1>3 DEF AInv, OneByOne, CommandOK, RowsOK, Working

\* A request begins when no other of its user waits for an answer.
LEMMA RequestStep == ASSUME AInv, NEW r \in Req, Request(r) PROVE AInv'
<1>1. ASSUME NEW c, NEW first \in Working \ {"join", "insert", "total", "unrow", "unlist", "relist"},
             Begin(r, c, first), c.user \in User,
             first = "create" => life[c.user] = "new" /\ c.nickname \in Name /\ c.team \in Team,
             first # "create" => Member(c.user),
             first = "count" => c.team \in Team,
             first = "save" => /\ c.op \in {"image", "nickname", "teamId"}
                               /\ c.op = "nickname" => c.nickname \in Name
                               /\ c.op = "teamId" => c.team \in Team
      PROVE  AInv'
  <2>1. /\ step[r] = "idle" /\ ~Busy(c.user)
        /\ step' = [step EXCEPT ![r] = first] /\ cmd' = [cmd EXCEPT ![r] = c]
        /\ UNCHANGED <<db, redis, filler, prev, seen>>
    BY <1>1 DEF Begin
  <2>2. TablesOK' /\ RedisOK' /\ FillOK'
    BY <2>1 DEF AInv, TablesOK, RedisOK, FillOK, db, redis, filler, Member, CountsKept,
                RankedSomewhere, NoRanks
  <2>3. ShapesOK' /\ step'[r] = first /\ cmd'[r] = c /\ U(r)' = c.user
    BY <2>1 DEF AInv, ShapesOK, Working, U
  <2>4. \A q \in Req \ {r} : step'[q] = step[q] /\ cmd'[q] = cmd[q] /\ U(q)' = U(q)
    BY <2>1 DEF AInv, ShapesOK, U
  <2>5. \A q \in Req : step[q] \in Working => U(q) # c.user
    BY <2>1 DEF Busy, Working
  <2>6. OneByOne'
    BY <2>3, <2>4, <2>5 DEF AInv, OneByOne
  <2>7. CommandOK(r)'
    BY <1>1, <2>3 DEF CommandOK, Working, InHook
  <2>8. RowsOK(r)'
    BY <1>1, <2>1, <2>3 DEF RowsOK, Working, Member, db
  <2>9. ASSUME NEW q \in Req \ {r} PROVE CommandOK(q)' /\ RowsOK(q)'
    BY <2>1, <2>4 DEF AInv, CommandOK, RowsOK, Member, db
  <2> QED
    BY <2>2, <2>3, <2>6, <2>7, <2>8, <2>9 DEF AInv
<1> USE DEF Working, Steps, Leaving, InHook
<1>2. CASE SignUp(r)
  BY <1>1, <1>2 DEF SignUp
<1>3. CASE DeleteUser(r)
  BY <1>1, <1>3 DEF DeleteUser
<1>4. CASE ChangeImage(r)
  BY <1>1, <1>4 DEF ChangeImage
<1>5. CASE ChangeNickname(r)
  BY <1>1, <1>5 DEF ChangeNickname
<1>6. CASE ChangeTeam(r)
  BY <1>1, <1>6 DEF ChangeTeam
<1>7. CASE CountGame(r)
  BY <1>1, <1>7 DEF CountGame
<1> QED
  BY <1>2, <1>3, <1>4, <1>5, <1>6, <1>7 DEF Request

-----------------------------------------------------------------------------
(* The statements that write no table.                                      *)

LEMMA TablesKept == ASSUME TablesOK, UNCHANGED db PROVE TablesOK' /\ UNCHANGED <<life, rank>>
BY DEF TablesOK, db, Member, CountsKept, RankedSomewhere, NoRanks

LEMMA RedisKept == ASSUME RedisOK, UNCHANGED redis PROVE RedisOK'
BY DEF RedisOK, redis

LEMMA FillKept == ASSUME FillOK, UNCHANGED filler PROVE FillOK'
BY DEF FillOK, filler

\* A ZADD of scores leaves scores.
LEMMA ZaddScores ==
  ASSUME RedisOK, NEW u \in User, NEW data, IsScores(data), Zadd(u, data)
  PROVE  zset' \in [User -> [Key -> Nat \cup {NoRow}]]
<1>1. [k \in Key |-> IF k \in DOMAIN data THEN data[k] ELSE zset[u][k]] \in [Key -> Nat \cup {NoRow}]
  BY DEF RedisOK, IsScores
<1> QED
  BY <1>1 DEF RedisOK, Zadd

\* A request ends and writes nothing, or one that goes on.
LEMMA EndsOrGoesOn ==
  ASSUME AInv, NEW r \in Req, step[r] # "idle", UNCHANGED <<db, filler>>, RedisOK',
         \/ Finish(r)
         \/ \E next \in Steps \ {"create", "join", "hset", "save", "insert", "total", "count",
                                  "zadd", "unrow", "unlist", "relist"} :
               Go(r, next) /\ (next \notin InHook => step[r] \in Working \ {"create", "join"})
  PROVE  AInv'
<1>1. TablesOK' /\ FillOK' /\ UNCHANGED <<life, rank>>
  BY TablesKept, FillKept DEF AInv
<1>2. CASE Finish(r)
  BY <1>1, <1>2, Finishes
<1>3. ASSUME NEW next \in Steps \ {"create", "join", "hset", "save", "insert", "total", "count",
                                   "zadd", "unrow", "unlist", "relist"},
             Go(r, next), next \notin InHook => step[r] \in Working \ {"create", "join"}
      PROVE  AInv'
  <2>1. step'[r] = next /\ U(r)' = U(r)
    BY <1>3 DEF Go, AInv, ShapesOK, local, U
  <2>2. CommandOK(r)'
    BY <1>3, <2>1 DEF CommandOK, AInv
  <2>3. RowsOK(r)'
    BY <1>1, <1>3, <2>1 DEF RowsOK, AInv, Member, Working
  <2> QED
    BY <1>1, <1>3, <2>2, <2>3, GoesOn
<1> QED
  BY <1>2, <1>3

LEMMA LocalStep ==
  ASSUME AInv, NEW r \in Req,
         \/ Remove(r) \/ DeleteImage(r) \/ SaveImage(r) \/ DropImage(r) \/ HashExists(r)
         \/ Unhash(r) \/ Unrank(r) \/ Rehash(r) \/ HookHset(r)
         \/ StatementFails(r) \/ CommitFails(r)
  PROVE  AInv'
<1> USE DEF Working, Steps, Leaving, InHook
<1>1. U(r) \in User \/ step[r] = "idle"
  BY DEF AInv, CommandOK
<1>2. CASE Remove(r) \/ DeleteImage(r) \/ SaveImage(r) \/ DropImage(r) \/ HashExists(r)
           \/ StatementFails(r)
  <2>1. UNCHANGED <<db, filler>> /\ UNCHANGED redis /\ step[r] # "idle"
    BY <1>2 DEF Remove, DeleteImage, SaveImage, DropImage, HashExists, StatementFails
  <2>2. RedisOK'
    BY <2>1, RedisKept DEF AInv
  <2>3. CASE Finish(r)
    BY <2>1, <2>2, <2>3, EndsOrGoesOn
  <2>4. CASE ~Finish(r)
    <3>1. \E next \in {"image", "unhash", "drop", "exists", "rehash"} : Go(r, next)
      BY <1>2, <2>4 DEF Remove, DeleteImage, SaveImage, DropImage, HashExists, StatementFails
    <3>2. step[r] \in {"remove", "image", "save", "drop", "exists"}
      BY <1>2, <2>4 DEF Remove, DeleteImage, SaveImage, DropImage, HashExists, StatementFails
    <3> QED
      BY <2>1, <2>2, <3>1, <3>2, EndsOrGoesOn
  <2> QED
    BY <2>3, <2>4
<1>3. CASE Unhash(r)
  <2>1. RedisOK'
    BY <1>1, <1>3 DEF Unhash, AInv, RedisOK
  <2> QED
    BY <1>3, <2>1, EndsOrGoesOn DEF Unhash
<1>4. CASE Unrank(r)
  <2>1. RedisOK'
    BY <1>1, <1>4 DEF Unrank, AInv, RedisOK, NoScores
  <2> QED
    BY <1>4, <2>1, EndsOrGoesOn DEF Unrank
<1>5. CASE Rehash(r)
  <2>1. RedisOK'
    BY <1>1, <1>5 DEF Rehash, AInv, RedisOK
  <2> QED
    BY <1>5, <2>1, EndsOrGoesOn DEF Rehash
<1>6. CASE HookHset(r)
  <2>1. RedisOK'
    BY <1>1, <1>6 DEF HookHset, AInv, RedisOK, CommandOK
  <2> QED
    BY <1>6, <2>1, EndsOrGoesOn DEF HookHset
<1>7. CASE CommitFails(r)
  <2>1. RedisOK'
    BY <1>1, <1>7 DEF CommitFails, AInv, RedisOK
  <2> QED
    BY <1>7, <2>1, EndsOrGoesOn DEF CommitFails
<1> QED
  BY <1>2, <1>3, <1>4, <1>5, <1>6, <1>7

LEMMA CreateStep == ASSUME AInv, NEW r \in Req, Create(r) PROVE AInv'
<1>1. step[r] = "create" /\ UNCHANGED <<db, redis, filler>>
  BY DEF Create
<1>2. TablesOK' /\ RedisOK' /\ FillOK' /\ UNCHANGED <<life, rank>>
  BY <1>1, TablesKept, RedisKept, FillKept DEF AInv
<1>3. CASE Finish(r)
  BY <1>2, <1>3, Finishes
<1>4. CASE Go(r, "join")
  <2>1. step'[r] = "join" /\ U(r)' = U(r) /\ "join" \in Steps /\ step[r] \in Working
    BY <1>1, <1>4 DEF Go, AInv, ShapesOK, local, U, Steps, Working, InHook
  <2>2. CommandOK(r)' /\ RowsOK(r)'
    BY <1>1, <1>2, <1>4, <2>1 DEF CommandOK, RowsOK, AInv, Go, local
  <2> QED
    BY <1>2, <1>4, <2>1, <2>2, GoesOn
<1> QED
  BY <1>3, <1>4 DEF Create

\* A request reads the scores of its user.
LEMMA ReadStep == ASSUME AInv, NEW r \in Req, HookAggregate(r) \/ Total(r) PROVE AInv'
<1>1. step[r] \in {"aggregate", "total"} /\ UNCHANGED <<db, redis, filler>>
  BY DEF HookAggregate, Total
<1>2. TablesOK' /\ RedisOK' /\ FillOK' /\ UNCHANGED <<life, rank>>
  BY <1>1, TablesKept, RedisKept, FillKept DEF AInv
<1>3. U(r) \in User
  BY <1>1 DEF AInv, CommandOK
<1> DEFINE data == Aggregated(U(r))
<1>4. IsScores(data)
  BY <1>3, AggregatedIsScores DEF AInv
<1> HIDE DEF data
<1>5. CASE Finish(r)
  BY <1>2, <1>5, Finishes
<1>6. CASE /\ seen' = [seen EXCEPT ![r] = data] /\ UNCHANGED <<cmd, prev>>
           /\ \E next \in {"zadd", "unrow", "relist"} :
                /\ step' = [step EXCEPT ![r] = next]
                /\ next # "zadd" => step[r] = "total"
                /\ next = "unrow" => Unwanted(r, data)
  <2>1. PICK next \in {"zadd", "unrow", "relist"} :
          /\ step' = [step EXCEPT ![r] = next]
          /\ next # "zadd" => step[r] = "total"
          /\ next = "unrow" => Unwanted(r, data)
    BY <1>6
  <2>2. ShapesOK' /\ step'[r] = next /\ seen'[r] = data /\ U(r)' = U(r)
    BY <1>6, <2>1 DEF AInv, ShapesOK, Steps, U
  <2>3. \A q \in Req \ {r} : /\ step'[q] = step[q] /\ cmd'[q] = cmd[q]
                             /\ prev'[q] = prev[q] /\ seen'[q] = seen[q]
    BY <1>6, <2>1 DEF AInv, ShapesOK
  <2>4. CommandOK(r)'
    BY <1>1, <1>3, <1>4, <1>6, <2>1, <2>2 DEF CommandOK, AInv
  <2>5. next = "unrow" => prev[r] # cmd[r].team /\ rank[U(r)][prev[r]] = 0
    BY <1>3, <2>1, UnwantedRow DEF AInv, CommandOK, data
  <2>6. next # "zadd" => step[r] \in Working
    BY <2>1 DEF Working, Steps, InHook
  <2>7. RowsOK(r)'
    BY <1>1, <1>2, <1>6, <2>1, <2>2, <2>5, <2>6 DEF RowsOK, AInv, Member, Working, InHook, Steps
  <2>8. step'[r] \in Working => step[r] \in Working /\ U(r)' = U(r)
    BY <2>2, <2>6 DEF Working, InHook
  <2> QED
    BY <1>2, <2>2, <2>3, <2>4, <2>7, <2>8, RequestsKept DEF AInv
<1>7. CASE HookAggregate(r) /\ ~Finish(r)
  <2>1. seen' = [seen EXCEPT ![r] = data] /\ UNCHANGED <<cmd, prev>> /\ step' = [step EXCEPT ![r] = "zadd"]
    BY <1>7 DEF HookAggregate, data
  <2> QED
    BY <1>6, <2>1
<1>8. CASE Total(r) /\ ~Finish(r)
  <2>1. /\ seen' = [seen EXCEPT ![r] = data] /\ UNCHANGED <<cmd, prev>> /\ step[r] = "total"
        /\ step' = [step EXCEPT ![r] = IF Unwanted(r, data) THEN "unrow" ELSE "relist"]
    BY <1>8 DEF Total, data
  <2>2. CASE Unwanted(r, data)
    BY <1>6, <2>1, <2>2
  <2>3. CASE ~Unwanted(r, data)
    BY <1>6, <2>1, <2>3
  <2> QED
    BY <2>2, <2>3
<1> QED
  BY <1>5, <1>7, <1>8

\* A request writes the scores it has read.
LEMMA WriteStep == ASSUME AInv, NEW r \in Req, HookZadd(r) \/ Relist(r) PROVE AInv'
<1>1. /\ step[r] \in {"zadd", "relist"} /\ UNCHANGED <<db, filler, up, hash, dropped>>
      /\ Finish(r) /\ (Zadd(U(r), seen[r]) \/ zset' = zset)
  BY DEF HookZadd, Relist
<1>2. U(r) \in User /\ IsScores(seen[r])
  BY <1>1 DEF AInv, CommandOK
<1>3. zset' \in [User -> [Key -> Nat \cup {NoRow}]]
  BY <1>1, <1>2, ZaddScores DEF AInv, RedisOK
<1>4. RedisOK'
  BY <1>1, <1>3 DEF AInv, RedisOK
<1> QED
  BY <1>1, <1>4, EndsOrGoesOn

LEMMA UnlistStep == ASSUME AInv, NEW r \in Req, Unlist(r) PROVE AInv'
<1>1. /\ step[r] = "unlist" /\ UNCHANGED <<db, filler, up, hash, dropped, cmd, prev>>
      /\ seen' = [seen EXCEPT ![r] = [k \in DOMAIN seen[r] \ {prev[r]} |-> seen[r][k]]]
      /\ step' = [step EXCEPT ![r] = "relist"]
      /\ \/ zset' = zset
         \/ zset' = [zset EXCEPT ![U(r)]["total"] = NoRow, ![U(r)][prev[r]] = NoRow]
  BY DEF Unlist, AInv, ShapesOK
<1>2. U(r) \in User /\ IsScores(seen[r])
  BY <1>1 DEF AInv, CommandOK
<1>3. RedisOK'
  BY <1>1, <1>2 DEF AInv, RedisOK
<1>4. TablesOK' /\ FillOK' /\ UNCHANGED <<life, rank>>
  BY <1>1, TablesKept, FillKept DEF AInv
<1>5. ShapesOK' /\ step'[r] = "relist" /\ U(r)' = U(r) /\ IsScores(seen'[r])
  BY <1>1, <1>2 DEF AInv, ShapesOK, Steps, U, IsScores
<1>6. \A q \in Req \ {r} : /\ step'[q] = step[q] /\ cmd'[q] = cmd[q]
                           /\ prev'[q] = prev[q] /\ seen'[q] = seen[q]
  BY <1>1 DEF AInv, ShapesOK
<1>7. CommandOK(r)' /\ RowsOK(r)' /\ step[r] \in Working
  BY <1>1, <1>2, <1>4, <1>5 DEF CommandOK, RowsOK, AInv, Member, Working, InHook, Steps
<1> QED
  BY <1>3, <1>4, <1>5, <1>6, <1>7, RequestsKept DEF AInv

-----------------------------------------------------------------------------
(* The statements that write the tables.                                    *)

\* A write to the rows of one user u.
LEMMA TablesOfUser ==
  ASSUME TablesOK, NEW u \in User,
         life' \in [User -> {"new", "member", "gone"}], DOMAIN profile' = User,
         rank' \in [User -> [Team -> Nat \cup {NoRow}]], games' \in [User -> [Team -> Nat]],
         \A v \in User \ {u} : /\ life'[v] = life[v] /\ profile'[v] = profile[v]
                               /\ rank'[v] = rank[v] /\ games'[v] = games[v],
         \/ life'[u] = "member" /\ profile'[u] \in [nickname : Name, team : Team] /\ rank'[u] # NoRanks
         \/ life'[u] = "gone" /\ profile'[u] = NoRow,
         \A t \in Team : (IF rank'[u][t] = NoRow THEN 0 ELSE rank'[u][t]) = games'[u][t]
  PROVE  TablesOK'
<1>1. \A v \in User :
        IF Member(v)' THEN profile'[v] \in [nickname : Name, team : Team] ELSE profile'[v] = NoRow
  BY DEF TablesOK, Member
<1>2. CountsKept'
  BY DEF TablesOK, CountsKept
<1>3. RankedSomewhere'
  BY DEF TablesOK, RankedSomewhere, Member, NoRanks
<1>4. \A v \in User : life'[v] = "new" => games'[v] = [t \in Team |-> 0]
  BY DEF TablesOK
<1> QED
  BY <1>1, <1>2, <1>3, <1>4 DEF TablesOK

LEMMA JoinStep == ASSUME AInv, NEW r \in Req, Join(r) PROVE AInv'
<1>1. /\ step[r] = "join" /\ Go(r, "hset") /\ UNCHANGED <<games, redis, filler>>
      /\ life' = [life EXCEPT ![U(r)] = "member"]
      /\ profile' = [profile EXCEPT ![U(r)] = Created(r)]
      /\ rank' = [rank EXCEPT ![U(r)] = [rank[U(r)] EXCEPT ![cmd[r].team] = 0]]
  BY DEF Join
<1>2. U(r) \in User /\ cmd[r].team \in Team /\ cmd[r].nickname \in Name /\ life[U(r)] = "new"
  BY <1>1 DEF AInv, CommandOK, RowsOK
<1> DEFINE n == [rank[U(r)] EXCEPT ![cmd[r].team] = 0]
<1>3. n \in [Team -> Nat \cup {NoRow}] /\ games[U(r)] = [t \in Team |-> 0]
  BY <1>1, <1>2 DEF AInv, TablesOK
<1>4. \A t \in Team : (IF n[t] = NoRow THEN 0 ELSE n[t]) = games[U(r)][t]
  BY <1>2, <1>3, CacheAssumption DEF AInv, TablesOK, CountsKept
<1>5. n # NoRanks
  BY <1>2, <1>3, CacheAssumption DEF NoRanks
<1>6. Created(r) \in [nickname : Name, team : Team]
  BY <1>2 DEF Created
<1>7. rank' = [rank EXCEPT ![U(r)] = n]
  BY <1>1
<1> HIDE DEF n
<1>8. /\ life' \in [User -> {"new", "member", "gone"}] /\ DOMAIN profile' = User
      /\ rank' \in [User -> [Team -> Nat \cup {NoRow}]] /\ games' \in [User -> [Team -> Nat]]
      /\ life'[U(r)] = "member" /\ profile'[U(r)] = Created(r) /\ rank'[U(r)] = n
      /\ games'[U(r)] = games[U(r)]
      /\ \A v \in User \ {U(r)} : /\ life'[v] = life[v] /\ profile'[v] = profile[v]
                                  /\ rank'[v] = rank[v] /\ games'[v] = games[v]
  BY <1>1, <1>2, <1>3, <1>7 DEF AInv, TablesOK
<1>9. TablesOK'
  BY <1>2, <1>4, <1>5, <1>6, <1>8, TablesOfUser DEF AInv
<1>10. RedisOK' /\ FillOK'
  BY <1>1, RedisKept, FillKept DEF AInv
<1>11. U(r)' = U(r) /\ UNCHANGED cmd
  BY <1>1 DEF Go, local, U
<1>12. /\ step'[r] = "hset" => CommandOK(r)' /\ RowsOK(r)'
       /\ "hset" \in Steps /\ step[r] \in Working
  BY <1>1, <1>2, <1>11 DEF CommandOK, RowsOK, Working, InHook, Steps, Leaving
<1> QED
  BY <1>1, <1>8, <1>9, <1>10, <1>12, GoesOn

LEMMA LeaveStep == ASSUME AInv, NEW r \in Req, Leave(r) PROVE AInv'
<1>1. /\ step[r] = "leave" /\ Finish(r) /\ UNCHANGED <<redis, filler>>
      /\ life' = [life EXCEPT ![U(r)] = "gone"]
      /\ profile' = [profile EXCEPT ![U(r)] = NoRow]
      /\ rank' = [rank EXCEPT ![U(r)] = NoRanks]
      /\ games' = [games EXCEPT ![U(r)] = [t \in Team |-> 0]]
  BY DEF Leave
<1>2. U(r) \in User /\ step[r] \in Working
  BY <1>1 DEF AInv, CommandOK, Working, Steps, Leaving, InHook
<1>3. /\ life' \in [User -> {"new", "member", "gone"}] /\ DOMAIN profile' = User
      /\ rank' \in [User -> [Team -> Nat \cup {NoRow}]] /\ games' \in [User -> [Team -> Nat]]
      /\ life'[U(r)] = "gone" /\ profile'[U(r)] = NoRow /\ rank'[U(r)] = NoRanks
      /\ games'[U(r)] = [t \in Team |-> 0]
      /\ \A v \in User \ {U(r)} : /\ life'[v] = life[v] /\ profile'[v] = profile[v]
                                  /\ rank'[v] = rank[v] /\ games'[v] = games[v]
  BY <1>1, <1>2 DEF AInv, TablesOK, NoRanks
<1>4. \A t \in Team : (IF rank'[U(r)][t] = NoRow THEN 0 ELSE rank'[U(r)][t]) = games'[U(r)][t]
  BY <1>3 DEF NoRanks
<1>5. TablesOK'
  BY <1>2, <1>3, <1>4, TablesOfUser DEF AInv
<1>6. RedisOK' /\ FillOK'
  BY <1>1, RedisKept, FillKept DEF AInv
<1> QED
  BY <1>1, <1>2, <1>3, <1>5, <1>6, Finishes

\* A change of the profile alone.
LEMMA ProfileKept ==
  ASSUME TablesOK, NEW u \in User, Member(u), UNCHANGED <<life, games, rank>>,
         NEW p \in [nickname : Name, team : Team], profile' = [profile EXCEPT ![u] = p]
  PROVE  TablesOK'
BY DEF TablesOK, Member, CountsKept, RankedSomewhere, NoRanks

LEMMA SaveNicknameStep == ASSUME AInv, NEW r \in Req, SaveNickname(r) PROVE AInv'
<1>1. /\ step[r] = "save" /\ cmd[r].op = "nickname" /\ UNCHANGED <<life, games, rank, redis, filler>>
      /\ \/ Finish(r) /\ UNCHANGED profile
         \/ Go(r, "exists") /\ profile' = [profile EXCEPT ![U(r)] =
                                 [profile[U(r)] EXCEPT !.nickname = cmd[r].nickname]]
  BY DEF SaveNickname
<1>2. U(r) \in User /\ Member(U(r)) /\ cmd[r].nickname \in Name /\ step[r] \in Working
  BY <1>1 DEF AInv, CommandOK, RowsOK, Working, Steps, Leaving, InHook
<1>3. RedisOK' /\ FillOK'
  BY <1>1, RedisKept, FillKept DEF AInv
<1>4. CASE Finish(r) /\ UNCHANGED profile
  <2>1. TablesOK'
    BY <1>1, <1>4, TablesKept DEF AInv, db
  <2> QED
    BY <1>1, <1>2, <1>3, <1>4, <2>1, Finishes
<1>5. CASE Go(r, "exists") /\ profile' = [profile EXCEPT ![U(r)] =
                                 [profile[U(r)] EXCEPT !.nickname = cmd[r].nickname]]
  <2>1. [profile[U(r)] EXCEPT !.nickname = cmd[r].nickname] \in [nickname : Name, team : Team]
    BY <1>2 DEF AInv, TablesOK
  <2>2. TablesOK'
    BY <1>1, <1>2, <1>5, <2>1, ProfileKept DEF AInv
  <2>3. U(r)' = U(r) /\ "exists" \in Steps
    BY <1>5 DEF Go, local, U, Steps
  <2>4. step'[r] = "exists" => CommandOK(r)' /\ RowsOK(r)'
    BY <1>1, <1>2, <2>3 DEF CommandOK, RowsOK, Member
  <2> QED
    BY <1>1, <1>2, <1>3, <1>5, <2>2, <2>3, <2>4, GoesOn
<1> QED
  BY <1>1, <1>4, <1>5

LEMMA SaveTeamStep == ASSUME AInv, NEW r \in Req, SaveTeam(r) PROVE AInv'
<1>1. /\ step[r] = "save" /\ cmd[r].op = "teamId"
      /\ UNCHANGED <<life, games, rank, redis, filler, cmd, seen>>
      /\ profile' = [profile EXCEPT ![U(r)] = [profile[U(r)] EXCEPT !.team = cmd[r].team]]
      /\ prev' = [prev EXCEPT ![r] = profile[U(r)].team]
      /\ step' = [step EXCEPT ![r] = "insert"]
  BY DEF SaveTeam
<1>2. U(r) \in User /\ Member(U(r)) /\ cmd[r].team \in Team /\ step[r] \in Working
  BY <1>1 DEF AInv, CommandOK, RowsOK, Working, Steps, Leaving, InHook
<1>3. RedisOK' /\ FillOK'
  BY <1>1, RedisKept, FillKept DEF AInv
<1>4. [profile[U(r)] EXCEPT !.team = cmd[r].team] \in [nickname : Name, team : Team]
  BY <1>2 DEF AInv, TablesOK
<1>5. TablesOK'
  BY <1>1, <1>2, <1>4, ProfileKept DEF AInv
<1>6. ShapesOK' /\ step'[r] = "insert" /\ U(r)' = U(r)
  BY <1>1 DEF AInv, ShapesOK, Steps, U
<1>7. \A q \in Req \ {r} : /\ step'[q] = step[q] /\ cmd'[q] = cmd[q]
                           /\ prev'[q] = prev[q] /\ seen'[q] = seen[q]
  BY <1>1 DEF AInv, ShapesOK
<1>8. prev'[r] \in Team
  BY <1>1, <1>2 DEF AInv, ShapesOK, TablesOK
<1>9. CommandOK(r)' /\ RowsOK(r)'
  BY <1>1, <1>2, <1>6, <1>8 DEF CommandOK, RowsOK, Member
<1> QED
  BY <1>1, <1>2, <1>3, <1>5, <1>6, <1>7, <1>9, RequestsKept DEF AInv

\* A write to the rank row, and the count of games, of one user u and team t.
LEMMA RowsOfUser ==
  ASSUME TablesOK, NEW u \in User, Member(u), NEW t \in Team, UNCHANGED <<life, profile>>,
         rank' \in [User -> [Team -> Nat \cup {NoRow}]], games' \in [User -> [Team -> Nat]],
         \A v \in User \ {u} : rank'[v] = rank[v] /\ games'[v] = games[v],
         \A s \in Team \ {t} : rank'[u][s] = rank[u][s] /\ games'[u][s] = games[u][s],
         (IF rank'[u][t] = NoRow THEN 0 ELSE rank'[u][t]) = games'[u][t],
         rank'[u][t] # NoRow \/ \E s \in Team \ {t} : rank[u][s] # NoRow
  PROVE  TablesOK'
<1>1. rank'[u] # NoRanks
  BY DEF NoRanks
<1>2. \A s \in Team : (IF rank'[u][s] = NoRow THEN 0 ELSE rank'[u][s]) = games'[u][s]
  BY DEF TablesOK, CountsKept
<1> QED
  BY <1>1, <1>2, TablesOfUser DEF TablesOK, Member

LEMMA InsertRankStep == ASSUME AInv, NEW r \in Req, InsertRankIfAbsent(r) PROVE AInv'
<1> DEFINE u == U(r)
           t == cmd[r].team
           n == IF rank[u][t] = NoRow THEN 0 ELSE rank[u][t]
           g == games[u][t]
<1>1. /\ step[r] = "insert" /\ Go(r, "total") /\ UNCHANGED <<life, profile, games, redis, filler>>
      /\ rank' = [rank EXCEPT ![u][t] = n]
  BY DEF InsertRankIfAbsent, AInv, TablesOK
<1>2. u \in User /\ t \in Team /\ Member(u) /\ step[r] \in Working
  BY <1>1 DEF AInv, CommandOK, RowsOK, Working, Steps, Leaving, InHook
<1>3. n \in Nat /\ n # NoRow /\ g \in Nat /\ n = g
  BY <1>2, CacheAssumption DEF AInv, TablesOK, CountsKept
<1>4. games' = [games EXCEPT ![u][t] = g]
  BY <1>1, <1>2 DEF AInv, TablesOK
<1>5. /\ rank'[u][t] = n /\ games'[u][t] = g
      /\ rank' \in [User -> [Team -> Nat \cup {NoRow}]] /\ games' \in [User -> [Team -> Nat]]
      /\ \A s \in Team \ {t} : rank'[u][s] = rank[u][s] /\ games'[u][s] = games[u][s]
      /\ \A v \in User \ {u} : /\ rank'[v] = rank[v] /\ life'[v] = life[v]
                                /\ games'[v] = games[v]
  <2> HIDE DEF n, g
  <2> QED
    BY <1>1, <1>2, <1>3, <1>4 DEF AInv, TablesOK
<1>6. RedisOK' /\ FillOK' /\ UNCHANGED <<cmd, prev>> /\ TablesOK
  BY <1>1, RedisKept, FillKept DEF AInv, Go, local
<1>7. U(r)' = u /\ UNCHANGED life
  BY <1>1, <1>6 DEF U
<1> HIDE DEF n, g
<1>8. TablesOK'
  BY <1>1, <1>2, <1>3, <1>5, <1>6, RowsOfUser
<1>9. step'[r] = "total" => CommandOK(r)' /\ RowsOK(r)'
  BY <1>1, <1>2, <1>3, <1>5, <1>6, <1>7 DEF CommandOK, RowsOK, Member, AInv
<1> QED
  BY <1>1, <1>2, <1>5, <1>6, <1>8, <1>9, GoesOn DEF Steps

LEMMA DeleteRankStep == ASSUME AInv, NEW r \in Req, DeleteRank(r) PROVE AInv'
<1> DEFINE u == U(r)
           t == prev[r]
           g == games[u][t]
<1>1. /\ step[r] = "unrow" /\ Go(r, "unlist") /\ UNCHANGED <<life, profile, games, redis, filler>>
      /\ rank' = [rank EXCEPT ![u][t] = NoRow]
  BY DEF DeleteRank
<1>2. u \in User /\ t \in Team /\ Member(u) /\ step[r] \in Working
  BY <1>1 DEF AInv, CommandOK, RowsOK, Working, Steps, Leaving, InHook
<1>3. /\ rank[u][t] = 0 /\ cmd[r].team \in Team \ {t} /\ rank[u][cmd[r].team] # NoRow
  BY <1>1 DEF AInv, CommandOK, RowsOK
<1>4. g = 0 /\ games' = [games EXCEPT ![u][t] = g]
  BY <1>1, <1>2, <1>3, CacheAssumption DEF AInv, TablesOK, CountsKept
<1>5. /\ rank'[u][t] = NoRow /\ games'[u][t] = g
      /\ rank' \in [User -> [Team -> Nat \cup {NoRow}]] /\ games' \in [User -> [Team -> Nat]]
      /\ \A s \in Team \ {t} : rank'[u][s] = rank[u][s] /\ games'[u][s] = games[u][s]
      /\ \A v \in User \ {u} : /\ rank'[v] = rank[v] /\ life'[v] = life[v]
                                /\ games'[v] = games[v]
  <2> HIDE DEF g
  <2> QED
    BY <1>1, <1>2, <1>4 DEF AInv, TablesOK
<1>6. RedisOK' /\ FillOK' /\ UNCHANGED <<cmd, prev, seen>> /\ TablesOK
  BY <1>1, RedisKept, FillKept DEF AInv, Go, local
<1>7. U(r)' = u /\ UNCHANGED life
  BY <1>1, <1>6 DEF U
<1> HIDE DEF g
<1>8. TablesOK'
  BY <1>1, <1>2, <1>3, <1>4, <1>5, <1>6, RowsOfUser
<1>9. step'[r] = "unlist" => CommandOK(r)' /\ RowsOK(r)'
  BY <1>1, <1>2, <1>6, <1>7 DEF CommandOK, RowsOK, Member, AInv
<1> QED
  BY <1>1, <1>2, <1>5, <1>6, <1>8, <1>9, GoesOn DEF Steps

LEMMA CountStep == ASSUME AInv, NEW r \in Req, Count(r) PROVE AInv'
<1> DEFINE u == U(r)
           t == cmd[r].team
           d == IF cmd[r].op = "register" THEN 1 ELSE -1
           old == IF rank[u][t] = NoRow THEN 0 ELSE rank[u][t]
           n == old + d
           g == games[u][t] + d
<1>1. step[r] = "count" /\ UNCHANGED <<redis, filler>>
  BY DEF Count
<1>2. u \in User /\ t \in Team /\ Member(u) /\ step[r] \in Working
  BY <1>1 DEF AInv, CommandOK, RowsOK, Working, Steps, Leaving, InHook
<1>3. RedisOK' /\ FillOK' /\ TablesOK
  BY <1>1, RedisKept, FillKept DEF AInv
<1>4. CASE d = -1 /\ rank[u][t] \in {NoRow, 0}
  <2>1. Finish(r) /\ UNCHANGED db
    BY <1>4 DEF Count
  <2>2. TablesOK' /\ UNCHANGED <<life, rank>>
    BY <1>3, <2>1, TablesKept
  <2> QED
    BY <1>2, <1>3, <2>1, <2>2, Finishes
<1>5. CASE ~(d = -1 /\ rank[u][t] \in {NoRow, 0})
  <2>1. /\ games' = [games EXCEPT ![u][t] = g] /\ rank' = [rank EXCEPT ![u][t] = n]
        /\ Go(r, "aggregate") /\ UNCHANGED <<life, profile>>
    BY <1>2, <1>5 DEF Count, AInv, TablesOK
  <2>2. n \in Nat /\ n # NoRow /\ n = g
    BY <1>2, <1>5, CacheAssumption DEF AInv, TablesOK, CountsKept
  <2> HIDE DEF n, g
  <2>3. /\ rank'[u][t] = n /\ games'[u][t] = g
        /\ rank' \in [User -> [Team -> Nat \cup {NoRow}]] /\ games' \in [User -> [Team -> Nat]]
        /\ \A s \in Team \ {t} : rank'[u][s] = rank[u][s] /\ games'[u][s] = games[u][s]
        /\ \A v \in User \ {u} : /\ rank'[v] = rank[v] /\ life'[v] = life[v]
                                  /\ games'[v] = games[v]
    BY <1>2, <2>1, <2>2 DEF AInv, TablesOK
  <2>4. TablesOK'
    BY <1>2, <1>3, <2>1, <2>2, <2>3, RowsOfUser
  <2>5. step'[r] = "aggregate" => CommandOK(r)' /\ RowsOK(r)'
    <3>1. U(r)' = u
      BY <2>1 DEF Go, local, U
    <3> QED
      BY <1>2, <3>1 DEF CommandOK, RowsOK, Working, InHook
  <2> QED
    BY <1>2, <1>3, <2>1, <2>3, <2>4, <2>5, GoesOn DEF Steps
<1> QED
  BY <1>4, <1>5

-----------------------------------------------------------------------------
(* Fills, faults and restarts.                                              *)

\* A step beside the requests.
LEMMA Beside ==
  ASSUME AInv, UNCHANGED <<db, step, local>>, RedisOK', FillOK' PROVE AInv'
<1>1. TablesOK' /\ UNCHANGED <<life, rank>>
  BY TablesKept DEF AInv
<1>2. ShapesOK' /\ OneByOne' /\ \A q \in Req : CommandOK(q)'
  BY DEF AInv, ShapesOK, OneByOne, CommandOK, local, U
<1>3. \A q \in Req : RowsOK(q)'
  BY <1>1 DEF AInv, RowsOK, local, U, Member
<1> QED
  BY <1>1, <1>2, <1>3 DEF AInv

LEMMA FillStep == ASSUME AInv, Fill \/ FillFails PROVE AInv'
<1>1. CASE FillFind
  <2>1. RedisOK'
    BY <1>1, RedisKept DEF AInv, FillFind
  <2>2. FillOK'
    BY <1>1 DEF AInv, FillFind, FillOK, TablesOK, Member
  <2> QED
    BY <1>1, <2>1, <2>2, Beside DEF FillFind
<1>2. CASE FillSave
  <2>1. RedisOK'
    BY <1>2 DEF AInv, FillSave, FillOK, RedisOK
  <2>2. FillOK'
    BY <1>2 DEF AInv, FillSave, FillOK
  <2> QED
    BY <1>2, <2>1, <2>2, Beside DEF FillSave
<1>3. CASE FillFails
  <2>1. RedisOK' /\ FillOK'
    BY <1>3 DEF AInv, FillFails, RedisOK, FillOK
  <2> QED
    BY <1>3, <2>1, Beside DEF FillFails
<1> QED
  BY <1>1, <1>2, <1>3 DEF Fill

LEMMA SyncStep == ASSUME AInv, NEW u \in User, Sync(u) \/ SyncFails(u) PROVE AInv'
<1>1. CASE SyncAggregate(u)
  <2> DEFINE data == Aggregated(u)
  <2>1. IsScores(data)
    BY AggregatedIsScores DEF AInv
  <2>2. /\ UNCHANGED <<db, redis, fill, infos, step, local>>
        /\ \/ sync' = [sync EXCEPT ![u] = "idle"] /\ UNCHANGED pulled
           \/ sync' = [sync EXCEPT ![u] = "zadd"] /\ pulled' = [pulled EXCEPT ![u] = data]
    BY <1>1 DEF SyncAggregate
  <2> HIDE DEF data
  <2>3. FillOK'
    BY <2>1, <2>2 DEF AInv, FillOK
  <2>4. RedisOK'
    BY <2>2, RedisKept DEF AInv
  <2> QED
    BY <2>2, <2>3, <2>4, Beside
<1>2. CASE SyncZadd(u)
  <2>1. /\ UNCHANGED <<db, up, hash, dropped, fill, infos, step, local>>
        /\ sync[u] = "zadd" /\ (Zadd(u, pulled[u]) \/ zset' = zset)
        /\ sync' = [sync EXCEPT ![u] = "idle"] /\ pulled' = [pulled EXCEPT ![u] = NoRow]
    BY <1>2 DEF SyncZadd
  <2>2. IsScores(pulled[u])
    BY <2>1 DEF AInv, FillOK
  <2>3. zset' \in [User -> [Key -> Nat \cup {NoRow}]]
    BY <2>1, <2>2, ZaddScores DEF AInv, RedisOK
  <2>4. RedisOK' /\ FillOK'
    BY <2>1, <2>3 DEF AInv, RedisOK, FillOK
  <2> QED
    BY <2>1, <2>4, Beside
<1>3. CASE SyncFails(u)
  <2>1. RedisOK' /\ FillOK'
    BY <1>3, RedisKept DEF AInv, SyncFails, FillOK
  <2> QED
    BY <1>3, <2>1, Beside DEF SyncFails
<1> QED
  BY <1>1, <1>2, <1>3 DEF Sync

LEMMA FaultStep == ASSUME AInv, RedisLost \/ Evicts \/ RedisReady PROVE AInv'
<1>1. UNCHANGED <<db, step, local>>
  BY DEF RedisLost, Evicts, RedisReady
<1>2. RedisOK'
  <2>1. CASE RedisLost
    <3>1. NoScores \in [Key -> Nat \cup {NoRow}]
      BY DEF NoScores
    <3>2. /\ up' = FALSE /\ dropped' = dropped
          /\ \/ UNCHANGED <<hash, zset>>
             \/ hash' = [u \in User |-> NoRow] /\ zset' = [u \in User |-> NoScores]
      BY <2>1 DEF RedisLost
    <3> QED
      BY <3>1, <3>2 DEF AInv, RedisOK
  <2>2. CASE Evicts
    BY <2>2 DEF Evicts, AInv, RedisOK
  <2>3. CASE RedisReady
    BY <2>3 DEF RedisReady, AInv, RedisOK
  <2> QED
    BY <2>1, <2>2, <2>3
<1>3. FillOK'
  BY DEF RedisLost, Evicts, RedisReady, filler, AInv, FillOK
<1> QED
  BY <1>1, <1>2, <1>3, Beside

LEMMA RestartStep == ASSUME AInv, ProcessRestarts PROVE AInv'
<1>1. TablesOK' /\ RedisOK'
  BY TablesKept, RedisKept DEF AInv, ProcessRestarts
<1>2. FillOK' /\ ShapesOK' /\ \A r \in Req : step'[r] = "idle"
  BY DEF ProcessRestarts, FillOK, ShapesOK, Steps, AInv
<1> QED
  BY <1>1, <1>2 DEF AInv, OneByOne, CommandOK, RowsOK, Working

LEMMA NextOK == ASSUME AInv, [Next]_vars PROVE AInv'
<1>1. ASSUME NEW r \in Req, Advance(r) PROVE AInv'
  BY <1>1, CreateStep, JoinStep, ReadStep, WriteStep, UnlistStep, LocalStep, LeaveStep,
     SaveNicknameStep, SaveTeamStep, InsertRankStep, DeleteRankStep, CountStep DEF Advance
<1>2. CASE UNCHANGED vars
  BY <1>2, Beside, RedisKept, FillKept DEF vars, AInv
<1> QED
  BY <1>1, <1>2, RequestStep, LocalStep, FillStep, SyncStep, FaultStep, RestartStep DEF Next

LEMMA AlwaysAInv == Spec => []AInv
BY InitOK, NextOK, PTL DEF Spec

-----------------------------------------------------------------------------
\* Type correctness: what requests, hooks and fills put into the tables and into
\* Redis is what their readers expect.
THEOREM TypesCorrect == Spec => []TypeOK
<1>1. AInv => TypeOK
  BY DEF AInv, TypeOK, TablesOK, RedisOK, FillOK, ShapesOK, CommandOK
<1> QED
  BY <1>1, AlwaysAInv, PTL

\* A member always has a rank row: a switch of the supported team deletes the
\* previous team's row only while the row it has made for the new one is there,
\* and wherever a statement fails or the process dies, a row is left.
THEOREM MembersStayRanked == Spec => []RankedSomewhere
<1>1. AInv => RankedSomewhere
  BY DEF AInv, TablesOK
<1> QED
  BY <1>1, AlwaysAInv, PTL

\* The row a switch of the supported team deletes counts no game by then, although
\* it was read to count none two statements before.
THEOREM SwitchesKeepCounts == Spec => []CountsKept
<1>1. AInv => CountsKept
  BY DEF AInv, TablesOK
<1> QED
  BY <1>1, AlwaysAInv, PTL
=============================================================================
