---------------------------- MODULE SongLikesProofs ----------------------------
(***************************************************************************)
(* SongLikes for any users, songs, lists, page sizes and requests at work: *)
(* the number of likes of a song, and what a walk through the pages of a   *)
(* list shows while the walker and others like and unlike.                 *)
(***************************************************************************)
EXTENDS SongLikes, FiniteSetTheorems, TLAPS

\* Two likes of one user and song are under way only when the pair is raced; one
\* that is about to insert has found no row.
LikesOK ==
  \A u \in User, s \in Song :
    LET c == [song |-> s, user |-> u]
    IN c \notin raced =>
         /\ rows[u][s] <= 1
         /\ \A q, r \in Liking(c) : q = r
         /\ \A q \in Liking(c) : step[q] = "insert" => rows[u][s] = 0

\* Between the queries of a page the walker has no request of its own at work.
WalkerWaits ==
  phase \in {"entities", "marks"} =>
    \A q \in Req : step[q] # "idle" => cmd[q].user # Walker

\* What has been in the list all along, and what has been in it at any time.
Sure(list)  == IF list = "liked" THEN since \cap OfType ELSE Listed(list)
Could(list) == IF list = "liked" THEN ever \cap OfType ELSE Listed(list)

Sorted(q) == \A i, j \in 1..Len(q) : i < j => q[i] < q[j]

HistoryOK ==
  /\ phase # "idle" => since \subseteq Likes(Walker) /\ Likes(Walker) \subseteq ever
  /\ phase # "idle" => since \cap Range(seen) \subseteq marked /\ marked \subseteq ever

\* The songs shown so far are those of the list up to the cursor.
SeenOK ==
  /\ Sorted(seen)
  /\ phase = "idle" => seen = <<>> /\ marked = {}
  /\ phase # "idle" => Range(seen) \subseteq Could(walk.list)
  /\ phase \in {"ask", "entities"} =>
       /\ \A s \in Range(seen) : ~Beyond(s, walk.cursor)
       /\ \A s \in Sure(walk.list) : Beyond(s, walk.cursor) \/ s \in Range(seen)
  /\ phase = "entities" =>
       ids = First({s \in Listed(walk.list) : Beyond(s, walk.cursor)}, Asking(walk.take))
  /\ phase = "marks" =>
       /\ ids \subseteq Listed(walk.list)
       /\ \A s \in Range(seen), t \in ids : s < t
       /\ walk.more =>
            /\ walk.cursor \in ids /\ \A t \in ids : t <= walk.cursor
            /\ \A s \in Sure(walk.list) : s <= walk.cursor => s \in Range(seen) \cup ids
       /\ ~walk.more => Sure(walk.list) \subseteq Range(seen) \cup ids
  /\ phase = "over" => Sure(walk.list) \subseteq Range(seen)

WInv == TypeOK /\ LikesOK /\ WalkerWaits /\ HistoryOK /\ SeenOK

-----------------------------------------------------------------------------
(* Songs in the order of their ids.                                         *)

LEMMA SongsFinite ==
  ASSUME NEW S \in SUBSET Song
  PROVE  IsFiniteSet(S) /\ Cardinality(S) \in Nat
<1>1. IsFiniteSet(Song)
  <2>1. 1 \in Int /\ Songs \in Int
    BY SongAssumption
  <2> QED
    BY <2>1, FS_Interval DEF Song
<1> QED
  BY <1>1, FS_Subset, FS_CardinalityType

LEMMA PlaceType ==
  ASSUME NEW S \in SUBSET Song, NEW s \in S
  PROVE  Place(S, s) \in 1..Cardinality(S)
<1> DEFINE T == {t \in S : t <= s}
<1>1. T \in SUBSET S /\ s \in T
  BY DEF Song
<1>2. IsFiniteSet(S) /\ IsFiniteSet(T) /\ Cardinality(S) \in Nat /\ Cardinality(T) \in Nat
      /\ Cardinality(T) <= Cardinality(S)
  BY <1>1, SongsFinite, FS_Subset
<1>3. Cardinality(T) # 0
  BY <1>1, <1>2, FS_EmptySet
<1>4. Place(S, s) = Cardinality(T)
  BY DEF Place
<1> HIDE DEF T
<1> QED
  BY <1>2, <1>3, <1>4

LEMMA PlaceGrows ==
  ASSUME NEW S \in SUBSET Song, NEW s \in S, NEW t \in S, s < t
  PROVE  Place(S, s) < Place(S, t)
<1> DEFINE A == {x \in S : x <= s}
           B == {x \in S : x <= t}
<1>1. s \in Int /\ t \in Int /\ \A x \in S : x \in Int
  BY SongAssumption DEF Song
<1>2. A \in SUBSET B /\ t \in B /\ t \notin A /\ B \in SUBSET Song
  <2>1. \A x \in S : x <= s => x <= t
    BY <1>1
  <2>2. t <= t /\ ~(t <= s)
    BY <1>1
  <2> QED
    BY <2>1, <2>2
<1>3. Place(S, s) = Cardinality(A) /\ Place(S, t) = Cardinality(B)
  BY DEF Place
<1> HIDE DEF A, B
<1>4. IsFiniteSet(B) /\ Cardinality(B) \in Nat /\ Cardinality(A) \in Nat
  BY <1>2, SongsFinite
<1>5. Cardinality(A) <= Cardinality(B) /\ Cardinality(A) # Cardinality(B)
  BY <1>2, <1>4, FS_Subset
<1> QED
  BY <1>3, <1>4, <1>5

\* Every place up to the number of songs is the place of one song.
LEMMA PlaceOnto ==
  ASSUME NEW S \in SUBSET Song, NEW i \in 1..Cardinality(S)
  PROVE  \E s \in S : Place(S, s) = i
<1> DEFINE n == Cardinality(S)
           f == [s \in S |-> Place(S, s)]
<1>1. n \in Nat /\ IsFiniteSet(S)
  BY SongsFinite
<1>2. f \in [S -> 1..n]
  BY PlaceType
<1>3. \A s, t \in S : f[s] = f[t] => s = t
  <2> SUFFICES ASSUME NEW s \in S, NEW t \in S, Place(S, s) = Place(S, t), s # t PROVE FALSE
    OBVIOUS
  <2>1. s \in Int /\ t \in Int /\ Place(S, s) \in Int
    BY PlaceType DEF Song
  <2>2. s < t \/ t < s
    BY <2>1
  <2> QED
    BY <2>1, <2>2, PlaceGrows
<1> HIDE DEF f
<1>4. f \in Injection(S, 1..n)
  BY <1>2, <1>3 DEF Injection, IsInjective
<1>5. IsFiniteSet(1..n) /\ Cardinality(1..n) = n
  <2>1. 1 \in Int /\ n \in Int
    BY <1>1
  <2>2. IsFiniteSet(1..n) /\ Cardinality(1..n) = IF 1 > n THEN 0 ELSE n - 1 + 1
    BY <2>1, FS_Interval
  <2> HIDE DEF n
  <2> QED
    BY <1>1, <2>2
<1>6. f \in Surjection(S, 1..n)
  BY <1>4, <1>5, FS_Injection
<1>7. \E s \in S : f[s] = i
  BY <1>6 DEF Surjection
<1> QED
  BY <1>7 DEF f

\* InOrder lists every song once, by id.
LEMMA InOrderOK ==
  ASSUME NEW S \in SUBSET Song
  PROVE  /\ InOrder(S) \in Seq(S) /\ Len(InOrder(S)) = Cardinality(S)
         /\ \A i \in 1..Cardinality(S) : InOrder(S)[i] \in S
         /\ \A s \in S : \E i \in 1..Cardinality(S) : InOrder(S)[i] = s
         /\ \A i, j \in 1..Cardinality(S) : i < j => InOrder(S)[i] < InOrder(S)[j]
<1> DEFINE n == Cardinality(S)
           q == InOrder(S)
<1>1. n \in Nat
  BY SongsFinite
<1>2. q = [i \in 1..n |-> CHOOSE s \in S : Place(S, s) = i]
  BY DEF InOrder
<1>3. \A i \in 1..n : q[i] \in S /\ Place(S, q[i]) = i
  BY <1>2, PlaceOnto
<1> HIDE DEF n, q
<1>4. q \in [1..n -> S]
  BY <1>2, <1>3
<1>5. q \in Seq(S) /\ Len(q) = n
  BY <1>1, <1>4
<1>6. \A s, t \in S : s < t \/ s = t \/ t < s
  BY DEF Song
<1>7. \A s, t \in S : Place(S, s) = Place(S, t) => s = t
  <2> SUFFICES ASSUME NEW s \in S, NEW t \in S, Place(S, s) = Place(S, t), s # t PROVE FALSE
    OBVIOUS
  <2>1. Place(S, s) \in Int
    BY PlaceType
  <2> QED
    BY <1>6, <2>1, PlaceGrows
<1>8. \A s \in S : \E i \in 1..n : q[i] = s
  <2> SUFFICES ASSUME NEW s \in S PROVE \E i \in 1..n : q[i] = s
    OBVIOUS
  <2>1. Place(S, s) \in 1..n
    BY PlaceType DEF n
  <2> QED
    BY <1>3, <1>7, <2>1
<1>9. \A i, j \in 1..n : i < j => q[i] < q[j]
  <2> SUFFICES ASSUME NEW i \in 1..n, NEW j \in 1..n, i < j PROVE q[i] < q[j]
    OBVIOUS
  <2>1. q[i] \in S /\ q[j] \in S /\ Place(S, q[i]) = i /\ Place(S, q[j]) = j
    BY <1>3
  <2>2. ASSUME q[j] < q[i] PROVE FALSE
    <3>1. Place(S, q[j]) < Place(S, q[i])
      BY <2>1, <2>2, PlaceGrows
    <3> QED
      BY <1>1, <2>1, <3>1
  <2>3. q[i] # q[j]
    BY <1>1, <2>1
  <2> QED
    BY <1>6, <2>1, <2>2, <2>3
<1> QED
  BY <1>3, <1>5, <1>8, <1>9 DEF n, q

\* The last of some songs.
LEMMA MaxIsLast ==
  ASSUME NEW S \in SUBSET Song, S # {}
  PROVE  Max(S) \in S /\ \A s \in S : s <= Max(S)
<1> DEFINE n == Cardinality(S)
<1>1. n \in Nat /\ n # 0
  BY SongsFinite, FS_EmptySet
<1>2. n \in 1..Cardinality(S)
  BY <1>1
<1>3. PICK m \in S : Place(S, m) = n
  BY <1>2, PlaceOnto
<1>4. \A s \in S : s \in Int
  BY DEF Song
<1>5. \A s \in S : m >= s
  <2> SUFFICES ASSUME NEW s \in S, m < s PROVE FALSE
    BY <1>4
  <2>1. Place(S, m) < Place(S, s) /\ Place(S, s) \in 1..n
    BY PlaceGrows, PlaceType
  <2> QED
    BY <1>1, <1>3, <2>1
<1>6. Max(S) \in S /\ \A s \in S : Max(S) >= s
  BY <1>5 DEF Max
<1> QED
  BY <1>4, <1>6

\* The first n of S: nothing before them is left out, and fewer than n are all.
LEMMA FirstOK ==
  ASSUME NEW S \in SUBSET Song, NEW n \in Nat
  PROVE  /\ First(S, n) \subseteq S
         /\ \A t \in First(S, n), s \in S : s < t => s \in First(S, n)
         /\ Cardinality(First(S, n)) < n => First(S, n) = S
<1> DEFINE F == First(S, n)
<1>1. F \subseteq S /\ \A s \in S : s \in F <=> Place(S, s) <= n
  BY DEF First
<1>2. \A s \in S : Place(S, s) \in Int /\ s \in Int
  BY PlaceType DEF Song
<1> HIDE DEF F
<1>3. \A t \in F, s \in S : s < t => s \in F
  <2> SUFFICES ASSUME NEW t \in F, NEW s \in S, s < t PROVE s \in F
    OBVIOUS
  <2>1. t \in S /\ Place(S, t) <= n
    BY <1>1
  <2>2. Place(S, s) < Place(S, t)
    BY <2>1, PlaceGrows
  <2> QED
    BY <1>1, <1>2, <2>1, <2>2
<1>4. ASSUME Cardinality(F) < n, F # S PROVE FALSE
  <2>1. PICK s \in S : s \notin F
    BY <1>1, <1>4
  <2>2. Place(S, s) > n /\ Place(S, s) \in 1..Cardinality(S) /\ Cardinality(S) \in Nat
    BY <1>1, <1>2, <2>1, PlaceType, SongsFinite
  <2>3. n = 0 \/ n \in 1..Cardinality(S)
    BY <2>2
  <2>4. IsFiniteSet(F) /\ Cardinality(F) \in Nat
    BY <1>1, SongsFinite
  <2>5. n \in 1..Cardinality(S)
    BY <1>4, <2>3, <2>4
  <2>6. PICK t \in S : Place(S, t) = n
    BY <2>5, PlaceOnto
  <2> DEFINE T == {x \in S : x <= t}
  <2>7. T \in SUBSET F
    <3> SUFFICES ASSUME NEW x \in S, x <= t PROVE x \in F
      OBVIOUS
    <3>1. x = t \/ x < t
      BY <1>2
    <3>2. Place(S, x) <= Place(S, t)
      BY <1>2, <3>1, PlaceGrows
    <3> QED
      BY <1>1, <2>6, <3>2
  <2>8. Cardinality(T) <= Cardinality(F)
    BY <2>4, <2>7, FS_Subset
  <2>9. Cardinality(T) = n
    BY <2>6 DEF Place
  <2> HIDE DEF T
  <2> QED
    BY <1>4, <2>4, <2>8, <2>9
<1> QED
  BY <1>1, <1>3, <1>4 DEF F

-----------------------------------------------------------------------------
(* The number of likes.                                                     *)

\* The sum of zeros and ones is the number of the ones.
LEMMA SumOfOnes ==
  ASSUME NEW S, IsFiniteSet(S), NEW f, DOMAIN f = S, \A k \in S : f[k] \in {0, 1}
  PROVE  SumOf(f) = Cardinality({k \in S : f[k] > 0})
<1> DEFINE A == {k \in S : f[k] > 0}
           B == UNION {{k} \X (1..f[k]) : k \in DOMAIN f}
           h == [k \in A |-> <<k, 1>>]
<1>1. IsFiniteSet(A)
  BY FS_Subset
<1>2. ASSUME NEW p PROVE p \in B <=> \E k \in A : p = <<k, 1>>
  <2>1. p \in B <=> \E k \in S : p \in {k} \X (1..f[k])
    OBVIOUS
  <2>2. ASSUME NEW k \in S PROVE p \in {k} \X (1..f[k]) <=> f[k] = 1 /\ p = <<k, 1>>
    <3>1. f[k] = 0 \/ f[k] = 1
      OBVIOUS
    <3>2. CASE f[k] = 0
      <4>1. 1..f[k] = {}
        BY <3>2
      <4> QED
        BY <3>2, <4>1
    <3>3. CASE f[k] = 1
      <4>1. 1..f[k] = {1}
        BY <3>3
      <4> QED
        BY <3>3, <4>1
    <3> QED
      BY <3>1, <3>2, <3>3
  <2>3. \A k \in S : k \in A <=> f[k] = 1
    OBVIOUS
  <2> HIDE DEF A, B
  <2> QED
    BY <2>1, <2>2, <2>3 DEF A
<1> HIDE DEF A, B
<1>3. h \in Bijection(A, B)
  BY <1>2 DEF Bijection, Injection, Surjection, IsInjective
<1>4. Cardinality(B) = Cardinality(A)
  BY <1>1, <1>3, FS_Bijection DEF ExistsBijection
<1> QED
  BY <1>4 DEF A, B, SumOf

LEMMA CountsFollow == ASSUME WInv PROVE CountsLikers
<1> SUFFICES ASSUME NEW s \in Song, \A c \in raced : c.song # s
             PROVE  Count(s) = Cardinality({u \in User : FindOne(u, s).isLiked})
  BY DEF CountsLikers
<1> DEFINE f == [u \in User |-> rows[u][s]]
<1>1. \A u \in User : f[u] \in {0, 1}
  <2> SUFFICES ASSUME NEW u \in User PROVE rows[u][s] \in {0, 1}
    OBVIOUS
  <2>1. [song |-> s, user |-> u] \notin raced
    OBVIOUS
  <2>2. rows[u][s] <= 1 /\ rows[u][s] \in Nat
    BY <2>1 DEF WInv, LikesOK, TypeOK
  <2> QED
    BY <2>2
<1>2. \A u \in User : FindOne(u, s).isLiked <=> f[u] > 0
  BY DEF FindOne, Liked
<1>3. {u \in User : FindOne(u, s).isLiked} = {u \in User : f[u] > 0}
  BY <1>2
<1>4. DOMAIN f = User
  OBVIOUS
<1>5. Count(s) = SumOf(f)
  BY DEF Count
<1> HIDE DEF f
<1> QED
  BY <1>1, <1>3, <1>4, <1>5, SumOfOnes, SongAssumption

\* What the walk has shown when it is over.
LEMMA WalkFollows == ASSUME WInv PROVE WalkTrue
BY DEF WInv, HistoryOK, SeenOK, TypeOK, Sorted, Sure, Could, WalkTrue

-----------------------------------------------------------------------------
(* The statements on the likes.                                             *)

LEMMA WInvInit == ASSUME Init PROVE WInv
<1> USE SongAssumption DEF Init
<1>1. TypeOK
  BY DEF TypeOK
<1>2. LikesOK /\ WalkerWaits /\ HistoryOK
  BY DEF LikesOK, Liking, WalkerWaits, HistoryOK
<1>3. SeenOK
  BY DEF SeenOK, Sorted
<1> QED
  BY <1>1, <1>2, <1>3 DEF WInv

\* Likes and unlikes never take from the walk what it owes: they may add to what
\* could be in the list and take from what was in it all along.
LEMMA ReaderOK ==
  ASSUME WInv, UNCHANGED reader, since' \subseteq since, ever \subseteq ever',
         phase # "idle" => since' \subseteq Likes(Walker)' /\ Likes(Walker)' \subseteq ever',
         phase \in {"entities", "marks"} => Likes(Walker)' = Likes(Walker)
  PROVE  HistoryOK' /\ SeenOK'
<1>1. UNCHANGED <<phase, walk, ids, seen, marked>>
  BY DEF reader
<1>2. HistoryOK'
  BY <1>1 DEF WInv, HistoryOK
<1>3. \A l \in Lists : Sure(l)' \subseteq Sure(l) /\ Could(l) \subseteq Could(l)'
  <2>1. \A l \in Lists : l # "liked" => Listed(l)' = Listed(l)
    BY DEF Listed, Lists
  <2> QED
    BY <2>1 DEF Sure, Could
<1>11. phase # "idle" => walk.list \in Lists
  BY DEF WInv, TypeOK
<1>4. \A l : phase \in {"entities", "marks"} => Listed(l)' = Listed(l)
  BY DEF Listed
<1>5. Sorted(seen)' /\ (phase' = "idle" => seen' = <<>> /\ marked' = {})
      /\ (phase' # "idle" => Range(seen') \subseteq Could(walk.list)')
  BY <1>1, <1>3, <1>11 DEF WInv, SeenOK, Sorted
<1>6. phase' \in {"ask", "entities"} =>
        /\ \A s \in Range(seen') : ~Beyond(s, walk'.cursor)
        /\ \A s \in Sure(walk.list)' : Beyond(s, walk'.cursor) \/ s \in Range(seen')
  BY <1>1, <1>3, <1>11 DEF WInv, SeenOK
<1>7. phase' = "entities" =>
        ids' = First({s \in Listed(walk.list)' : Beyond(s, walk'.cursor)}, Asking(walk'.take))
  BY <1>1, <1>4 DEF WInv, SeenOK
<1>8. phase' = "marks" => ids' \subseteq Listed(walk.list)'
  BY <1>1, <1>4 DEF WInv, SeenOK
<1>9. phase' = "marks" =>
        /\ \A s \in Range(seen'), t \in ids' : s < t
        /\ walk'.more =>
             /\ walk'.cursor \in ids' /\ \A t \in ids' : t <= walk'.cursor
             /\ \A s \in Sure(walk.list)' : s <= walk'.cursor => s \in Range(seen') \cup ids'
        /\ ~walk'.more => Sure(walk.list)' \subseteq Range(seen') \cup ids'
  BY <1>1, <1>3, <1>11 DEF WInv, SeenOK
<1>10. phase' = "over" => Sure(walk.list)' \subseteq Range(seen')
  BY <1>1, <1>3, <1>11 DEF WInv, SeenOK
<1> QED
  BY <1>2, <1>5, <1>6, <1>7, <1>8, <1>9, <1>10 DEF SeenOK

\* What holds of a request at work, and what a request that begins may find.
LEMMA AtWorkOK ==
  ASSUME WInv, NEW r \in Req, step[r] # "idle"
  PROVE  cmd[r] \in [song : Song, user : User] /\ cmd[r].song \in Song /\ cmd[r].user \in User
         /\ cmd[r] = [song |-> cmd[r].song, user |-> cmd[r].user]
BY DEF WInv, TypeOK

LEMMA BeginStep ==
  ASSUME WInv, NEW r \in Req, BeginLike(r) \/ BeginUnlike(r) PROVE WInv'
<1>1. PICK u \in User, s \in Song : \E first \in {"find", "delete"} :
        /\ Begin(r, [song |-> s, user |-> u], first)
        /\ raced' \in {raced, raced \cup {[song |-> s, user |-> u]}}
        /\ first = "find" => Liking([song |-> s, user |-> u]) = {}
                               \/ [song |-> s, user |-> u] \in raced'
        /\ UNCHANGED <<rows, reader, since, ever>>
  BY DEF BeginLike, BeginUnlike
<1> DEFINE c == [song |-> s, user |-> u]
<1>2. PICK first \in {"find", "delete"} :
        /\ Begin(r, c, first)
        /\ raced' \in {raced, raced \cup {c}}
        /\ first = "find" => Liking(c) = {} \/ c \in raced'
        /\ UNCHANGED <<rows, reader, since, ever>>
  BY <1>1
<1>4. c \in [song : Song, user : User] /\ c.user = u /\ c.song = s
  OBVIOUS
<1>5. /\ step[r] = "idle" /\ step' = [step EXCEPT ![r] = first] /\ cmd' = [cmd EXCEPT ![r] = c]
      /\ u \notin TwoTabs => ~AtWork(u)
  BY <1>2, <1>4 DEF Begin
<1> HIDE DEF c
<1>6. /\ step'[r] = first /\ cmd'[r] = c
      /\ \A q \in Req \ {r} : step'[q] = step[q] /\ cmd'[q] = cmd[q]
  BY <1>5 DEF WInv, TypeOK
<1>7. TypeOK'
  <2>1. /\ step' \in [Req -> {"idle", "find", "insert", "delete"}]
        /\ cmd' \in [Req -> [song : Song, user : User] \cup {None}]
    BY <1>4, <1>5 DEF WInv, TypeOK
  <2>2. \A q \in Req : step'[q] # "idle" => cmd'[q] \in [song : Song, user : User]
    BY <1>4, <1>6 DEF WInv, TypeOK
  <2> QED
    BY <1>2, <1>4, <2>1, <2>2 DEF WInv, TypeOK, reader
<1>8. LikesOK'
  <2> SUFFICES ASSUME NEW v \in User, NEW x \in Song, [song |-> x, user |-> v] \notin raced'
               PROVE  LET d == [song |-> x, user |-> v]
                      IN /\ rows'[v][x] <= 1
                         /\ \A p, q \in Liking(d)' : p = q
                         /\ \A q \in Liking(d)' : step'[q] = "insert" => rows'[v][x] = 0
    BY DEF LikesOK
  <2> DEFINE d == [song |-> x, user |-> v]
  <2>1. /\ d \notin raced /\ rows[v][x] <= 1
        /\ \A p, q \in Liking(d) : p = q
        /\ \A q \in Liking(d) : step[q] = "insert" => rows[v][x] = 0
    BY <1>2 DEF WInv, LikesOK
  <2> HIDE DEF d
  <2>2. \A q \in Req \ {r} : q \in Liking(d)' <=> q \in Liking(d)
    BY <1>6 DEF Liking
  <2>3. r \in Liking(d)' => first = "find" /\ d = c
    BY <1>6 DEF Liking
  <2>4. r \in Liking(d)' => Liking(d) = {}
    BY <1>2, <2>3 DEF d
  <2>5. Liking(d)' \subseteq Req
    BY DEF Liking
  <2>6. \A p, q \in Liking(d)' : p = q
    BY <2>1, <2>2, <2>4, <2>5
  <2>7. \A q \in Liking(d)' : step'[q] = "insert" => rows'[v][x] = 0
    BY <1>2, <1>6, <2>1, <2>2, <2>3, <2>5
  <2> QED
    BY <1>2, <2>1, <2>6, <2>7 DEF d
<1>9. WalkerWaits'
  <2> SUFFICES ASSUME phase \in {"entities", "marks"}, NEW q \in Req, step'[q] # "idle"
               PROVE  cmd'[q].user # Walker
    BY <1>2 DEF WalkerWaits, reader
  <2>1. u # Walker
    BY <1>5, SongAssumption DEF AtWork
  <2> QED
    BY <1>4, <1>6, <2>1 DEF WInv, WalkerWaits
<1>10. Likes(Walker)' = Likes(Walker)
  BY <1>2 DEF Likes, Liked
<1>11. HistoryOK' /\ SeenOK'
  BY <1>2, <1>10, ReaderOK DEF WInv, HistoryOK, reader
<1> QED
  BY <1>7, <1>8, <1>9, <1>11 DEF WInv

\* A request at work and the row of its user and song.
LEMMA FindStep == ASSUME WInv, NEW r \in Req, FindDuplicate(r) PROVE WInv'
<1> DEFINE c == cmd[r]
<1>1. step[r] = "find" /\ UNCHANGED <<rows, raced, reader, since, ever, served>>
  BY DEF FindDuplicate
<1>2. c.song \in Song /\ c.user \in User /\ c = [song |-> c.song, user |-> c.user]
  BY <1>1, AtWorkOK
<1>3. \/ Liked(c.user, c.song) /\ step' = [step EXCEPT ![r] = "idle"] /\ cmd' = [cmd EXCEPT ![r] = None]
      \/ ~Liked(c.user, c.song) /\ step' = [step EXCEPT ![r] = "insert"] /\ cmd' = cmd
  BY DEF FindDuplicate, Finish, Duplicate
<1>4. /\ step'[r] = "idle" \/ (step'[r] = "insert" /\ cmd'[r] = c /\ ~Liked(c.user, c.song))
      /\ \A q \in Req \ {r} : step'[q] = step[q] /\ cmd'[q] = cmd[q]
  BY <1>3 DEF WInv, TypeOK
<1> HIDE DEF c
<1>5. TypeOK'
  <2>1. /\ step' \in [Req -> {"idle", "find", "insert", "delete"}]
        /\ cmd' \in [Req -> [song : Song, user : User] \cup {None}]
    BY <1>3 DEF WInv, TypeOK
  <2>2. \A q \in Req : step'[q] # "idle" => cmd'[q] \in [song : Song, user : User]
    BY <1>1, <1>4, AtWorkOK DEF WInv, TypeOK, c
  <2> QED
    BY <1>1, <2>1, <2>2 DEF WInv, TypeOK, reader
<1>6. LikesOK'
  <2> SUFFICES ASSUME NEW v \in User, NEW x \in Song, [song |-> x, user |-> v] \notin raced
               PROVE  LET d == [song |-> x, user |-> v]
                      IN /\ rows[v][x] <= 1
                         /\ \A p, q \in Liking(d)' : p = q
                         /\ \A q \in Liking(d)' : step'[q] = "insert" => rows[v][x] = 0
    BY <1>1 DEF LikesOK
  <2> DEFINE d == [song |-> x, user |-> v]
  <2>1. /\ rows[v][x] <= 1 /\ rows[v][x] \in Nat
        /\ \A p, q \in Liking(d) : p = q
        /\ \A q \in Liking(d) : step[q] = "insert" => rows[v][x] = 0
    BY DEF WInv, LikesOK, TypeOK
  <2>2. d.song = x /\ d.user = v
    OBVIOUS
  <2> HIDE DEF d
  <2>3. Liking(d)' \subseteq Liking(d)
    BY <1>1, <1>4 DEF Liking, c
  <2>4. ASSUME NEW q \in Liking(d)', step'[q] = "insert" PROVE rows[v][x] = 0
    <3>1. CASE q = r
      <4>1. d = c /\ ~Liked(c.user, c.song)
        BY <1>4, <2>4, <3>1 DEF Liking
      <4> QED
        BY <2>1, <2>2, <4>1 DEF Liked
    <3>2. CASE q # r
      BY <1>4, <2>1, <2>3, <2>4, <3>2 DEF Liking
    <3> QED
      BY <3>1, <3>2
  <2> QED
    BY <2>1, <2>3, <2>4 DEF d
<1>7. WalkerWaits'
  BY <1>1, <1>4 DEF WInv, WalkerWaits, reader, c
<1>8. Likes(Walker)' = Likes(Walker)
  BY <1>1 DEF Likes, Liked
<1>9. HistoryOK' /\ SeenOK'
  BY <1>1, <1>8, ReaderOK DEF WInv, HistoryOK
<1> QED
  BY <1>5, <1>6, <1>7, <1>9 DEF WInv

\* Finish, as the other two statements use it.
LEMMA FinishOK ==
  ASSUME WInv, NEW r \in Req, Finish(r), UNCHANGED phase
  PROVE  /\ step' \in [Req -> {"idle", "find", "insert", "delete"}]
         /\ cmd' \in [Req -> [song : Song, user : User] \cup {None}]
         /\ \A q \in Req : step'[q] # "idle" =>
              q # r /\ step'[q] = step[q] /\ cmd'[q] = cmd[q]
                /\ cmd'[q] \in [song : Song, user : User]
         /\ \A d : Liking(d)' = Liking(d) \ {r}
         /\ WalkerWaits'
<1>1. step' = [step EXCEPT ![r] = "idle"] /\ cmd' = [cmd EXCEPT ![r] = None]
  BY DEF Finish
<1>2. /\ step'[r] = "idle"
      /\ \A q \in Req \ {r} : step'[q] = step[q] /\ cmd'[q] = cmd[q]
  BY <1>1 DEF WInv, TypeOK
<1>3. /\ step' \in [Req -> {"idle", "find", "insert", "delete"}]
      /\ cmd' \in [Req -> [song : Song, user : User] \cup {None}]
  BY <1>1 DEF WInv, TypeOK
<1>4. \A d : Liking(d)' = Liking(d) \ {r}
  BY <1>2 DEF Liking
<1>5. WalkerWaits'
  BY <1>2 DEF WInv, WalkerWaits
<1> QED
  BY <1>2, <1>3, <1>4, <1>5 DEF WInv, TypeOK

\* Only the row of the request's user and song changes.
LEMMA OneRow ==
  ASSUME WInv, NEW u \in User, NEW s \in Song, NEW n \in Nat,
         rows' = [rows EXCEPT ![u][s] = n]
  PROVE  /\ rows' \in [User -> [Song -> Nat]] /\ rows'[u][s] = n
         /\ \A v \in User, x \in Song : v # u \/ x # s => rows'[v][x] = rows[v][x]
         /\ u # Walker => Likes(Walker)' = Likes(Walker)
<1>1. rows \in [User -> [Song -> Nat]]
  BY DEF WInv, TypeOK
<1>2. rows'[u][s] = n /\ \A v \in User, x \in Song : v # u \/ x # s => rows'[v][x] = rows[v][x]
  BY <1>1
<1>3. rows' \in [User -> [Song -> Nat]]
  BY <1>1
<1>4. u # Walker => Likes(Walker)' = Likes(Walker)
  BY <1>2, SongAssumption DEF Likes, Liked
<1> QED
  BY <1>2, <1>3, <1>4

LEMMA InsertStep == ASSUME WInv, NEW r \in Req, InsertLike(r) PROVE WInv'
<1> DEFINE u == cmd[r].user
           s == cmd[r].song
<1>1. step[r] = "insert" /\ Finish(r) /\ UNCHANGED <<raced, reader, since, served>>
      /\ rows' = [rows EXCEPT ![u][s] = rows[u][s] + 1]
      /\ ever' = IF u = Walker THEN ever \cup {s} ELSE ever
  BY DEF InsertLike
<1>2. u \in User /\ s \in Song /\ cmd[r] = [song |-> s, user |-> u]
  BY <1>1, AtWorkOK
<1> HIDE DEF u, s
<1>3. rows[u][s] \in Nat
  BY <1>2 DEF WInv, TypeOK
<1>4. rows[u][s] + 1 \in Nat /\ rows[u][s] + 1 > 0
  BY <1>3
<1>5. /\ rows' \in [User -> [Song -> Nat]] /\ rows'[u][s] = rows[u][s] + 1
      /\ \A v \in User, x \in Song : v # u \/ x # s => rows'[v][x] = rows[v][x]
      /\ u # Walker => Likes(Walker)' = Likes(Walker)
  BY <1>1, <1>2, <1>4, OneRow
<1>6. UNCHANGED phase
  BY <1>1 DEF reader
<1>7. /\ step' \in [Req -> {"idle", "find", "insert", "delete"}]
      /\ cmd' \in [Req -> [song : Song, user : User] \cup {None}]
      /\ \A q \in Req : step'[q] # "idle" =>
           q # r /\ step'[q] = step[q] /\ cmd'[q] = cmd[q]
             /\ cmd'[q] \in [song : Song, user : User]
      /\ \A d : Liking(d)' = Liking(d) \ {r}
      /\ WalkerWaits'
  BY <1>1, <1>6, FinishOK
<1>8. ever' \subseteq Song
  BY <1>1, <1>2 DEF WInv, TypeOK
<1>9. TypeOK'
  BY <1>1, <1>5, <1>7, <1>8 DEF WInv, TypeOK, reader
<1>10. LikesOK'
  <2> SUFFICES ASSUME NEW v \in User, NEW x \in Song, [song |-> x, user |-> v] \notin raced
               PROVE  LET d == [song |-> x, user |-> v]
                      IN /\ rows'[v][x] <= 1
                         /\ \A p, q \in Liking(d)' : p = q
                         /\ \A q \in Liking(d)' : step'[q] = "insert" => rows'[v][x] = 0
    BY <1>1 DEF LikesOK
  <2> DEFINE d == [song |-> x, user |-> v]
  <2>1. /\ rows[v][x] <= 1
        /\ \A p, q \in Liking(d) : p = q
        /\ \A q \in Liking(d) : step[q] = "insert" => rows[v][x] = 0
    BY DEF WInv, LikesOK
  <2>2. r \in Liking(d) <=> v = u /\ x = s
    BY <1>1, <1>2 DEF Liking
  <2> HIDE DEF d
  <2>3. Liking(d)' = Liking(d) \ {r}
    BY <1>7
  <2>4. \A q \in Liking(d)' : step'[q] = step[q]
    BY <1>7 DEF Liking
  <2>5. CASE v = u /\ x = s
    <3>1. rows[u][s] = 0 /\ Liking(d)' = {}
      BY <1>1, <2>1, <2>2, <2>3, <2>5
    <3> QED
      BY <1>5, <2>5, <3>1 DEF d
  <2>6. CASE ~(v = u /\ x = s)
    <3>1. rows'[v][x] = rows[v][x]
      BY <1>5, <2>6
    <3> QED
      BY <2>1, <2>3, <2>4, <3>1 DEF d
  <2> QED
    BY <2>5, <2>6
<1>11. phase \in {"entities", "marks"} => u # Walker
  BY <1>1 DEF WInv, WalkerWaits, u
<1>12. Likes(Walker) \subseteq Likes(Walker)' /\ Likes(Walker)' \subseteq Likes(Walker) \cup {s}
  <2>1. CASE u # Walker
    BY <1>5, <2>1
  <2>2. CASE u = Walker
    BY <1>2, <1>4, <1>5, <2>2, SongAssumption DEF Likes, Liked
  <2> QED
    BY <2>1, <2>2
<1>13. phase # "idle" => since' \subseteq Likes(Walker)' /\ Likes(Walker)' \subseteq ever'
  BY <1>1, <1>5, <1>12 DEF WInv, HistoryOK
<1>14. HistoryOK' /\ SeenOK'
  BY <1>1, <1>5, <1>11, <1>13, ReaderOK
<1> QED
  BY <1>7, <1>9, <1>10, <1>14 DEF WInv

LEMMA AtMostOne ==
  ASSUME NEW S, IsFiniteSet(S), ~(Cardinality(S) > 1), NEW p \in S, NEW q \in S
  PROVE  p = q
<1>1. Cardinality(S) \in Nat /\ Cardinality(S) # 0
  BY FS_CardinalityType, FS_EmptySet
<1>2. Cardinality(S) = 1
  BY <1>1
<1>3. \E x : S = {x}
  BY <1>2, FS_Singleton
<1> QED
  BY <1>3

LEMMA DeleteStep == ASSUME WInv, NEW r \in Req, DeleteLikes(r) PROVE WInv'
<1> DEFINE u == cmd[r].user
           s == cmd[r].song
           c == [song |-> s, user |-> u]
<1>1. step[r] = "delete" /\ Finish(r) /\ UNCHANGED <<reader, ever, served>>
      /\ rows' = [rows EXCEPT ![u][s] = 0]
  BY DEF DeleteLikes, Deleted
<1>12. since' = IF u = Walker THEN since \ {s} ELSE since
  BY DEF DeleteLikes
<1>13. /\ raced' \subseteq raced
       /\ \A d : d \notin raced' /\ d # cmd[r] => d \notin raced
       /\ cmd[r] \in raced' \/ cmd[r] \notin raced \/ ~(Cardinality(Liking(cmd[r])) > 1)
  BY DEF DeleteLikes
<1>2. u \in User /\ s \in Song /\ cmd[r] = c
  BY <1>1, AtWorkOK
<1> HIDE DEF u, s
<1>3. /\ rows' \in [User -> [Song -> Nat]] /\ rows'[u][s] = 0
      /\ \A v \in User, x \in Song : v # u \/ x # s => rows'[v][x] = rows[v][x]
      /\ u # Walker => Likes(Walker)' = Likes(Walker)
  BY <1>1, <1>2, OneRow
<1>4. UNCHANGED phase
  BY <1>1 DEF reader
<1>5. /\ step' \in [Req -> {"idle", "find", "insert", "delete"}]
      /\ cmd' \in [Req -> [song : Song, user : User] \cup {None}]
      /\ \A q \in Req : step'[q] # "idle" =>
           q # r /\ step'[q] = step[q] /\ cmd'[q] = cmd[q]
             /\ cmd'[q] \in [song : Song, user : User]
      /\ \A d : Liking(d)' = Liking(d) \ {r}
      /\ WalkerWaits'
  BY <1>1, <1>4, FinishOK
<1>6. TypeOK'
  BY <1>1, <1>3, <1>5, <1>12, <1>13 DEF WInv, TypeOK, reader
<1>7. LikesOK'
  <2> SUFFICES ASSUME NEW v \in User, NEW x \in Song, [song |-> x, user |-> v] \notin raced'
               PROVE  LET d == [song |-> x, user |-> v]
                      IN /\ rows'[v][x] <= 1
                         /\ \A p, q \in Liking(d)' : p = q
                         /\ \A q \in Liking(d)' : step'[q] = "insert" => rows'[v][x] = 0
    BY DEF LikesOK
  <2> DEFINE d == [song |-> x, user |-> v]
  <2>1. d \notin raced => /\ rows[v][x] <= 1
                          /\ \A p, q \in Liking(d) : p = q
                          /\ \A q \in Liking(d) : step[q] = "insert" => rows[v][x] = 0
    BY DEF WInv, LikesOK
  <2>2. d = c <=> v = u /\ x = s
    OBVIOUS
  <2>3. Liking(d)' = Liking(d)
    <3>1. r \notin Liking(d)
      BY <1>1 DEF Liking
    <3> QED
      BY <1>5, <3>1
  <2>4. \A q \in Liking(d)' : step'[q] = step[q]
    BY <1>5 DEF Liking
  <2>5. CASE d = c
    <3>1. rows'[v][x] = 0
      BY <1>3, <2>2, <2>5
    <3>2. \A p, q \in Liking(d) : p = q
      <4>1. CASE d \notin raced
        BY <2>1, <4>1
      <4>2. CASE d \in raced
        <5>1. ~(Cardinality(Liking(d)) > 1)
          BY <1>2, <1>13, <2>5, <4>2
        <5>2. IsFiniteSet(Liking(d))
          <6>1. Liking(d) \subseteq Req
            BY DEF Liking
          <6> QED
            BY <6>1, SongAssumption, FS_Subset
        <5> HIDE DEF d
        <5> QED
          BY <5>1, <5>2, AtMostOne
      <4> QED
        BY <4>1, <4>2
    <3> HIDE DEF d
    <3> QED
      BY <2>3, <3>1, <3>2 DEF d
  <2>6. CASE d # c
    <3>1. rows'[v][x] = rows[v][x]
      BY <1>3, <2>2, <2>6
    <3>2. d \notin raced
      BY <1>2, <1>13, <2>6
    <3> HIDE DEF d
    <3> QED
      BY <2>1, <2>3, <2>4, <3>1, <3>2 DEF d
  <2> QED
    BY <2>5, <2>6
<1>8. phase \in {"entities", "marks"} => u # Walker
  BY <1>1 DEF WInv, WalkerWaits, u
<1>9. Likes(Walker)' \subseteq Likes(Walker) /\ Likes(Walker) \subseteq Likes(Walker)' \cup {s}
  <2>1. CASE u # Walker
    BY <1>3, <2>1
  <2>2. CASE u = Walker
    BY <1>2, <1>3, <2>2, SongAssumption DEF Likes, Liked
  <2> QED
    BY <2>1, <2>2
<1>10. phase # "idle" => since' \subseteq Likes(Walker)' /\ Likes(Walker)' \subseteq ever'
  BY <1>1, <1>3, <1>9, <1>12 DEF WInv, HistoryOK
<1>11. HistoryOK' /\ SeenOK'
  BY <1>1, <1>3, <1>8, <1>10, <1>12, ReaderOK
<1> QED
  BY <1>5, <1>6, <1>7, <1>11 DEF WInv

-----------------------------------------------------------------------------
(* The pages.                                                               *)

\* No statement of a page touches the likes.
LEMMA LikesStay ==
  ASSUME WInv, UNCHANGED likes
  PROVE  LikesOK' /\ Likes(Walker)' = Likes(Walker) /\ (\A l : Listed(l)' = Listed(l))
<1>1. UNCHANGED <<rows, step, cmd, raced>>
  BY DEF likes
<1>4. \A c : Liking(c)' = Liking(c)
  BY <1>1 DEF Liking
<1>2. LikesOK'
  BY <1>1, <1>4 DEF WInv, LikesOK
<1>3. Likes(Walker)' = Likes(Walker)
  BY <1>1 DEF Likes, Liked
<1> QED
  BY <1>2, <1>3 DEF Listed

\* What was there all along is in the list now, and that is no more than could be.
LEMMA SureListed ==
  ASSUME WInv, phase # "idle"
  PROVE  /\ Sure(walk.list) \subseteq Listed(walk.list)
         /\ Listed(walk.list) \subseteq Could(walk.list)
         /\ Listed(walk.list) \subseteq Song
<1>1. since \subseteq Likes(Walker) /\ Likes(Walker) \subseteq ever
  BY DEF WInv, HistoryOK
<1>2. Listed(walk.list) \subseteq Song
  BY DEF Listed
<1>3. CASE walk.list = "liked"
  <2>1. Listed(walk.list) = {s \in Song : s \in Likes(Walker) \cap OfType}
    BY <1>3 DEF Listed
  <2>2. Sure(walk.list) = since \cap OfType /\ Could(walk.list) = ever \cap OfType
    BY <1>3 DEF Sure, Could
  <2>3. Likes(Walker) \subseteq Song
    BY DEF Likes
  <2> QED
    BY <1>1, <1>2, <2>1, <2>2, <2>3
<1>4. CASE walk.list # "liked"
  BY <1>2, <1>4 DEF Sure, Could
<1> QED
  BY <1>3, <1>4

LEMMA EmptyRange == Range(<<>>) = {}
BY DEF Range

\* A page appended to what is shown.
LEMMA Appended ==
  ASSUME NEW q \in Seq(Song), NEW S \in SUBSET Song, Sorted(q),
         \A s \in Range(q), t \in S : s < t
  PROVE  /\ q \o InOrder(S) \in Seq(Song)
         /\ Range(q \o InOrder(S)) = Range(q) \cup S
         /\ Sorted(q \o InOrder(S))
<1> DEFINE p == InOrder(S)
           n == Len(q)
           m == Cardinality(S)
           qp == q \o p
<1>1. /\ m \in Nat /\ p \in Seq(S) /\ Len(p) = m
      /\ \A i \in 1..m : p[i] \in S
      /\ \A s \in S : \E i \in 1..m : p[i] = s
      /\ \A i, j \in 1..m : i < j => p[i] < p[j]
  BY InOrderOK, SongsFinite
<1> HIDE DEF p, m
<1>2. p \in Seq(Song)
  BY <1>1
<1>3. n \in Nat /\ \A i \in 1..n : q[i] \in Range(q)
  BY DEF Range
<1>4. qp \in Seq(Song) /\ Len(qp) = n + m
  BY <1>1, <1>2
<1>5. \A i \in 1..(n + m) : qp[i] = IF i <= n THEN q[i] ELSE p[i - n]
  BY <1>1, <1>2
<1> HIDE DEF n, qp
<1>6. \A i \in 1..(n + m) : \/ i \in 1..n /\ qp[i] = q[i]
                            \/ i - n \in 1..m /\ qp[i] = p[i - n]
  BY <1>1, <1>3, <1>5
<1>7. DOMAIN qp = 1..(n + m) /\ DOMAIN q = 1..n
  BY <1>1, <1>3, <1>4 DEF n
<1>8. Range(qp) \subseteq Range(q) \cup S
  <2> SUFFICES ASSUME NEW i \in 1..(n + m) PROVE qp[i] \in Range(q) \cup S
    BY <1>7 DEF Range
  <2> QED
    BY <1>1, <1>3, <1>6
<1>9. Range(q) \subseteq Range(qp)
  <2> SUFFICES ASSUME NEW i \in 1..n PROVE q[i] \in Range(qp)
    BY <1>7 DEF Range
  <2>1. i \in 1..(n + m) /\ qp[i] = q[i]
    BY <1>1, <1>3, <1>5
  <2> QED
    BY <1>7, <2>1 DEF Range
<1>10. S \subseteq Range(qp)
  <2> SUFFICES ASSUME NEW s \in S PROVE s \in Range(qp)
    OBVIOUS
  <2>1. PICK i \in 1..m : p[i] = s
    BY <1>1
  <2>2. n + i \in 1..(n + m) /\ ~(n + i <= n) /\ (n + i) - n = i
    BY <1>1, <1>3, <2>1
  <2>3. qp[n + i] = p[i]
    BY <1>5, <2>2
  <2> QED
    BY <1>7, <2>1, <2>2, <2>3 DEF Range
<1>11. \A i, j \in 1..(n + m) : i < j => qp[i] < qp[j]
  <2> SUFFICES ASSUME NEW i \in 1..(n + m), NEW j \in 1..(n + m), i < j PROVE qp[i] < qp[j]
    OBVIOUS
  <2>1. CASE j <= n
    <3>1. i \in 1..n /\ j \in 1..n /\ qp[i] = q[i] /\ qp[j] = q[j]
      BY <1>1, <1>3, <1>5, <2>1
    <3> QED
      BY <2>1, <3>1 DEF Sorted, n
  <2>2. CASE i <= n /\ ~(j <= n)
    <3>1. i \in 1..n /\ j - n \in 1..m /\ qp[i] = q[i] /\ qp[j] = p[j - n]
      BY <1>1, <1>3, <1>5, <2>2
    <3> QED
      BY <1>1, <1>3, <3>1
  <2>3. CASE ~(i <= n)
    <3>1. i - n \in 1..m /\ j - n \in 1..m /\ i - n < j - n
      BY <1>1, <1>3, <2>3
    <3>2. qp[i] = p[i - n] /\ qp[j] = p[j - n]
      BY <1>1, <1>3, <1>5, <2>3
    <3> QED
      BY <1>1, <3>1, <3>2
  <2> QED
    BY <1>3, <2>1, <2>2, <2>3
<1>12. Sorted(qp)
  BY <1>4, <1>11 DEF Sorted
<1> QED
  BY <1>4, <1>8, <1>9, <1>10, <1>12 DEF qp, p

LEMMA StartStep == ASSUME WInv, NEW list \in Lists, StartWalk(list) PROVE WInv'
<1>1. PICK take \in Takes : walk' = FirstPage(list, take)
  BY DEF StartWalk
<1>2. phase = "idle" /\ phase' = "ask" /\ since' = Likes(Walker) /\ ever' = Likes(Walker)
      /\ UNCHANGED <<likes, ids, seen, marked, served>>
  BY DEF StartWalk
<1>3. walk' \in [cursor : Song \cup {None}, list : Lists, more : BOOLEAN, take : Takes]
      /\ walk'.cursor = None
  BY <1>1 DEF FirstPage
<1>4. Likes(Walker) \subseteq Song
  BY DEF Likes
<1>5. TypeOK'
  BY <1>2, <1>3, <1>4 DEF WInv, TypeOK, likes
<1>6. LikesOK' /\ Likes(Walker)' = Likes(Walker)
  BY <1>2, LikesStay
<1>7. WalkerWaits'
  BY <1>2 DEF WalkerWaits
<1>8. seen' = <<>> /\ marked' = {} /\ Range(seen') = {}
  BY <1>2, EmptyRange DEF WInv, SeenOK
<1>9. HistoryOK'
  BY <1>2, <1>6, <1>8 DEF HistoryOK
<1>10. SeenOK'
  BY <1>2, <1>3, <1>8 DEF SeenOK, Sorted, Beyond
<1> QED
  BY <1>5, <1>6, <1>7, <1>9, <1>10 DEF WInv

LEMMA EndStep == ASSUME WInv, EndWalk PROVE WInv'
<1> USE DEF EndWalk
<1>1. TypeOK'
  BY DEF WInv, TypeOK, likes
<1>2. LikesOK'
  BY LikesStay
<1>3. WalkerWaits' /\ HistoryOK'
  BY DEF WalkerWaits, HistoryOK
<1>4. SeenOK'
  BY DEF SeenOK, Sorted
<1> QED
  BY <1>1, <1>2, <1>3, <1>4 DEF WInv

LEMMA IdsStep == ASSUME WInv, PageIds PROVE WInv'
<1> DEFINE S == {s \in Listed(walk.list) : Beyond(s, walk.cursor)}
<1>1. /\ phase = "ask" /\ phase' = "entities"
      /\ ids' = First(S, Asking(walk.take))
      /\ \A q \in Req : step[q] # "idle" => cmd[q].user # Walker
      /\ UNCHANGED <<likes, walk, seen, marked, since, ever, served>>
  BY DEF PageIds
<1>2. S \in SUBSET Song
  BY DEF Listed
<1>3. Asking(walk.take) \in Nat
  <2>1. walk.take \in Takes
    BY <1>1 DEF WInv, TypeOK
  <2>2. walk.take \in Nat
    BY <2>1, SongAssumption
  <2> QED
    BY <2>2 DEF Asking
<1>4. ids' \subseteq Song
  BY <1>1, <1>2, <1>3, FirstOK
<1>5. TypeOK'
  BY <1>1, <1>4 DEF WInv, TypeOK, likes
<1>6. LikesOK' /\ Likes(Walker)' = Likes(Walker) /\ \A l : Listed(l)' = Listed(l)
  BY <1>1, LikesStay
<1>7. WalkerWaits'
  BY <1>1 DEF WalkerWaits, likes
<1>8. HistoryOK'
  BY <1>1, <1>6 DEF WInv, HistoryOK
<1>9. \A l : Sure(l)' = Sure(l) /\ Could(l)' = Could(l)
  BY <1>1, <1>6 DEF Sure, Could
<1>10. ids' = First({s \in Listed(walk.list)' : Beyond(s, walk'.cursor)}, Asking(walk'.take))
  BY <1>1, <1>6
<1> HIDE DEF S
<1>11. SeenOK'
  BY <1>1, <1>9, <1>10 DEF WInv, SeenOK, Sorted
<1> QED
  BY <1>5, <1>6, <1>7, <1>8, <1>11 DEF WInv

\* The songs found are those of the ids; what is cut off is the last of them.
LEMMA EntitiesStep == ASSUME WInv, PageEntities PROVE WInv'
<1> DEFINE L == Listed(walk.list)
           S == {s \in L : Beyond(s, walk.cursor)}
           found == ids \cap L
           data == IF Cardinality(found) > walk.take THEN found \ {Max(found)} ELSE found
           cursor == IF data = {} THEN None ELSE Max(data)
           more == Cardinality(found) > walk.take
<1>1. /\ phase = "entities" /\ phase' = "marks" /\ ids' = data
      /\ walk' = [walk EXCEPT !.cursor = cursor, !.more = more]
      /\ UNCHANGED <<likes, seen, marked, since, ever, served>>
  BY DEF PageEntities
<1>2. walk \in [cursor : Song \cup {None}, list : Lists, more : BOOLEAN, take : Takes]
      /\ walk.take \in Nat /\ walk.take # 0
  BY <1>1, SongAssumption DEF WInv, TypeOK
<1>3. /\ Sure(walk.list) \subseteq L /\ L \subseteq Could(walk.list) /\ L \subseteq Song
  BY <1>1, SureListed
<1>4. S \in SUBSET Song /\ S \subseteq L /\ ids = First(S, walk.take + 1) /\ walk.take + 1 \in Nat
  BY <1>1, <1>2, <1>3 DEF WInv, SeenOK, Asking
<1> HIDE DEF S
<1>5. /\ ids \subseteq S
      /\ \A t \in ids, s \in S : s < t => s \in ids
      /\ Cardinality(ids) < walk.take + 1 => ids = S
  BY <1>4, FirstOK
<1> USE DEF S
<1>6. found = ids /\ ids \in SUBSET Song
  BY <1>4, <1>5
<1>7. IsFiniteSet(ids) /\ Cardinality(ids) \in Nat
  BY <1>6, SongsFinite
<1>8. data \subseteq ids /\ data \in SUBSET Song
  BY <1>6
<1>9. data # {} => Max(data) \in data /\ \A t \in data : t <= Max(data)
  BY <1>8, MaxIsLast
<1>10. cursor \in Song \cup {None}
  BY <1>8, <1>9
<1>11. \A s \in Sure(walk.list) : s \in S \/ s \in Range(seen)
  BY <1>1, <1>3 DEF WInv, SeenOK
<1>12. \A s \in Range(seen), t \in ids : s < t
  <2> SUFFICES ASSUME NEW s \in Range(seen), NEW t \in ids PROVE s < t
    OBVIOUS
  <2>1. ~Beyond(s, walk.cursor) /\ Beyond(t, walk.cursor)
    BY <1>1, <1>5 DEF WInv, SeenOK
  <2>2. walk.cursor # None /\ ~(s > walk.cursor) /\ t > walk.cursor
    BY <2>1 DEF Beyond
  <2>3. seen \in Seq(Song)
    BY DEF WInv, TypeOK
  <2>4. s \in Song /\ t \in Song /\ walk.cursor \in Song
    BY <1>2, <1>6, <2>2, <2>3 DEF Range
  <2> QED
    BY <2>2, <2>4 DEF Song
<1>13. more => /\ cursor \in data /\ \A t \in data : t <= cursor
               /\ \A s \in Sure(walk.list) : s <= cursor => s \in Range(seen) \cup data
  <2> SUFFICES ASSUME Cardinality(ids) > walk.take
               PROVE  /\ cursor \in data /\ \A t \in data : t <= cursor
                      /\ \A s \in Sure(walk.list) : s <= cursor => s \in Range(seen) \cup data
    BY <1>6
  <2>1. ids # {}
    BY <1>2, <1>7, FS_EmptySet
  <2>2. Max(ids) \in ids /\ \A t \in ids : t <= Max(ids)
    BY <1>6, <2>1, MaxIsLast
  <2>3. data = ids \ {Max(ids)}
    BY <1>6
  <2>4. data # {}
    <3>1. Cardinality(ids \ {Max(ids)}) = Cardinality(ids) - 1
      BY <1>7, <2>2, FS_RemoveElement
    <3>3. Cardinality(ids) - 1 # 0
      BY <1>2, <1>7
    <3>2. Cardinality(data) # 0
      BY <2>3, <3>1, <3>3
    <3> QED
      BY <3>2, FS_EmptySet
  <2>5. cursor \in data /\ \A t \in data : t <= cursor
    BY <1>9, <2>4
  <2> HIDE DEF data, cursor, S
  <2>6. ASSUME NEW s \in S, s <= cursor PROVE s \in data
    <3>1. cursor \in ids /\ cursor # Max(ids) /\ cursor <= Max(ids)
      BY <1>8, <2>2, <2>3, <2>5
    <3>2. s \in Int /\ cursor \in Int /\ Max(ids) \in Int
      BY <1>4, <1>6, <2>2, <3>1 DEF Song
    <3>3. s = cursor \/ s < cursor
      BY <2>6, <3>2
    <3>4. s \in ids
      BY <1>5, <3>1, <3>3
    <3>5. s # Max(ids)
      BY <3>1, <3>2, <3>3
    <3> QED
      BY <2>3, <3>4, <3>5
  <2> QED
    BY <1>11, <2>5, <2>6
<1>14. ~more => Sure(walk.list) \subseteq Range(seen) \cup data
  <2> SUFFICES ASSUME ~(Cardinality(ids) > walk.take)
               PROVE  Sure(walk.list) \subseteq Range(seen) \cup data
    BY <1>6
  <2>1. ids = S
    BY <1>2, <1>5, <1>7
  <2>2. data = ids
    BY <1>6
  <2> HIDE DEF S, data
  <2> QED
    BY <1>11, <2>1, <2>2
<1>15. more \in BOOLEAN
  OBVIOUS
<1> HIDE DEF data, cursor, more, S, found
<1>16. /\ walk' \in [cursor : Song \cup {None}, list : Lists, more : BOOLEAN, take : Takes]
       /\ walk'.cursor = cursor /\ walk'.more = more /\ walk'.list = walk.list
  BY <1>1, <1>2, <1>10, <1>15
<1>17. TypeOK'
  BY <1>1, <1>8, <1>16 DEF WInv, TypeOK, likes
<1>18. LikesOK' /\ Likes(Walker)' = Likes(Walker) /\ \A l : Listed(l)' = Listed(l)
  BY <1>1, LikesStay
<1>19. WalkerWaits'
  BY <1>1 DEF WInv, WalkerWaits, likes
<1>20. HistoryOK'
  BY <1>1, <1>18 DEF WInv, HistoryOK
<1>21. \A l : Sure(l)' = Sure(l) /\ Could(l)' = Could(l)
  BY <1>1, <1>18 DEF Sure, Could
<1>22. ids' \subseteq Listed(walk.list)'
  BY <1>1, <1>4, <1>5, <1>8, <1>16, <1>18
<1>23. \A s \in Range(seen'), t \in ids' : s < t
  BY <1>1, <1>8, <1>12
<1>24. /\ walk'.more => /\ walk'.cursor \in ids' /\ \A t \in ids' : t <= walk'.cursor
                        /\ \A s \in Sure(walk.list)' : s <= walk'.cursor => s \in Range(seen') \cup ids'
       /\ ~walk'.more => Sure(walk.list)' \subseteq Range(seen') \cup ids'
  BY <1>1, <1>13, <1>14, <1>16, <1>21
<1>25. Sorted(seen)' /\ Range(seen') \subseteq Could(walk.list)'
  BY <1>1, <1>16, <1>21 DEF WInv, SeenOK, Sorted
<1>26. SeenOK'
  BY <1>1, <1>22, <1>23, <1>24, <1>25 DEF SeenOK
<1> QED
  BY <1>17, <1>18, <1>19, <1>20, <1>26 DEF WInv

LEMMA MarksStep == ASSUME WInv, PageMarks PROVE WInv'
<1>1. /\ phase = "marks" /\ phase' = IF walk.more THEN "ask" ELSE "over"
      /\ seen' = seen \o InOrder(ids)
      /\ marked' = marked \cup {s \in ids : Liked(Walker, s)}
      /\ ids' = {}
      /\ UNCHANGED <<likes, walk, since, ever, served>>
  BY DEF PageMarks
<1>2. /\ walk \in [cursor : Song \cup {None}, list : Lists, more : BOOLEAN, take : Takes]
      /\ ids \in SUBSET Song /\ seen \in Seq(Song)
  BY <1>1 DEF WInv, TypeOK
<1>3. /\ Sorted(seen) /\ Range(seen) \subseteq Could(walk.list)
      /\ ids \subseteq Listed(walk.list)
      /\ \A s \in Range(seen), t \in ids : s < t
  BY <1>1 DEF WInv, SeenOK
<1>4. seen' \in Seq(Song) /\ Range(seen') = Range(seen) \cup ids /\ Sorted(seen')
  BY <1>1, <1>2, <1>3, Appended
<1>5. TypeOK'
  BY <1>1, <1>2, <1>4 DEF WInv, TypeOK, likes
<1>6. LikesOK' /\ Likes(Walker)' = Likes(Walker) /\ \A l : Listed(l)' = Listed(l)
  BY <1>1, LikesStay
<1>7. WalkerWaits'
  BY <1>1 DEF WalkerWaits
<1>8. /\ since \subseteq Likes(Walker) /\ Likes(Walker) \subseteq ever
      /\ since \cap Range(seen) \subseteq marked /\ marked \subseteq ever
  BY <1>1 DEF WInv, HistoryOK
<1>9. \A s \in ids : s \in Likes(Walker) <=> Liked(Walker, s)
  BY <1>2 DEF Likes
<1>10. since \cap Range(seen') \subseteq marked' /\ marked' \subseteq ever
  BY <1>1, <1>4, <1>8, <1>9
<1>11. HistoryOK'
  BY <1>1, <1>6, <1>8, <1>10 DEF HistoryOK
<1>12. \A l : Sure(l)' = Sure(l) /\ Could(l)' = Could(l)
  BY <1>1, <1>6 DEF Sure, Could
<1>13. Range(seen') \subseteq Could(walk.list)'
  BY <1>1, <1>3, <1>4, <1>12, SureListed
<1>14. CASE walk.more
  <2>1. /\ walk.cursor \in ids /\ \A t \in ids : t <= walk.cursor
        /\ \A s \in Sure(walk.list) : s <= walk.cursor => s \in Range(seen) \cup ids
    BY <1>1, <1>14 DEF WInv, SeenOK
  <2>2. walk.cursor # None /\ walk.cursor \in Song
    <3>1. walk.cursor \in Song
      BY <1>2, <2>1
    <3>2. walk.cursor \in Nat
      BY <3>1, SongAssumption DEF Song
    <3> QED
      BY <3>1, <3>2, SongAssumption
  <2>3. \A s \in Range(seen') : s \in Song
    BY <1>4 DEF Range
  <2>4. \A s \in Range(seen') : ~Beyond(s, walk.cursor)
    <3> SUFFICES ASSUME NEW s \in Range(seen') PROVE s <= walk.cursor /\ s \in Int /\ walk.cursor \in Int
      BY <2>2 DEF Beyond
    <3>1. s \in Int /\ walk.cursor \in Int
      BY <2>2, <2>3 DEF Song
    <3>2. s < walk.cursor \/ s <= walk.cursor
      BY <1>3, <1>4, <2>1
    <3> QED
      BY <3>1, <3>2
  <2>5. \A s \in Sure(walk.list) : Beyond(s, walk.cursor) \/ s \in Range(seen')
    <3> SUFFICES ASSUME NEW s \in Sure(walk.list), ~Beyond(s, walk.cursor) PROVE s \in Range(seen')
      OBVIOUS
    <3>1. s \in Song
      BY <1>1, SureListed
    <3>2. s <= walk.cursor
      BY <2>2, <3>1 DEF Beyond, Song
    <3> QED
      BY <1>4, <2>1, <3>2
  <2> QED
    BY <1>1, <1>4, <1>5, <1>6, <1>7, <1>11, <1>12, <1>13, <1>14, <2>4, <2>5 DEF WInv, SeenOK, Sorted
<1>15. CASE ~walk.more
  <2>1. Sure(walk.list) \subseteq Range(seen')
    BY <1>1, <1>4, <1>15 DEF WInv, SeenOK
  <2> QED
    BY <1>1, <1>4, <1>5, <1>6, <1>7, <1>11, <1>12, <1>13, <1>15, <2>1 DEF WInv, SeenOK, Sorted
<1> QED
  BY <1>14, <1>15

-----------------------------------------------------------------------------
LEMMA WInvNext == ASSUME WInv, [Next]_vars PROVE WInv'
<1>1. ASSUME NEW r \in Req, \/ BeginLike(r) \/ BeginUnlike(r)
                            \/ FindDuplicate(r) \/ InsertLike(r) \/ DeleteLikes(r)
      PROVE  WInv'
  BY <1>1, BeginStep, FindStep, InsertStep, DeleteStep
<1>2. CASE FindBySearch \/ FindByLiked \/ FindByTeamAndType
  <2>1. PICK list \in Lists : StartWalk(list)
    BY <1>2 DEF FindBySearch, FindByLiked, FindByTeamAndType, Lists
  <2> QED
    BY <2>1, StartStep
<1>3. CASE PageIds \/ PageEntities \/ PageMarks \/ EndWalk
  BY <1>3, IdsStep, EntitiesStep, MarksStep, EndStep
<1>4. CASE UNCHANGED vars
  <2>1. UNCHANGED <<likes, rows, reader, phase, since, ever, served>>
    BY <1>4 DEF vars, likes, reader
  <2>2. Likes(Walker)' = Likes(Walker) /\ LikesOK'
    BY <2>1, LikesStay
  <2>3. HistoryOK' /\ SeenOK'
    BY <2>1, <2>2, ReaderOK DEF WInv, HistoryOK
  <2>4. TypeOK' /\ WalkerWaits'
    BY <2>1 DEF WInv, TypeOK, WalkerWaits, likes, reader
  <2> QED
    BY <2>2, <2>3, <2>4 DEF WInv
<1> QED
  BY <1>1, <1>2, <1>3, <1>4 DEF Next

LEMMA Invariance == Spec => []WInv
<1>1. Init => WInv
  BY WInvInit
<1>2. WInv /\ [Next]_vars => WInv'
  BY WInvNext
<1> QED
  BY <1>1, <1>2, PTL DEF Spec

\* Likes, requests and the walk keep their types.
THEOREM TypesCorrect == Spec => []TypeOK
<1>1. WInv => TypeOK
  BY DEF WInv
<1> QED
  BY <1>1, Invariance, PTL

\* However the likes and unlikes of all users interleave, the number of likes of a
\* song is the number of users who like it, but for likes of one user that
\* overlapped; and one unlike of theirs puts it right.
THEOREM LikesCounted == Spec => []CountsLikers
<1>1. WInv => CountsLikers
  BY CountsFollow
<1> QED
  BY <1>1, Invariance, PTL

\* For any lists, page sizes and numbers of songs a walk shows every song once,
\* in order: all that were in the list all along, none that never was.
THEOREM WalksTrue == Spec => []WalkTrue
<1>1. WInv => WalkTrue
  BY WalkFollows
<1> QED
  BY <1>1, Invariance, PTL
=============================================================================
