------------------------------- MODULE SongLikes -------------------------------
(***************************************************************************)
(* Likes of cheering songs, and the lists of songs read page by page.      *)
(*                                                                         *)
(* Liking looks for a row and then inserts one, in two statements and      *)
(* without a unique key; unliking deletes every row there is.  A page is   *)
(* two queries, the ids first and the songs of those ids second, and then  *)
(* one query per song for its mark.  One user walks through a list, from   *)
(* no cursor to the first page that has no next one.                       *)
(***************************************************************************)
EXTENDS Integers, FiniteSets, FiniteSetsExt, Sequences, Functions, Sums

CONSTANTS User,
          Walker,        \* the user who reads lists
          TwoTabs,       \* users whose requests overlap; the others wait
          Songs,         \* the number of songs; their ids are 1, 2, ...
          Team, Matching, OfType,   \* the songs of a team, those that match a
                                    \* search, and those of a type
          Takes,         \* page sizes asked for
          None,          \* no request, no cursor
          Req,           \* bound on the likes and unlikes at work at once
          MaxRequests    \* bound on the likes and unlikes of a behaviour

ASSUME SongAssumption ==
  /\ Walker \in User \ TwoTabs /\ TwoTabs \subseteq User
  /\ Songs \in Nat /\ MaxRequests \in Nat /\ Takes \subseteq Nat \ {0}
  /\ None \notin Nat /\ Team \cup Matching \cup OfType \subseteq 1..Songs
  /\ IsFiniteSet(User) /\ IsFiniteSet(Req)

Song == 1..Songs

\* The lists: a search, the songs one likes, the songs of a team.
Lists == {"liked", "search", "team"}

VARIABLES
  rows,     \* the like_cheering_song table, [User -> [Song -> number of rows]]
  step,     \* [Req -> "idle", "find", "insert" or "delete"]
  cmd,      \* [Req -> [song, user]]
  raced,    \* history: pairs whose two likes overlapped, until an unlike
  phase,    \* the walk: "idle", "ask", "entities", "marks" or "over"
  walk,     \* [cursor, list, more, take]
  ids,      \* what the queries of the page have returned so far
  seen,     \* the songs of all pages, in the order shown
  marked,   \* those among them shown as liked
  since,    \* history: songs the walker has liked throughout the walk
  ever,     \* history: songs the walker has liked at any time of it
  served

likes  == <<rows, step, cmd, raced>>
reader == <<phase, walk, ids, seen, marked>>
vars   == <<likes, reader, since, ever, served>>

Liked(u, s)  == rows[u][s] > 0
Count(s)     == SumOf([u \in User |-> rows[u][s]])
Likes(u)     == {s \in Song : Liked(u, s)}

\* The page of one song.
FindOne(u, s) == [song |-> s, isLiked |-> Liked(u, s)]

Init ==
  /\ rows = [u \in User |-> [s \in Song |-> 0]]
  /\ step = [r \in Req |-> "idle"] /\ cmd = [r \in Req |-> None] /\ raced = {}
  /\ phase = "idle" /\ walk = None /\ ids = {} /\ seen = <<>> /\ marked = {}
  /\ since = {} /\ ever = {}
  /\ served = 0

\* A user with one tab waits for the answer.
AtWork(u) == \/ \E q \in Req : step[q] # "idle" /\ cmd[q].user = u
             \/ u = Walker /\ phase \in {"entities", "marks"}

Begin(r, c, first) ==
  /\ step[r] = "idle" /\ served < MaxRequests
  /\ c.user \notin TwoTabs => ~AtWork(c.user)
  /\ step' = [step EXCEPT ![r] = first]
  /\ cmd' = [cmd EXCEPT ![r] = c]
  /\ served' = served + 1

Finish(r) == step' = [step EXCEPT ![r] = "idle"] /\ cmd' = [cmd EXCEPT ![r] = None]

-----------------------------------------------------------------------------
(* Likes.                                                                   *)

Liking(c) == {q \in Req : step[q] \in {"find", "insert"} /\ cmd[q] = c}

BeginLike(r) ==
  \E u \in User, s \in Song :
    LET c == [song |-> s, user |-> u]
    IN /\ Begin(r, c, "find")
       /\ raced' = IF Liking(c) = {} THEN raced ELSE raced \cup {c}
       /\ UNCHANGED <<rows, reader, since, ever>>

BeginUnlike(r) ==
  /\ \E u \in User, s \in Song : Begin(r, [song |-> s, user |-> u], "delete")
  /\ UNCHANGED <<rows, raced, reader, since, ever>>

\* Mutant: the look for a row leaves out the user.
DuplicateOfNobody(c) == FALSE

Duplicate(c) == Liked(c.user, c.song)

\* likeCheerSong: a conflict when there is a row,
FindDuplicate(r) ==
  /\ step[r] = "find"
  /\ IF Duplicate(cmd[r]) THEN Finish(r)
     ELSE step' = [step EXCEPT ![r] = "insert"] /\ UNCHANGED cmd
  /\ UNCHANGED <<rows, raced, reader, since, ever, served>>

\* or else one more row.
InsertLike(r) ==
  LET c == cmd[r]
  IN /\ step[r] = "insert"
     /\ rows' = [rows EXCEPT ![c.user][c.song] = @ + 1]
     /\ ever' = IF c.user = Walker THEN ever \cup {c.song} ELSE ever
     /\ Finish(r)
     /\ UNCHANGED <<raced, reader, since, served>>

\* Mutant: one row is deleted, there or not.
LessOne(n) == n - 1

\* DELETE takes every row of the user and the song.
Deleted(n) == 0

\* unlikeCheerSong: a 404 when there was none.
DeleteLikes(r) ==
  LET c == cmd[r]
  IN /\ step[r] = "delete"
     /\ rows' = [rows EXCEPT ![c.user][c.song] = Deleted(@)]
     /\ since' = IF c.user = Walker THEN since \ {c.song} ELSE since
     /\ raced' = IF Cardinality(Liking(c)) > 1 THEN raced ELSE raced \ {c}
     /\ Finish(r)
     /\ UNCHANGED <<reader, ever, served>>

-----------------------------------------------------------------------------
(* Lists.                                                                   *)

\* The songs a list asks for.
Listed(list) ==
  {s \in Song : CASE list = "search" -> s \in Matching
                  [] list = "team"   -> s \in Team \cap OfType
                  [] list = "liked"  -> s \in Likes(Walker) \cap OfType}

\* Mutant: id >= cursor.
FromCursor(s, c) == c = None \/ s >= c

Beyond(s, c) == c = None \/ s > c

\* The place of s in S by id, the first n, and all of S in this order.
Place(S, s) == Cardinality({t \in S : t <= s})
First(S, n) == {s \in S : Place(S, s) <= n}
InOrder(S)  == [i \in 1..Cardinality(S) |-> CHOOSE s \in S : Place(S, s) = i]

\* The page options of the client, with the meta data of the last page.
FirstPage(list, take) == [cursor |-> None, list |-> list, more |-> TRUE, take |-> take]

StartWalk(list) ==
  /\ phase = "idle"
  /\ \E take \in Takes : walk' = FirstPage(list, take)
  /\ phase' = "ask"
  /\ since' = Likes(Walker) /\ ever' = Likes(Walker)
  /\ UNCHANGED <<likes, ids, seen, marked, served>>

FindBySearch       == StartWalk("search")
FindByLiked        == StartWalk("liked")
FindByTeamAndType  == StartWalk("team")

\* Mutant: no row is asked for beyond the page.
Asked(take) == take

\* One row more than the page tells whether there is a next page.
Asking(take) == take + 1

\* The query for the ids.
PageIds ==
  /\ phase = "ask" /\ ~\E q \in Req : step[q] # "idle" /\ cmd[q].user = Walker
  /\ ids' = First({s \in Listed(walk.list) : Beyond(s, walk.cursor)}, Asking(walk.take))
  /\ phase' = "entities"
  /\ UNCHANGED <<likes, walk, seen, marked, since, ever, served>>

\* The query for the songs, with the condition of the list again; what is
\* beyond the page is cut off.
PageEntities ==
  LET found == ids \cap Listed(walk.list)
      data  == IF Cardinality(found) > walk.take THEN found \ {Max(found)} ELSE found
  IN /\ phase = "entities"
     /\ ids' = data
     /\ walk' = [walk EXCEPT !.cursor = IF data = {} THEN None ELSE Max(data),
                             !.more = Cardinality(found) > walk.take]
     /\ phase' = "marks"
     /\ UNCHANGED <<likes, seen, marked, since, ever, served>>

\* The marks; the client asks for the next page while there is one.
PageMarks ==
  /\ phase = "marks"
  /\ seen' = seen \o InOrder(ids)
  /\ marked' = marked \cup {s \in ids : Liked(Walker, s)}
  /\ ids' = {}
  /\ phase' = IF walk.more THEN "ask" ELSE "over"
  /\ UNCHANGED <<likes, walk, since, ever, served>>

EndWalk ==
  /\ phase \in {"ask", "over"}
  /\ phase' = "idle" /\ walk' = None /\ seen' = <<>> /\ marked' = {}
  /\ since' = {} /\ ever' = {}
  /\ UNCHANGED <<likes, ids, served>>

-----------------------------------------------------------------------------
Next ==
  \/ \E r \in Req : \/ BeginLike(r) \/ BeginUnlike(r)
                    \/ FindDuplicate(r) \/ InsertLike(r) \/ DeleteLikes(r)
  \/ FindBySearch \/ FindByLiked \/ FindByTeamAndType
  \/ PageIds \/ PageEntities \/ PageMarks \/ EndWalk

Spec == Init /\ [][Next]_vars

-----------------------------------------------------------------------------
TypeOK ==
  /\ rows \in [User -> [Song -> Nat]]
  /\ step \in [Req -> {"idle", "find", "insert", "delete"}]
  /\ cmd \in [Req -> [song : Song, user : User] \cup {None}]
  /\ \A r \in Req : step[r] # "idle" => cmd[r] \in [song : Song, user : User]
  /\ raced \subseteq [song : Song, user : User]
  /\ phase \in {"idle", "ask", "entities", "marks", "over"}
  /\ phase # "idle" => walk \in [cursor : Song \cup {None}, list : Lists,
                                 more : BOOLEAN, take : Takes]
  /\ ids \cup marked \cup since \cup ever \subseteq Song /\ seen \in Seq(Song)

\* The number of likes shown for a song is the number of users whose page of the
\* song shows it as liked, unless one user's own likes overlapped; and then one
\* unlike puts it right.
CountsLikers ==
  \A s \in Song :
    (\A c \in raced : c.song # s) => Count(s) = Cardinality({u \in User : FindOne(u, s).isLiked})

\* Whatever the walker likes and unlikes between the pages, and others all the
\* time, a walk shows no song twice, every song that was in the list all along,
\* none that never was, and the mark of each as it was during the walk.
WalkTrue ==
  /\ \A i, j \in 1..Len(seen) : i < j => seen[i] < seen[j]
  /\ phase = "over" =>
       /\ walk.list # "liked" => Range(seen) = Listed(walk.list)
       /\ walk.list = "liked" => /\ since \cap OfType \subseteq Range(seen)
                                /\ Range(seen) \subseteq ever \cap OfType
       /\ since \cap Range(seen) \subseteq marked /\ marked \subseteq ever
=============================================================================
