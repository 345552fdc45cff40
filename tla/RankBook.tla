------------------------------- MODULE RankBook -------------------------------
(***************************************************************************)
(* What the registration commands promise, with every command in one step: *)
(* a user keeps at most one registration per game, and the rank rows count *)
(* exactly the registrations that have a result.                           *)
(*                                                                         *)
(* `book' is the registered_game table seen through its unique key (game,  *)
(* user); `tally' is the rank table seen through its unique key (user,     *)
(* team, year), a row that does not exist counting zero.  RankLedger, the  *)
(* same commands as the transactions they really are, implements this      *)
(* specification as long as a user's requests do not overlap.              *)
(***************************************************************************)
EXTENDS Integers, FiniteSets, GameRules

CONSTANTS User, Team, Year, Game,
          YearOf,       \* [Game -> Year], the year of the game's date
          None          \* no registration

Entry == [status : RegStatus, team : Team]

VARIABLES book, tally

vars == <<book, tally>>

Page == [Game -> Entry \cup {None}]

TypeOK ==
  /\ book \in [User -> Page]
  /\ tally \in [User -> [Team \X Year \X Result -> Int]]

Init ==
  /\ book = [u \in User |-> [g \in Game |-> None]]
  /\ tally = [u \in User |-> [k \in Team \X Year \X Result |-> 0]]

-----------------------------------------------------------------------------
\* Whether entry e of game g is counted in cell k = <<team, year, column>>.
CountsIn(e, g, k) ==
  /\ e # None
  /\ e.team = k[1]
  /\ YearOf[g] = k[2]
  /\ e.status = k[3]

\* What replacing entry `old' of game g by `new' adds to cell k.
Change(old, new, g, k) ==
  (IF CountsIn(new, g, k) THEN 1 ELSE 0) - (IF CountsIn(old, g, k) THEN 1 ELSE 0)

Put(u, g, new) ==
  /\ book' = [book EXCEPT ![u][g] = new]
  /\ tally' = [tally EXCEPT ![u] =
                 [k \in Team \X Year \X Result |-> @[k] + Change(book[u][g], new, g, k)]]

Register(u, g) ==
  /\ book[u][g] = None
  /\ \E e \in Entry : Put(u, g, e)

ChangeTeam(u, g) ==
  /\ book[u][g] # None
  /\ \E e \in Entry : e.team # book[u][g].team /\ Put(u, g, e)

Withdraw(u, g) ==
  /\ book[u][g] # None
  /\ Put(u, g, None)

Next == \E u \in User, g \in Game : Register(u, g) \/ ChangeTeam(u, g) \/ Withdraw(u, g)

Spec == Init /\ [][Next]_vars

-----------------------------------------------------------------------------
Counted(u, k) == {g \in Game : CountsIn(book[u][g], g, k)}

\* Every rank counter equals the number of that user's registrations it stands
\* for: what the increments and decrements of updateRankRecord add up to.
TallyExact ==
  \A u \in User : \A k \in Team \X Year \X Result :
    tally[u][k] = Cardinality(Counted(u, k))
=============================================================================
