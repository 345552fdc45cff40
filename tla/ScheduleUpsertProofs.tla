------------------------- MODULE ScheduleUpsertProofs -------------------------
(***************************************************************************)
(* What the nightly crawls keep and write, for every set of matches, every *)
(* number of slots and any number of changes in between.                   *)
(***************************************************************************)
EXTENDS ScheduleUpsert, TLAPS

Rows == [Number -> Slot \cup {NoRow}]

\* Every row that a registration refers to and that is there before is there after.
Keeps(b, before, after) ==
  \A n \in Number : Referred(b, n) /\ before[n] # NoRow => after[n] # NoRow

\* A listing is empty, one game, or two games of different slots.
LEMMA ListingCases ==
  ASSUME NEW list \in Listing
  PROVE  \/ list = <<>>
         \/ \E i \in Slot : list = <<i>>
         \/ \E i, j \in Slot : list = <<i, j>> /\ i < j
BY DEF Listing, Slot

-----------------------------------------------------------------------------
(* One game.                                                                *)

\* The delete of the row under the old id spares what a registration refers to,
\* touches no other row, and leaves no row without a number behind.
LEMMA DeletesOldSpares ==
  ASSUME NEW b \in Match, NEW rows \in Rows,
         NEW g \in [number : Number, slot : Slot],
         DeletesOld(b, rows, g) # Failed
  PROVE  LET left == DeletesOld(b, rows, g)
         IN /\ left \in Rows /\ Keeps(b, rows, left)
            /\ \A n \in Number \ {0} : left[n] = rows[n]
            /\ g.number # 0 => left[0] = NoRow
BY DEF DeletesOld, Rows, Keeps, Number

\* A game that is saved is found under its number, and every other numbered row
\* is as before.
LEMMA SaveGameWrites ==
  ASSUME NEW b \in Match, NEW rows \in Rows,
         NEW g \in [number : Number, slot : Slot],
         SaveGame(b, rows, g) # Failed
  PROVE  LET after == SaveGame(b, rows, g)
         IN /\ after \in Rows /\ Keeps(b, rows, after)
            /\ after[g.number] = g.slot
            /\ \A n \in Number \ {0, g.number} : after[n] = rows[n]
            /\ g.number # 0 => after[0] = NoRow
<1> DEFINE left == DeletesOld(b, rows, g)
<1>1. left # Failed /\ SaveGame(b, rows, g) = [left EXCEPT ![g.number] = g.slot]
  BY DEF SaveGame
<1>2. /\ left \in Rows /\ Keeps(b, rows, left)
      /\ \A n \in Number \ {0} : left[n] = rows[n]
      /\ g.number # 0 => left[0] = NoRow
  BY <1>1, DeletesOldSpares
<1>3. g.slot \in Slot /\ g.slot # NoRow /\ g.number \in Number /\ 0 \in Number
  BY ScheduleAssumption DEF Slot, Number
<1> HIDE DEF left
<1> QED
  BY <1>1, <1>2, <1>3 DEF Rows, Keeps

-----------------------------------------------------------------------------
(* One match.                                                               *)

\* A match that is saved shows its listing, and keeps what registrations refer to.
LEMMA SaveMatchShows ==
  ASSUME NEW b \in Match, NEW list \in Listing,
         games \in [Match -> Rows], SaveMatch(b, list) # Failed
  PROVE  LET after == SaveMatch(b, list)
         IN /\ after \in Rows /\ Keeps(b, games[b], after)
            /\ \A tab : tab[b] = after => Shows(tab, b, list)
<1> DEFINE g == Numbered(list)
<1>0. games[b] \in Rows
  OBVIOUS
<1>1. CASE list = <<>>
  <2>1. SaveMatch(b, list) = games[b]
    BY <1>1 DEF SaveMatch
  <2> QED
    BY <1>0, <1>1, <2>1 DEF Keeps, Shows
<1>2. ASSUME NEW i \in Slot, list = <<i>>
      PROVE  LET after == SaveMatch(b, list)
             IN /\ after \in Rows /\ Keeps(b, games[b], after)
                /\ \A tab : tab[b] = after => Shows(tab, b, list)
  <2>1. g[1] = [number |-> 0, slot |-> i]
    BY <1>2 DEF Numbered
  <2>2. g[1] \in [number : Number, slot : Slot]
    BY <2>1 DEF Number
  <2>3. SaveMatch(b, list) = SaveGame(b, games[b], g[1])
    BY <1>2 DEF SaveMatch
  <2>4. LET after == SaveGame(b, games[b], g[1])
        IN /\ after \in Rows /\ Keeps(b, games[b], after) /\ after[g[1].number] = g[1].slot
    BY <1>0, <2>2, <2>3, SaveGameWrites
  <2> HIDE DEF g
  <2> QED
    BY <1>2, <2>1, <2>3, <2>4 DEF Shows, NumberOf
<1>3. ASSUME NEW i \in Slot, NEW j \in Slot, list = <<i, j>>, i < j
      PROVE  LET after == SaveMatch(b, list)
             IN /\ after \in Rows /\ Keeps(b, games[b], after)
                /\ \A tab : tab[b] = after => Shows(tab, b, list)
  <2> DEFINE first == SaveGame(b, games[b], g[1])
             second == SaveGame(b, first, g[2])
  <2>1. g[1] = [number |-> 1, slot |-> i] /\ g[2] = [number |-> 2, slot |-> j]
    BY <1>3 DEF Numbered
  <2>2. /\ g[1] \in [number : Number, slot : Slot]
        /\ g[2] \in [number : Number, slot : Slot]
    BY <2>1 DEF Number
  <2>3. first # Failed /\ SaveMatch(b, list) = second
    BY <1>3 DEF SaveMatch
  <2> HIDE DEF g
  <2>4. first \in Rows /\ Keeps(b, games[b], first) /\ first[1] = i
    BY <1>0, <2>1, <2>2, <2>3, SaveGameWrites
  <2>5. /\ second \in Rows /\ Keeps(b, first, second) /\ second[2] = j
        /\ second[1] = first[1] /\ second[0] = NoRow
    BY <2>1, <2>2, <2>3, <2>4, SaveGameWrites DEF Number
  <2> HIDE DEF first, second
  <2>6. Keeps(b, games[b], second)
    BY <2>4, <2>5 DEF Keeps
  <2> QED
    BY <1>3, <2>3, <2>4, <2>5, <2>6 DEF Shows, NumberOf
<1> QED
  BY <1>1, <1>2, <1>3, ListingCases
-----------------------------------------------------------------------------
(* A month.                                                                 *)

\* A month's crawl either leaves the table alone, or makes each match of the month
\* show its listing and no other match differ; registered rows are there after it.
LEMMA SavedShows ==
  ASSUME NEW m \in Month, TypeOK, job.step = "save"
  PROVE  /\ Saved(m) \in [Match -> Rows]
         /\ \A b \in Match : Keeps(b, games[b], Saved(m)[b])
         /\ Saved(m) # games =>
              \A b \in Match : IF MonthOf[b] = m THEN Shows(Saved(m), b, page.list[b])
                                                ELSE Saved(m)[b] = games[b]
<1>1. games \in [Match -> Rows] /\ page.list \in [Match -> Listing]
  BY DEF TypeOK, Rows
<1>2. CASE \E b \in Of(m) : SaveMatch(b, page.list[b]) = Failed
  <2>1. Saved(m) = games
    BY <1>2 DEF Saved
  <2> QED
    BY <1>1, <2>1 DEF Keeps
<1>3. CASE \A b \in Of(m) : SaveMatch(b, page.list[b]) # Failed
  <2>1. Saved(m) = [b \in Match |-> IF b \in Of(m) THEN SaveMatch(b, page.list[b])
                                                  ELSE games[b]]
    BY <1>3 DEF Saved
  <2>2. ASSUME NEW b \in Match
        PROVE  /\ Saved(m)[b] \in Rows /\ Keeps(b, games[b], Saved(m)[b])
               /\ IF MonthOf[b] = m THEN Shows(Saved(m), b, page.list[b])
                                    ELSE Saved(m)[b] = games[b]
    <3>1. CASE MonthOf[b] = m
      <4>1. Saved(m)[b] = SaveMatch(b, page.list[b]) /\ b \in Of(m)
        BY <2>1, <3>1 DEF Of
      <4>2. page.list[b] \in Listing
        BY <1>1
      <4> QED
        BY <1>1, <1>3, <3>1, <4>1, <4>2, SaveMatchShows
    <3>2. CASE MonthOf[b] # m
      BY <1>1, <2>1, <3>2 DEF Of, Keeps
    <3> QED
      BY <3>1, <3>2
  <2>3. Saved(m) \in [Match -> Rows]
    BY <2>1, <2>2
  <2> QED
    BY <2>2, <2>3
<1> QED
  BY <1>2, <1>3

-----------------------------------------------------------------------------
(* Types and registrations.                                                 *)

\* Every registration has the row of its game,
RowsKept == \A b \in Match : \A n \in registered[b] : games[b][n] # NoRow

\* which every step preserves, with the types.
IInv == TypeOK /\ RowsKept

LEMMA InitIInv == Init => IInv
<1> SUFFICES ASSUME Init PROVE IInv
  OBVIOUS
<1>1. <<1>> \in Listing
  BY ScheduleAssumption DEF Listing, Slot
<1>2. Idle \in [month : Month, step : {"idle", "fetch", "retry", "save"}] /\ Idle.step = "idle"
  BY DEF Idle, Month
<1> QED
  BY <1>1, <1>2 DEF Init, IInv, TypeOK, RowsKept, Month, Number

\* Where the crawl goes after a month.
LEMMA AfterType ==
  ASSUME NEW m \in Month
  PROVE  /\ After(m) \in [month : Month, step : {"idle", "fetch", "retry", "save"}]
         /\ After(m).step # "save"
BY DEF After, Idle, Month

\* A step keeps the types and a row for each registration.
LEMMA NextIInv == IInv /\ [Next]_vars => IInv'
<1> SUFFICES ASSUME IInv, [Next]_vars PROVE IInv'
  OBVIOUS
<1> USE DEF IInv
<1>1. CASE SiteChanges
  BY <1>1 DEF SiteChanges, TypeOK, RowsKept
<1>2. CASE Register
  <2>1. PICK b \in Match, n \in Number :
          games[b][n] # NoRow /\ registered' = [registered EXCEPT ![b] = @ \cup {n}]
    BY <1>2 DEF Register, FindAllDaily, Group
  <2> QED
    BY <1>2, <2>1 DEF Register, TypeOK, RowsKept
<1>3. CASE Withdraw
  BY <1>3 DEF Withdraw, TypeOK, RowsKept
<1>4. CASE Crash
  <2>1. Idle \in [month : Month, step : {"idle", "fetch", "retry", "save"}] /\ Idle.step = "idle"
    BY DEF Idle, Month
  <2> QED
    BY <1>4, <2>1 DEF Crash, TypeOK, RowsKept
<1>5. CASE NightComes
  BY <1>5 DEF NightComes, TypeOK, RowsKept, Month
<1>6. CASE FetchSucceeds
  BY <1>6 DEF FetchSucceeds, TypeOK, RowsKept
<1>7. CASE FetchFails
  BY <1>7, AfterType DEF FetchFails, TypeOK, RowsKept
<1>8. CASE SaveMonth
  <2>1. job.month \in Month /\ job.step = "save"
    BY <1>8 DEF SaveMonth, TypeOK
  <2>2. /\ games' \in [Match -> Rows]
        /\ \A b \in Match : Keeps(b, games[b], games'[b])
    <3>1. CASE Refused
      BY <1>8, <3>1 DEF SaveMonth, TypeOK, Rows, Keeps
    <3>2. CASE ~Refused
      BY <1>8, <2>1, <3>2, SavedShows DEF SaveMonth
    <3> QED
      BY <3>1, <3>2
  <2>3. RowsKept'
    BY <1>8, <2>2 DEF SaveMonth, TypeOK, RowsKept, Keeps, Referred
  <2>4. TypeOK'
    BY <1>8, <2>1, <2>2, AfterType DEF SaveMonth, TypeOK, Rows
  <2> QED
    BY <2>3, <2>4
<1>9. CASE UNCHANGED vars
  BY <1>9 DEF vars, TypeOK, RowsKept
<1> QED
  BY <1>1, <1>2, <1>3, <1>4, <1>5, <1>6, <1>7, <1>8, <1>9 DEF Next

LEMMA Always == Spec => []IInv
BY InitIInv, NextIInv, PTL DEF Spec

\* The state of the crawl and of the tables keeps its type, in particular a page is
\* held exactly while a month waits to be saved.
THEOREM TypeCorrect == Spec => []TypeOK
<1>1. IInv => TypeOK
  BY DEF IInv
<1> QED
  BY <1>1, Always, PTL

\* Whatever the site turns a match into, and whenever the fan registers, no crawl
\* deletes a game that a registration refers to.
THEOREM RegistrationsKept == Spec => []RegistrationsKeepGame
<1>1. IInv => RegistrationsKeepGame
  BY DEF IInv, TypeOK, RowsKept, RegistrationsKeepGame, FindAllDaily, RegisteredGameIds, Group,
         GetGameById
<1> QED
  BY <1>1, Always, PTL

-----------------------------------------------------------------------------
(* A month at once.                                                         *)

\* What a step that writes the game table writes: the whole month it has fetched.
WritesMonth ==
  games' # games =>
    \A b \in Match : IF MonthOf[b] = job.month THEN Shows(games', b, page.list[b])
                                              ELSE games'[b] = games[b]

\* Only SaveMonth writes the game table, and it writes a month or nothing.
LEMMA NextWritesMonth == IInv /\ [Next]_vars => [WritesMonth]_vars
<1> SUFFICES ASSUME IInv, Next, games' # games PROVE WritesMonth
  BY DEF vars, WritesMonth
<1>1. SaveMonth
  BY DEF Next, SiteChanges, Register, Withdraw, Crash, NightComes, FetchSucceeds, FetchFails
<1>2. job.month \in Month /\ job.step = "save" /\ games' = Saved(job.month)
  BY <1>1 DEF SaveMonth, IInv, TypeOK
<1> QED
  BY <1>2, SavedShows DEF WritesMonth, IInv

\* A crawl is never half saved: each month goes from one listing of the site to
\* another in one step, and the other month does not change with it.
THEOREM MonthSavedAtOnce == Spec => MonthAtOnce
<1>1. Spec => [][WritesMonth]_vars
  BY Always, NextWritesMonth, PTL DEF Spec
<1> QED
  BY <1>1 DEF MonthAtOnce, WritesMonth
=============================================================================
