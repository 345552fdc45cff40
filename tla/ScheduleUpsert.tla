---------------------------- MODULE ScheduleUpsert ----------------------------
(***************************************************************************)
(* The nightly crawl of two months of the league's schedule, and the ids   *)
(* it gives to games.                                                      *)
(*                                                                         *)
(* A game's id is its date and teams, here its match, and a number: 0 for  *)
(* the only game of a match, 1 and 2 for the games of a double header.  So *)
(* a game changes its id when its match becomes a double header, and the   *)
(* row under the old id is deleted, unless a fan has registered it.        *)
(*                                                                         *)
(* All rows of a month are saved in one transaction, modelled as one step: *)
(* what it has not committed nobody reads, and a registration of a row it  *)
(* deletes waits for it.  Of a row only its slot is kept, the date, time   *)
(* and stadium that no two games share; scores and winners are             *)
(* GameScoreJob's.                                                         *)
(***************************************************************************)
EXTENDS Integers, Sequences

CONSTANTS Match,         \* pairs of teams on a date; no two share a stadium
          MonthOf,       \* [Match -> Month]
          Slots,         \* the number of slots of a match
          NoRow,
          MaxChanges     \* bound on changes of the site, registrations and crashes

ASSUME ScheduleAssumption ==
  /\ MonthOf \in [Match -> {"this", "next"}]
  /\ Slots \in Nat \ {0} /\ MaxChanges \in Nat /\ NoRow \notin Nat

Month   == {"this", "next"}
Slot    == 1..Slots
Number  == 0..2
Of(m)   == {b \in Match : MonthOf[b] = m}

\* What the site lists of a match: no game, one, or two by their time.
Listing == {s \in {<<>>} \cup (Slot \X Slot) \cup {<<i>> : i \in Slot} :
              Len(s) = 2 => s[1] < s[2]}

VARIABLES
  site,         \* [Match -> Listing]
  unreadable,   \* [Month -> whether a row has no teams, or none it knows]
  games,        \* the game table, [Match -> [Number -> Slot]]
  registered,   \* the games that registered_game refers to, [Match -> set of numbers]
  job,          \* the crawl: [month, step]
  page,         \* what it has fetched: [bad, list]
  changes

vars == <<site, unreadable, games, registered, job, page, changes>>

Idle == [month |-> "this", step |-> "idle"]

Init ==
  /\ site = [b \in Match |-> <<1>>] /\ unreadable = [m \in Month |-> FALSE]
  /\ games = [b \in Match |-> [n \in Number |-> NoRow]]
  /\ registered = [b \in Match |-> {}]
  /\ job = Idle /\ page = NoRow
  /\ changes = 0

-----------------------------------------------------------------------------
(* What the app shows of a match.                                           *)

\* groupGamesByTeam: whatever their numbers, the games of a match are one group.
Group(b) == {n \in Number : games[b][n] # NoRow}

\* getDailyGamesWithUserRegistration: the games joined to the registrations.
RegisteredGameIds(b) == {n \in Group(b) : n \in registered[b]}

FindAllDaily(b) == [games |-> Group(b), registeredGameIds |-> RegisteredGameIds(b)]

GetGameById(b, n) == games[b][n]

-----------------------------------------------------------------------------
(* The league and the fans.                                                 *)

Change == changes < MaxChanges /\ changes' = changes + 1

SiteChanges ==
  /\ Change
  /\ \/ \E b \in Match : \E s \in Listing :
          site' = [site EXCEPT ![b] = s] /\ UNCHANGED unreadable
     \/ \E m \in Month :
          unreadable' = [unreadable EXCEPT ![m] = ~@] /\ UNCHANGED site
  /\ UNCHANGED <<games, registered, job, page>>

Register ==
  /\ Change
  /\ \E b \in Match, n \in Number :
       n \in FindAllDaily(b).games /\ registered' = [registered EXCEPT ![b] = @ \cup {n}]
  /\ UNCHANGED <<site, unreadable, games, job, page>>

Withdraw ==
  /\ Change
  /\ \E b \in Match : \E n \in registered[b] : registered' = [registered EXCEPT ![b] = @ \ {n}]
  /\ UNCHANGED <<site, unreadable, games, job, page>>

-----------------------------------------------------------------------------
(* Ids.                                                                     *)

\* Mutant: the games of a double header are numbered from 0.
NumberedFromZero(s) == [k \in DOMAIN s |-> [number |-> k - 1, slot |-> s[k]]]

\* processDoubleHeader: number 0, unless the match is listed more than once.
Numbered(s) ==
  [k \in DOMAIN s |-> [number |-> IF Len(s) > 1 THEN k ELSE 0, slot |-> s[k]]]

-----------------------------------------------------------------------------
(* Saving a month.                                                          *)

\* The rows of a match after a statement that failed.
Failed == NoRow

\* Mutant: nothing refers to a game.
NeverReferred(b, n) == FALSE

\* The foreign key of registered_game, which neither cascades nor sets null.
Referred(b, n) == n \in registered[b]

\* Mutant: the row under the old id is left alone.
KeepsOld(b, rows, g) == rows

\* A game with a number deletes the row its match had without one.
DeletesOld(b, rows, g) ==
  IF g.number = 0 \/ rows[0] = NoRow THEN rows
  ELSE IF Referred(b, 0) THEN Failed
  ELSE [rows EXCEPT ![0] = NoRow]

\* INSERT ... ON CONFLICT (id); the slot has a unique key of its own.
SaveGame(b, rows, g) ==
  LET left == DeletesOld(b, rows, g)
  IN IF left = Failed \/ \E n \in Number \ {g.number} : left[n] = g.slot
     THEN Failed
     ELSE [left EXCEPT ![g.number] = g.slot]

SaveMatch(b, list) ==
  LET g == Numbered(list)
  IN IF Len(list) = 0 THEN games[b]
     ELSE IF Len(list) = 1 THEN SaveGame(b, games[b], g[1])
     ELSE LET first == SaveGame(b, games[b], g[1])
          IN IF first = Failed THEN Failed ELSE SaveGame(b, first, g[2])

\* Mutant: every match is saved by itself, whatever becomes of the others.
SavedSingly(m) ==
  [b \in Match |-> IF b \in Of(m) /\ SaveMatch(b, page.list[b]) # Failed
                   THEN SaveMatch(b, page.list[b])
                   ELSE games[b]]

\* Mutant: nobody looks whether a statement failed.
SavedUnchecked(m) ==
  [b \in Match |-> IF b \in Of(m) THEN SaveMatch(b, page.list[b]) ELSE games[b]]

\* upsertMany: all the games in one transaction, undone by the first failure.
\* Rows of different matches never meet, so their order does not matter.
Saved(m) ==
  IF \E b \in Of(m) : SaveMatch(b, page.list[b]) = Failed
  THEN games
  ELSE [b \in Match |-> IF b \in Of(m) THEN SaveMatch(b, page.list[b]) ELSE games[b]]

-----------------------------------------------------------------------------
(* The job.                                                                 *)

\* 1 AM, or the start of the process.
NightComes ==
  /\ job.step = "idle"
  /\ job' = [month |-> "this", step |-> "fetch"]
  /\ UNCHANGED <<site, unreadable, games, registered, page, changes>>

\* Mutant: the crawl ends after one month.
AfterOne(m) == Idle

\* An error is logged, and the next month is crawled.
After(m) == IF m = "this" THEN [month |-> "next", step |-> "fetch"] ELSE Idle

FetchSucceeds ==
  /\ job.step \in {"fetch", "retry"}
  /\ page' = [bad |-> unreadable[job.month], list |-> site]
  /\ job' = [job EXCEPT !.step = "save"]
  /\ UNCHANGED <<site, unreadable, games, registered, changes>>

\* One retry, at once; then the month is left for the next night.
FetchFails ==
  /\ job.step \in {"fetch", "retry"}
  /\ job' = IF job.step = "fetch" THEN [job EXCEPT !.step = "retry"] ELSE After(job.month)
  /\ UNCHANGED <<site, unreadable, games, registered, page, changes>>

\* refineGamesData throws on a row without two teams, and makes up an id and a
\* nameless team for a name it does not know, which the table refuses.
Refused == page.bad

\* Either way nothing of the month is saved.
SaveMonth ==
  /\ job.step = "save"
  /\ games' = IF Refused THEN games ELSE Saved(job.month)
  /\ job' = After(job.month)
  /\ page' = NoRow
  /\ UNCHANGED <<site, unreadable, registered, changes>>

\* The process dies, and an open transaction with it.
Crash ==
  /\ Change
  /\ job' = Idle /\ page' = NoRow
  /\ UNCHANGED <<site, unreadable, games, registered>>

-----------------------------------------------------------------------------
Next ==
  \/ SiteChanges \/ Register \/ Withdraw \/ Crash
  \/ NightComes \/ FetchSucceeds \/ FetchFails \/ SaveMonth

\* Nights come, the job goes on, and the site is not away for every crawl of a
\* month.
Fairness ==
  /\ WF_vars(NightComes) /\ WF_vars(SaveMonth) /\ WF_vars(FetchSucceeds \/ FetchFails)
  /\ \A m \in Month : SF_vars(job.month = m /\ FetchSucceeds)

Spec == Init /\ [][Next]_vars /\ Fairness

-----------------------------------------------------------------------------
TypeOK ==
  /\ site \in [Match -> Listing] /\ unreadable \in [Month -> BOOLEAN]
  /\ games \in [Match -> [Number -> Slot \cup {NoRow}]]
  /\ registered \in [Match -> SUBSET Number]
  /\ job \in [month : Month, step : {"idle", "fetch", "retry", "save"}]
  /\ IF job.step = "save" THEN page \in [bad : BOOLEAN, list : [Match -> Listing]]
                         ELSE page = NoRow

\* A fan's registration always refers to a game, though crawls delete games and
\* number them anew: the list of the day marks it, and the game can be opened.
RegistrationsKeepGame ==
  \A b \in Match : /\ registered[b] = FindAllDaily(b).registeredGameIds
                   /\ \A n \in registered[b] : GetGameById(b, n) # NoRow

\* The number of the k-th game listed of a match.
NumberOf(list, k) == IF Len(list) = 1 THEN 0 ELSE k

\* The table has a match as it is listed: each game under its number, and no
\* row without a number beside those of a double header.
Shows(tab, b, list) ==
  /\ \A k \in DOMAIN list : tab[b][NumberOf(list, k)] = list[k]
  /\ Len(list) > 1 => tab[b][0] = NoRow

\* A crawl saves the month it has fetched as a whole, or leaves all of it as it
\* was: a day's list is never half of one version and half of another.
MonthAtOnce ==
  [][games' # games =>
       \A b \in Match : IF MonthOf[b] = job.month THEN Shows(games', b, page.list[b])
                                                 ELSE games'[b] = games[b]]_vars

\* What keeps a match from being saved: its only game is registered when a second
\* one is listed, or a listed game's slot is that of a row of another number which
\* this crawl does not move away first.
Blocked(b) ==
  LET list == site[b]
      Moved(n, k) == \/ Len(list) > 1 /\ n = 0
                     \/ \E j \in 1..(k - 1) : NumberOf(list, j) = n
  IN \/ Len(list) > 1 /\ 0 \in registered[b]
     \/ \E k \in DOMAIN list, n \in Number :
          n # NumberOf(list, k) /\ games[b][n] = list[k] /\ ~Moved(n, k)

\* However crawls fail, once the site and the fans rest each month is as the site
\* lists it, unless a match of the same month is blocked or a row unreadable; the
\* other month is never held up.
MonthsSettle ==
  \A m \in Month :
    <>[](\/ \A b \in Of(m) : Shows(games, b, site[b])
         \/ unreadable[m]
         \/ \E b \in Of(m) : Blocked(b))
=============================================================================
