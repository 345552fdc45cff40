----------------------------- MODULE GameScoreJob -----------------------------
(***************************************************************************)
(* How one game's row gets its result: the trigger and the one-minute      *)
(* score job of GameApplicationCrawlingService, the 1 AM crawl, restarts   *)
(* of the process in between, and the registrations fans make meanwhile.   *)
(*                                                                         *)
(* A tick of the score job is an async callback: it waits for the league's *)
(* site, loads the row and saves it, and when the site reports the end     *)
(* stops the job, loads the row again, saves it with the winner and runs   *)
(* the bulk update of the pending registrations.  Each load and each save  *)
(* is a statement of its own; between them everything else may run.        *)
(* save reloads the row and updates the columns that differ, which leaves  *)
(* the row equal to the entity; only a write that falls between those two  *)
(* statements would show, and save is modelled as one overwrite.           *)
(***************************************************************************)
EXTENDS Integers, GameRules

CONSTANTS Home, Away,      \* the two teams
          Fan,             \* users who may register the game
          Tick,            \* the ticks that can be in flight at once
          Null,            \* a null score or status
          LastOfMonth,     \* whether the nightly crawl has moved past the month
          MaxRestarts      \* bound on restarts of the process

Team == {Home, Away}
Score == {0, 1}            \* the scores the properties tell apart

ASSUME JobAssumption ==
  /\ Home # Away /\ NoTeam \notin Team
  /\ Null \notin Score /\ Null \notin GameStatus
  /\ LastOfMonth \in BOOLEAN /\ MaxRestarts \in Nat

\* What a page of the site shows, and a row of the game table.
Page == [status : GameStatus \cup {Null}, homeScore : Score \cup {Null}, awayScore : Score \cup {Null}]
Row  == [status : GameStatus, homeScore : Score \cup {Null}, awayScore : Score \cup {Null},
         winner : Team \cup {NoTeam}]

NoPage == [status |-> Null, homeScore |-> Null, awayScore |-> Null]

VARIABLES
  site,      \* what the league publishes
  day,       \* "morning", "play" (from the starting time on), "night" (after 1 AM)
  game,      \* the committed game row
  job,       \* "none", "trigger" or "running": what is in the scheduler registry
  pc,        \* [Tick -> where the tick is]
  got,       \* [Tick -> the page it received]
  ent,       \* [Tick -> the row it loaded]
  fan,       \* [Fan -> "none", "chosen" or "registered"]
  side,      \* [Fan -> the team the fan cheers for]
  status,    \* [Fan -> the status determined for the registration]
  restarts

tickVars == <<pc, got, ent>>
fanVars  == <<fan, side, status>>
vars     == <<site, day, game, job, tickVars, fanVars, restarts>>

-----------------------------------------------------------------------------
(* The league's site and the clock.                                         *)

\* Play starts at the game's time; scores are shown while and after it is played.
SiteChanges ==
  /\ day = "play" /\ site.status \in {"before", "live"}
  /\ site' \in Page
  /\ site'.status \notin {"before", Null}
  /\ site'.homeScore = Null <=> site'.awayScore = Null
  /\ site'.homeScore = Null => site'.status \notin {"live", "ended"}
  /\ UNCHANGED <<day, game, job, tickVars, fanVars, restarts>>

GameTimeComes ==
  /\ day = "morning"
  /\ day' = "play"
  /\ UNCHANGED <<site, game, job, tickVars, fanVars, restarts>>

\* By 1 AM the league has its result, and no tick is older than its minute.
NightFalls ==
  /\ day = "play" /\ site.status \notin {"before", "live"}
  /\ \A t \in Tick : pc[t] = "idle"
  /\ day' = "night"
  /\ UNCHANGED <<site, game, job, tickVars, fanVars, restarts>>

-----------------------------------------------------------------------------
(* The trigger, the crawl, and the start of a process.                      *)

\* The trigger's timer starts the score job in its own place.
TriggerFires ==
  /\ job = "trigger" /\ day # "morning"
  /\ job' = "running"
  /\ UNCHANGED <<site, day, game, tickVars, fanVars, restarts>>

\* The schedule page has the scores of finished games only; a game being played
\* has a status that is neither of the two the crawl knows.
Scheduled(page) == IF page.status = "ended" THEN page ELSE [NoPage EXCEPT !.status = page.status]

\* Mutant: the crawl of a finished game leaves the winner to the score job.
UpsertedWithoutWinner(row, page) ==
  [status |-> page.status, homeScore |-> page.homeScore,
   awayScore |-> page.awayScore, winner |-> row.winner]

\* Game.create and upsert: the scores of the page replace the row's; a winner is
\* written only for a finished game, an undefined one leaves the column alone.
Upserted(row, page) ==
  LET new == [status |-> page.status, homeScore |-> page.homeScore,
              awayScore |-> page.awayScore, winner |-> row.winner]
  IN [new EXCEPT !.winner = DetermineWinner(new, Home, Away)]

\* The crawl takes this month and the next: yesterday's game is missing from it
\* on the first of a month.  A request that fails twice changes nothing.
InReach == ~(LastOfMonth /\ day = "night")

CrawlSucceeds ==
  /\ day = "night" /\ InReach
  /\ game' = Upserted(game, Scheduled(site))
  /\ UNCHANGED <<site, day, job, tickVars, fanVars, restarts>>

\* setupTriggerForGameScoreCrawlingJob, which only sees games of today.
JobAfterSetup ==
  CASE day = "morning" -> "trigger"
    [] day = "play"    -> "running"
    [] day = "night"   -> "none"

\* The process dies, with its timers, ticks and open transactions, and starts
\* again: bootstrap crawls and sets the jobs of today up.
ProcessRestarts ==
  /\ restarts < MaxRestarts
  /\ restarts' = restarts + 1
  /\ \/ game' = game
     \/ InReach /\ game' = Upserted(game, Scheduled(site))
  /\ job' = JobAfterSetup
  /\ pc' = [t \in Tick |-> "idle"]
  /\ got' = [t \in Tick |-> NoPage]
  /\ ent' = [t \in Tick |-> Null]
  /\ fan' = [f \in Fan |-> IF fan[f] = "chosen" THEN "none" ELSE fan[f]]
  /\ UNCHANGED <<site, day, side, status>>

-----------------------------------------------------------------------------
(* One tick of the score job.                                               *)

\* What the two pages of the site give at this moment: an element that is missing or
\* is no number reads as null, and so does everything when either request fails.
Readings == [status : {site.status, Null},
             homeScore : {site.homeScore, Null}, awayScore : {site.awayScore, Null}]

\* The two requests, answered together.
TickStarts(t) ==
  /\ job = "running" /\ pc[t] = "idle"
  /\ pc' = [pc EXCEPT ![t] = "waiting"]
  /\ \E page \in Readings : got' = [got EXCEPT ![t] = page]
  /\ UNCHANGED <<site, day, game, job, ent, fanVars, restarts>>

HasScores(page) == page.homeScore # Null /\ page.awayScore # Null

\* Mutant: updateStatus without its null check.
InProgressNullStatus(row, page) ==
  [row EXCEPT !.status = page.status,
              !.homeScore = page.homeScore, !.awayScore = page.awayScore]

\* Mutant: a running score clears the winner.
InProgressClearsWinner(row, page) ==
  [row EXCEPT !.status = IF page.status = Null THEN @ ELSE page.status,
              !.homeScore = page.homeScore, !.awayScore = page.awayScore,
              !.winner = NoTeam]

\* updateInProgressMatch: a null status leaves the row's.
InProgress(row, page) ==
  [row EXCEPT !.status = IF page.status = Null THEN @ ELSE page.status,
              !.homeScore = page.homeScore, !.awayScore = page.awayScore]

\* Mutant: home and away swapped in the choice of the winner.
FinishedSwapped(row, page) ==
  LET new == InProgress(row, page)
  IN [new EXCEPT !.winner = DetermineWinner(new, Away, Home)]

\* updateFinishedMatch: the same and the winner.
Finished(row, page) ==
  LET new == InProgress(row, page)
  IN [new EXCEPT !.winner = DetermineWinner(new, Home, Away)]

\* Mutant: the job stops at any page that does not show the game running.
CheckFinalUnlessLive(t) ==
  /\ pc' = [pc EXCEPT ![t] = IF got[t].status # "live" THEN "ending" ELSE "idle"]
  /\ job' = IF got[t].status # "live" THEN "none" ELSE job

\* After updateInProgressGame: at a final status the job stops itself.
CheckFinal(t) ==
  /\ pc' = [pc EXCEPT ![t] = IF got[t].status \in FinalStatus THEN "ending" ELSE "idle"]
  /\ job' = IF got[t].status \in FinalStatus THEN "none" ELSE job

\* The answer arrives: load the row, unless a score is missing.
PageArrives(t) ==
  /\ pc[t] = "waiting"
  /\ IF HasScores(got[t])
     THEN /\ ent' = [ent EXCEPT ![t] = game]
          /\ pc' = [pc EXCEPT ![t] = "loaded"] /\ UNCHANGED job
     ELSE CheckFinal(t) /\ UNCHANGED ent
  /\ UNCHANGED <<site, day, game, got, fanVars, restarts>>

\* save of the running score; an error is caught and logged.
SavesProgress(t) ==
  /\ pc[t] = "loaded"
  /\ game' \in {InProgress(ent[t], got[t]), game}
  /\ CheckFinal(t)
  /\ UNCHANGED <<site, day, got, ent, fanVars, restarts>>

\* updateFinishedMatch loads the row, unless a score is missing.
LoadsAgain(t) ==
  /\ pc[t] = "ending"
  /\ ent' = IF HasScores(got[t]) THEN [ent EXCEPT ![t] = game] ELSE ent
  /\ pc' = [pc EXCEPT ![t] = IF HasScores(got[t]) THEN "reloaded" ELSE "settling"]
  /\ UNCHANGED <<site, day, game, job, got, fanVars, restarts>>

\* save of the finished game.  An error ends the tick, the job being stopped.
SavesFinish(t) ==
  /\ pc[t] = "reloaded"
  /\ \/ game' = Finished(ent[t], got[t]) /\ pc' = [pc EXCEPT ![t] = "settling"]
     \/ game' = game /\ pc' = [pc EXCEPT ![t] = "idle"]
  /\ UNCHANGED <<site, day, job, got, ent, fanVars, restarts>>

\* batchBulkGameResultUpdateByGameId determines the result of every pending
\* registration, but hands saveBulk wrappers without columns: the INSERT that
\* follows is refused, the transaction undone and the error logged.
BulkUpdated == status

Settles(t) ==
  /\ pc[t] = "settling"
  /\ status' = BulkUpdated
  /\ pc' = [pc EXCEPT ![t] = "idle"]
  /\ UNCHANGED <<site, day, game, job, got, ent, fan, side, restarts>>

-----------------------------------------------------------------------------
(* Registrations: read the game, then insert.                               *)

ReadsGame(f) ==
  /\ fan[f] = "none"
  /\ \E team \in Team :
       /\ side' = [side EXCEPT ![f] = team]
       /\ status' = [status EXCEPT ![f] = DetermineStatus(game.status, game.winner, team)]
  /\ fan' = [fan EXCEPT ![f] = "chosen"]
  /\ UNCHANGED <<site, day, game, job, tickVars, restarts>>

Registers(f) ==
  /\ fan[f] = "chosen"
  /\ fan' = [fan EXCEPT ![f] = "registered"]
  /\ UNCHANGED <<site, day, game, job, tickVars, side, status, restarts>>

-----------------------------------------------------------------------------
Init ==
  /\ site = [NoPage EXCEPT !.status = "before"]
  /\ day = "morning"
  /\ game = [status |-> "before", homeScore |-> Null, awayScore |-> Null, winner |-> NoTeam]
  /\ job = "trigger"
  /\ pc = [t \in Tick |-> "idle"]
  /\ got = [t \in Tick |-> NoPage]
  /\ ent = [t \in Tick |-> Null]
  /\ fan = [f \in Fan |-> "none"]
  /\ side = [f \in Fan |-> Home]
  /\ status = [f \in Fan |-> Pending]
  /\ restarts = 0

TickStep(t) ==
  PageArrives(t) \/ SavesProgress(t) \/ LoadsAgain(t) \/ SavesFinish(t) \/ Settles(t)

Next ==
  \/ SiteChanges \/ GameTimeComes \/ NightFalls
  \/ TriggerFires \/ CrawlSucceeds \/ ProcessRestarts
  \/ \E t \in Tick : TickStarts(t) \/ TickStep(t)
  \/ \E f \in Fan : ReadsGame(f) \/ Registers(f)

\* Time passes, timers fire, a started tick goes on; of the crawls of all the
\* nights to come one succeeds.  Nothing is assumed of the site or the fans.
Fairness ==
  /\ WF_vars(GameTimeComes) /\ SF_vars(NightFalls)
  /\ WF_vars(TriggerFires) /\ WF_vars(CrawlSucceeds)
  /\ \A t \in Tick : WF_vars(TickStarts(t)) /\ WF_vars(TickStep(t))

Spec == Init /\ [][Next]_vars /\ Fairness

-----------------------------------------------------------------------------
TypeOK ==
  /\ site \in Page /\ site.status # Null
  /\ day \in {"morning", "play", "night"}
  /\ game \in Row
  /\ job \in {"none", "trigger", "running"}
  /\ pc \in [Tick -> {"idle", "waiting", "loaded", "ending", "reloaded", "settling"}]
  /\ got \in [Tick -> Page]
  /\ ent \in [Tick -> Row \cup {Null}]
  /\ fan \in [Fan -> {"none", "chosen", "registered"}]
  /\ side \in [Fan -> Team]
  /\ status \in [Fan -> RegStatus]
  /\ restarts \in 0..MaxRestarts

\* The result of the game according to the site, for one of its teams.
SiteWinner ==
  DetermineWinner([status |-> site.status, homeScore |-> site.homeScore,
                   awayScore |-> site.awayScore, winner |-> NoTeam], Home, Away)

Outcome(team) == DetermineStatus(site.status, SiteWinner, team)

\* A registration that was given a win or a loss was given the right one.
DecisiveResultsRight ==
  \A f \in Fan : status[f] \in {"Win", "Lose"} => status[f] = Outcome(side[f])

\* On the day of the game, once the row holds a result, no later save or restart
\* takes it back.  (A tick that has loaded the row before the crawl of 1 AM wrote
\* it can; so can one that outlives its minute.)
ResultStays ==
  [][day = "play" /\ game.status \in FinalStatus =>
       /\ game'.status = game.status
       /\ game.winner # NoTeam => game'.winner = game.winner]_vars

\* The score job takes itself out of the registry only when the game is over.
StoppedMeansOver ==
  day = "play" /\ job = "none" => site.status \in FinalStatus

\* A finished game ends up in the table with its winner, whatever the process
\* goes through: failed requests and saves, a restart between the two saves.
ScoreSettles ==
  site.status = "ended" ~> /\ game.status = "ended"
                          /\ game.winner = DetermineWinner(game, Home, Away)

\* A registration made before the end gets its result once the game's row has one
\* and the score job goes on to its bulk update.
PendingSettles ==
  \A f \in Fan, t \in Tick :
    fan[f] = "registered" /\ game.status = "ended" /\ pc[t] = "settling"
      ~> status[f] # Pending
=============================================================================
