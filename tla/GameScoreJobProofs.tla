-------------------------- MODULE GameScoreJobProofs --------------------------
(***************************************************************************)
(* GameScoreJob for any number of ticks in flight, of fans and of restarts *)
(* and whether or not the crawl still reaches the game's month: what the   *)
(* row, a tick's page and a tick's copy of the row may hold.               *)
(***************************************************************************)
EXTENDS GameScoreJob, TLAPS

\* The site shows scores while and after a game is played.
SiteOK ==
  site.status \in {"live", "ended"} => site.homeScore \in Score /\ site.awayScore \in Score

\* A page with a final status has what the site shows for good, if it has scores.
PagesOK ==
  \A t \in Tick : got[t].status \in FinalStatus =>
    got[t].status = site.status /\ (HasScores(got[t]) => got[t] = site)

\* A winner is the winner the site shows.
WinnerOK(row) == row.winner # NoTeam => site.status = "ended" /\ row.winner = SiteWinner

\* What a tick has in memory at each of its steps.
TicksOK ==
  \A t \in Tick :
    /\ pc[t] \in {"loaded", "reloaded"} =>
         ent[t] \in Row /\ WinnerOK(ent[t]) /\ HasScores(got[t])
    /\ pc[t] \in {"ending", "reloaded", "settling"} => got[t].status \in FinalStatus

\* The job is missing only when the game is over or its day has passed.
JobOK == job = "none" => site.status \in FinalStatus \/ day = "night"

IInv ==
  TypeOK /\ SiteOK /\ PagesOK /\ WinnerOK(game) /\ TicksOK /\ JobOK /\ DecisiveResultsRight

-----------------------------------------------------------------------------
\* The winner of a row with a page's status and scores is a team or none.
LEMMA WinnerType ==
  ASSUME NEW row \in Row,
         row.status = "ended" => row.homeScore \in Score /\ row.awayScore \in Score
  PROVE  DetermineWinner(row, Home, Away) \in Team \cup {NoTeam}
BY DEF DetermineWinner, Row, Score, Team

\* A result for a registration is a win or a loss only by a winner of an ended game.
LEMMA StatusType ==
  ASSUME NEW s \in GameStatus, NEW w, NEW team
  PROVE  /\ DetermineStatus(s, w, team) \in RegStatus
         /\ DetermineStatus(s, w, team) \in {"Win", "Lose"} => s = "ended" /\ w # NoTeam
BY DEF DetermineStatus, RegStatus, Result, Pending, GameStatus, NoGameStatus

\* The site never changes again once its status is final.
LEMMA SiteFinal ==
  ASSUME SiteChanges PROVE site.status \notin FinalStatus
BY DEF SiteChanges, FinalStatus

\* A save of a running score keeps the row a row and its winner.
LEMMA InProgressOK ==
  ASSUME NEW row \in Row, NEW page \in Page
  PROVE  InProgress(row, page) \in Row /\ InProgress(row, page).winner = row.winner
BY JobAssumption DEF InProgress, Row, Page

\* A save of the final score gives the row the winner of the page.
LEMMA FinishedOK ==
  ASSUME TypeOK, SiteOK, NEW row \in Row, WinnerOK(row),
         site.status \in FinalStatus, HasScores(site)
  PROVE  Finished(row, site) \in Row /\ WinnerOK(Finished(row, site))
<1> DEFINE new == InProgress(row, site)
<1>1. new \in Row /\ new.winner = row.winner /\ new.status = site.status
      /\ new.homeScore = site.homeScore /\ new.awayScore = site.awayScore
  BY JobAssumption DEF InProgress, Row, Page, TypeOK
<1>2. Finished(row, site) = [new EXCEPT !.winner = DetermineWinner(new, Home, Away)]
  BY DEF Finished
<1>3. CASE site.status = "ended"
  <2>1. DetermineWinner(new, Home, Away) = SiteWinner
    BY <1>1, <1>3 DEF DetermineWinner, SiteWinner
  <2>2. DetermineWinner(new, Home, Away) \in Team \cup {NoTeam}
    BY <1>1, <1>3, WinnerType DEF SiteOK
  <2> HIDE DEF new
  <2> QED
    BY <1>1, <1>2, <1>3, <2>1, <2>2 DEF Row, WinnerOK
<1>4. CASE site.status # "ended"
  <2>1. DetermineWinner(new, Home, Away) = row.winner
    BY <1>1, <1>4 DEF DetermineWinner
  <2> HIDE DEF new
  <2> QED
    BY <1>1, <1>2, <2>1 DEF Row, WinnerOK
<1> QED
  BY <1>3, <1>4

\* So does the crawl of the schedule.
LEMMA UpsertedOK ==
  ASSUME TypeOK, SiteOK, NEW row \in Row, WinnerOK(row)
  PROVE  Upserted(row, Scheduled(site)) \in Row /\ WinnerOK(Upserted(row, Scheduled(site)))
<1> DEFINE page == Scheduled(site)
           new  == [status |-> page.status, homeScore |-> page.homeScore,
                    awayScore |-> page.awayScore, winner |-> row.winner]
<1>1. page.status = site.status /\ page \in Page
      /\ (site.status = "ended" => page = site)
  BY DEF Scheduled, NoPage, Page, TypeOK
<1>2. new \in Row
  BY <1>1 DEF Row, Page, TypeOK
<1>3. Upserted(row, page) = [new EXCEPT !.winner = DetermineWinner(new, Home, Away)]
  BY DEF Upserted
<1>4. CASE site.status = "ended"
  <2>1. DetermineWinner(new, Home, Away) = SiteWinner
    BY <1>1, <1>4 DEF DetermineWinner, SiteWinner
  <2>2. DetermineWinner(new, Home, Away) \in Team \cup {NoTeam}
    BY <1>1, <1>2, <1>4, WinnerType DEF SiteOK
  <2> HIDE DEF new
  <2> QED
    BY <1>2, <1>3, <1>4, <2>1, <2>2 DEF Row, WinnerOK
<1>5. CASE site.status # "ended"
  <2>1. DetermineWinner(new, Home, Away) = row.winner
    BY <1>1, <1>5 DEF DetermineWinner
  <2>2. new.winner = row.winner
    OBVIOUS
  <2> HIDE DEF new
  <2> QED
    BY <1>2, <1>3, <2>1, <2>2 DEF Row, WinnerOK
<1> QED
  BY <1>4, <1>5

-----------------------------------------------------------------------------
LEMMA IInvInit == ASSUME Init PROVE IInv
<1> USE JobAssumption DEF Init
<1>1. TypeOK
  BY DEF TypeOK, Page, Row, NoPage, Score, Team, GameStatus, RegStatus, Result, Pending
<1>2. SiteOK /\ PagesOK /\ WinnerOK(game) /\ TicksOK /\ JobOK
  BY DEF SiteOK, PagesOK, NoPage, FinalStatus, GameStatus, WinnerOK, TicksOK, JobOK
<1>3. DecisiveResultsRight
  BY DEF DecisiveResultsRight, Pending
<1> QED
  BY <1>1, <1>2, <1>3 DEF IInv

\* The site moves on: nothing in the process refers to a final status yet.
LEMMA SiteStep == ASSUME IInv, SiteChanges PROVE IInv'
<1> USE JobAssumption DEF SiteChanges, fanVars, tickVars
<1>1. site.status \notin FinalStatus
  BY SiteFinal
<1>2. site.status # "ended"
  BY <1>1 DEF FinalStatus
<1>3. TypeOK'
  BY DEF IInv, TypeOK
<1>4. SiteOK'
  <2>1. site' \in Page /\ (site'.homeScore = Null <=> site'.awayScore = Null)
        /\ (site'.homeScore = Null => site'.status \notin {"live", "ended"})
    OBVIOUS
  <2> QED
    BY <2>1 DEF SiteOK, Page
<1>5. PagesOK'
  BY <1>1 DEF IInv, PagesOK
<1>6. game.winner = NoTeam /\ \A t \in Tick : pc[t] \in {"loaded", "reloaded"} => ent[t].winner = NoTeam
  BY <1>2 DEF IInv, WinnerOK, TicksOK
<1>7. WinnerOK(game)' /\ TicksOK'
  BY <1>6 DEF IInv, TicksOK, WinnerOK, HasScores
<1>8. JobOK'
  BY <1>1 DEF IInv, JobOK
<1>9. \A f \in Fan : status[f] \notin {"Win", "Lose"}
  <2> SUFFICES ASSUME NEW f \in Fan, status[f] \in {"Win", "Lose"} PROVE FALSE
    OBVIOUS
  <2>1. Outcome(side[f]) \in {"Win", "Lose"}
    BY DEF IInv, DecisiveResultsRight
  <2>2. site.status \in GameStatus
    BY DEF IInv, TypeOK, Page
  <2> QED
    BY <1>2, <2>1, <2>2, StatusType DEF Outcome
<1>10. DecisiveResultsRight'
  BY <1>9 DEF DecisiveResultsRight
<1> QED
  BY <1>3, <1>4, <1>5, <1>7, <1>8, <1>10 DEF IInv

\* What is left of the invariant when a step keeps site, fans and day.
LEMMA Unmoved ==
  ASSUME IInv, UNCHANGED <<site, side, status>>
  PROVE  SiteOK' /\ DecisiveResultsRight' /\ SiteWinner' = SiteWinner
BY DEF IInv, SiteOK, DecisiveResultsRight, Outcome, SiteWinner

LEMMA ClockStep ==
  ASSUME IInv, GameTimeComes \/ NightFalls \/ TriggerFires
  PROVE  IInv'
<1> USE DEF GameTimeComes, NightFalls, TriggerFires, fanVars, tickVars
<1>1. UNCHANGED <<site, game, pc, got, ent, fan, side, status, restarts>>
  OBVIOUS
<1>2. TypeOK'
  BY DEF IInv, TypeOK
<1>3. SiteOK' /\ DecisiveResultsRight' /\ SiteWinner' = SiteWinner
  BY <1>1, Unmoved
<1>4. PagesOK' /\ WinnerOK(game)' /\ TicksOK'
  BY <1>1, <1>3 DEF IInv, PagesOK, WinnerOK, TicksOK, HasScores
<1>5. JobOK'
  BY DEF IInv, JobOK
<1> QED
  BY <1>2, <1>3, <1>4, <1>5 DEF IInv

LEMMA CrawlStep == ASSUME IInv, CrawlSucceeds PROVE IInv'
<1> USE DEF CrawlSucceeds, fanVars, tickVars
<1>1. Upserted(game, Scheduled(site)) \in Row /\ WinnerOK(Upserted(game, Scheduled(site)))
  BY UpsertedOK DEF IInv, TypeOK
<1>2. TypeOK'
  BY <1>1 DEF IInv, TypeOK
<1>3. SiteOK' /\ DecisiveResultsRight' /\ SiteWinner' = SiteWinner
  BY Unmoved
<1>4. WinnerOK(game)' /\ TicksOK'
  BY <1>1, <1>3 DEF IInv, WinnerOK, TicksOK, HasScores
<1>5. PagesOK' /\ JobOK'
  BY DEF IInv, PagesOK, JobOK
<1> QED
  BY <1>2, <1>3, <1>4, <1>5 DEF IInv

LEMMA RestartStep == ASSUME IInv, ProcessRestarts PROVE IInv'
<1> USE JobAssumption DEF ProcessRestarts
<1>1. Upserted(game, Scheduled(site)) \in Row /\ WinnerOK(Upserted(game, Scheduled(site)))
  BY UpsertedOK DEF IInv, TypeOK
<1>2. TypeOK'
  BY <1>1 DEF IInv, TypeOK, JobAfterSetup, NoPage, Page
<1>3. SiteOK' /\ DecisiveResultsRight' /\ SiteWinner' = SiteWinner
  BY Unmoved
<1>4. WinnerOK(game)' /\ TicksOK' /\ PagesOK'
  BY <1>1, <1>3 DEF IInv, WinnerOK, TicksOK, PagesOK, NoPage, FinalStatus, GameStatus
<1>5. JobOK'
  BY DEF IInv, TypeOK, JobOK, JobAfterSetup
<1> QED
  BY <1>2, <1>3, <1>4, <1>5 DEF IInv

-----------------------------------------------------------------------------
\* What can be read of the site.
LEMMA ReadingsOK ==
  ASSUME TypeOK, NEW page \in Readings
  PROVE  /\ page \in Page /\ page.status \in {site.status, Null}
         /\ page.status \in FinalStatus =>
              page.status = site.status /\ (HasScores(page) => page = site)
<1>1. Null \notin FinalStatus
  BY JobAssumption DEF FinalStatus, GameStatus
<1>2. page \in Page /\ page.status \in {site.status, Null}
  BY DEF Readings, Page, TypeOK
<1>3. ASSUME page.status = site.status, HasScores(page) PROVE page = site
  BY <1>3 DEF Readings, HasScores, Page, TypeOK
<1> QED
  BY <1>1, <1>2, <1>3

\* A tick asks the site: a page with a final status and scores is the site's last one.
LEMMA StartStep == ASSUME IInv, NEW t \in Tick, TickStarts(t) PROVE IInv'
<1> USE JobAssumption DEF TickStarts, fanVars
<1>1. PICK page \in Readings : got' = [got EXCEPT ![t] = page]
  OBVIOUS
<1>2. /\ page \in Page
      /\ page.status \in FinalStatus =>
           page.status = site.status /\ (HasScores(page) => page = site)
  BY ReadingsOK DEF IInv
<1>3. TypeOK'
  BY <1>1, <1>2 DEF IInv, TypeOK
<1>4. SiteOK' /\ DecisiveResultsRight' /\ SiteWinner' = SiteWinner
  BY Unmoved
<1>5. PagesOK'
  BY <1>1, <1>2 DEF IInv, TypeOK, PagesOK
<1>6. WinnerOK(game)' /\ TicksOK' /\ JobOK'
  BY <1>1, <1>4 DEF IInv, TypeOK, WinnerOK, TicksOK, HasScores, JobOK
<1> QED
  BY <1>3, <1>4, <1>5, <1>6 DEF IInv

\* The job takes itself away only at a page with a final status.
LEMMA CheckFinalOK ==
  ASSUME IInv, NEW t \in Tick, CheckFinal(t), UNCHANGED <<site, day, got>>
  PROVE  /\ JobOK' /\ job' \in {"none", "trigger", "running"}
         /\ pc' \in [Tick -> {"idle", "waiting", "loaded", "ending", "reloaded", "settling"}]
         /\ pc'[t] \in {"idle", "ending"}
         /\ pc'[t] = "ending" => got[t].status \in FinalStatus
         /\ \A q \in Tick \ {t} : pc'[q] = pc[q]
<1>1. got[t].status \in FinalStatus => site.status \in FinalStatus
  BY DEF IInv, PagesOK
<1> QED
  BY <1>1 DEF CheckFinal, IInv, JobOK, TypeOK

LEMMA ArriveStep == ASSUME IInv, NEW t \in Tick, PageArrives(t) PROVE IInv'
<1> USE DEF PageArrives, fanVars
<1>1. SiteOK' /\ DecisiveResultsRight' /\ SiteWinner' = SiteWinner
  BY Unmoved
<1>2. PagesOK' /\ WinnerOK(game)'
  BY <1>1 DEF IInv, PagesOK, WinnerOK
<1>3. CASE HasScores(got[t])
  <2>1. TypeOK' /\ JobOK'
    BY <1>3 DEF IInv, TypeOK, JobOK
  <2>2. TicksOK'
    BY <1>1, <1>3 DEF IInv, TypeOK, TicksOK, WinnerOK, HasScores
  <2> QED
    BY <1>1, <1>2, <2>1, <2>2 DEF IInv
<1>4. CASE ~HasScores(got[t])
  <2>1. CheckFinal(t) /\ UNCHANGED <<site, day, got, ent, game>>
    BY <1>4
  <2>2. TypeOK'
    BY <2>1, CheckFinalOK DEF IInv, TypeOK
  <2>3. TicksOK'
    BY <1>1, <2>1, CheckFinalOK DEF IInv, TicksOK, WinnerOK, HasScores
  <2> QED
    BY <1>1, <1>2, <2>1, <2>2, <2>3, CheckFinalOK DEF IInv
<1> QED
  BY <1>3, <1>4

LEMMA ProgressStep == ASSUME IInv, NEW t \in Tick, SavesProgress(t) PROVE IInv'
<1> USE DEF SavesProgress, fanVars
<1>1. SiteOK' /\ DecisiveResultsRight' /\ SiteWinner' = SiteWinner
  BY Unmoved
<1>2. ent[t] \in Row /\ WinnerOK(ent[t]) /\ got[t] \in Page
  BY DEF IInv, TicksOK, TypeOK
<1>3. game' \in Row /\ WinnerOK(game)'
  <2>1. InProgress(ent[t], got[t]) \in Row /\ InProgress(ent[t], got[t]).winner = ent[t].winner
    BY <1>2, InProgressOK
  <2>2. CASE game' = InProgress(ent[t], got[t])
    BY <1>1, <1>2, <2>1, <2>2 DEF WinnerOK
  <2>3. CASE game' = game
    BY <1>1, <2>3 DEF IInv, TypeOK, WinnerOK
  <2> QED
    BY <2>2, <2>3
<1>4. CheckFinal(t) /\ UNCHANGED <<site, day, got, ent>>
  OBVIOUS
<1>5. TypeOK'
  BY <1>3, <1>4, CheckFinalOK DEF IInv, TypeOK
<1>6. TicksOK'
  BY <1>1, <1>4, CheckFinalOK DEF IInv, TicksOK, WinnerOK, HasScores
<1>7. PagesOK'
  BY DEF IInv, PagesOK
<1> QED
  BY <1>1, <1>3, <1>4, <1>5, <1>6, <1>7, CheckFinalOK DEF IInv

LEMMA AgainStep == ASSUME IInv, NEW t \in Tick, LoadsAgain(t) PROVE IInv'
<1> USE DEF LoadsAgain, fanVars
<1>1. SiteOK' /\ DecisiveResultsRight' /\ SiteWinner' = SiteWinner
  BY Unmoved
<1>2. TypeOK'
  BY DEF IInv, TypeOK
<1>3. PagesOK' /\ WinnerOK(game)' /\ JobOK'
  BY <1>1 DEF IInv, PagesOK, WinnerOK, JobOK
<1>4. TicksOK'
  BY <1>1 DEF IInv, TypeOK, TicksOK, WinnerOK, HasScores
<1> QED
  BY <1>1, <1>2, <1>3, <1>4 DEF IInv

\* The winner is decided by a page that is the site's last one.
LEMMA FinishStep == ASSUME IInv, NEW t \in Tick, SavesFinish(t) PROVE IInv'
<1> USE DEF SavesFinish, fanVars
<1>1. SiteOK' /\ DecisiveResultsRight' /\ SiteWinner' = SiteWinner
  BY Unmoved
<1>2. ent[t] \in Row /\ WinnerOK(ent[t]) /\ got[t] = site /\ site.status \in FinalStatus
      /\ HasScores(site)
  BY DEF IInv, TicksOK, PagesOK
<1>3. Finished(ent[t], got[t]) \in Row /\ WinnerOK(Finished(ent[t], got[t]))
  BY <1>2, FinishedOK DEF IInv
<1>4. game' \in Row /\ WinnerOK(game)'
  BY <1>1, <1>3 DEF IInv, TypeOK, WinnerOK
<1>5. TypeOK' /\ TicksOK'
  BY <1>1, <1>4 DEF IInv, TypeOK, TicksOK, WinnerOK, HasScores
<1>6. PagesOK' /\ JobOK'
  BY DEF IInv, PagesOK, JobOK
<1> QED
  BY <1>1, <1>4, <1>5, <1>6 DEF IInv

LEMMA SettleStep == ASSUME IInv, NEW t \in Tick, Settles(t) PROVE IInv'
<1> USE DEF Settles, BulkUpdated
<1>1. SiteOK' /\ DecisiveResultsRight' /\ SiteWinner' = SiteWinner
  BY Unmoved
<1>2. TypeOK' /\ TicksOK'
  BY <1>1 DEF IInv, TypeOK, TicksOK, WinnerOK, HasScores
<1>3. PagesOK' /\ JobOK' /\ WinnerOK(game)'
  BY <1>1 DEF IInv, PagesOK, JobOK, WinnerOK
<1> QED
  BY <1>1, <1>2, <1>3 DEF IInv

\* A win or a loss is given only for the winner of the row.
LEMMA ReadStep == ASSUME IInv, NEW f \in Fan, ReadsGame(f) PROVE IInv'
<1> USE DEF ReadsGame, tickVars
<1>1. PICK team \in Team :
        /\ side' = [side EXCEPT ![f] = team]
        /\ status' = [status EXCEPT ![f] = DetermineStatus(game.status, game.winner, team)]
  OBVIOUS
<1>2. game.status \in GameStatus
  BY DEF IInv, TypeOK, Row
<1>3. TypeOK'
  BY <1>1, <1>2, StatusType DEF IInv, TypeOK
<1>4. SiteOK' /\ PagesOK' /\ TicksOK' /\ JobOK' /\ WinnerOK(game)'
  BY DEF IInv, SiteOK, PagesOK, TicksOK, JobOK, WinnerOK, HasScores, SiteWinner
<1>5. ASSUME NEW g \in Fan, status'[g] \in {"Win", "Lose"}
      PROVE  status'[g] = Outcome(side'[g])
  <2>1. CASE g # f
    BY <1>1, <1>5, <2>1 DEF IInv, TypeOK, DecisiveResultsRight
  <2>2. CASE g = f
    <3>1. status'[g] = DetermineStatus(game.status, game.winner, team) /\ side'[g] = team
      BY <1>1, <2>2 DEF IInv, TypeOK
    <3>2. game.status = "ended" /\ game.winner # NoTeam
      BY <1>2, <1>5, <3>1, StatusType
    <3>3. site.status = game.status /\ SiteWinner = game.winner
      BY <3>2 DEF IInv, WinnerOK
    <3> QED
      BY <3>1, <3>3 DEF Outcome
  <2> QED
    BY <2>1, <2>2
<1>6. DecisiveResultsRight'
  BY <1>5 DEF DecisiveResultsRight, Outcome, SiteWinner
<1> QED
  BY <1>3, <1>4, <1>6 DEF IInv

LEMMA RegisterStep == ASSUME IInv, NEW f \in Fan, Registers(f) PROVE IInv'
<1> USE DEF Registers, tickVars
<1>1. SiteOK' /\ DecisiveResultsRight' /\ SiteWinner' = SiteWinner
  BY Unmoved
<1>2. TypeOK'
  BY DEF IInv, TypeOK
<1>3. PagesOK' /\ TicksOK' /\ JobOK' /\ WinnerOK(game)'
  BY <1>1 DEF IInv, PagesOK, TicksOK, JobOK, WinnerOK, HasScores
<1> QED
  BY <1>1, <1>2, <1>3 DEF IInv

LEMMA StutterStep == ASSUME IInv, UNCHANGED vars PROVE IInv'
BY DEF IInv, vars, tickVars, fanVars, TypeOK, SiteOK, PagesOK, TicksOK, JobOK, WinnerOK, HasScores,
       SiteWinner, DecisiveResultsRight, Outcome

LEMMA IInvNext == ASSUME IInv, [Next]_vars PROVE IInv'
<1>1. CASE SiteChanges
  BY <1>1, SiteStep
<1>2. CASE GameTimeComes \/ NightFalls \/ TriggerFires
  BY <1>2, ClockStep
<1>3. CASE CrawlSucceeds
  BY <1>3, CrawlStep
<1>4. CASE ProcessRestarts
  BY <1>4, RestartStep
<1>5. ASSUME NEW t \in Tick, TickStarts(t) \/ TickStep(t) PROVE IInv'
  BY <1>5, StartStep, ArriveStep, ProgressStep, AgainStep, FinishStep, SettleStep DEF TickStep
<1>6. ASSUME NEW f \in Fan, ReadsGame(f) \/ Registers(f) PROVE IInv'
  BY <1>6, ReadStep, RegisterStep
<1>7. CASE UNCHANGED vars
  BY <1>7, StutterStep
<1> QED
  BY <1>1, <1>2, <1>3, <1>4, <1>5, <1>6, <1>7 DEF Next

LEMMA Invariance == Spec => []IInv
<1>1. Init => IInv
  BY IInvInit
<1>2. IInv /\ [Next]_vars => IInv'
  BY IInvNext
<1> QED
  BY <1>1, <1>2, PTL DEF Spec

-----------------------------------------------------------------------------
\* Every variable of the game's day keeps its type, whatever arrives.
THEOREM TypeCorrect == Spec => []TypeOK
<1>1. IInv => TypeOK
  BY DEF IInv
<1> QED
  BY <1>1, Invariance, PTL

\* No fan is ever told a win or a loss that the game's final score does not give,
\* for any number of overlapping ticks, restarts, crawls and failed saves.
THEOREM DecisiveResults == Spec => []DecisiveResultsRight
<1>1. IInv => DecisiveResultsRight
  BY DEF IInv
<1> QED
  BY <1>1, Invariance, PTL

\* While the game's day lasts the score job is there until the game is over,
\* however many pages fail and however often the process restarts.
THEOREM JobOutlastsGame == Spec => []StoppedMeansOver
<1>1. IInv => StoppedMeansOver
  BY DEF IInv, JobOK, StoppedMeansOver
<1> QED
  BY <1>1, Invariance, PTL

-----------------------------------------------------------------------------
(* The result of the day stays, as long as no tick outlives its minute.     *)

\* The scheduler starts a tick every minute; none is still under way then.
OneInFlight == \A s, t \in Tick : pc[s] # "idle" /\ pc[t] # "idle" => s = t

\* A row that holds a result holds the one the site shows.
RowRight(row) == row.status \in FinalStatus => row.status = site.status

\* Ticks start after the game's time; on its day the tick in flight works on the
\* row as it is, and one with a running score works on a row without a result.
KInv ==
  /\ IInv
  /\ RowRight(game)
  /\ \A t \in Tick : pc[t] \in {"loaded", "reloaded"} => RowRight(ent[t])
  /\ day = "morning" => job # "running" /\ \A t \in Tick : pc[t] = "idle"
  /\ day = "play" => \A t \in Tick :
       /\ pc[t] \in {"loaded", "reloaded"} => ent[t] = game
       /\ pc[t] # "idle" /\ got[t].status \notin FinalStatus \cup {Null}
            => game.status \notin FinalStatus

\* The site shows "before" until play starts.
LEMMA KInvInit == ASSUME Init PROVE KInv
<1>1. IInv
  BY IInvInit
<1> QED
  BY <1>1 DEF Init, KInv, RowRight, FinalStatus, GameStatus

\* What the saves write: the status of a page that has one, or the row's own.
LEMMA SavedStatus ==
  ASSUME KInv, NEW t \in Tick, pc[t] \in {"loaded", "reloaded"}
  PROVE  /\ InProgress(ent[t], got[t]) \in Row
         /\ RowRight(InProgress(ent[t], got[t]))
         /\ InProgress(ent[t], got[t]).status \in FinalStatus =>
              got[t].status \in FinalStatus \/ got[t].status = Null
         /\ InProgress(ent[t], got[t]).winner = ent[t].winner
<1>1. ent[t] \in Row /\ got[t] \in Page /\ RowRight(ent[t])
  BY DEF KInv, IInv, TicksOK, TypeOK
<1>2. got[t].status \in FinalStatus => got[t].status = site.status
  BY DEF KInv, IInv, PagesOK
<1>3. InProgress(ent[t], got[t]) \in Row /\ InProgress(ent[t], got[t]).winner = ent[t].winner
  BY <1>1, InProgressOK
<1>4. InProgress(ent[t], got[t]).status =
        IF got[t].status = Null THEN ent[t].status ELSE got[t].status
  BY <1>1 DEF InProgress, Row
<1> QED
  BY <1>1, <1>2, <1>3, <1>4 DEF RowRight

\* The finished game's save and the crawl write what the site shows, whole.
LEMMA FinishedStatus ==
  ASSUME KInv, NEW t \in Tick, pc[t] = "reloaded"
  PROVE  /\ Finished(ent[t], got[t]).status = site.status
         /\ site.status \in FinalStatus
         /\ ent[t].winner # NoTeam => Finished(ent[t], got[t]).winner = ent[t].winner
<1>1. ent[t] \in Row /\ WinnerOK(ent[t]) /\ got[t] = site /\ site.status \in FinalStatus
  BY DEF KInv, IInv, TicksOK, PagesOK
<1> DEFINE new == InProgress(ent[t], site)
<1>2. new \in Row /\ new.winner = ent[t].winner /\ new.status = site.status
      /\ new.homeScore = site.homeScore /\ new.awayScore = site.awayScore
  BY <1>1, JobAssumption DEF InProgress, Row, Page, KInv, IInv, TypeOK
<1>3. Finished(ent[t], got[t]) = [new EXCEPT !.winner = DetermineWinner(new, Home, Away)]
  BY <1>1 DEF Finished
<1>4. ASSUME ent[t].winner # NoTeam PROVE DetermineWinner(new, Home, Away) = ent[t].winner
  <2>1. site.status = "ended" /\ ent[t].winner = SiteWinner
    BY <1>1, <1>4 DEF WinnerOK
  <2>2. DetermineWinner(new, Home, Away) = SiteWinner
    BY <1>2, <2>1 DEF DetermineWinner, SiteWinner
  <2> QED
    BY <2>1, <2>2
<1> HIDE DEF new
<1> QED
  BY <1>1, <1>2, <1>3, <1>4 DEF Row

LEMMA UpsertedStatus ==
  ASSUME IInv
  PROVE  /\ Upserted(game, Scheduled(site)).status = site.status
         /\ game.winner # NoTeam => Upserted(game, Scheduled(site)).winner = game.winner
<1> DEFINE page == Scheduled(site)
           new  == [status |-> page.status, homeScore |-> page.homeScore,
                    awayScore |-> page.awayScore, winner |-> game.winner]
<1>1. page.status = site.status /\ (site.status = "ended" => page = site)
  BY DEF Scheduled, NoPage
<1>2. Upserted(game, page) = [new EXCEPT !.winner = DetermineWinner(new, Home, Away)]
  BY DEF Upserted
<1>3. new.status = site.status /\ new.winner = game.winner
  BY <1>1
<1>4. ASSUME game.winner # NoTeam PROVE DetermineWinner(new, Home, Away) = game.winner
  <2>1. site.status = "ended" /\ game.winner = SiteWinner
    BY <1>4 DEF IInv, WinnerOK
  <2>2. DetermineWinner(new, Home, Away) = SiteWinner
    BY <1>1, <2>1 DEF DetermineWinner, SiteWinner
  <2> QED
    BY <2>1, <2>2
<1> QED
  BY <1>1, <1>2, <1>3, <1>4

\* The site moves on only before its last status: no row holds a result yet.
LEMMA SiteKeeps == ASSUME KInv, SiteChanges, IInv' PROVE KInv'
<1>1. site.status \notin FinalStatus
  BY SiteFinal
<1>2. game.status \notin FinalStatus
      /\ \A t \in Tick : pc[t] \in {"loaded", "reloaded"} => ent[t].status \notin FinalStatus
  BY <1>1 DEF KInv, RowRight
<1> QED
  BY <1>2 DEF SiteChanges, tickVars, KInv, RowRight

\* The clock, the trigger, the fans and the bulk update leave row, page and copy
\* alone; the day begins with no tick under way.
LEMMA OthersKeep ==
  ASSUME KInv, IInv', UNCHANGED <<site, game, got, ent>>,
         \/ UNCHANGED <<day, job, pc>>
         \/ GameTimeComes
         \/ NightFalls
         \/ TriggerFires
         \/ UNCHANGED <<day, job>> /\ \E t \in Tick : pc' = [pc EXCEPT ![t] = "idle"]
  PROVE  KInv'
<1>1. CASE UNCHANGED <<day, job, pc>>
  BY <1>1 DEF KInv, RowRight
<1>2. CASE GameTimeComes
  BY <1>2 DEF KInv, RowRight, GameTimeComes, tickVars
<1>3. CASE NightFalls
  BY <1>3 DEF KInv, RowRight, NightFalls, tickVars
<1>4. CASE TriggerFires
  BY <1>4 DEF KInv, RowRight, TriggerFires, tickVars
<1>5. ASSUME UNCHANGED <<day, job>>, NEW t \in Tick, pc' = [pc EXCEPT ![t] = "idle"]
      PROVE  KInv'
  BY <1>5 DEF KInv, RowRight, IInv, TypeOK
<1> QED
  BY <1>1, <1>2, <1>3, <1>4, <1>5

\* A crawl and a restart write the site's status; a restart ends every tick.
LEMMA CrawlKeeps == ASSUME KInv, CrawlSucceeds, IInv' PROVE KInv'
BY UpsertedStatus DEF CrawlSucceeds, tickVars, KInv, RowRight

LEMMA RestartKeeps == ASSUME KInv, ProcessRestarts, IInv' PROVE KInv'
<1>1. RowRight(game)'
  BY UpsertedStatus DEF ProcessRestarts, KInv, RowRight
<1>2. \A t \in Tick : pc'[t] = "idle"
  BY DEF ProcessRestarts
<1>3. day' = "morning" => job' # "running"
  BY DEF ProcessRestarts, JobAfterSetup
<1> QED
  BY <1>1, <1>2, <1>3 DEF KInv

\* A new tick asks a site that has no result, or gets the result.
LEMMA StartKeeps == ASSUME KInv, NEW t \in Tick, TickStarts(t), IInv' PROVE KInv'
<1> USE DEF TickStarts
<1>1. day # "morning" /\ UNCHANGED <<site, day, game, job, ent>>
  BY DEF KInv
<1>2. got'[t] \in Readings /\ \A q \in Tick \ {t} : got'[q] = got[q]
  BY DEF KInv, IInv, TypeOK
<1>3. got'[t].status \in {site.status, Null}
  BY <1>2, ReadingsOK DEF KInv, IInv
<1>4. pc'[t] = "waiting" /\ \A q \in Tick \ {t} : pc'[q] = pc[q]
  BY DEF KInv, IInv, TypeOK
<1>5. \A q \in Tick : pc'[q] \in {"loaded", "reloaded"} => q # t /\ pc[q] = pc'[q]
  BY <1>4
<1>6. ASSUME NEW q \in Tick, day = "play", pc'[q] # "idle",
             got'[q].status \notin FinalStatus \cup {Null}
      PROVE  game.status \notin FinalStatus
  <2>1. CASE q = t
    BY <1>3, <1>6, <2>1 DEF KInv, RowRight
  <2>2. CASE q # t
    BY <1>2, <1>4, <1>6, <2>2 DEF KInv
  <2> QED
    BY <2>1, <2>2
<1> QED
  BY <1>1, <1>5, <1>6 DEF KInv, RowRight

\* A tick that loads the row has it as it is.
LEMMA LoadKeeps ==
  ASSUME KInv, NEW t \in Tick, PageArrives(t) \/ LoadsAgain(t), IInv'
  PROVE  KInv'
<1>1. UNCHANGED <<site, day, game, got>> /\ pc[t] # "idle"
      /\ \A q \in Tick \ {t} : pc'[q] = pc[q] /\ ent'[q] = ent[q]
  BY DEF PageArrives, LoadsAgain, CheckFinal, KInv, IInv, TypeOK
<1>2. pc'[t] \in {"loaded", "reloaded"} => ent'[t] = game
  BY DEF PageArrives, LoadsAgain, CheckFinal, KInv, IInv, TypeOK
<1>3. day # "morning"
  BY <1>1 DEF KInv
<1> QED
  BY <1>1, <1>2, <1>3 DEF KInv, RowRight

\* A save writes a result only from the site's last page or over a result, and
\* no other tick is under way.
LEMMA ProgressKeeps ==
  ASSUME KInv, OneInFlight, NEW t \in Tick, SavesProgress(t), IInv'
  PROVE  KInv'
<1>1. pc[t] = "loaded" /\ UNCHANGED <<site, day, got, ent>>
      /\ game' \in {InProgress(ent[t], got[t]), game}
  BY DEF SavesProgress
<1>2. RowRight(game)'
  BY <1>1, SavedStatus DEF KInv, RowRight
<1>3. \A q \in Tick : q # t => pc'[q] = "idle"
  BY <1>1 DEF OneInFlight, SavesProgress, CheckFinal, KInv, IInv, TypeOK
<1>4. pc'[t] = "idle" \/ (pc'[t] = "ending" /\ got[t].status \in FinalStatus)
  BY DEF SavesProgress, CheckFinal, KInv, IInv, TypeOK
<1>5. day # "morning"
  BY <1>1 DEF KInv
<1> QED
  BY <1>1, <1>2, <1>3, <1>4, <1>5 DEF KInv

LEMMA FinishKeeps ==
  ASSUME KInv, OneInFlight, NEW t \in Tick, SavesFinish(t), IInv'
  PROVE  KInv'
<1>1. pc[t] = "reloaded" /\ UNCHANGED <<site, day, got, ent>>
      /\ game' \in {Finished(ent[t], got[t]), game}
  BY DEF SavesFinish
<1>2. RowRight(game)'
  BY <1>1, FinishedStatus DEF KInv, RowRight
<1>3. \A q \in Tick : q # t => pc'[q] = "idle"
  BY <1>1 DEF OneInFlight, SavesFinish, KInv, IInv, TypeOK
<1>4. pc'[t] \in {"idle", "settling"} /\ got[t].status \in FinalStatus
  BY <1>1 DEF SavesFinish, KInv, IInv, TypeOK, TicksOK
<1>5. day # "morning"
  BY <1>1 DEF KInv
<1> QED
  BY <1>1, <1>2, <1>3, <1>4, <1>5 DEF KInv

LEMMA KInvNext == ASSUME KInv, OneInFlight, [Next]_vars PROVE KInv'
<1>1. IInv'
  BY IInvNext DEF KInv
<1>2. CASE SiteChanges
  BY <1>1, <1>2, SiteKeeps
<1>3. CASE GameTimeComes \/ NightFalls \/ TriggerFires
  BY <1>1, <1>3, OthersKeep DEF GameTimeComes, NightFalls, TriggerFires, tickVars
<1>4. CASE CrawlSucceeds
  BY <1>1, <1>4, CrawlKeeps
<1>5. CASE ProcessRestarts
  BY <1>1, <1>5, RestartKeeps
<1>6. ASSUME NEW t \in Tick, Settles(t) PROVE KInv'
  BY <1>1, <1>6, OthersKeep DEF Settles
<1>7. ASSUME NEW t \in Tick, TickStarts(t) \/ TickStep(t) PROVE KInv'
  BY <1>1, <1>6, <1>7, StartKeeps, LoadKeeps, ProgressKeeps, FinishKeeps DEF TickStep
<1>8. ASSUME NEW f \in Fan, ReadsGame(f) \/ Registers(f) PROVE KInv'
  BY <1>1, <1>8, OthersKeep DEF ReadsGame, Registers, tickVars
<1>9. CASE UNCHANGED vars
  BY <1>1, <1>9, OthersKeep DEF vars, tickVars
<1> QED
  BY <1>2, <1>3, <1>4, <1>5, <1>7, <1>8, <1>9 DEF Next

\* What a step may do to a row that holds a result.
KeepsResult ==
  day = "play" /\ game.status \in FinalStatus =>
    /\ game'.status = game.status
    /\ game.winner # NoTeam => game'.winner = game.winner

LEMMA ResultKept == ASSUME KInv, [Next]_vars PROVE KeepsResult
<1> SUFFICES ASSUME day = "play", game.status \in FinalStatus
             PROVE  /\ game'.status = game.status
                    /\ game.winner # NoTeam => game'.winner = game.winner
  BY DEF KeepsResult
<1>1. site.status = game.status
  BY DEF KInv, RowRight
<1>2. CASE ProcessRestarts
  BY <1>1, <1>2, UpsertedStatus DEF KInv, ProcessRestarts
<1>3. ASSUME NEW t \in Tick, SavesProgress(t), game' = InProgress(ent[t], got[t])
      PROVE  game'.status = game.status /\ game'.winner = game.winner
  <2>1. pc[t] = "loaded" /\ ent[t] = game
    BY <1>3 DEF SavesProgress, KInv
  <2>2. got[t].status \in FinalStatus \cup {Null}
    BY <2>1 DEF KInv
  <2>3. got[t].status \in FinalStatus => got[t].status = site.status
    BY DEF KInv, IInv, PagesOK
  <2>4. game'.status = IF got[t].status = Null THEN game.status ELSE got[t].status
    BY <1>3, <2>1 DEF InProgress, KInv, IInv, TypeOK, Row
  <2>5. game'.winner = game.winner
    BY <1>3, <2>1, SavedStatus
  <2> QED
    BY <1>1, <2>2, <2>3, <2>4, <2>5
<1>4. ASSUME NEW t \in Tick, SavesFinish(t), game' = Finished(ent[t], got[t])
      PROVE  game'.status = game.status /\ (game.winner # NoTeam => game'.winner = game.winner)
  <2>1. pc[t] = "reloaded" /\ ent[t] = game
    BY <1>4 DEF SavesFinish, KInv
  <2> QED
    BY <1>1, <1>4, <2>1, FinishedStatus
<1>5. CASE UNCHANGED game
  BY <1>5
<1>6. ASSUME NEW t \in Tick, TickStarts(t) \/ TickStep(t)
      PROVE  UNCHANGED game \/ (SavesProgress(t) /\ game' = InProgress(ent[t], got[t]))
                            \/ (SavesFinish(t) /\ game' = Finished(ent[t], got[t]))
  BY <1>6 DEF TickStarts, TickStep, PageArrives, SavesProgress, LoadsAgain, SavesFinish, Settles
<1>7. CASE SiteChanges \/ GameTimeComes \/ NightFalls \/ TriggerFires \/ CrawlSucceeds
  BY <1>7 DEF SiteChanges, GameTimeComes, NightFalls, TriggerFires, CrawlSucceeds
<1>8. ASSUME NEW f \in Fan, ReadsGame(f) \/ Registers(f) PROVE UNCHANGED game
  BY <1>8 DEF ReadsGame, Registers
<1>9. CASE UNCHANGED vars
  BY <1>9 DEF vars
<1> QED
  BY <1>2, <1>3, <1>4, <1>5, <1>6, <1>7, <1>8, <1>9 DEF Next

\* On its day no save and no restart takes the game's result back, whatever pages
\* fail and saves are lost, as long as no tick outlives its minute.
THEOREM ResultOutlastsDay == Spec /\ []OneInFlight => ResultStays
<1>1. Init => KInv
  BY KInvInit
<1>2. KInv /\ OneInFlight /\ [Next]_vars => KInv'
  BY KInvNext
<1>3. KInv /\ [Next]_vars => [KeepsResult]_vars
  BY ResultKept
<1> QED
  BY <1>1, <1>2, <1>3, PTL DEF Spec, ResultStays, KeepsResult
=============================================================================
