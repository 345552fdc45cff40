------------------------------ MODULE GameRules ------------------------------
(***************************************************************************)
(* The rules the domain entities apply, without any state: how a game's    *)
(* winner follows from its row, which result a registration of the game    *)
(* gets, and how a result changes when the fan switches sides.             *)
(*                                                                         *)
(* A game's status text is one of five classes, the classes the code tells *)
(* apart:                                                                  *)
(*   "before"     the schedule's pre-game text                             *)
(*   "live"       an inning text, or any other                             *)
(*   "ended"      the finished text                                        *)
(*   "cancelled"  any text that ends in the word for cancellation          *)
(*   "voided"     the two remaining no-game texts (ground, other), which   *)
(*                void a registration but do not stop the score job        *)
(***************************************************************************)
EXTENDS Integers

CONSTANT NoTeam      \* a null team reference: no winner, or not yet

GameStatus == {"before", "live", "ended", "cancelled", "voided"}

\* The columns of a rank row; "NoGame" is the column "cancel".
Result == {"Win", "Lose", "Tie", "NoGame"}

\* A registration of an unfinished game has the status null.
Pending == "Pending"

RegStatus == Result \cup {Pending}

NoGameStatus == {"cancelled", "voided"}

\* The statuses at which the one-minute score job stops itself.
FinalStatus == {"ended", "cancelled"}

DetermineStatus(status, winner, team) ==
  CASE status \in NoGameStatus -> "NoGame"
    [] status = "ended"        -> IF winner = NoTeam THEN "Tie"
                                  ELSE IF winner = team THEN "Win" ELSE "Lose"
    [] OTHER                   -> Pending

\* Mutant: a loss is not turned into a win.
FlippedWinsOnly(result) == IF result = "Win" THEN "Lose" ELSE result

\* The result after the registration's cheering team was replaced.
Flipped(result) ==
  CASE result = "Win"  -> "Lose"
    [] result = "Lose" -> "Win"
    [] OTHER           -> result

\* The winner a finished row gets from its scores; other rows keep theirs.
DetermineWinner(row, home, away) ==
  IF row.status # "ended" THEN row.winner
  ELSE CASE row.homeScore > row.awayScore -> home
         [] row.homeScore < row.awayScore -> away
         [] OTHER                         -> NoTeam
=============================================================================
