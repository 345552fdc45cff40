------------------------------ MODULE RankScore ------------------------------
(***************************************************************************)
(* RankScoreVo: the four counters of a user packed into the one number     *)
(* Redis sorts by.  The score proper, 1000 plus ten times the surplus of   *)
(* wins, is scaled by 10000 and the number of games is added as the tie    *)
(* breaker; the lists show the number divided by 10000 again.  The user's  *)
(* own page has a formula of its own for the same score, in which every    *)
(* game counts a thousandth.                                               *)
(***************************************************************************)
EXTENDS Integers, GameRules

BASE_SCORE == 1000
SCORE_MULTIPLIER == 10
SCALE_FACTOR == 10000

Counts == [Result -> Nat]

ZeroCounts == [c \in Result |-> 0]

TotalCount(n) == n["Win"] + n["Lose"] + n["Tie"] + n["NoGame"]

RawScore(n) == BASE_SCORE + (n["Win"] - n["Lose"]) * SCORE_MULTIPLIER

IntegerScoreForRedis(n) == RawScore(n) * SCALE_FACTOR + TotalCount(n)

ToDisplayScore(stored) == stored \div SCALE_FACTOR

\* Math.floor(rankScoreWithDecimal(...)), on the counters of the user's own page.
PageScore(n) == (RawScore(n) * 1000 + TotalCount(n)) \div 1000
=============================================================================
