--------------------------- MODULE MCScheduleUpsert ---------------------------
(***************************************************************************)
(* An instance of ScheduleUpsert for TLC: two matches this month and one   *)
(* the next.                                                               *)
(***************************************************************************)
EXTENDS ScheduleUpsert

CONSTANTS b1, b2, b3

MCMonthOf == [b \in Match |-> IF b = b3 THEN "next" ELSE "this"]
=============================================================================
