---------------------------- MODULE MCIngestion -----------------------------
(* Small instances of Ingestion for TLC. *)
EXTENDS SyncConsistency, TLC

CONSTANTS b1, t1, t2, m1, m2

MCUsers == 1..2
MCFunds == [u \in MCUsers |-> 2]
MCKickoff == [m \in Matches |-> 1]
MCLater   == [m \in Matches |-> 2]

MCFees ==
  {[fee_type |-> "WINNER_FEE", rate |-> 2500, effective_from |-> 0],
   [fee_type |-> "NO_WINNER_FEE", rate |-> 2500, effective_from |-> 0]}

Goals(h, a) == [home |-> h, away |-> a]

Raw(m, date, status, fulltime, goals) ==
  [id |-> m, date |-> date, teams |-> TRUE, status |-> status,
   fulltime |-> fulltime, goals |-> goals]

None == Goals(NoOne, NoOne)

(* API-Football.  m1, which has bets, was drawn 1-1 and won in extra time; *)
(* m2, which at first only the provider knows, is in play, abandoned and   *)
(* once reported without its teams, or goalless and won in extra time.     *)
MCReports ==
  {Raw(m1, 1, "AET", Goals(1, 1), Goals(2, 1)),
   Raw(m2, 1, "1H", None, Goals(1, 0)), Raw(m2, 1, "ABD", None, None),
   Raw(m2, 1, "AET", Goals(0, 0), Goals(1, 0)),
   [Raw(m2, 1, "NS", None, None) EXCEPT !.teams = FALSE]}

(* Football-Data.org: the match is brought forward. *)
MCMoved == {Raw(m1, 0, "TIMED", None, None)}

Symmetry == Permutations(Workers)
=============================================================================
