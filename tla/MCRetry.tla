------------------------------- MODULE MCRetry -------------------------------
(* A three-step schedule whose sum (6) exceeds the duration (5): the      *)
(* schedule is exhausted and its last interval repeated before time runs  *)
(* out, and a call of f may straddle the deadline.                        *)
EXTENDS Retry

MCIntervals == <<1, 2, 3>>
=============================================================================
