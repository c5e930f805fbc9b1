------------------------------ MODULE MCLanes -------------------------------
(* Lanes on small instances. *)
EXTENDS Lanes, TLC

CONSTANTS q1, q2, q3, p1, p2

\* Two queries and two health checks, of which one each hangs.
MCRequest == {q1, q2, p1, p2}

\* Three queries.
MCQueries == {q1, q2, q3}

MCMethod == [r \in Request |-> IF r \in {p1, p2} THEN "lifecycle" ELSE "general"]
MCNature == [r \in Request |-> IF r = q1 THEN "stuck" ELSE IF r = p1 THEN "deaf" ELSE "quick"]

MCHungFirst == [r \in Request |-> IF r = q1 THEN "deaf" ELSE "quick"]
=============================================================================
