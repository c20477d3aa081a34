--------------------------- MODULE MCQueryService ---------------------------
(* A finite instance of QueryService for TLC. *)
EXTENDS QueryService

\* An event of campaign c at half hour h of a clock z half hours ahead of UTC.
Ev(c, h, z) == [camp |-> c, type |-> "click", at |-> h, zone |-> z]

\* Noon in UTC, the same hour of the column from another zone, and the hour after it, all of
\* one campaign; an event of another one.
A1 == Ev("a", 24, 0)
A2 == Ev("a", 20, 4)
A3 == Ev("a", 26, 0)
B1 == Ev("b", 28, 0)

MCSingles == {A1, B1}
MCBatches == {<<A1, A2, A3>>}
=============================================================================
