---------------------------- MODULE MCCollector ----------------------------
(* A finite instance of Collector for TLC. *)
EXTENDS Collector, TLC

CONSTANT k1  \* an id given by a client

Ev(i) == [id |-> i, complete |-> TRUE, marshals |-> TRUE]
Partial == [id |-> k1, complete |-> FALSE, marshals |-> TRUE]
Odd == [id |-> k1, complete |-> TRUE, marshals |-> FALSE]
Single(e) == [batch |-> FALSE, parses |-> TRUE, events |-> <<e>>]
Batch(s) == [batch |-> TRUE, parses |-> TRUE, events |-> s]

\* A single event, one that is not complete, one that does not marshal, an empty batch,
\* batches with and without ids, with one and with only events that do not marshal, and
\* one that is too long.
SomeBodies == {Single(Ev(k1)), Single(Partial), Single(Odd),
               Batch(<<Ev(NoId), Odd>>), Batch(<<Odd, Odd>>),
               Batch(<<>>), Batch(<<Ev(k1), Ev(NoId)>>), Batch(<<Ev(NoId), Ev(NoId)>>),
               Batch(<<Ev(k1), Ev(k1), Ev(k1)>>)}

SomeIds == {k1}
=============================================================================
