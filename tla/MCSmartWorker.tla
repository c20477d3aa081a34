---------------------------- MODULE MCSmartWorker ----------------------------
(* Finite instances of SmartWorker for TLC. *)
EXTENDS SmartWorker, TLC

Event(i, a) == [ok |-> TRUE, id |-> i, ip |-> a]
Garbled == [ok |-> FALSE, id |-> CHOOSE i \in Ids : TRUE, ip |-> Blank]

\* Two events from one address.
HotLog == [p \in Partitions |-> <<Event("e1", "a"), Event("e2", "a")>>]

\* The same event produced twice, the second time without its address.
TwiceLog == [p \in Partitions |-> <<Event("e1", "a"), Event("e1", Blank)>>]

\* An event and a message that does not validate.
ShortLog == [p \in Partitions |-> <<Event("e1", "a"), Garbled>>]

\* Worker processes are interchangeable; used by safety runs only.
Symmetry == Permutations(Workers)
=============================================================================
