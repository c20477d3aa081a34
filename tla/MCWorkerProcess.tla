-------------------------- MODULE MCWorkerProcess --------------------------
(* A finite instance of WorkerProcess for TLC. *)
EXTENDS WorkerProcess

\* An event after messages that do not get as far.
MCLog == [p \in Partitions |-> <<"invalid", "garbled", "event">>]

\* Defaults for the archive; no PORT, and so no defaults; no topics.
MCEnvs == {{"DB_URL", "KAFKA_TOPICS", "PORT"}, {"DB_URL", "KAFKA_TOPICS"},
           {"DB_URL", "PORT", "ARCHIVE_BACKEND"}}
=============================================================================
