--------------------------- MODULE ArchiveContract ---------------------------
(***************************************************************************)
(* What the archive promises its caller, with no buffer, no goroutine and  *)
(* no channel: the interface Archiver { Enqueue; Close } of                *)
(* worker-service/internal/archive/archiver.go.                            *)
(*                                                                         *)
(*   - a record that Enqueue accepted belongs to one status for ever;      *)
(*   - only accepted records reach the bucket, and under their own status; *)
(*   - once closing has begun nothing more is accepted;                    *)
(*   - Close returns only when every accepted record is in the bucket or   *)
(*     has had an upload refused, and from then on nothing happens.        *)
(*                                                                         *)
(* BatchArchiver implements this contract when nobody calls Flush beside   *)
(* the archiver's own two flushers.                                        *)
(***************************************************************************)

CONSTANTS Records,   \* one token per call of Enqueue
          Statuses   \* the prefixes: raw, duplicate, fraud, accepted

VARIABLES phase,     \* "open", "closing" (Close was called), "closed" (it returned)
          accepted,  \* accepted[s]: records Enqueue(s, _) returned nil for
          stored,    \* stored[s]: records in some object under prefix s
          refused    \* records that were in a batch whose upload returned an error

cvars == <<phase, accepted, stored, refused>>

CInit ==
    /\ phase = "open"
    /\ accepted = [s \in Statuses |-> {}]
    /\ stored = [s \in Statuses |-> {}]
    /\ refused = {}

Accept(s, r) ==
    /\ phase = "open"
    /\ \A t \in Statuses : r \notin accepted[t]
    /\ accepted' = [accepted EXCEPT ![s] = @ \cup {r}]
    /\ UNCHANGED <<phase, stored, refused>>

\* One upload of the batch R: the bucket takes it, or the caller is told it
\* did not, or both (the object was written and the answer was lost).
Attempt(s, R) ==
    /\ phase # "closed"
    /\ R \subseteq accepted[s]
    /\ \/ /\ stored' = [stored EXCEPT ![s] = @ \cup R]
          /\ UNCHANGED refused
       \/ /\ refused' = refused \cup R
          /\ UNCHANGED stored
       \/ /\ stored' = [stored EXCEPT ![s] = @ \cup R]
          /\ refused' = refused \cup R
    /\ UNCHANGED <<phase, accepted>>

BeginClose ==
    /\ phase = "open"
    /\ phase' = "closing"
    /\ UNCHANGED <<accepted, stored, refused>>

EndClose ==
    /\ phase = "closing"
    /\ \A s \in Statuses : accepted[s] \subseteq stored[s] \cup refused
    /\ phase' = "closed"
    /\ UNCHANGED <<accepted, stored, refused>>

CNext ==
    \/ \E s \in Statuses, r \in Records : Accept(s, r)
    \/ \E s \in Statuses, R \in SUBSET Records : Attempt(s, R)
    \/ BeginClose
    \/ EndClose

CSpec == CInit /\ [][CNext]_cvars
=============================================================================
