----------------------------- MODULE EventLedger -----------------------------
(***************************************************************************)
(* What the worker promises about events, with no partition, claim, Redis  *)
(* or Postgres (README.md, "Worker flow per event").  A key is an event id *)
(* in one life of its dedupe key, a try is one call of ProcessEvent:       *)
(*                                                                         *)
(*   - the key of an event is taken by one try of that event for ever;     *)
(*   - only a try that took a key is classified, once, as fraud or as      *)
(*     accepted;                                                           *)
(*   - only an accepted one is added to the aggregates, once, and only     *)
(*     then gets its row, once.                                            *)
(*                                                                         *)
(* It promises no progress: a try may stop anywhere on that way.           *)
(***************************************************************************)
EXTENDS Naturals

CONSTANTS Ids,      \* event ids
          Tries,    \* calls of ProcessEvent
          IdOf      \* IdOf[d]: the event id that try d is about

VARIABLES life,       \* life[id]: how often the dedupe key of id has expired
          taken,      \* [id, epoch, d]: try d took the key of id in this life of it
          flagged,    \* tries classified as fraud
          accepted,   \* tries classified as accepted
          counted,    \* tries added to the aggregates
          persisted   \* tries with a row

lvars == <<life, taken, flagged, accepted, counted, persisted>>

LInit ==
    /\ life = [id \in Ids |-> 0]
    /\ taken = {} /\ flagged = {} /\ accepted = {} /\ counted = {} /\ persisted = {}

HasKey(d) == \E x \in taken : x.d = d

Expire(id) ==
    /\ life' = [life EXCEPT ![id] = @ + 1]
    /\ UNCHANGED <<taken, flagged, accepted, counted, persisted>>

Take(d) ==
    LET id == IdOf[d] IN
    /\ ~HasKey(d)
    /\ ~\E x \in taken : x.id = id /\ x.epoch = life[id]
    /\ taken' = taken \cup {[id |-> id, epoch |-> life[id], d |-> d]}
    /\ UNCHANGED <<life, flagged, accepted, counted, persisted>>

Flag(d) ==
    /\ HasKey(d)
    /\ d \notin flagged \cup accepted
    /\ flagged' = flagged \cup {d}
    /\ UNCHANGED <<life, taken, accepted, counted, persisted>>

Accept(d) ==
    /\ HasKey(d)
    /\ d \notin flagged \cup accepted
    /\ accepted' = accepted \cup {d}
    /\ UNCHANGED <<life, taken, flagged, counted, persisted>>

Count(d) ==
    /\ d \in accepted \ counted
    /\ counted' = counted \cup {d}
    /\ UNCHANGED <<life, taken, flagged, accepted, persisted>>

Persist(d) ==
    /\ d \in counted \ persisted
    /\ persisted' = persisted \cup {d}
    /\ UNCHANGED <<life, taken, flagged, accepted, counted>>

LNext ==
    \/ \E id \in Ids : Expire(id)
    \/ \E d \in Tries : Take(d) \/ Flag(d) \/ Accept(d) \/ Count(d) \/ Persist(d)

LSpec == LInit /\ [][LNext]_lvars
=============================================================================
