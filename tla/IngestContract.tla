--------------------------- MODULE IngestContract ---------------------------
(***************************************************************************)
(* What POST /event and POST /events/batch promise a client, with no       *)
(* process, producer or retry.  A post is one HTTP request; it carries     *)
(* items, the events of the request that can be written as JSON, of which  *)
(* some may reach the topic raw-events.  An event that cannot is not       *)
(* carried: no answer promises anything of it, also not the "count" of 202.*)
(*                                                                         *)
(*   - "accepted" (202) is answered only when every item is in the topic,  *)
(*     and there is one;                                                   *)
(*   - "refused" (400) is answered only when none is, and none follows;    *)
(*   - after "failed" (500) any part may be in the topic, but nothing of   *)
(*     the post is added any more;                                         *)
(*   - a post without an answer promises nothing.                          *)
(***************************************************************************)

CONSTANTS Posts,  \* HTTP requests
          Items   \* positions of events in a request

VARIABLES carried,  \* carried[a]: the items of post a
          topic,    \* <<a, i>>: item i of post a is in the topic
          verdict   \* verdict[a]: what the client was told

ivars == <<carried, topic, verdict>>

Verdicts == {"none", "accepted", "refused", "failed"}

IInit ==
    /\ carried \in [Posts -> SUBSET Items]
    /\ topic = {}
    /\ verdict = [a \in Posts |-> "none"]

Publish(a, i) ==
    /\ verdict[a] = "none"
    /\ i \in carried[a]
    /\ topic' = topic \cup {<<a, i>>}
    /\ UNCHANGED <<carried, verdict>>

Tell(a, v) ==
    /\ verdict[a] = "none"
    /\ v = "accepted" => carried[a] # {} /\ \A i \in carried[a] : <<a, i>> \in topic
    /\ v = "refused" => \A i \in carried[a] : <<a, i>> \notin topic
    /\ verdict' = [verdict EXCEPT ![a] = v]
    /\ UNCHANGED <<carried, topic>>

INext ==
    \E a \in Posts :
        \/ \E i \in carried[a] : Publish(a, i)
        \/ \E v \in Verdicts \ {"none"} : Tell(a, v)

ISpec == IInit /\ [][INext]_ivars
=============================================================================
