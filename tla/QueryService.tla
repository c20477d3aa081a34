---------------------------- MODULE QueryService ----------------------------
(***************************************************************************)
(* query-service: GET /campaigns and GET /campaigns/:id answered from      *)
(* campaign_stats while the writers of CampaignStats work on it, and the   *)
(* shutdown of cmd/main.go.                                                *)
(*                                                                         *)
(* A client has one request at a time.  Its handler runs one statement,    *)
(* which sees the committed rows of one instant.  A request without an id  *)
(* does not reach GetCampaignByID: fiber routes "/campaigns/" to the list. *)
(***************************************************************************)
EXTENDS CampaignStats

CONSTANTS Clients,
          All,       \* the path /campaigns
          MaxAsks    \* bound: requests of one client

Campaigns == {e.camp : e \in Events}

ASSUME AllIsNoCampaign == All \notin Campaigns
ASSUME MaxAsksType == MaxAsks \in Nat

VARIABLES
    server,  \* where main is
    req,     \* req[c]: how far the request of client c is
    path,    \* path[c]: the campaign it asks for, or All
    found,   \* found[c]: what the repository returned: a set of rows with their totals
    asks,    \* asks[c]: requests so far
    \* --- history
    before,  \* before[c]: campaign_stats when client c asked
    shown    \* shown[c]: campaigns in an answer that was sent before client c asked

readVars == <<server, req, path, found, asks, before, shown>>
qvars == <<vars, readVars>>

QInit ==
    /\ Init
    /\ server = "running"
    /\ req = [c \in Clients |-> "none"]
    /\ path = [c \in Clients |-> All]
    /\ found = [c \in Clients |-> {}]
    /\ asks = [c \in Clients |-> 0]
    /\ before = [c \in Clients |-> Nothing]
    /\ shown = [c \in Clients |-> {}]

\* A row is in the table once something was added to it.
Present(k) == \E t \in Types : stats[<<k, t>>] > 0
Totals(k) == [row |-> k, total |-> [t \in Types |-> stats[<<k, t>>]]]
Table == {Totals(k) : k \in {k \in Rows : Present(k)}}

Asked == {c \in Clients : req[c] \in {"asked", "read", "failed"}}
Answered == {c \in Clients : req[c] = "ok"}

\* The server accepts connections until app.Shutdown.
Ask(c, p) ==
    /\ server = "running"
    /\ c \notin Asked
    /\ asks[c] < MaxAsks
    /\ asks' = [asks EXCEPT ![c] = @ + 1]
    /\ req' = [req EXCEPT ![c] = "asked"]
    /\ path' = [path EXCEPT ![c] = p]
    /\ found' = [found EXCEPT ![c] = {}]
    /\ before' = [before EXCEPT ![c] = stats]
    /\ shown' = [shown EXCEPT ![c] = @ \cup UNION {{r.row[1] : r \in found[o]} : o \in Answered}]
    /\ UNCHANGED server

\* Mutant: the rows of the newest hour only.
SelectAll_Newest(c) ==
    /\ path[c] = All
    /\ found' = [found EXCEPT ![c] = {r \in Table : \A o \in Table : o.row[2] <= r.row[2]}]

\* GetAllCampaigns selects every row.
SelectAll(c) ==
    /\ path[c] = All
    /\ found' = [found EXCEPT ![c] = Table]

\* Mutant: the row of the newest hour only.
GetByID_Newest(c) ==
    LET Newest == {r \in Table : \A o \in Table : o.row[2] <= r.row[2]}
        Rs == {r \in Newest : r.row[1] = path[c]} IN
    /\ path[c] # All
    /\ \/ \E r \in Rs : found' = [found EXCEPT ![c] = {r}]
       \/ Rs = {} /\ found' = [found EXCEPT ![c] = {}]

\* GetCampaignByID takes the first of the campaign's rows, in no stated order;
\* sql.ErrNoRows is no error.
GetByID(c) ==
    LET Rs == {r \in Table : r.row[1] = path[c]} IN
    /\ path[c] # All
    /\ \/ \E r \in Rs : found' = [found EXCEPT ![c] = {r}]
       \/ Rs = {} /\ found' = [found EXCEPT ![c] = {}]

Read(c) ==
    /\ req[c] = "asked"
    /\ SelectAll(c) \/ GetByID(c)
    /\ req' = [req EXCEPT ![c] = "read"]
    /\ UNCHANGED <<server, path, asks, before, shown>>

\* The statement fails.
ReadFails(c) ==
    /\ req[c] = "asked"
    /\ req' = [req EXCEPT ![c] = "failed"]
    /\ UNCHANGED <<server, path, found, asks, before, shown>>

\* 500, 404 for a campaign without a row, 200.
Verdict(c) ==
    CASE req[c] = "failed" -> "error"
      [] req[c] = "read" /\ path[c] # All /\ found[c] = {} -> "missing"
      [] OTHER -> "ok"

Answer(c) ==
    /\ req[c] \in {"read", "failed"}
    /\ req' = [req EXCEPT ![c] = Verdict(c)]
    /\ UNCHANGED <<server, path, found, asks, before, shown>>

\* The signal: app.Shutdown closes the listener.
Shutdown ==
    /\ server = "running"
    /\ server' = "stopping"
    /\ UNCHANGED <<req, path, found, asks, before, shown>>

\* Mutant: the database is closed when the signal arrives.
Stop_Unwaited ==
    /\ server = "stopping"
    /\ server' = "stopped"
    /\ UNCHANGED <<req, path, found, asks, before, shown>>

\* app.Shutdown returns when no connection is served; main closes the database.
Stop ==
    /\ server = "stopping"
    /\ Asked = {}
    /\ server' = "stopped"
    /\ UNCHANGED <<req, path, found, asks, before, shown>>

\* A handler, while the process lives.
Handle(c) == server # "stopped" /\ (Read(c) \/ ReadFails(c) \/ Answer(c))

QNext ==
    \/ Next /\ UNCHANGED readVars
    \/ /\ \/ \E c \in Clients : (\E p \in Campaigns \cup {All} : Ask(c, p)) \/ Handle(c)
          \/ Shutdown \/ Stop
       /\ UNCHANGED vars

QSpec == QInit /\ [][QNext]_qvars

\* fiber runs the handlers it has accepted, main goes on, and the writers are fair as
\* in CampaignStats.
QFairSpec ==
    /\ QSpec
    /\ \A j \in Jobs : SF_qvars(Progress(j) /\ UNCHANGED readVars)
    /\ \A c \in Clients : WF_qvars(Handle(c) /\ UNCHANGED vars)
    /\ WF_qvars(Stop /\ UNCHANGED vars)

-----------------------------------------------------------------------------
(* Properties                                                              *)

Statuses == {"none", "asked", "read", "failed", "ok", "missing", "error"}

\* Types.  When the database is closed no request is left.
QTypeOK ==
    /\ server = "stopped" => Asked = {}
    /\ server \in {"running", "stopping", "stopped"}
    /\ req \in [Clients -> Statuses]
    /\ path \in [Clients -> Campaigns \cup {All}]
    /\ found \in [Clients -> SUBSET [row : Rows, total : [Types -> 0..MaxInt]]]
    /\ shown \in [Clients -> SUBSET Campaigns]
    /\ asks \in [Clients -> 0..MaxAsks]

\* An answer shows totals that were true between the question and now: what every
\* transaction that had committed before the question added is in, what a running
\* one adds is not.
AnswersCurrent ==
    \A c \in Answered : \A r \in found[c] : \A t \in Types :
        before[c][<<r.row, t>>] <= r.total[t] /\ r.total[t] <= stats[<<r.row, t>>]

\* The list has every row that was there when the client asked.
ListComplete ==
    \A c \in Answered : path[c] = All =>
        \A k \in Rows : (\E t \in Types : before[c][<<k, t>>] > 0) => \E r \in found[c] : r.row = k

\* A campaign that was in an answer before the client asked is not missing, whatever
\* hours were added since and whichever of its rows Postgres returns.
FoundStaysFound == \A c \in Clients : req[c] = "missing" => path[c] \notin shown[c]

\* A request that was accepted is answered, also when the server is asked to stop.
EveryAskEnds == \A c \in Clients : c \in Asked ~> c \notin Asked
=============================================================================
