------------------------- MODULE QueryServiceProofs -------------------------
(***************************************************************************)
(* What the answers of query-service show is true, for any clients and     *)
(* whatever the writers of campaign_stats do.                              *)
(***************************************************************************)
EXTENDS QueryService, CampaignStatsProofs

\* The totals when the client asked are not above those of now.
Old == before \in [Clients -> [Keys -> 0..MaxInt]]
       /\ \A c \in Clients : \A k \in Keys : before[c][k] <= stats[k]

\* Rows that were found lie between the two.
Between ==
    \A c \in Clients : \A r \in found[c] :
        /\ \A t \in Types : before[c][<<r.row, t>>] <= r.total[t] /\ r.total[t] <= stats[<<r.row, t>>]
        /\ \E t \in Types : r.total[t] > 0

NothingYet == \A c \in Clients : req[c] \in {"none", "asked", "failed", "error"} => found[c] = {}

Lists ==
    \A c \in Clients : path[c] = All /\ req[c] \in {"read", "ok"} =>
        \A k \in Rows : (\E t \in Types : before[c][<<k, t>>] > 0) => \E r \in found[c] : r.row = k

\* A campaign that was shown has a row, and is found when it is asked for.
Shown ==
    \A c \in Clients :
        /\ \A p \in shown[c] : \E k \in Rows : k[1] = p /\ Present(k)
        /\ path[c] \in shown[c] => req[c] # "missing" /\ (req[c] = "read" => found[c] # {})

Reading == QTypeOK /\ Old /\ Between /\ NothingYet /\ Lists /\ Shown
QInv == IInv /\ Reading

-----------------------------------------------------------------------------

LEMMA StatsFacts ==
    ASSUME IInv
    PROVE  /\ stats \in [Keys -> 0..MaxInt] /\ MaxInt \in Nat
           /\ \A k \in Keys : stats[k] \in Nat
<1>1. stats \in [Keys -> 0..MaxInt] /\ MaxInt \in Nat
  BY BoundsAssumption DEF IInv, TypeOK, Keys
<1> QED
  BY <1>1

LEMMA RowFacts == ASSUME NEW k \in Rows PROVE k[1] \in Campaigns /\ k[1] # All
BY AllIsNoCampaign DEF Rows, RowOf, Campaigns

LEMMA TableFacts ==
    ASSUME IInv
    PROVE  \A r \in Table : /\ r.row \in Rows /\ r.total \in [Types -> 0..MaxInt]
                            /\ Present(r.row)
                            /\ \A t \in Types : r.total[t] = stats[<<r.row, t>>]
<1> SUFFICES ASSUME NEW r \in Table
             PROVE  /\ r.row \in Rows /\ r.total \in [Types -> 0..MaxInt]
                    /\ Present(r.row)
                    /\ \A t \in Types : r.total[t] = stats[<<r.row, t>>]
  OBVIOUS
<1>1. PICK k \in Rows : Present(k) /\ r = Totals(k)
  BY DEF Table
<1>2. r.row = k /\ r.total = [t \in Types |-> stats[<<k, t>>]]
  BY <1>1 DEF Totals
<1>3. \A t \in Types : stats[<<k, t>>] \in 0..MaxInt
  BY StatsFacts DEF Keys
<1> QED
  BY <1>1, <1>2, <1>3

LEMMA TableHasAll == \A k \in Rows : Present(k) => \E r \in Table : r.row = k
<1> SUFFICES ASSUME NEW k \in Rows, Present(k) PROVE \E r \in Table : r.row = k
  OBVIOUS
<1>1. Totals(k) \in Table
  BY DEF Table
<1>2. Totals(k).row = k
  BY DEF Totals
<1> QED
  BY <1>1, <1>2

LEMMA QInitInv == QInit => QInv
<1> SUFFICES ASSUME QInit PROVE QInv
  OBVIOUS
<1>1. IInv
  BY InitInv DEF QInit
<1>2. Nothing \in [Keys -> 0..MaxInt] /\ \A k \in Keys : Nothing[k] = 0
  BY BoundsAssumption DEF Nothing, Keys
<1>3. QTypeOK
  BY MaxAsksType DEF QInit, QTypeOK, Statuses, Asked
<1>4. Old
  BY <1>2 DEF QInit, Init, Old
<1>5. Between /\ NothingYet /\ Lists /\ Shown
  BY DEF QInit, Between, NothingYet, Lists, Shown
<1> QED
  BY <1>1, <1>3, <1>4, <1>5 DEF QInv, Reading

\* The writers only make totals grow.
LEMMA WritersInv ==
    ASSUME QInv, [Next]_vars, UNCHANGED readVars PROVE QInv'
<1>1. IInv'
  BY NextInv DEF QInv
<1>2. UNCHANGED <<server, req, path, found, asks, before, shown>>
  BY DEF readVars
<1>3. \A k \in Keys : stats[k] <= stats'[k] /\ stats[k] \in Nat /\ stats'[k] \in Nat
  <2>1. \A k \in Keys : stats[k] <= stats'[k]
    BY StatsGrow DEF QInv
  <2>2. stats' \in [Keys -> 0..MaxInt]
    BY <1>1 DEF IInv, TypeOK, Keys
  <2> QED
    BY <2>1, <2>2, StatsFacts DEF QInv
<1>4. QTypeOK' /\ NothingYet' /\ Lists'
  BY <1>2 DEF QInv, Reading, QTypeOK, Asked, NothingYet, Lists
<1>5. Old'
  <2>1. ASSUME NEW c \in Clients, NEW k \in Keys PROVE before'[c][k] <= stats'[k]
    <3>1. before[c][k] <= stats[k] /\ before[c][k] \in Nat
      BY BoundsAssumption DEF QInv, Reading, Old
    <3> QED
      BY <3>1, <1>2, <1>3
  <2> QED
    BY <2>1, <1>2 DEF QInv, Reading, Old, Keys
<1>6. Between'
  <2> SUFFICES ASSUME NEW c \in Clients, NEW r \in found[c]
               PROVE  /\ \A t \in Types : /\ before[c][<<r.row, t>>] <= r.total[t]
                                          /\ r.total[t] <= stats'[<<r.row, t>>]
                      /\ \E t \in Types : r.total[t] > 0
    BY <1>2 DEF Between
  <2>1. /\ \A t \in Types : before[c][<<r.row, t>>] <= r.total[t] /\ r.total[t] <= stats[<<r.row, t>>]
        /\ \E t \in Types : r.total[t] > 0
        /\ r.row \in Rows /\ \A t \in Types : r.total[t] \in Nat
    BY BoundsAssumption DEF QInv, Reading, Between, QTypeOK
  <2> QED
    BY <2>1, <1>3 DEF Keys
<1>7. \A k \in Rows : Present(k) => Present(k)'
  <2> SUFFICES ASSUME NEW k \in Rows, NEW t \in Types, stats[<<k, t>>] > 0
               PROVE  stats'[<<k, t>>] > 0
    BY DEF Present
  <2>1. <<k, t>> \in Keys
    BY DEF Keys
  <2> QED
    BY <2>1, <1>3
<1>8. Shown'
  BY <1>2, <1>7 DEF QInv, Reading, Shown
<1> QED
  BY <1>1, <1>4, <1>5, <1>6, <1>8 DEF QInv, Reading

\* The tables stay when a handler or main acts.
LEMMA TablesStay ==
    ASSUME IInv, UNCHANGED vars
    PROVE  IInv' /\ stats' = stats /\ \A k : Present(k)' = Present(k)
<1>1. IInv'
  BY NextInv
<1>2. stats' = stats
  BY DEF vars
<1> QED
  BY <1>1, <1>2 DEF Present

LEMMA AskInv ==
    ASSUME QInv, NEW c \in Clients, NEW p \in Campaigns \cup {All}, Ask(c, p), UNCHANGED vars
    PROVE  QInv'
<1> USE DEF QInv, Reading
<1>0. IInv' /\ stats' = stats /\ \A k : Present(k)' = Present(k)
  BY TablesStay
<1>1. /\ server = "running" /\ server' = server /\ asks[c] < MaxAsks
      /\ asks' = [asks EXCEPT ![c] = @ + 1]
      /\ req' = [req EXCEPT ![c] = "asked"]
      /\ path' = [path EXCEPT ![c] = p]
      /\ found' = [found EXCEPT ![c] = {}]
      /\ before' = [before EXCEPT ![c] = stats]
      /\ shown' = [shown EXCEPT ![c] = @ \cup UNION {{r.row[1] : r \in found[o]} : o \in Answered}]
  BY DEF Ask
<1>2. /\ asks \in [Clients -> 0..MaxAsks] /\ req \in [Clients -> Statuses]
      /\ path \in [Clients -> Campaigns \cup {All}]
  BY DEF QTypeOK
<1>3. /\ found \in [Clients -> SUBSET [row : Rows, total : [Types -> 0..MaxInt]]]
      /\ shown \in [Clients -> SUBSET Campaigns]
      /\ before \in [Clients -> [Keys -> 0..MaxInt]]
      /\ stats \in [Keys -> 0..MaxInt] /\ \A k \in Keys : stats[k] \in Nat
  BY StatsFacts DEF QTypeOK, Old
<1>4. /\ req' \in [Clients -> Statuses] /\ req'[c] = "asked"
      /\ path' \in [Clients -> Campaigns \cup {All}] /\ path'[c] = p
      /\ found' \in [Clients -> SUBSET [row : Rows, total : [Types -> 0..MaxInt]]] /\ found'[c] = {}
      /\ before' \in [Clients -> [Keys -> 0..MaxInt]] /\ before'[c] = stats
      /\ \A o \in Clients \ {c} : /\ req'[o] = req[o] /\ path'[o] = path[o] /\ found'[o] = found[o]
                                   /\ before'[o] = before[o] /\ shown'[o] = shown[o]
  BY <1>1, <1>2, <1>3 DEF Statuses
<1>5. shown'[c] = shown[c] \cup UNION {{r.row[1] : r \in found[o]} : o \in Answered}
  BY <1>1, <1>3
<1>6. \A q \in shown'[c] : q \in Campaigns /\ \E k \in Rows : k[1] = q /\ Present(k)
  <2> SUFFICES ASSUME NEW q \in shown'[c]
               PROVE  q \in Campaigns /\ \E k \in Rows : k[1] = q /\ Present(k)
    OBVIOUS
  <2>1. CASE q \in shown[c]
    BY <2>1, <1>3 DEF Shown
  <2>2. CASE q \notin shown[c]
    <3>c. q \in UNION {{r.row[1] : r \in found[o]} : o \in Answered}
      <4> DEFINE U == UNION {{r.row[1] : r \in found[o]} : o \in Answered}
      <4>1. shown'[c] = shown[c] \cup U
        BY <1>5
      <4> HIDE DEF U
      <4>2. q \in U
        BY <4>1, <2>2
      <4> QED
        BY <4>2 DEF U
    <3>a. PICK S \in {{r.row[1] : r \in found[o]} : o \in Answered} : q \in S
      BY <3>c, Zenon
    <3>b. PICK o \in Answered : S = {r.row[1] : r \in found[o]}
      BY <3>a
    <3>1. o \in Clients /\ \E r \in found[o] : q = r.row[1]
      BY <3>a, <3>b DEF Answered
    <3>2. PICK r \in found[o] : q = r.row[1]
      BY <3>1
    <3>3. r.row \in Rows /\ r.total \in [Types -> 0..MaxInt]
      BY <3>1, <1>3
    <3>4. PICK t \in Types : r.total[t] > 0 /\ r.total[t] <= stats[<<r.row, t>>]
      BY <3>1 DEF Between
    <3>5. <<r.row, t>> \in Keys /\ r.total[t] \in Nat
      BY <3>3, BoundsAssumption DEF Keys
    <3>6. stats[<<r.row, t>>] > 0
      BY <3>4, <3>5, <1>3
    <3> QED
      BY <3>2, <3>3, <3>6, RowFacts DEF Present
  <2> QED
    BY <2>1, <2>2
<1>7. QTypeOK'
  <2>1. asks' \in [Clients -> 0..MaxAsks]
    BY <1>1, <1>2, MaxAsksType
  <2>2. shown' \in [Clients -> SUBSET Campaigns]
    BY <1>1, <1>3, <1>5, <1>6
  <2> QED
    BY <1>1, <1>4, <2>1, <2>2 DEF QTypeOK
<1>8. Old'
  BY <1>0, <1>3, <1>4 DEF Old
<1>9. Between'
  BY <1>0, <1>4 DEF Between
<1>a. NothingYet'
  BY <1>4 DEF NothingYet
<1>b. Lists'
  <2> SUFFICES ASSUME NEW o \in Clients, path'[o] = All, req'[o] \in {"read", "ok"}
               PROVE  \A k \in Rows : (\E t \in Types : before'[o][<<k, t>>] > 0) =>
                                         \E r \in found'[o] : r.row = k
    BY DEF Lists
  <2>1. o # c
    BY <1>4
  <2>2. path[o] = All /\ req[o] \in {"read", "ok"}
    BY <2>1, <1>4
  <2>3. before'[o] = before[o] /\ found'[o] = found[o]
    BY <2>1, <1>4
  <2> QED
    BY <2>2, <2>3 DEF Lists
<1>10. NothingYet' /\ Lists'
  BY <1>a, <1>b
<1>11. Shown'
  BY <1>0, <1>4, <1>6 DEF Shown
<1> QED
  BY <1>0, <1>7, <1>8, <1>9, <1>10, <1>11

\* A handler moves on with what it found, or without.
LEMMA HandlerInv ==
    ASSUME QInv, NEW c \in Clients, NEW s \in Statuses, server # "stopped", c \in Asked,
           NEW R \in SUBSET [row : Rows, total : [Types -> 0..MaxInt]],
           req' = [req EXCEPT ![c] = s], found' = [found EXCEPT ![c] = R],
           UNCHANGED <<vars, server, path, asks, before, shown>>,
           s \in {"none", "asked", "failed", "error"} => R = {},
           \A r \in R : /\ \A t \in Types : before[c][<<r.row, t>>] <= r.total[t]
                                              /\ r.total[t] <= stats[<<r.row, t>>]
                        /\ \E t \in Types : r.total[t] > 0,
           path[c] = All /\ s \in {"read", "ok"} =>
               \A k \in Rows : (\E t \in Types : before[c][<<k, t>>] > 0) => \E r \in R : r.row = k,
           path[c] \in shown[c] => s # "missing" /\ (s = "read" => R # {})
    PROVE  QInv'
<1> USE DEF QInv, Reading
<1>0. IInv' /\ stats' = stats /\ \A k : Present(k)' = Present(k)
  BY TablesStay
<1>1. /\ found \in [Clients -> SUBSET [row : Rows, total : [Types -> 0..MaxInt]]]
      /\ req \in [Clients -> Statuses]
  BY DEF QTypeOK
<1>2. /\ found' \in [Clients -> SUBSET [row : Rows, total : [Types -> 0..MaxInt]]] /\ found'[c] = R
      /\ req' \in [Clients -> Statuses] /\ req'[c] = s
      /\ \A o \in Clients \ {c} : req'[o] = req[o] /\ found'[o] = found[o]
  BY <1>1
<1>3. QTypeOK' /\ Old'
  BY <1>0, <1>2 DEF QTypeOK, Old
<1>4. Between'
  <2> SUFFICES ASSUME NEW o \in Clients, NEW r \in found'[o]
               PROVE  /\ \A t \in Types : before[o][<<r.row, t>>] <= r.total[t]
                                           /\ r.total[t] <= stats[<<r.row, t>>]
                      /\ \E t \in Types : r.total[t] > 0
    BY <1>0 DEF Between
  <2>1. CASE o = c
    <3>1. r \in R
      BY <2>1, <1>2
    <3> QED
      BY <2>1, <3>1
  <2>2. CASE o # c
    BY <2>2, <1>2 DEF Between
  <2> QED
    BY <2>1, <2>2
<1>5. NothingYet'
  BY <1>2 DEF NothingYet
<1>6. Lists'
  <2> SUFFICES ASSUME NEW o \in Clients, path[o] = All, req'[o] \in {"read", "ok"}
               PROVE  \A k \in Rows : (\E t \in Types : before[o][<<k, t>>] > 0) =>
                                         \E r \in found'[o] : r.row = k
    BY DEF Lists
  <2>1. CASE o = c
    BY <2>1, <1>2
  <2>2. CASE o # c
    BY <2>2, <1>2 DEF Lists
  <2> QED
    BY <2>1, <2>2
<1>7. Shown'
  <2> SUFFICES ASSUME NEW o \in Clients
               PROVE  /\ \A p \in shown[o] : \E k \in Rows : k[1] = p /\ Present(k)
                      /\ path[o] \in shown[o] => /\ req'[o] # "missing"
                                                 /\ req'[o] = "read" => found'[o] # {}
    BY <1>0 DEF Shown
  <2>1. CASE o = c
    BY <2>1, <1>2 DEF Shown
  <2>2. CASE o # c
    BY <2>2, <1>2 DEF Shown
  <2> QED
    BY <2>1, <2>2
<1> QED
  BY <1>0, <1>3, <1>4, <1>5, <1>6, <1>7

LEMMA ReadInv ==
    ASSUME QInv, NEW c \in Clients, server # "stopped", Read(c), UNCHANGED vars PROVE QInv'
<1> USE DEF QInv, Reading
<1> DEFINE Rs == {r \in Table : r.row[1] = path[c]}
<1>1. /\ req[c] = "asked" /\ req' = [req EXCEPT ![c] = "read"]
      /\ UNCHANGED <<server, path, asks, before, shown>>
      /\ c \in Asked
  BY DEF Read, Asked
<1>2. PICK R \in SUBSET Table :
        /\ found' = [found EXCEPT ![c] = R]
        /\ path[c] = All => R = Table
        /\ path[c] # All /\ Rs # {} => R # {}
  <2>1. CASE SelectAll(c)
    BY <2>1 DEF SelectAll
  <2>2. CASE GetByID(c)
    <3>1. path[c] # All
      BY <2>2 DEF GetByID
    <3>2. CASE \E r \in Rs : found' = [found EXCEPT ![c] = {r}]
      <4>1. PICK r \in Rs : found' = [found EXCEPT ![c] = {r}]
        BY <3>2
      <4>2. {r} \in SUBSET Table /\ {r} # {}
        OBVIOUS
      <4> QED
        BY <3>1, <4>1, <4>2
    <3>3. CASE Rs = {} /\ found' = [found EXCEPT ![c] = {}]
      BY <3>1, <3>3
    <3> QED
      BY <2>2, <3>2, <3>3 DEF GetByID
  <2> QED
    BY <2>1, <2>2 DEF Read
<1>3. R \in SUBSET [row : Rows, total : [Types -> 0..MaxInt]]
  <2>1. \A r \in Table : r \in [row : Rows, total : [Types -> 0..MaxInt]]
    <3> SUFFICES ASSUME NEW r \in Table PROVE r \in [row : Rows, total : [Types -> 0..MaxInt]]
      OBVIOUS
    <3>1. PICK k \in Rows : r = [row |-> k, total |-> [t \in Types |-> stats[<<k, t>>]]]
      BY DEF Table, Totals
    <3>2. r.row \in Rows /\ r.total \in [Types -> 0..MaxInt]
      BY TableFacts
    <3> QED
      BY <3>1, <3>2
  <2> QED
    BY <2>1, <1>2
<1>4. \A r \in R : /\ \A t \in Types : before[c][<<r.row, t>>] <= r.total[t]
                                        /\ r.total[t] <= stats[<<r.row, t>>]
                   /\ \E t \in Types : r.total[t] > 0
  <2> SUFFICES ASSUME NEW r \in R
               PROVE  /\ \A t \in Types : before[c][<<r.row, t>>] <= r.total[t]
                                           /\ r.total[t] <= stats[<<r.row, t>>]
                      /\ \E t \in Types : r.total[t] > 0
    OBVIOUS
  <2>1. /\ r.row \in Rows /\ Present(r.row)
        /\ \A t \in Types : r.total[t] = stats[<<r.row, t>>]
    BY <1>2, TableFacts
  <2>2. \A t \in Types : <<r.row, t>> \in Keys /\ stats[<<r.row, t>>] \in Nat
    BY <2>1, StatsFacts DEF Keys
  <2> QED
    BY <2>1, <2>2 DEF Old, Present
<1>5. \A k \in Rows : (\E t \in Types : before[c][<<k, t>>] > 0) => Present(k)
  <2> SUFFICES ASSUME NEW k \in Rows, NEW t \in Types, before[c][<<k, t>>] > 0 PROVE Present(k)
    OBVIOUS
  <2>1. <<k, t>> \in Keys /\ before[c][<<k, t>>] \in Nat /\ stats[<<k, t>>] \in Nat
    BY StatsFacts, BoundsAssumption DEF Keys, Old
  <2>2. stats[<<k, t>>] > 0
    BY <2>1 DEF Old
  <2> QED
    BY <2>2 DEF Present
<1>6. path[c] = All => \A k \in Rows : (\E t \in Types : before[c][<<k, t>>] > 0) => \E r \in R : r.row = k
  BY <1>2, <1>5, TableHasAll
<1>7. path[c] \in shown[c] => R # {}
  <2> SUFFICES ASSUME path[c] \in shown[c] PROVE R # {}
    OBVIOUS
  <2>1. PICK k \in Rows : k[1] = path[c] /\ Present(k)
    BY DEF Shown
  <2>2. path[c] # All
    BY <2>1, RowFacts
  <2>3. Rs # {}
    BY <2>1, TableHasAll
  <2> QED
    BY <2>2, <2>3, <1>2
<1> DEFINE s == "read"
<1>8. s \in Statuses /\ s \notin {"none", "asked", "failed", "error", "missing"}
  BY DEF Statuses
<1>9. req' = [req EXCEPT ![c] = s]
  BY <1>1
<1>10. /\ found' = [found EXCEPT ![c] = R]
       /\ UNCHANGED <<vars, server, path, asks, before, shown>>
       /\ s \in {"none", "asked", "failed", "error"} => R = {}
       /\ path[c] \in shown[c] => s # "missing" /\ (s = "read" => R # {})
  BY <1>1, <1>2, <1>7, <1>8
<1> HIDE DEF s
<1> QED
  BY <1>1, <1>3, <1>4, <1>6, <1>8, <1>9, <1>10, HandlerInv

LEMMA ReadFailsInv ==
    ASSUME QInv, NEW c \in Clients, server # "stopped", ReadFails(c), UNCHANGED vars PROVE QInv'
<1> USE DEF QInv, Reading
<1> DEFINE s == "failed"
<1>1. /\ req[c] = "asked" /\ c \in Asked /\ req' = [req EXCEPT ![c] = s]
      /\ UNCHANGED <<server, path, found, asks, before, shown>>
  BY DEF ReadFails, Asked
<1>2. /\ found[c] = {} /\ found' = [found EXCEPT ![c] = {}]
      /\ {} \in SUBSET [row : Rows, total : [Types -> 0..MaxInt]]
  BY <1>1 DEF NothingYet, QTypeOK
<1>3. s \in Statuses /\ s \notin {"read", "ok", "missing"}
  BY DEF Statuses
<1> HIDE DEF s
<1> QED
  BY <1>1, <1>2, <1>3, HandlerInv

LEMMA AnswerInv ==
    ASSUME QInv, NEW c \in Clients, server # "stopped", Answer(c), UNCHANGED vars PROVE QInv'
<1> USE DEF QInv, Reading
<1> DEFINE s == Verdict(c)
<1>1. /\ req[c] \in {"read", "failed"} /\ c \in Asked /\ req' = [req EXCEPT ![c] = s]
      /\ UNCHANGED <<server, path, found, asks, before, shown>>
  BY DEF Answer, Asked
<1>2. /\ s \in Statuses /\ s \in {"ok", "missing", "error"}
      /\ s = "error" => req[c] = "failed"
      /\ s = "missing" => req[c] = "read" /\ found[c] = {}
      /\ s = "ok" => req[c] = "read"
  BY <1>1 DEF Verdict, Statuses
<1>3. /\ found' = [found EXCEPT ![c] = found[c]]
      /\ found[c] \in SUBSET [row : Rows, total : [Types -> 0..MaxInt]]
  BY <1>1 DEF QTypeOK
<1>4. s \in {"none", "asked", "failed", "error"} => found[c] = {}
  BY <1>2 DEF NothingYet
<1>5. path[c] = All /\ s \in {"read", "ok"} =>
        \A k \in Rows : (\E t \in Types : before[c][<<k, t>>] > 0) => \E r \in found[c] : r.row = k
  BY <1>2 DEF Lists
<1>6. path[c] \in shown[c] => s # "missing" /\ (s = "read" => found[c] # {})
  BY <1>2 DEF Shown
<1>7. \A r \in found[c] : /\ \A t \in Types : before[c][<<r.row, t>>] <= r.total[t]
                                              /\ r.total[t] <= stats[<<r.row, t>>]
                          /\ \E t \in Types : r.total[t] > 0
  BY DEF Between
<1> HIDE DEF s
<1> QED
  BY <1>1, <1>2, <1>3, <1>4, <1>5, <1>6, <1>7, HandlerInv

LEMMA MainInv ==
    ASSUME QInv, Shutdown \/ Stop, UNCHANGED vars PROVE QInv'
<1>1. IInv' /\ stats' = stats /\ \A k : Present(k)' = Present(k)
  BY TablesStay DEF QInv
<1>2. /\ UNCHANGED <<req, path, found, asks, before, shown>>
      /\ server' \in {"running", "stopping", "stopped"}
      /\ server' = "stopped" => Asked = {}
  BY DEF Shutdown, Stop
<1>3. QTypeOK'
  BY <1>2 DEF QInv, Reading, QTypeOK, Asked
<1>4. Old' /\ Between' /\ NothingYet' /\ Lists' /\ Shown'
  BY <1>1, <1>2 DEF QInv, Reading, Old, Between, NothingYet, Lists, Shown
<1> QED
  BY <1>1, <1>3, <1>4 DEF QInv, Reading

LEMMA QNextInv == QInv /\ [QNext]_qvars => QInv'
<1> SUFFICES ASSUME QInv, [QNext]_qvars PROVE QInv'
  OBVIOUS
<1>1. CASE UNCHANGED qvars
  BY <1>1, WritersInv DEF qvars
<1>2. CASE Next /\ UNCHANGED readVars
  BY <1>2, WritersInv
<1>3. ASSUME NEW c \in Clients, NEW p \in Campaigns \cup {All}, Ask(c, p), UNCHANGED vars PROVE QInv'
  BY <1>3, AskInv
<1>4. ASSUME NEW c \in Clients, Handle(c), UNCHANGED vars PROVE QInv'
  BY <1>4, ReadInv, ReadFailsInv, AnswerInv DEF Handle
<1>5. CASE (Shutdown \/ Stop) /\ UNCHANGED vars
  BY <1>5, MainInv
<1> QED
  BY <1>1, <1>2, <1>3, <1>4, <1>5 DEF QNext

\* QInv is inductive.
THEOREM QInductive == QSpec => []QInv
BY QInitInv, QNextInv, PTL DEF QSpec

\* Types; the database is closed after the last answer.
THEOREM QTypeCorrect == QSpec => []QTypeOK
<1>1. QInv => QTypeOK
  BY DEF QInv, Reading
<1> QED
  BY <1>1, QInductive, PTL

\* An answer shows totals between those of the question and those of now.
THEOREM AnswersAlwaysCurrent == QSpec => []AnswersCurrent
<1>1. QInv => AnswersCurrent
  BY DEF QInv, Reading, Between, AnswersCurrent, Answered
<1> QED
  BY <1>1, QInductive, PTL

\* The list has every row that was there when the client asked.
THEOREM ListsComplete == QSpec => []ListComplete
<1>1. QInv => ListComplete
  BY DEF QInv, Reading, Lists, ListComplete, Answered
<1> QED
  BY <1>1, QInductive, PTL

\* A campaign that was shown is not missing afterwards.
THEOREM FoundAlwaysStaysFound == QSpec => []FoundStaysFound
<1>1. QInv => FoundStaysFound
  BY DEF QInv, Reading, Shown, FoundStaysFound
<1> QED
  BY <1>1, QInductive, PTL
=============================================================================
