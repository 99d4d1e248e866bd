------------------------ MODULE SearchLifetimesProofs ------------------------
(* Proofs about SearchLifetimes for any codes, queries, users and limits, and *)
(* any TTLs; QueriesOutlive alone needs them in order, and says so.  The clock *)
(* makes no difference to how they go: Tick is one more action, and the one    *)
(* with the argument.                                                        *)
EXTENDS SearchLifetimes, TLAPS

(* The settings, one by one. *)
LEMMA Settings ==
    /\ QueryOf \in [Codes -> Queries]
    /\ TicketTTL \in Nat /\ TicketTTL > 0
    /\ QueryTTL \in Nat /\ QueryTTL > 0
    /\ ResultTTL \in Nat /\ ResultTTL > 0
    /\ Limit \in Nat /\ Limit > 0
    /\ Window \in Nat /\ Window > 0
BY LifetimesAssumption

(* A key written with a status and a time to live is there, as before or not. *)
LEMMA Written ==
    ASSUME NEW D, NEW T \in SUBSET Nat, NEW value \in [D -> Status], NEW left \in [D -> T],
           \A d \in D : value[d] = "absent" <=> left[d] = 0,
           NEW x \in D, NEW v \in Status, v # "absent", NEW n \in T, n # 0
    PROVE  LET value1 == [value EXCEPT ![x] = v]
               left1 == [left EXCEPT ![x] = n]
           IN  /\ value1 \in [D -> Status]
               /\ left1 \in [D -> T]
               /\ \A d \in D : value1[d] = "absent" <=> left1[d] = 0
OBVIOUS

(* Every script writes a key together with its deadline: where the key has    *)
(* been written it has all its time left, and elsewhere nothing changes.      *)
LEMMA Created ==
    ASSUME TypeOK, NEW c \in Codes, CREATE_TICKET(c)
    PROVE  /\ QueryOf[c] \in Queries
           /\ ticket' = [ticket EXCEPT ![c] = IF query[QueryOf[c]] = "COMPLETED"
                                             THEN "COMPLETED" ELSE "PENDING"]
           /\ ticketLeft' = [ticketLeft EXCEPT ![c] = TicketTTL]
           /\ query' = [query EXCEPT ![QueryOf[c]] =
                            IF query[QueryOf[c]] = "COMPLETED"
                            THEN "COMPLETED" ELSE "PENDING"]
           /\ queryLeft' = [queryLeft EXCEPT ![QueryOf[c]] = QueryTTL]
<1> USE Settings DEF TypeOK, CREATE_TICKET, ShouldPublish, QueryRenewed
<1>1. QueryOf[c] \in Queries
  OBVIOUS
<1>2. CASE query[QueryOf[c]] = "COMPLETED"
  <2>1. query = [query EXCEPT ![QueryOf[c]] = "COMPLETED"]
    BY <1>1, <1>2
  <2> QED
    BY <1>1, <1>2, <2>1
<1>3. CASE query[QueryOf[c]] # "COMPLETED"
  BY <1>1, <1>3
<1> QED
  BY <1>2, <1>3

(* A key in its last unit of time goes, any other keeps its value.            *)
LEMMA Ticked ==
    ASSUME TypeOK, Tick
    PROVE  /\ \A c \in Codes :
                 /\ ticketLeft[c] <= 1 => ticket'[c] = "absent" /\ ticketLeft'[c] = 0
                 /\ ticketLeft[c] > 1 => /\ ticket'[c] = ticket[c]
                                         /\ ticketLeft'[c] = ticketLeft[c] - 1
           /\ \A q \in Queries :
                 /\ queryLeft[q] <= 1 => query'[q] = "absent" /\ queryLeft'[q] = 0
                 /\ queryLeft[q] > 1 => /\ query'[q] = query[q]
                                        /\ queryLeft'[q] = queryLeft[q] - 1
           /\ \A u \in Users :
                 /\ countLeft[u] <= 1 => count'[u] = 0 /\ countLeft'[u] = 0
                 /\ countLeft[u] > 1 => /\ count'[u] = count[u]
                                        /\ countLeft'[u] = countLeft[u] - 1
<1> USE Settings DEF TypeOK, Tick, After, Less
<1>1. ASSUME NEW c \in Codes
      PROVE  /\ ticketLeft[c] <= 1 => ticket'[c] = "absent" /\ ticketLeft'[c] = 0
             /\ ticketLeft[c] > 1 => /\ ticket'[c] = ticket[c]
                                     /\ ticketLeft'[c] = ticketLeft[c] - 1
  <2>1. ticketLeft[c] \in Nat
    OBVIOUS
  <2> QED
    BY <2>1
<1>2. ASSUME NEW q \in Queries
      PROVE  /\ queryLeft[q] <= 1 => query'[q] = "absent" /\ queryLeft'[q] = 0
             /\ queryLeft[q] > 1 => /\ query'[q] = query[q]
                                    /\ queryLeft'[q] = queryLeft[q] - 1
  <2>1. queryLeft[q] \in Nat
    OBVIOUS
  <2> QED
    BY <2>1
<1>3. ASSUME NEW u \in Users
      PROVE  /\ countLeft[u] <= 1 => count'[u] = 0 /\ countLeft'[u] = 0
             /\ countLeft[u] > 1 => /\ count'[u] = count[u]
                                    /\ countLeft'[u] = countLeft[u] - 1
  <2>1. countLeft[u] \in Nat
    OBVIOUS
  <2> QED
    BY <2>1
<1> QED
  BY <1>1, <1>2, <1>3

(* One request more: the counter grows or stays at Most, and only a counter   *)
(* that was absent is given a deadline.                                      *)
LEMMA Counted ==
    ASSUME TypeOK, NEW u \in Users, RATE_LIMIT(u)
    PROVE  /\ count' \in [Users -> 0..Most]
           /\ countLeft' \in [Users -> 0..Window]
           /\ \A v \in Users : count'[v] = 0 <=> countLeft'[v] = 0
<1> USE Settings DEF TypeOK, Most
<1>1. CountAfter(count[u]) \in 1..Most
  BY DEF CountAfter
<1>2. CountLeftAfter(count[u], countLeft[u]) \in 1..Window
  BY DEF CountLeftAfter
<1> QED
  BY <1>1, <1>2 DEF RATE_LIMIT

(* Ages stay in their range, whether time passes or a submission is let in. *)
LEMMA Aged ==
    /\ \A n \in 0..Window : Older(n) \in 0..Window
    /\ \A ages \in [1..Burst -> 0..Window] : Remembered(ages) \in [1..Burst -> 0..Window]
<1>1. ASSUME NEW n \in 0..Window
      PROVE  Older(n) \in 0..Window
  BY Settings DEF Older
<1>2. ASSUME NEW ages \in [1..Burst -> 0..Window]
      PROVE  Remembered(ages) \in [1..Burst -> 0..Window]
  <2>1. Burst \in Nat /\ 0 \in 0..Window
    BY Settings DEF Burst
  <2>2. \A k \in 1..Burst : k # 1 => k - 1 \in 1..Burst
    BY <2>1
  <2>3. \A k \in 1..Burst : (IF k = 1 THEN 0 ELSE ages[k - 1]) \in 0..Window
    BY <2>1, <2>2
  <2> QED
    BY <2>3 DEF Remembered
<1> QED
  BY <1>1, <1>2

(* Every reachable state is well typed, and a key is there exactly while it   *)
(* has time left.                                                            *)
THEOREM TypeCorrect == Spec => []TypeOK
<1>1. Init => TypeOK
  BY Settings DEF Init, TypeOK, Status, Most, Burst
<1>2. TypeOK /\ [Next]_vars => TypeOK'
  <2> SUFFICES ASSUME TypeOK, [Next]_vars
               PROVE  TypeOK'
    OBVIOUS
  <2> USE Settings DEF tickets, queries, rates
  <2>1. ASSUME NEW u \in Users, Refuse(u)
        PROVE  TypeOK'
    BY <2>1, Counted DEF TypeOK, Refuse
  <2>2. ASSUME NEW u \in Users, NEW c \in Codes, Admit(u, c)
        PROVE  TypeOK'
    <3>1. age' \in [Users -> [1..Burst -> 0..Window]]
      BY <2>2, Aged DEF TypeOK, Admit
    <3>2. sub' \in [Codes -> {"idle", "creating", "publishing"}]
      BY <2>2 DEF TypeOK, Admit
    <3> QED
      BY <2>2, <3>1, <3>2, Counted DEF TypeOK, Admit
  <2>3. ASSUME NEW c \in Codes, CREATE_TICKET(c), UNCHANGED rates,
               sub' \in [Codes -> {"idle", "creating", "publishing"}]
        PROVE  TypeOK'
    <3>1. /\ ticket' \in [Codes -> Status]
          /\ ticketLeft' \in [Codes -> 0..TicketTTL]
          /\ \A d \in Codes : ticket'[d] = "absent" <=> ticketLeft'[d] = 0
      <4> DEFINE v == IF query[QueryOf[c]] = "COMPLETED" THEN "COMPLETED" ELSE "PENDING"
      <4>1. v \in Status /\ v # "absent" /\ TicketTTL \in 0..TicketTTL
        BY DEF Status
      <4>2. /\ ticket' = [ticket EXCEPT ![c] = v]
            /\ ticketLeft' = [ticketLeft EXCEPT ![c] = TicketTTL]
        BY <2>3, Created
      <4> HIDE DEF v
      <4> QED
        BY <4>1, <4>2, Written DEF TypeOK
    <3>2. /\ query' \in [Queries -> Status]
          /\ queryLeft' \in [Queries -> Nat]
          /\ \A q \in Queries : queryLeft'[q] <= QueryTTL \/ queryLeft'[q] <= ResultTTL
          /\ \A q \in Queries : query'[q] = "absent" <=> queryLeft'[q] = 0
      <4> DEFINE q == QueryOf[c]
                 v == IF query[q] = "COMPLETED" THEN "COMPLETED" ELSE "PENDING"
      <4>1. v \in Status /\ v # "absent"
        BY DEF Status
      <4>2. /\ q \in Queries
            /\ query' = [query EXCEPT ![q] = v]
            /\ queryLeft' = [queryLeft EXCEPT ![q] = QueryTTL]
        BY <2>3, Created
      <4> HIDE DEF v, q
      <4>3. \A d \in Queries : queryLeft'[d] <= QueryTTL \/ queryLeft'[d] <= ResultTTL
        BY <4>2 DEF TypeOK
      <4> QED
        BY <4>1, <4>2, <4>3, Written DEF TypeOK
    <3> QED
      BY <2>3, <3>1, <3>2 DEF TypeOK
  <2>4. ASSUME NEW c \in Codes, CreateTicket(c)
        PROVE  TypeOK'
    BY <2>3, <2>4 DEF CreateTicket, TypeOK
  <2>5. ASSUME NEW c \in Codes, CreateFails(c)
        PROVE  TypeOK'
    <3>1. sub' \in [Codes -> {"idle", "creating", "publishing"}]
      BY <2>5 DEF CreateFails, TypeOK
    <3>2. CASE CREATE_TICKET(c)
      BY <2>3, <2>5, <3>1, <3>2 DEF CreateFails
    <3>3. CASE UNCHANGED <<tickets, queries>>
      BY <2>5, <3>1, <3>3 DEF CreateFails, TypeOK
    <3> QED
      BY <2>5, <3>2, <3>3 DEF CreateFails
  <2>6. ASSUME NEW c \in Codes, PublishEnds(c)
        PROVE  TypeOK'
    BY <2>6 DEF PublishEnds, TypeOK
  <2>7. ASSUME NEW c \in Codes, PublishFails(c)
        PROVE  TypeOK'
    <3>1. /\ ticket' \in [Codes -> Status]
          /\ ticketLeft' \in [Codes -> 0..TicketTTL]
          /\ \A d \in Codes : ticket'[d] = "absent" <=> ticketLeft'[d] = 0
      <4>1. CASE ticket[c] = "PENDING"
        <5>1. /\ ticket' = [ticket EXCEPT ![c] = "FAILED"]
              /\ ticketLeft' = [ticketLeft EXCEPT ![c] = TicketTTL]
          BY <2>7, <4>1 DEF PublishFails, MARK_PUBLISH_FAILED
        <5>2. "FAILED" \in Status /\ TicketTTL \in 0..TicketTTL
          BY DEF Status
        <5> QED
          BY <5>1, <5>2, Written DEF TypeOK
      <4>2. CASE ticket[c] # "PENDING"
        BY <2>7, <4>2 DEF PublishFails, MARK_PUBLISH_FAILED, TypeOK
      <4> QED
        BY <4>1, <4>2
    <3> QED
      BY <2>7, <3>1 DEF PublishFails, TypeOK
  <2>8. ASSUME NEW c \in Codes, DeleteTicket(c)
        PROVE  TypeOK'
    BY <2>8 DEF DeleteTicket, TypeOK, Status
  <2>9. ASSUME NEW q \in Queries, FinishQuery(q)
        PROVE  TypeOK'
    BY <2>9 DEF FinishQuery, FINISH_QUERY, TypeOK, Status
  <2>10. ASSUME Tick
         PROVE  TypeOK'
    <3>1. /\ ticket' \in [Codes -> Status]
          /\ ticketLeft' \in [Codes -> 0..TicketTTL]
          /\ \A c \in Codes : ticket'[c] = "absent" <=> ticketLeft'[c] = 0
      <4>1. \A c \in Codes : /\ ticket'[c] \in Status
                             /\ ticketLeft'[c] \in 0..TicketTTL
                             /\ ticket'[c] = "absent" <=> ticketLeft'[c] = 0
        <5> SUFFICES ASSUME NEW c \in Codes
                     PROVE  /\ ticket'[c] \in Status
                            /\ ticketLeft'[c] \in 0..TicketTTL
                            /\ ticket'[c] = "absent" <=> ticketLeft'[c] = 0
          OBVIOUS
        <5>1. /\ ticketLeft[c] \in 0..TicketTTL
              /\ ticket[c] \in Status
              /\ ticket[c] = "absent" <=> ticketLeft[c] = 0
          BY DEF TypeOK
        <5> QED
          BY <2>10, <5>1, Ticked DEF Status
      <4> QED
        BY <2>10, <4>1 DEF Tick
    <3>2. /\ query' \in [Queries -> Status]
          /\ queryLeft' \in [Queries -> Nat]
          /\ \A q \in Queries : queryLeft'[q] <= QueryTTL \/ queryLeft'[q] <= ResultTTL
          /\ \A q \in Queries : query'[q] = "absent" <=> queryLeft'[q] = 0
      <4>1. \A q \in Queries : /\ query'[q] \in Status
                               /\ queryLeft'[q] \in Nat
                               /\ \/ queryLeft'[q] <= QueryTTL
                                  \/ queryLeft'[q] <= ResultTTL
                               /\ query'[q] = "absent" <=> queryLeft'[q] = 0
        <5> SUFFICES ASSUME NEW q \in Queries
                     PROVE  /\ query'[q] \in Status
                            /\ queryLeft'[q] \in Nat
                            /\ queryLeft'[q] <= QueryTTL \/ queryLeft'[q] <= ResultTTL
                            /\ query'[q] = "absent" <=> queryLeft'[q] = 0
          OBVIOUS
        <5>1. /\ queryLeft[q] \in Nat
              /\ queryLeft[q] <= QueryTTL \/ queryLeft[q] <= ResultTTL
              /\ query[q] \in Status
              /\ query[q] = "absent" <=> queryLeft[q] = 0
          BY DEF TypeOK
        <5> QED
          BY <2>10, <5>1, Ticked DEF Status
      <4> QED
        BY <2>10, <4>1 DEF Tick
    <3>3. /\ count' \in [Users -> 0..Most]
          /\ countLeft' \in [Users -> 0..Window]
          /\ \A u \in Users : count'[u] = 0 <=> countLeft'[u] = 0
      BY <2>10 DEF Tick, TypeOK, After, Less, Most
    <3>4. age' \in [Users -> [1..Burst -> 0..Window]]
      BY <2>10, Aged DEF Tick, TypeOK
    <3> QED
      BY <2>10, <3>1, <3>2, <3>3, <3>4 DEF Tick, TypeOK
  <2>11. CASE UNCHANGED vars
    BY <2>11 DEF vars, TypeOK
  <2> QED
    BY <2>1, <2>2, <2>4, <2>5, <2>6, <2>7, <2>8, <2>9, <2>10, <2>11
       DEF Next, Submit, Handle
<1> QED
  BY <1>1, <1>2, PTL DEF Spec

(* With tickets no longer lived than queries and results, a live ticket's     *)
(* query outlives it and keeps the result it was opened on.  The property is  *)
(* inductive together with TypeOK: scripts set both deadlines or only the     *)
(* query's, apart from MARK_PUBLISH_FAILED, whose ticket is no longer live,   *)
(* and Tick takes the ticket not later than the query.                       *)
THEOREM QueriesOutlive ==
    ASSUME QueryCoversTicket
    PROVE  Spec => []QueryOutlives
<1>0. TicketTTL <= QueryTTL /\ TicketTTL <= ResultTTL
  BY DEF QueryCoversTicket
<1>1. Init => QueryOutlives
  BY DEF Init, QueryOutlives, Live
<1>2. TypeOK /\ QueryOutlives /\ [Next]_vars => QueryOutlives'
  <2> SUFFICES ASSUME TypeOK, QueryOutlives, [Next]_vars, NEW d \in Codes, Live(d)'
               PROVE  /\ query'[QueryOf[d]] # "absent"
                      /\ ticketLeft'[d] <= queryLeft'[QueryOf[d]]
                      /\ ticket'[d] = "COMPLETED" => query'[QueryOf[d]] = "COMPLETED"
    BY Settings DEF QueryOutlives
  <2> DEFINE e == QueryOf[d]
  <2>0. e \in Queries
    BY Settings
  <2> USE Settings, <2>0 DEF tickets, queries, rates
  <2>1. ASSUME UNCHANGED <<tickets, queries>>
        PROVE  /\ query'[e] # "absent"
               /\ ticketLeft'[d] <= queryLeft'[e]
               /\ ticket'[d] = "COMPLETED" => query'[e] = "COMPLETED"
    BY <2>1 DEF QueryOutlives, Live
  <2>2. ASSUME NEW c \in Codes, CREATE_TICKET(c)
        PROVE  /\ query'[e] # "absent"
               /\ ticketLeft'[d] <= queryLeft'[e]
               /\ ticket'[d] = "COMPLETED" => query'[e] = "COMPLETED"
    <3>1. CASE d = c
      BY <1>0, <2>2, <3>1, Created DEF TypeOK
    <3>2. CASE d # c
      <4>1. Live(d) /\ ticket'[d] = ticket[d] /\ ticketLeft'[d] = ticketLeft[d]
        BY <2>2, <3>2, Created DEF TypeOK, Live
      <4>2. ticketLeft[d] <= TicketTTL
        BY DEF TypeOK
      <4>3. /\ query[e] # "absent"
            /\ ticketLeft[d] <= queryLeft[e]
            /\ ticket[d] = "COMPLETED" => query[e] = "COMPLETED"
        BY <4>1 DEF QueryOutlives
      <4>4. CASE QueryOf[c] = e
        <5>1. queryLeft'[e] = QueryTTL
          BY <2>2, <4>4, Created DEF TypeOK
        <5>2. query'[e] = IF query[e] = "COMPLETED" THEN "COMPLETED" ELSE "PENDING"
          BY <2>2, <4>4, Created DEF TypeOK
        <5>3. ticketLeft[d] \in Nat
          BY DEF TypeOK
        <5> QED
          BY <1>0, <4>1, <4>2, <4>3, <5>1, <5>2, <5>3
      <4>5. CASE QueryOf[c] # e
        <5>1. queryLeft'[e] = queryLeft[e] /\ query'[e] = query[e]
          BY <2>2, <4>5, Created DEF TypeOK
        <5> QED
          BY <4>1, <4>3, <5>1
      <4> QED
        BY <4>4, <4>5
    <3> QED
      BY <3>1, <3>2
  <2>3. ASSUME NEW c \in Codes, PublishFails(c)
        PROVE  /\ query'[e] # "absent"
               /\ ticketLeft'[d] <= queryLeft'[e]
               /\ ticket'[d] = "COMPLETED" => query'[e] = "COMPLETED"
    BY <2>3 DEF PublishFails, MARK_PUBLISH_FAILED, TypeOK, QueryOutlives, Live
  <2>4. ASSUME NEW c \in Codes, DeleteTicket(c)
        PROVE  /\ query'[e] # "absent"
               /\ ticketLeft'[d] <= queryLeft'[e]
               /\ ticket'[d] = "COMPLETED" => query'[e] = "COMPLETED"
    BY <2>4 DEF DeleteTicket, TypeOK, QueryOutlives, Live
  <2>5. ASSUME NEW q \in Queries, FinishQuery(q)
        PROVE  /\ query'[e] # "absent"
               /\ ticketLeft'[d] <= queryLeft'[e]
               /\ ticket'[d] = "COMPLETED" => query'[e] = "COMPLETED"
    <3>1. Live(d) /\ ticket'[d] = ticket[d] /\ ticketLeft'[d] = ticketLeft[d]
      BY <2>5 DEF FinishQuery, Live
    <3>2. ticketLeft[d] <= TicketTTL
      BY DEF TypeOK
    <3> QED
      BY <1>0, <2>5, <3>1, <3>2 DEF FinishQuery, FINISH_QUERY, TypeOK, QueryOutlives
  <2>6. ASSUME Tick
        PROVE  /\ query'[e] # "absent"
               /\ ticketLeft'[d] <= queryLeft'[e]
               /\ ticket'[d] = "COMPLETED" => query'[e] = "COMPLETED"
    <3>0. ticketLeft[d] \in Nat
      BY DEF TypeOK
    <3>1. ticketLeft[d] > 1
      BY <2>6, <3>0, Ticked DEF Live
    <3>2. /\ Live(d)
          /\ ticket'[d] = ticket[d]
          /\ ticketLeft'[d] = ticketLeft[d] - 1
      BY <2>6, <3>1, Ticked DEF Live
    <3>3. ticketLeft[d] <= queryLeft[e]
      BY <3>2 DEF QueryOutlives
    <3> QED
      BY <2>6, <3>1, <3>2, <3>3, Ticked DEF TypeOK, QueryOutlives
  <2> QED
    BY <2>1, <2>2, <2>3, <2>4, <2>5, <2>6
       DEF Next, vars, Submit, Handle, Refuse, Admit, CreateTicket, CreateFails,
           PublishEnds
<1> QED
  BY <1>1, <1>2, TypeCorrect, PTL DEF Spec
-----------------------------------------------------------------------------
(* Which submissions the counter stands for: the latest LetIn(u) are those of *)
(* the window it counts; the others were let in before that window began, and *)
(* all but Limit of them a whole window before.                               *)
LetIn(u) == IF count[u] < Limit THEN count[u] ELSE Limit

BurstInv ==
    \A u \in Users, k \in 1..Burst :
        /\ k > LetIn(u) + Limit => age[u][k] = Window
        /\ k > LetIn(u) /\ count[u] # 0 => age[u][k] >= Window - countLeft[u]

LEMMA BurstsKnown == Spec => []BurstInv
<1>0. Burst \in Nat /\ Burst = 2 * Limit + 1
  BY Settings DEF Burst
<1>1. Init => BurstInv
  <2> SUFFICES ASSUME Init, NEW u \in Users, NEW k \in 1..Burst
               PROVE  age[u][k] = Window /\ count[u] = 0
    BY DEF BurstInv
  <2>1. age = [v \in Users |-> [i \in 1..Burst |-> Window]]
    BY DEF Init
  <2> QED
    BY <2>1 DEF Init
<1>2. TypeOK /\ BurstInv /\ [Next]_vars => BurstInv'
  <2> SUFFICES ASSUME TypeOK, BurstInv, [Next]_vars
               PROVE  BurstInv'
    OBVIOUS
  <2>1. \A u \in Users : /\ count[u] \in 0..Most /\ countLeft[u] \in 0..Window
                         /\ count[u] = 0 <=> countLeft[u] = 0
                         /\ LetIn(u) \in 0..Limit
                         /\ \A k \in 1..Burst : age[u][k] \in 0..Window
    <3> SUFFICES ASSUME NEW u \in Users
                 PROVE  /\ count[u] \in 0..Most /\ countLeft[u] \in 0..Window
                        /\ count[u] = 0 <=> countLeft[u] = 0
                        /\ LetIn(u) \in 0..Limit
                        /\ \A k \in 1..Burst : age[u][k] \in 0..Window
      OBVIOUS
    <3>1. /\ count[u] \in 0..Most /\ countLeft[u] \in 0..Window
          /\ count[u] = 0 <=> countLeft[u] = 0
          /\ age[u] \in [1..Burst -> 0..Window]
      BY DEF TypeOK
    <3>2. LetIn(u) \in 0..Limit
      BY <3>1, Settings DEF LetIn, Most
    <3> QED
      BY <3>1, <3>2
  <2>2. ASSUME UNCHANGED rates
        PROVE  BurstInv'
    BY <2>2 DEF rates, BurstInv, LetIn
  <2>3. ASSUME NEW u \in Users, RATE_LIMIT(u)
        PROVE  /\ count'[u] = CountAfter(count[u])
               /\ countLeft'[u] = IF count[u] = 0 THEN Window ELSE countLeft[u]
               /\ \A v \in Users \ {u} : count'[v] = count[v] /\ countLeft'[v] = countLeft[v]
    BY <2>3 DEF RATE_LIMIT, CountLeftAfter, TypeOK
  <2>4. ASSUME NEW u \in Users, Refuse(u)
        PROVE  BurstInv'
    <3>1. /\ age' = age /\ count'[u] = CountAfter(count[u]) /\ ~ (CountAfter(count[u]) <= Limit)
          /\ countLeft'[u] = IF count[u] = 0 THEN Window ELSE countLeft[u]
          /\ \A v \in Users \ {u} : count'[v] = count[v] /\ countLeft'[v] = countLeft[v]
      BY <2>3, <2>4 DEF Refuse, Allowed
    <3>2. count[u] # 0 /\ count[u] >= Limit
      BY <2>1, <3>1, Settings DEF CountAfter, Most
    <3>3. count'[u] >= Limit /\ count'[u] \in Nat
      BY <2>1, <3>1, <3>2, Settings DEF CountAfter, Most
    <3>4. LetIn(u)' = LetIn(u) /\ countLeft'[u] = countLeft[u] /\ count'[u] # 0
      BY <2>1, <3>1, <3>2, <3>3, Settings DEF LetIn
    <3>5. \A v \in Users \ {u} : LetIn(v)' = LetIn(v)
      BY <3>1 DEF LetIn
    <3> QED
      BY <3>1, <3>2, <3>4, <3>5 DEF BurstInv
  <2>5. ASSUME NEW u \in Users, NEW c \in Codes, Admit(u, c)
        PROVE  BurstInv'
    <3>1. /\ count'[u] = CountAfter(count[u]) /\ CountAfter(count[u]) <= Limit
          /\ countLeft'[u] = IF count[u] = 0 THEN Window ELSE countLeft[u]
          /\ \A v \in Users \ {u} : count'[v] = count[v] /\ countLeft'[v] = countLeft[v]
      BY <2>3, <2>5 DEF Admit, Allowed
    <3>2. /\ \A k \in 1..Burst : age'[u][k] = IF k = 1 THEN 0 ELSE age[u][k - 1]
          /\ \A v \in Users \ {u} : age'[v] = age[v]
      BY <2>5 DEF Admit, TypeOK, Remembered
    <3>3. count[u] < Limit /\ count'[u] = count[u] + 1
      BY <2>1, <3>1, Settings DEF CountAfter, Most
    <3>4. LetIn(u) = count[u] /\ LetIn(u)' = count[u] + 1
      BY <2>1, <3>3, Settings DEF LetIn
    <3>5. ASSUME NEW k \in 1..Burst
          PROVE  /\ k > LetIn(u)' + Limit => age'[u][k] = Window
                 /\ k > LetIn(u)' /\ count'[u] # 0 => age'[u][k] >= Window - countLeft'[u]
      <4>1. CASE k = 1
        BY <2>1, <3>4, <4>1, Settings
      <4>2. CASE k # 1
        <5> DEFINE j == k - 1
        <5>1. j \in 1..Burst /\ age'[u][k] = age[u][j]
          BY <1>0, <3>2, <4>2
        <5>2. /\ j > LetIn(u) + Limit => age[u][j] = Window
              /\ j > LetIn(u) /\ count[u] # 0 => age[u][j] >= Window - countLeft[u]
          BY <5>1 DEF BurstInv
        <5>3. /\ k > LetIn(u)' + Limit <=> j > LetIn(u) + Limit
              /\ k > LetIn(u)' <=> j > LetIn(u)
          BY <2>1, <3>4, Settings
        <5>4. age[u][j] \in 0..Window
          BY <2>1, <5>1
        <5> HIDE DEF j
        <5> QED
          BY <2>1, <3>1, <5>1, <5>2, <5>3, <5>4, Settings
      <4> QED
        BY <4>1, <4>2
    <3>6. ASSUME NEW v \in Users \ {u}, NEW k \in 1..Burst
          PROVE  /\ k > LetIn(v)' + Limit => age'[v][k] = Window
                 /\ k > LetIn(v)' /\ count'[v] # 0 => age'[v][k] >= Window - countLeft'[v]
      BY <3>1, <3>2 DEF LetIn, BurstInv
    <3> QED
      BY <3>5, <3>6 DEF BurstInv
  <2>6. ASSUME Tick
        PROVE  BurstInv'
    <3> SUFFICES ASSUME NEW u \in Users, NEW k \in 1..Burst
                 PROVE  /\ k > LetIn(u)' + Limit => age'[u][k] = Window
                        /\ k > LetIn(u)' /\ count'[u] # 0
                              => age'[u][k] >= Window - countLeft'[u]
      BY DEF BurstInv
    <3>1. age'[u][k] = Older(age[u][k])
      BY <2>6 DEF Tick
    <3>2. /\ k > LetIn(u) + Limit => age[u][k] = Window
          /\ k > LetIn(u) /\ count[u] # 0 => age[u][k] >= Window - countLeft[u]
      BY DEF BurstInv
    <3>3. /\ countLeft[u] <= 1 => count'[u] = 0 /\ countLeft'[u] = 0
          /\ countLeft[u] > 1 => count'[u] = count[u] /\ countLeft'[u] = countLeft[u] - 1
      BY <2>6, Ticked
    <3>4. age[u][k] \in 0..Window
      BY <2>1
    <3>5. CASE count[u] = 0
      <4>1. count'[u] = 0 /\ LetIn(u)' = LetIn(u)
        BY <2>1, <3>3, <3>5 DEF LetIn
      <4> QED
        BY <3>1, <3>2, <4>1 DEF Older
    <3>6. CASE count[u] # 0 /\ countLeft[u] > 1
      <4>1. LetIn(u)' = LetIn(u)
        BY <3>3, <3>6 DEF LetIn
      <4> QED
        BY <2>1, <3>1, <3>2, <3>3, <3>4, <3>6, <4>1, Settings DEF Older
    <3>7. CASE count[u] # 0 /\ ~ (countLeft[u] > 1)
      <4>1. countLeft[u] = 1 /\ count'[u] = 0 /\ LetIn(u)' = 0
        BY <2>1, <3>3, <3>7, Settings DEF LetIn
      <4>2. k > Limit => age[u][k] >= Window - 1
        BY <2>1, <3>2, <3>7, <4>1, Settings
      <4> QED
        BY <3>1, <3>4, <4>1, <4>2, Settings DEF Older
    <3> QED
      BY <3>5, <3>6, <3>7
  <2> QED
    BY <2>2, <2>4, <2>5, <2>6
       DEF Next, vars, Submit, Handle, CreateTicket, CreateFails,
           PublishEnds, PublishFails, DeleteTicket, FinishQuery
<1> QED
  BY <1>1, <1>2, TypeCorrect, PTL DEF Spec

(* No span of Window units sees more than twice Limit of a user's submissions *)
(* let in, for any limit and window: what the counter of a fixed window in    *)
(* RATE_LIMIT promises, and no more.                                          *)
THEOREM BurstsLimited == Spec => []BurstLimit
<1>1. TypeOK /\ BurstInv => BurstLimit
  <2> SUFFICES ASSUME TypeOK, BurstInv, NEW u \in Users
               PROVE  age[u][Burst] = Window
    BY DEF BurstLimit
  <2>1. LetIn(u) \in 0..Limit
    BY Settings DEF TypeOK, LetIn, Most
  <2>2. Burst \in 1..Burst /\ Burst > LetIn(u) + Limit
    BY <2>1, Settings DEF Burst
  <2> QED
    BY <2>2 DEF BurstInv
<1> QED
  BY <1>1, TypeCorrect, BurstsKnown, PTL
=============================================================================
