--------------------------- MODULE SearchLifetimes ---------------------------
(***************************************************************************)
(* The clock of the search keys in Redis: what each script of               *)
(* src/search/store.py and worker.py does to the lifetimes of tickets,      *)
(* query states and rate limit counters, and the POST handlers that run     *)
(* them.  SearchJobs has the rest of those handlers and lets a key expire   *)
(* at any moment its QueryCoversTicket allows; here keys carry the time     *)
(* they have left, and Tick is one unit of it.  An EXPIRE is always in the  *)
(* script that writes the key, so no failure comes between the two.         *)
(***************************************************************************)
EXTENDS Naturals

CONSTANTS
    Codes,      \* magicCodes; one that is gone stands for the next new one
    Queries,    \* normalized queries, by hash
    QueryOf,    \* QueryOf[c]: the query submitted under code c
    Users,      \* who submits
    TicketTTL,  \* SEARCH_MAGIC_CODE_TTL
    QueryTTL,   \* SEARCH_QUERY_TTL of the API
    ResultTTL,  \* SEARCH_QUERY_TTL of the worker
    Limit,      \* submission_limit
    Window      \* rate_limit_window

(* The constructors demand positive numbers, and nothing of their order.     *)
ASSUME LifetimesAssumption ==
    /\ QueryOf \in [Codes -> Queries]
    /\ {TicketTTL, QueryTTL, ResultTTL, Limit, Window} \subseteq Nat \ {0}

(* So in the default settings, and checked nowhere.                          *)
QueryCoversTicket == TicketTTL <= QueryTTL /\ TicketTTL <= ResultTTL

VARIABLES
    ticket,      \* status of saver:search:ticket:{code}
    ticketLeft,  \* the time it has left, 0 without the key
    query,       \* status of saver:search:query:{hash}:intelligent
    queryLeft,   \* the time it has left, 0 without the key
    sub,         \* where each POST handler stands
    count,       \* saver:search:rate:{user}, 0 without the key
    countLeft,   \* the time it has left, 0 without the key
    age          \* age[u][k]: how long ago u's k-th latest submission was let
                 \* in, Window for longer and for none (history)

tickets == <<ticket, ticketLeft>>
queries == <<query, queryLeft>>
rates == <<count, countLeft, age>>
vars == <<tickets, queries, sub, rates>>

Status == {"absent", "PENDING", "COMPLETED", "FAILED"}

(* Counts above the limit are not told apart beyond this one. *)
Most == Limit + 2

(* One submission more than a span of Window may hold. *)
Burst == 2 * Limit + 1

(* Every key has a deadline, and none outlives it. *)
TypeOK ==
    /\ ticket \in [Codes -> Status]
    /\ ticketLeft \in [Codes -> 0..TicketTTL]
    /\ \A c \in Codes : ticket[c] = "absent" <=> ticketLeft[c] = 0
    /\ query \in [Queries -> Status]
    /\ queryLeft \in [Queries -> Nat]
    /\ \A q \in Queries : queryLeft[q] <= QueryTTL \/ queryLeft[q] <= ResultTTL
    /\ \A q \in Queries : query[q] = "absent" <=> queryLeft[q] = 0
    /\ sub \in [Codes -> {"idle", "creating", "publishing"}]
    /\ count \in [Users -> 0..Most]
    /\ countLeft \in [Users -> 0..Window]
    /\ \A u \in Users : count[u] = 0 <=> countLeft[u] = 0
    /\ age \in [Users -> [1..Burst -> 0..Window]]

Init ==
    /\ ticket = [c \in Codes |-> "absent"]
    /\ ticketLeft = [c \in Codes |-> 0]
    /\ query = [q \in Queries |-> "absent"]
    /\ queryLeft = [q \in Queries |-> 0]
    /\ sub = [c \in Codes |-> "idle"]
    /\ count = [u \in Users |-> 0]
    /\ countLeft = [u \in Users |-> 0]
    /\ age = [u \in Users |-> [k \in 1..Burst |-> Window]]

-----------------------------------------------------------------------------
(* The scripts. *)

(* INCR, and EXPIRE for the first request of a window only. *)
CountAfter(n) == IF n = Most THEN Most ELSE n + 1

(* Faulty: EXPIRE at every request. *)
CountLeftAfter_always(n, left) == Window

CountLeftAfter(n, left) == IF n = 0 THEN Window ELSE left

RATE_LIMIT(u) ==
    /\ count' = [count EXCEPT ![u] = CountAfter(@)]
    /\ countLeft' = [countLeft EXCEPT ![u] = CountLeftAfter(count[u], @)]

(* Faulty: compares the count before this request. *)
Allowed_offByOne(n) == n <= Limit

Allowed(n) == CountAfter(n) <= Limit

ShouldPublish(q) == query[q] # "COMPLETED"

(* Faulty: only a query about to be searched is renewed. *)
QueryRenewed_pendingOnly(q) ==
    IF ShouldPublish(q) THEN [queryLeft EXCEPT ![q] = QueryTTL] ELSE queryLeft

(* Both branches of the script renew the query, a finished one too. *)
QueryRenewed(q) == [queryLeft EXCEPT ![q] = QueryTTL]

CREATE_TICKET(c) ==
    LET q == QueryOf[c] IN
    /\ query' = IF ShouldPublish(q) THEN [query EXCEPT ![q] = "PENDING"] ELSE query
    /\ queryLeft' = QueryRenewed(q)
    /\ ticket' = [ticket EXCEPT
           ![c] = IF ShouldPublish(q) THEN "PENDING" ELSE "COMPLETED"]
    /\ ticketLeft' = [ticketLeft EXCEPT ![c] = TicketTTL]

(* A failed publish gives its ticket the full time again, but only while the *)
(* ticket is PENDING.                                                       *)
MARK_PUBLISH_FAILED(c) ==
    IF ticket[c] = "PENDING"
    THEN /\ ticket' = [ticket EXCEPT ![c] = "FAILED"]
         /\ ticketLeft' = [ticketLeft EXCEPT ![c] = TicketTTL]
    ELSE UNCHANGED tickets

(* COMPLETE_QUERY and FAIL_QUERY write a PENDING query alone, and give it the *)
(* time the worker's settings name.                                          *)
FINISH_QUERY(q, status) ==
    /\ query[q] = "PENDING"
    /\ query' = [query EXCEPT ![q] = status]
    /\ queryLeft' = [queryLeft EXCEPT ![q] = ResultTTL]

-----------------------------------------------------------------------------
(* POST /search counts the request, then opens the ticket in a second script. *)

Refuse(u) ==
    /\ ~Allowed(count[u])
    /\ RATE_LIMIT(u)
    /\ UNCHANGED <<tickets, queries, sub, age>>

(* The ages with one submission more. *)
Remembered(ages) == [k \in 1..Burst |-> IF k = 1 THEN 0 ELSE ages[k - 1]]

Admit(u, c) ==
    /\ sub[c] = "idle"
    /\ ticket[c] = "absent"
    /\ Allowed(count[u])
    /\ RATE_LIMIT(u)
    /\ age' = [age EXCEPT ![u] = Remembered(@)]
    /\ sub' = [sub EXCEPT ![c] = "creating"]
    /\ UNCHANGED <<tickets, queries>>

CreateTicket(c) ==
    /\ sub[c] = "creating"
    /\ CREATE_TICKET(c)
    /\ sub' = [sub EXCEPT
           ![c] = IF ShouldPublish(QueryOf[c]) THEN "publishing" ELSE "idle"]
    /\ UNCHANGED rates

(* The script's reply is lost: the handler answers 503, whether or not the   *)
(* ticket was opened.                                                       *)
CreateFails(c) ==
    /\ sub[c] = "creating"
    /\ \/ CREATE_TICKET(c)
       \/ UNCHANGED <<tickets, queries>>
    /\ sub' = [sub EXCEPT ![c] = "idle"]
    /\ UNCHANGED rates

(* 202; or a handler that died, or 503 after a lost MARK_PUBLISH_FAILED. *)
PublishEnds(c) ==
    /\ sub[c] = "publishing"
    /\ sub' = [sub EXCEPT ![c] = "idle"]
    /\ UNCHANGED <<tickets, queries, rates>>

PublishFails(c) ==
    /\ sub[c] = "publishing"
    /\ MARK_PUBLISH_FAILED(c)
    /\ sub' = [sub EXCEPT ![c] = "idle"]
    /\ UNCHANGED <<queries, rates>>

(* A worker, at any time: SearchJobs has the order of its steps. *)
FinishQuery(q) ==
    /\ \E status \in {"COMPLETED", "FAILED"} : FINISH_QUERY(q, status)
    /\ UNCHANGED <<tickets, sub, rates>>

(* GET of a finished search removes the ticket. *)
DeleteTicket(c) ==
    /\ ticket[c] \in {"PENDING", "COMPLETED"}
    /\ query[QueryOf[c]] = "COMPLETED"
    /\ ticket' = [ticket EXCEPT ![c] = "absent"]
    /\ ticketLeft' = [ticketLeft EXCEPT ![c] = 0]
    /\ UNCHANGED <<queries, sub, rates>>

-----------------------------------------------------------------------------
(* One unit of time: Redis drops every key whose time is over. *)

Less(left) == IF left = 0 THEN 0 ELSE left - 1

(* Faulty: a key stays one unit past its deadline. *)
After_late(value, left, none) == IF left = 0 THEN none ELSE value

After(value, left, none) == IF left <= 1 THEN none ELSE value

Older(n) == IF n = Window THEN Window ELSE n + 1

Tick ==
    /\ ticket' = [c \in Codes |-> After(ticket[c], ticketLeft[c], "absent")]
    /\ ticketLeft' = [c \in Codes |-> Less(ticketLeft[c])]
    /\ query' = [q \in Queries |-> After(query[q], queryLeft[q], "absent")]
    /\ queryLeft' = [q \in Queries |-> Less(queryLeft[q])]
    /\ count' = [u \in Users |-> After(count[u], countLeft[u], 0)]
    /\ countLeft' = [u \in Users |-> Less(countLeft[u])]
    /\ age' = [u \in Users |-> [k \in 1..Burst |-> Older(age[u][k])]]
    /\ UNCHANGED sub

Submit(u) == Refuse(u) \/ \E c \in Codes : Admit(u, c)

Handle(c) ==
    \/ CreateTicket(c)
    \/ CreateFails(c)
    \/ PublishEnds(c)
    \/ PublishFails(c)
    \/ DeleteTicket(c)

Next ==
    \/ \E u \in Users : Submit(u)
    \/ \E c \in Codes : Handle(c)
    \/ \E q \in Queries : FinishQuery(q)
    \/ Tick

Spec == Init /\ [][Next]_vars

(* Time passes; nothing else has to happen. *)
FairSpec == Spec /\ WF_vars(Tick)

-----------------------------------------------------------------------------
(* Properties. *)

Live(c) == ticket[c] \in {"PENDING", "COMPLETED"}

(* A live ticket's query state exists for at least the time the ticket has   *)
(* left, whatever submissions, publish failures, results and polls did to    *)
(* either deadline; and the result a ticket was opened on (status COMPLETED) *)
(* is there as long as the ticket is.  It needs QueryCoversTicket; it is the *)
(* guard that ExpireQuery of SearchJobs has under that condition.            *)
QueryOutlives ==
    \A c \in Codes : Live(c) =>
        /\ query[QueryOf[c]] # "absent"
        /\ ticketLeft[c] <= queryLeft[QueryOf[c]]
        /\ ticket[c] = "COMPLETED" => query[QueryOf[c]] = "COMPLETED"

(* In no span of Window units are more than twice Limit submissions of a     *)
(* user let in: the one before the latest 2 * Limit is always Window old.  A *)
(* burst at the end of a window and one at the start of the next come to     *)
(* that, and refused requests count towards neither.                         *)
BurstLimit == \A u \in Users : age[u][Burst] = Window

(* A refused user is let in again once the window is over, however often it  *)
(* keeps asking meanwhile: a refused request does not renew the counter.     *)
LockoutEnds == \A u \in Users : count[u] > Limit ~> count[u] = 0

=============================================================================
