----------------------------- MODULE SearchJobs -----------------------------
(***************************************************************************)
(* The life of a search: POST /search opens a ticket in Redis and publishes *)
(* a command (src/search/routes.py, store.py, publisher.py), workers take   *)
(* commands from the queue and write the query's result (worker.py), and    *)
(* GET /search/{magicCode} exchanges the ticket for the result, once.       *)
(*                                                                         *)
(* Each Lua script is one step, because Redis runs it without interruption; *)
(* every other Redis command, broker operation and await is a step of its   *)
(* own, so handlers and workers interleave between them.  A failure of any  *)
(* of them, including a reply lost after the command took effect, is a step *)
(* that draws on MaxFaults.                                                 *)
(***************************************************************************)
EXTENDS Naturals, Sequences

CONSTANTS
    Codes,     \* magicCodes: one per accepted POST /search
    Queries,   \* normalized queries, by hash
    QueryOf,   \* QueryOf[c]: the query submitted under code c
    Workers,   \* search worker processes
    Readers,   \* concurrent GET /search/{magicCode} handlers
    Answers,   \* the results a run of the engine may produce
    NoCode,    \* a worker or a reader that holds no code
    NoAnswer,  \* no result
    QueryCoversTicket,  \* the TTLs keep a query at least as long as its tickets
    MaxFaults  \* how many failures a behaviour may contain (a bound)

ASSUME SearchAssumption ==
    /\ QueryOf \in [Codes -> Queries]
    /\ NoCode \notin Codes
    /\ NoAnswer \notin Answers
    /\ QueryCoversTicket \in BOOLEAN
    /\ MaxFaults \in Nat

VARIABLES
    ticket,    \* status of saver:search:ticket:{code}, "absent" without the key
    query,     \* status of saver:search:query:{hash}:intelligent, likewise
    result,    \* the query's result field, NoAnswer without one
    waiting,   \* codes whose query has been PENDING ever since their
               \* CREATE_TICKET (history)
    sub,       \* where each POST handler stands
    attempt,   \* publish attempts of that handler that have failed
    queued,    \* copies of the code's command in the queue, not delivered
    wpc,       \* where each worker stands
    job,       \* the code whose command the worker holds
    linked,    \* the worker's broker connection is the one it was delivered on
    seen,      \* the worker read the ticket as PENDING
    found,     \* the result the worker's search produced
    rpc,       \* where each GET handler stands
    code,      \* the code that handler was called with
    got,       \* the result that handler has read
    consumed,  \* codes whose ticket a GET handler's DEL removed (history)
    delivered, \* results sent with 200, per code (history)
    faults     \* failures so far, at most MaxFaults

redis == <<ticket, query, result, waiting>>
posts == <<sub, attempt>>
works == <<wpc, job, linked, seen, found>>
reads == <<rpc, code, got>>
history == <<consumed, delivered>>
vars == <<redis, posts, queued, works, reads, history, faults>>

Status == {"absent", "PENDING", "COMPLETED", "FAILED"}

SubPC == {"idle", "creating", "publishing", "confirming", "marking",
          "accepted", "refused"}

WorkerPC == {"idle", "read_ticket", "read_query", "searching", "completing",
             "failing", "ack", "drop", "requeue"}

ReaderPC == {"idle", "read_query", "deleting"}

TypeOK ==
    /\ ticket \in [Codes -> Status]
    /\ query \in [Queries -> Status]
    /\ result \in [Queries -> Answers \union {NoAnswer}]
    /\ waiting \in SUBSET Codes
    /\ \A q \in Queries : query[q] = "COMPLETED" <=> result[q] \in Answers
    /\ sub \in [Codes -> SubPC]
    /\ attempt \in [Codes -> {0, 1}]
    /\ queued \in [Codes -> Nat]
    /\ wpc \in [Workers -> WorkerPC]
    /\ job \in [Workers -> Codes \union {NoCode}]
    /\ linked \in [Workers -> BOOLEAN]
    /\ seen \in [Workers -> BOOLEAN]
    /\ found \in [Workers -> Answers \union {NoAnswer}]
    /\ \A w \in Workers : wpc[w] # "idle" => job[w] \in Codes
    /\ \A w \in Workers : wpc[w] = "completing" => found[w] \in Answers
    /\ rpc \in [Readers -> ReaderPC]
    /\ code \in [Readers -> Codes \union {NoCode}]
    /\ got \in [Readers -> Answers \union {NoAnswer}]
    /\ \A r \in Readers : rpc[r] # "idle" => code[r] \in Codes
    /\ \A r \in Readers : rpc[r] = "deleting" => got[r] \in Answers
    /\ consumed \in [Codes -> BOOLEAN]
    /\ delivered \in [Codes -> Seq(Answers)]
    /\ faults \in 0..MaxFaults

Init ==
    /\ ticket = [c \in Codes |-> "absent"]
    /\ query = [q \in Queries |-> "absent"]
    /\ result = [q \in Queries |-> NoAnswer]
    /\ waiting = {}
    /\ sub = [c \in Codes |-> "idle"]
    /\ attempt = [c \in Codes |-> 0]
    /\ queued = [c \in Codes |-> 0]
    /\ wpc = [w \in Workers |-> "idle"]
    /\ job = [w \in Workers |-> NoCode]
    /\ linked = [w \in Workers |-> TRUE]
    /\ seen = [w \in Workers |-> FALSE]
    /\ found = [w \in Workers |-> NoAnswer]
    /\ rpc = [r \in Readers |-> "idle"]
    /\ code = [r \in Readers |-> NoCode]
    /\ got = [r \in Readers |-> NoAnswer]
    /\ consumed = [c \in Codes |-> FALSE]
    /\ delivered = [c \in Codes |-> <<>>]
    /\ faults = 0

Fault ==
    /\ faults < MaxFaults
    /\ faults' = faults + 1

(* The codes still waiting when query q leaves PENDING, if it is PENDING. *)
WaitingWithout(q) ==
    IF query[q] = "PENDING" THEN {c \in waiting : QueryOf[c] # q} ELSE waiting

-----------------------------------------------------------------------------
(* Faulty variants of operators below, one plausible bug each.  Spec uses   *)
(* none of them: a run with the variant in place of the operator breaks the *)
(* property that guards against the bug.                                    *)

(* A cached result does not keep the query from being reset. *)
CREATE_TICKET_resets(c) ==
    LET q == QueryOf[c]
    IN  /\ ticket' = [ticket EXCEPT ![c] =
                          IF query[q] = "COMPLETED" THEN "COMPLETED" ELSE "PENDING"]
        /\ query' = [query EXCEPT ![q] = "PENDING"]
        /\ result' = [result EXCEPT ![q] = NoAnswer]
        /\ waiting' = waiting \union {c}

(* COMPLETED is written before, and without, the result. *)
COMPLETE_QUERY_bare(q, a) ==
    /\ query' = [query EXCEPT ![q] = IF @ = "PENDING" THEN "COMPLETED" ELSE @]
    /\ waiting' = WaitingWithout(q)
    /\ UNCHANGED <<ticket, result>>

(* The last attempt wins. *)
COMPLETE_QUERY_overwrites(q, a) ==
    /\ query' = [query EXCEPT ![q] = "COMPLETED"]
    /\ result' = [result EXCEPT ![q] = a]
    /\ waiting' = WaitingWithout(q)
    /\ UNCHANGED ticket

(* A failure is recorded whatever another attempt has written. *)
FAIL_QUERY_unguarded(q) ==
    /\ query' = [query EXCEPT ![q] = "FAILED"]
    /\ result' = [result EXCEPT ![q] = NoAnswer]
    /\ waiting' = WaitingWithout(q)
    /\ UNCHANGED ticket

(* The result is returned and its code left for another GET. *)
DEL_skipped(c) ==
    /\ consumed' = [consumed EXCEPT ![c] = TRUE]
    /\ UNCHANGED redis

(* The script reports failure when there is nothing to mark. *)
MarkPublishFailed_needsTicket(c) ==
    /\ sub[c] = "marking"
    /\ ticket[c] = "PENDING"
    /\ ticket' = [ticket EXCEPT ![c] = "FAILED"]
    /\ sub' = [sub EXCEPT ![c] = "refused"]
    /\ UNCHANGED <<query, result, waiting, attempt, queued, works, reads, history, faults>>

(* The command is rejected for a failed engine run, with no status written. *)
SearchFails_silent(w) ==
    /\ wpc[w] = "searching"
    /\ wpc' = [wpc EXCEPT ![w] = "drop"]
    /\ UNCHANGED <<redis, posts, queued, job, linked, seen, found, reads, history, faults>>

(* A failed query is retried by redelivery. *)
Fail_requeues(w) ==
    /\ wpc[w] = "failing"
    /\ wpc' = [wpc EXCEPT ![w] = "requeue"]
    /\ UNCHANGED <<redis, posts, queued, job, linked, seen, found, reads, history, faults>>

(* A Redis error is treated like an invalid command. *)
WorkerRedisError_drops(w) ==
    /\ wpc[w] \in {"read_ticket", "read_query", "completing", "failing"}
    /\ Fault
    /\ wpc' = [wpc EXCEPT ![w] = "drop"]
    /\ UNCHANGED <<redis, posts, queued, job, linked, seen, found, reads, history>>

(* The DEL count is ignored. *)
DeleteTicket_uncounted(r) ==
    /\ rpc[r] = "deleting"
    /\ ticket' = [ticket EXCEPT ![code[r]] = "absent"]
    /\ consumed' = [consumed EXCEPT ![code[r]] = TRUE]
    /\ delivered' = [delivered EXCEPT ![code[r]] = Append(@, got[r])]
    /\ rpc' = [rpc EXCEPT ![r] = "idle"]
    /\ code' = [code EXCEPT ![r] = NoCode]
    /\ got' = [got EXCEPT ![r] = NoAnswer]
    /\ UNCHANGED <<query, result, waiting, posts, queued, works, faults>>

-----------------------------------------------------------------------------
(* Redis.  HSET writes status and result together, so COMPLETED means with a *)
(* result.                                                                   *)

CREATE_TICKET(c) ==
    LET q == QueryOf[c]
        completed == query[q] = "COMPLETED"
    IN  /\ ticket' = [ticket EXCEPT ![c] = IF completed THEN "COMPLETED" ELSE "PENDING"]
        /\ query' = [query EXCEPT ![q] = IF completed THEN @ ELSE "PENDING"]
        /\ result' = [result EXCEPT ![q] = IF completed THEN @ ELSE NoAnswer]
        /\ waiting' = IF completed THEN waiting \ {c} ELSE waiting \union {c}

MARK_PUBLISH_FAILED(c) ==
    /\ ticket' = [ticket EXCEPT ![c] = IF @ = "PENDING" THEN "FAILED" ELSE @]
    /\ UNCHANGED <<query, result, waiting>>

COMPLETE_QUERY(q, a) ==
    /\ query' = [query EXCEPT ![q] = IF @ = "PENDING" THEN "COMPLETED" ELSE @]
    /\ result' = [result EXCEPT ![q] = IF query[q] = "PENDING" THEN a ELSE @]
    /\ waiting' = WaitingWithout(q)
    /\ UNCHANGED ticket

FAIL_QUERY(q) ==
    /\ query' = [query EXCEPT ![q] = IF @ = "PENDING" THEN "FAILED" ELSE @]
    /\ result' = [result EXCEPT ![q] = IF query[q] = "PENDING" THEN NoAnswer ELSE @]
    /\ waiting' = WaitingWithout(q)
    /\ UNCHANGED ticket

(* A ticket a client may still exchange. *)
Live(c) == ticket[c] \in {"PENDING", "COMPLETED"}

(* EXPIRE: a ticket lives ticket_ttl seconds. *)
ExpireTicket(c) ==
    /\ ticket[c] # "absent"
    /\ ticket' = [ticket EXCEPT ![c] = "absent"]
    /\ UNCHANGED <<query, result, waiting, posts, queued, works, reads, history, faults>>

(* EXPIRE: a query lives query_ttl or result_ttl seconds from its last write. *)
(* When both are at least ticket_ttl it outlives its live tickets.            *)
ExpireQuery(q) ==
    /\ query[q] # "absent"
    /\ QueryCoversTicket => \A c \in Codes : Live(c) => QueryOf[c] # q
    /\ query' = [query EXCEPT ![q] = "absent"]
    /\ result' = [result EXCEPT ![q] = NoAnswer]
    /\ waiting' = WaitingWithout(q)
    /\ UNCHANGED <<ticket, posts, queued, works, reads, history, faults>>

-----------------------------------------------------------------------------
(* POST /search, once the session and the rate limit have let it in. *)

Submit(c) ==
    /\ sub[c] = "idle"
    /\ sub' = [sub EXCEPT ![c] = "creating"]
    /\ UNCHANGED <<redis, attempt, queued, works, reads, history, faults>>

CreateTicket(c) ==
    /\ sub[c] = "creating"
    /\ CREATE_TICKET(c)
    /\ sub' = [sub EXCEPT ![c] =
                   IF query[QueryOf[c]] = "COMPLETED" THEN "accepted" ELSE "publishing"]
    /\ UNCHANGED <<attempt, queued, works, reads, history, faults>>

(* The script ran and its reply is lost: the Redis client sends it again, or *)
(* gives up and the handler answers 503.                                     *)
CreateReplyLost(c) ==
    /\ sub[c] = "creating"
    /\ Fault
    /\ CREATE_TICKET(c)
    /\ \E next \in {"creating", "refused"} : sub' = [sub EXCEPT ![c] = next]
    /\ UNCHANGED <<attempt, queued, works, reads, history>>

(* basic_publish hands the command to the broker, which queues it. *)
Publish(c) ==
    /\ sub[c] = "publishing"
    /\ queued' = [queued EXCEPT ![c] = @ + 1]
    /\ sub' = [sub EXCEPT ![c] = "confirming"]
    /\ UNCHANGED <<redis, attempt, works, reads, history, faults>>

Confirm(c) ==
    /\ sub[c] = "confirming"
    /\ sub' = [sub EXCEPT ![c] = "accepted"]
    /\ UNCHANGED <<redis, attempt, queued, works, reads, history, faults>>

(* No connection, a nack, a returned message or a lost confirmation: a second *)
(* attempt follows the first, the failure handler follows the second.         *)
PublishFails(c) ==
    /\ sub[c] \in {"publishing", "confirming"}
    /\ Fault
    /\ IF attempt[c] = 0
       THEN /\ attempt' = [attempt EXCEPT ![c] = 1]
            /\ sub' = [sub EXCEPT ![c] = "publishing"]
       ELSE /\ sub' = [sub EXCEPT ![c] = "marking"]
            /\ UNCHANGED attempt
    /\ UNCHANGED <<redis, queued, works, reads, history>>

MarkPublishFailed(c) ==
    /\ sub[c] = "marking"
    /\ MARK_PUBLISH_FAILED(c)
    /\ sub' = [sub EXCEPT ![c] = "refused"]
    /\ UNCHANGED <<attempt, queued, works, reads, history, faults>>

(* Redis cannot be reached, or the backend process dies: no 202 is sent. *)
SubmitDies(c) ==
    /\ sub[c] \in {"creating", "publishing", "confirming", "marking"}
    /\ Fault
    /\ sub' = [sub EXCEPT ![c] = "refused"]
    /\ UNCHANGED <<redis, attempt, queued, works, reads, history>>

-----------------------------------------------------------------------------
(* The worker: prefetch 1, manual acknowledgement. *)

Move(w, pc) == wpc' = [wpc EXCEPT ![w] = pc]

Deliver(w, c) ==
    /\ wpc[w] = "idle"
    /\ queued[c] > 0
    /\ queued' = [queued EXCEPT ![c] = @ - 1]
    /\ Move(w, "read_ticket")
    /\ job' = [job EXCEPT ![w] = c]
    /\ UNCHANGED <<redis, posts, linked, seen, found, reads, history, faults>>

(* _command_state reads the ticket, then the query, then decides. *)
ReadTicket(w) ==
    /\ wpc[w] = "read_ticket"
    /\ seen' = [seen EXCEPT ![w] = ticket[job[w]] = "PENDING"]
    /\ Move(w, "read_query")
    /\ UNCHANGED <<redis, posts, queued, job, linked, found, reads, history, faults>>

ReadQuery(w) ==
    /\ wpc[w] = "read_query"
    /\ LET q == query[QueryOf[job[w]]]
       IN  Move(w, IF ~seen[w] THEN "drop"
                   ELSE IF q = "COMPLETED" THEN "ack"
                   ELSE IF q = "PENDING" THEN "searching"
                   ELSE "drop")
    /\ UNCHANGED <<redis, posts, queued, job, linked, seen, found, reads, history, faults>>

SearchSucceeds(w) ==
    /\ wpc[w] = "searching"
    /\ \E a \in Answers : found' = [found EXCEPT ![w] = a]
    /\ Move(w, "completing")
    /\ UNCHANGED <<redis, posts, queued, job, linked, seen, reads, history, faults>>

SearchFails(w) ==
    /\ wpc[w] = "searching"
    /\ Move(w, "failing")
    /\ UNCHANGED <<redis, posts, queued, job, linked, seen, found, reads, history, faults>>

(* Outcome -1, a query neither pending nor completed, is raised as a Redis *)
(* error, and a Redis error puts the command back.                         *)
Complete(w) ==
    LET q == QueryOf[job[w]]
    IN  /\ wpc[w] = "completing"
        /\ COMPLETE_QUERY(q, found[w])
        /\ Move(w, IF query[q] \in {"PENDING", "COMPLETED"} THEN "ack" ELSE "requeue")
        /\ UNCHANGED <<posts, queued, job, linked, seen, found, reads, history, faults>>

Fail(w) ==
    /\ wpc[w] = "failing"
    /\ FAIL_QUERY(QueryOf[job[w]])
    /\ Move(w, "drop")
    /\ UNCHANGED <<posts, queued, job, linked, seen, found, reads, history, faults>>

(* The script ran and its reply is lost: it is sent again, or the command is *)
(* put back.                                                                 *)
WriteReplyLost(w) ==
    /\ Fault
    /\ \/ /\ wpc[w] = "completing"
          /\ COMPLETE_QUERY(QueryOf[job[w]], found[w])
       \/ /\ wpc[w] = "failing"
          /\ FAIL_QUERY(QueryOf[job[w]])
    /\ \E pc \in {wpc[w], "requeue"} : Move(w, pc)
    /\ UNCHANGED <<posts, queued, job, linked, seen, found, reads, history>>

WorkerRedisError(w) ==
    /\ wpc[w] \in {"read_ticket", "read_query", "completing", "failing"}
    /\ Fault
    /\ Move(w, "requeue")
    /\ UNCHANGED <<redis, posts, queued, job, linked, seen, found, reads, history>>

(* What is left of the worker once the command is off its hands. *)
Release(w) ==
    /\ Move(w, "idle")
    /\ job' = [job EXCEPT ![w] = NoCode]
    /\ linked' = [linked EXCEPT ![w] = TRUE]
    /\ seen' = [seen EXCEPT ![w] = FALSE]
    /\ found' = [found EXCEPT ![w] = NoAnswer]

(* basic_ack, basic_reject or basic_nack.  On a dead connection it raises, *)
(* and the process ends and starts anew; the broker has the command back.  *)
Settle(w) ==
    /\ wpc[w] \in {"ack", "drop", "requeue"}
    /\ queued' = [queued EXCEPT ![job[w]] =
                      IF linked[w] /\ wpc[w] = "requeue" THEN @ + 1 ELSE @]
    /\ Release(w)
    /\ UNCHANGED <<redis, posts, reads, history, faults>>

(* A search blocks the connection's heartbeat: the broker may give the *)
(* command to somebody else while this worker goes on with it.         *)
LoseLink(w) ==
    /\ wpc[w] # "idle"
    /\ linked[w]
    /\ Fault
    /\ linked' = [linked EXCEPT ![w] = FALSE]
    /\ queued' = [queued EXCEPT ![job[w]] = @ + 1]
    /\ UNCHANGED <<redis, posts, wpc, job, seen, found, reads, history>>

WorkerCrash(w) ==
    /\ wpc[w] # "idle"
    /\ Fault
    /\ queued' = [queued EXCEPT ![job[w]] = IF linked[w] THEN @ + 1 ELSE @]
    /\ Release(w)
    /\ UNCHANGED <<redis, posts, reads, history>>

-----------------------------------------------------------------------------
(* GET /search/{magicCode}, called by a client that was sent the code.  The *)
(* answers 404, 502 and 202 change nothing.                                 *)

ReadDone(r) ==
    /\ rpc' = [rpc EXCEPT ![r] = "idle"]
    /\ code' = [code EXCEPT ![r] = NoCode]
    /\ got' = [got EXCEPT ![r] = NoAnswer]

(* An absent ticket is 404 and a FAILED one 502: the handler ends there. *)
GetTicket(r, c) ==
    /\ rpc[r] = "idle"
    /\ sub[c] = "accepted"
    /\ Live(c)
    /\ rpc' = [rpc EXCEPT ![r] = "read_query"]
    /\ code' = [code EXCEPT ![r] = c]
    /\ UNCHANGED <<redis, posts, queued, works, got, history, faults>>

GetQuery(r) ==
    LET q == QueryOf[code[r]]
    IN  /\ rpc[r] = "read_query"
        /\ IF query[q] = "COMPLETED"
           THEN /\ rpc' = [rpc EXCEPT ![r] = "deleting"]
                /\ got' = [got EXCEPT ![r] = result[q]]
                /\ UNCHANGED code
           ELSE ReadDone(r)
        /\ UNCHANGED <<redis, posts, queued, works, history, faults>>

DEL(c) ==
    /\ ticket' = [ticket EXCEPT ![c] = "absent"]
    /\ consumed' = [consumed EXCEPT ![c] = @ \/ ticket[c] # "absent"]
    /\ UNCHANGED <<query, result, waiting>>

(* 200 when DEL removed the ticket, 404 when somebody else had. *)
DeleteTicket(r) ==
    LET c == code[r]
    IN  /\ rpc[r] = "deleting"
        /\ DEL(c)
        /\ delivered' = [delivered EXCEPT ![c] =
                             IF ticket[c] # "absent" THEN Append(@, got[r]) ELSE @]
        /\ ReadDone(r)
        /\ UNCHANGED <<posts, queued, works, faults>>

(* DEL ran and its reply is lost: it is sent again, or the handler answers 503. *)
DeleteReplyLost(r) ==
    /\ rpc[r] = "deleting"
    /\ Fault
    /\ DEL(code[r])
    /\ \/ ReadDone(r)
       \/ UNCHANGED reads
    /\ UNCHANGED <<posts, queued, works, delivered>>

GetDies(r) ==
    /\ rpc[r] # "idle"
    /\ Fault
    /\ ReadDone(r)
    /\ UNCHANGED <<redis, posts, queued, works, history>>

-----------------------------------------------------------------------------
Expire ==
    \/ \E c \in Codes : ExpireTicket(c)
    \/ \E q \in Queries : ExpireQuery(q)

Post(c) ==
    \/ CreateTicket(c)
    \/ Publish(c)
    \/ Confirm(c)
    \/ MarkPublishFailed(c)

Work(w) ==
    \/ \E c \in Codes : Deliver(w, c)
    \/ ReadTicket(w)
    \/ ReadQuery(w)
    \/ SearchSucceeds(w)
    \/ SearchFails(w)
    \/ Complete(w)
    \/ Fail(w)
    \/ Settle(w)

Get(r) ==
    \/ \E c \in Codes : GetTicket(r, c)
    \/ GetQuery(r)
    \/ DeleteTicket(r)

Failure ==
    \/ \E c \in Codes : CreateReplyLost(c) \/ PublishFails(c) \/ SubmitDies(c)
    \/ \E w \in Workers : WriteReplyLost(w) \/ WorkerRedisError(w)
                            \/ LoseLink(w) \/ WorkerCrash(w)
    \/ \E r \in Readers : DeleteReplyLost(r) \/ GetDies(r)

Next ==
    \/ Expire
    \/ \E c \in Codes : Submit(c) \/ Post(c)
    \/ \E w \in Workers : Work(w)
    \/ \E r \in Readers : Get(r)
    \/ Failure

Spec == Init /\ [][Next]_vars

(* A handler or a worker that can take its next step takes it; the queue is *)
(* first-in first-out, so an idle worker is given what is waiting.          *)
(* Submissions, polls, failures and expiry need not happen.                 *)
Fairness ==
    /\ \A c \in Codes : WF_vars(Post(c))
    /\ \A w \in Workers : WF_vars(Work(w))

FairSpec == Spec /\ Fairness

-----------------------------------------------------------------------------
(* A magicCode is exchanged for a result at most once, however many GET     *)
(* handlers race for it and whatever replies are lost (routes.py, the DEL    *)
(* count decides).                                                           *)
OneDelivery == \A c \in Codes : Len(delivered[c]) <= 1

(* A stored result is final while its key lives: no retried or redelivered   *)
(* attempt, late failure or new submission of the query replaces, clears or  *)
(* fails it, and no attempt brings back a key that has expired (the guards   *)
(* of the scripts of store.py and worker.py).                                *)
ResultFinal ==
    [][\A q \in Queries :
        /\ query[q] = "COMPLETED" => \/ query'[q] = "COMPLETED" /\ result'[q] = result[q]
                                     \/ query'[q] = "absent"
        /\ query[q] = "absent" => query'[q] \in {"absent", "PENDING"}]_vars

(* While the TTLs keep queries at least as long as tickets, a ticket issued  *)
(* for a stored result is backed by that result, and a ticket issued for a   *)
(* job never waits for a query Redis has forgotten.                          *)
TicketBacked ==
    QueryCoversTicket =>
        \A c \in Codes :
            /\ ticket[c] = "COMPLETED" => query[QueryOf[c]] = "COMPLETED"
            /\ ticket[c] = "PENDING" => query[QueryOf[c]] # "absent"

(* Under the same TTLs, the result a GET handler read before its DEL is the  *)
(* stored result when the DEL succeeds: the two reads and the delete, three  *)
(* round trips, act as one.                                                  *)
ReadIsCurrent ==
    QueryCoversTicket =>
        \A r \in Readers :
            /\ rpc[r] = "deleting"
            /\ ticket[code[r]] # "absent"
            => /\ query[QueryOf[code[r]]] = "COMPLETED"
               /\ result[QueryOf[code[r]]] = got[r]

(* The worker's command has not been given up. *)
Carries(w, c) ==
    /\ job[w] = c
    /\ linked[w]
    /\ \/ wpc[w] \in {"read_ticket", "searching", "completing", "failing", "requeue"}
       \/ wpc[w] = "read_query" /\ seen[w]

(* A client that was sent 202 waits for a command that is queued or in a     *)
(* worker's hands, as long as its query has not left PENDING and its ticket  *)
(* lives: no failed attempt, lost reply, crash or redelivery loses the job    *)
(* (README.md:81, "each worker ACKs after updating its Redis key").           *)
NoLostJob ==
    \A c \in waiting :
        /\ sub[c] = "accepted"
        /\ ticket[c] = "PENDING"
        => queued[c] > 0 \/ \E w \in Workers : Carries(w, c)

(* Every POST ends with an answer. *)
PostEnds == \A c \in Codes : sub[c] = "creating" ~> sub[c] \in {"accepted", "refused"}

(* Every command leaves the queue and the workers for good: redelivery after *)
(* failures and the -1 outcome do not cycle for ever.                        *)
CommandEnds ==
    \A c \in Codes :
        queued[c] > 0 ~> queued[c] = 0 /\ \A w \in Workers : job[w] # c

(* A query that a 202 waits for leaves PENDING, by a result or a failure,    *)
(* unless the ticket goes first.                                             *)
JobEnds ==
    \A c \in Codes :
        c \in waiting /\ sub[c] = "accepted"
        ~> c \notin waiting \/ ticket[c] # "PENDING"

Contract == INSTANCE SearchContract WITH
    open <- {c \in Codes : Live(c)},
    answer <- result,
    delivered <- delivered

(* The whole of this module implements the contract of the API.  *)
ImplementsContract == Contract!Spec

(* What README.md:10-12 and the route's description say: the code is deleted  *)
(* after 200 has been returned.                                              *)
DeletedAfterReturn ==
    \A c \in Codes :
        consumed[c] /\ (\A r \in Readers : code[r] # c) => delivered[c] # <<>>
=============================================================================
