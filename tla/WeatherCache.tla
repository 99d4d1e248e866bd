----------------------------- MODULE WeatherCache -----------------------------
(***************************************************************************)
(* GET /weather/current (src/weather/routes.py, cache.py): one Redis key    *)
(* caches the nationwide answer for all backend processes, and in each      *)
(* process a lock merges the requests that miss it.  A forecast issue is a   *)
(* number; the collector, a program of its own, stores the next one at any   *)
(* time.  Every Redis command and query is a step, and requests interleave   *)
(* between them.                                                            *)
(***************************************************************************)
EXTENDS Naturals, Sequences, SequencesExt

CONSTANTS
    Procs,     \* backend processes
    Requests,  \* concurrent GET /weather/current handlers
    ProcOf,    \* ProcOf[r]: the process that serves r
    MaxIssue,  \* how many issues the collector stores (a bound)
    MaxLapses  \* how many expiries and failures may happen (a bound)

ASSUME WeatherAssumption ==
    /\ ProcOf \in [Requests -> Procs]
    /\ IsFiniteSet(Requests)
    /\ MaxIssue \in Nat
    /\ MaxLapses \in Nat

VARIABLES
    issue,   \* the newest issue in PostgreSQL
    stored,  \* the key: "none", a "good" payload, or a "bad" one that
             \* does not match the response contract
    late,    \* a SET whose handler has given up has still to reach Redis
    line,    \* line[p]: the handlers at p's lock in order, its holder first
    pc,      \* where each handler stands
    sure,    \* its cache_available
    seen,    \* the issue it has read from PostgreSQL
    reads,   \* queries each process has made (history)
    put,     \* the issue each process has last seen stored (history)
    lapses   \* expiries and failures so far

redis == <<stored, late, put>>
local == <<pc, sure, seen, line>>
vars == <<issue, redis, local, reads, lapses>>

TypeOK ==
    /\ issue \in 0..MaxIssue
    /\ stored \in {"none", "good", "bad"}
    /\ late \in BOOLEAN
    /\ line \in [Procs -> Seq(Requests)]
    /\ pc \in [Requests -> {"idle", "wait", "load", "write"}]
    /\ sure \in [Requests -> BOOLEAN]
    /\ seen \in [Requests -> 0..MaxIssue]
    /\ reads \in [Procs -> Nat]
    /\ put \in [Procs -> 0..MaxIssue]
    /\ lapses \in 0..MaxLapses
    /\ \A p \in Procs :
          ToSet(line[p]) = {r \in Requests : ProcOf[r] = p /\ pc[r] # "idle"}

Init ==
    /\ issue = 0
    /\ stored = "none"
    /\ late = FALSE
    /\ line = [p \in Procs |-> <<>>]
    /\ pc = [r \in Requests |-> "idle"]
    /\ sure = [r \in Requests |-> FALSE]
    /\ seen = [r \in Requests |-> 0]
    /\ reads = [p \in Procs |-> 0]
    /\ put = [p \in Procs |-> 0]
    /\ lapses = 0

Lapse ==
    /\ lapses < MaxLapses
    /\ lapses' = lapses + 1

-----------------------------------------------------------------------------
(* Faulty variants of operators below, one plausible bug each, unused by Spec. *)

(* The lock is not taken. *)
Holds_free(r) == TRUE

(* The cache is not looked at again once the lock is held. *)
SecondRead_skipped(r) ==
    /\ line[ProcOf[r]] # <<>>
    /\ Head(line[ProcOf[r]]) = r
    /\ pc[r] = "wait"
    /\ sure[r]
    /\ pc' = [pc EXCEPT ![r] = "load"]
    /\ UNCHANGED <<issue, redis, sure, seen, line, reads, lapses>>

(* An error leaves the lock taken. *)
LoadFails_locked(r) ==
    /\ pc[r] = "load" \/ (pc[r] = "wait" /\ ~ sure[r])
    /\ line[ProcOf[r]] # <<>>
    /\ Head(line[ProcOf[r]]) = r
    /\ Lapse
    /\ reads' = [reads EXCEPT ![ProcOf[r]] = @ + 1]
    /\ pc' = [pc EXCEPT ![r] = "idle"]
    /\ UNCHANGED <<issue, redis, sure, seen, line>>

-----------------------------------------------------------------------------
(* asyncio.Lock: first come, first served; a cancelled waiter leaves.  *)

Holds(r) ==
    /\ line[ProcOf[r]] # <<>>
    /\ Head(line[ProcOf[r]]) = r

(* The handler answers, or raises, and leaves the lock. *)
Leave(r) ==
    /\ pc' = [pc EXCEPT ![r] = "idle"]
    /\ \E i \in DOMAIN line[ProcOf[r]] :
          /\ line[ProcOf[r]][i] = r
          /\ line' = [line EXCEPT ![ProcOf[r]] = RemoveAt(@, i)]
    /\ UNCHANGED <<sure, seen>>

Queue(r, available) ==
    /\ pc' = [pc EXCEPT ![r] = "wait"]
    /\ sure' = [sure EXCEPT ![r] = available]
    /\ line' = [line EXCEPT ![ProcOf[r]] = Append(@, r)]
    /\ UNCHANGED seen

(* A hit is answered at once and changes nothing; a miss and a payload that *)
(* does not parse go to the lock.                                           *)
FirstRead(r) ==
    /\ pc[r] = "idle"
    /\ stored # "good"
    /\ Queue(r, TRUE)
    /\ UNCHANGED <<issue, redis, reads, lapses>>

FirstReadFails(r) ==
    /\ pc[r] = "idle"
    /\ Lapse
    /\ Queue(r, FALSE)
    /\ UNCHANGED <<issue, redis, reads>>

SecondRead(r) ==
    /\ Holds(r)
    /\ pc[r] = "wait"
    /\ sure[r]
    /\ IF stored = "good"
       THEN Leave(r)
       ELSE /\ pc' = [pc EXCEPT ![r] = "load"]
            /\ UNCHANGED <<sure, seen, line>>
    /\ UNCHANGED <<issue, redis, reads, lapses>>

SecondReadFails(r) ==
    /\ Holds(r)
    /\ pc[r] = "wait"
    /\ sure[r]
    /\ Lapse
    /\ sure' = [sure EXCEPT ![r] = FALSE]
    /\ UNCHANGED <<issue, redis, pc, seen, line, reads>>

(* The handler is about to query PostgreSQL: it found nothing in the cache, *)
(* or could not ask it.                                                     *)
Loads(r) ==
    /\ Holds(r)
    /\ pc[r] = "load" \/ (pc[r] = "wait" /\ ~ sure[r])
    /\ reads' = [reads EXCEPT ![ProcOf[r]] = @ + 1]

(* Without the cache the handler answers from what it has read. *)
Load(r) ==
    /\ Loads(r)
    /\ IF sure[r]
       THEN /\ pc' = [pc EXCEPT ![r] = "write"]
            /\ seen' = [seen EXCEPT ![r] = issue]
            /\ UNCHANGED <<sure, line>>
       ELSE Leave(r)
    /\ UNCHANGED <<issue, redis, lapses>>

(* The query fails, or the rows do not fit the response: 503. *)
LoadFails(r) ==
    /\ Loads(r)
    /\ Lapse
    /\ Leave(r)
    /\ UNCHANGED <<issue, redis>>

Write(r) ==
    /\ Holds(r)
    /\ pc[r] = "write"
    /\ stored' = "good"
    /\ put' = [put EXCEPT ![ProcOf[r]] = seen[r]]
    /\ Leave(r)
    /\ UNCHANGED <<issue, late, reads, lapses>>

(* What a SET without a reply has done: it was applied, it will be, or it *)
(* never is (the payload was too large, or Redis is down).                *)
Unconfirmed ==
    \/ /\ stored' = "good"
       /\ UNCHANGED late
    \/ /\ late' = TRUE
       /\ UNCHANGED stored
    \/ UNCHANGED <<stored, late>>

(* The handler answers all the same. *)
WriteFails(r) ==
    /\ Holds(r)
    /\ pc[r] = "write"
    /\ Lapse
    /\ Unconfirmed
    /\ Leave(r)
    /\ UNCHANGED <<issue, put, reads>>

(* The server gives up on the handler, whose query or SET may be under way; *)
(* async with releases the lock, a waiter leaves the line.                  *)
Cancel(r) ==
    /\ pc[r] # "idle"
    /\ Lapse
    /\ IF pc[r] = "write" THEN Unconfirmed ELSE UNCHANGED <<stored, late>>
    /\ \/ Loads(r)
       \/ UNCHANGED reads
    /\ Leave(r)
    /\ UNCHANGED <<issue, put>>

-----------------------------------------------------------------------------
Collect ==
    /\ issue < MaxIssue
    /\ issue' = issue + 1
    /\ UNCHANGED <<redis, local, reads, lapses>>

(* The key expires after current_ttl seconds, or another program overwrites it. *)
Expire ==
    /\ Lapse
    /\ \E s \in {"none", "bad"} : stored # s /\ stored' = s
    /\ UNCHANGED <<issue, late, put, local, reads>>

LateSet ==
    /\ late
    /\ stored' = "good"
    /\ late' = FALSE
    /\ UNCHANGED <<issue, put, local, reads, lapses>>

Step(r) ==
    \/ SecondRead(r)
    \/ Load(r)
    \/ Write(r)

Failure(r) ==
    \/ FirstReadFails(r)
    \/ SecondReadFails(r)
    \/ LoadFails(r)
    \/ WriteFails(r)
    \/ Cancel(r)

Next ==
    \/ Collect
    \/ Expire
    \/ LateSet
    \/ \E r \in Requests : FirstRead(r) \/ Step(r) \/ Failure(r)

Spec == Init /\ [][Next]_vars

(* A handler whose command or query can go on goes on; requests, failures, *)
(* expiry and the collector are free.                                      *)
Fairness == \A r \in Requests : WF_vars(Step(r))

FairSpec == Spec /\ Fairness

-----------------------------------------------------------------------------
(* Misses are merged: a process queries PostgreSQL once, and once more for   *)
(* each expiry or failure, however many requests miss together (the promise  *)
(* of the route's description).                                              *)
ReadsArePaidFor == \A p \in Procs : reads[p] <= lapses + 1

(* A process never replaces its answer in the cache by an older one, though   *)
(* its requests read PostgreSQL and write Redis in separate steps.  Only a    *)
(* SET that has lost its reply may still land out of order.                  *)
OwnWritesInOrder == [][\A p \in Procs : put'[p] >= put[p]]_vars

(* Every request that missed is answered: errors, cancelled waiters and lost *)
(* replies all pass the lock on.                                             *)
RequestEnds == \A r \in Requests : pc[r] = "wait" ~> pc[r] = "idle"
=============================================================================
