---------------------------- MODULE SearchPublisher ----------------------------
(***************************************************************************)
(* How backend processes hand search commands to the broker                 *)
(* (src/search/publisher.py).  In each process the event loop queues jobs,  *)
(* a single executor thread runs them in turn on one blocking connection,   *)
(* and a job is a sequence of broker operations each of which may fail or   *)
(* find the connection gone.  The broker is shared: exchange, bindings and  *)
(* queues outlive the processes and start as an earlier version left them,  *)
(* with the legacy queue bound.                                             *)
(***************************************************************************)
EXTENDS Naturals, Sequences

CONSTANTS
    Procs,     \* backend processes, one publisher each
    Requests,  \* POST /search handlers that reach publish()
    ProcOf,    \* ProcOf[r]: the process that serves r
    MaxFaults  \* how many failures a behaviour may contain (a bound)

ASSUME PublisherAssumption ==
    /\ ProcOf \in [Requests -> Procs]
    /\ Requests \intersect {"none", "start", "beat", "close"} = {}
    /\ MaxFaults \in Nat

VARIABLES
    phase,      \* where the application's lifespan stands
    beating,    \* the heartbeat task waits for its job
    call,       \* where each publish() call stands
    jobs,       \* the executor's queue
    cur,        \* the job the executor's thread runs
    pc,         \* the operation that job does next
    try,        \* the attempts of _publish that have failed
    conn,       \* self._connection; "broken": the peer is gone, unnoticed
    confirming, \* its channel is in confirm mode
    bound,      \* queues bound to the exchange (broker)
    copies,     \* copies of each command ever put in each queue (broker)
    faults      \* failures so far, at most MaxFaults

loop == <<phase, beating, call>>
thread == <<cur, pc, try>>
link == <<conn, confirming>>
broker == <<bound, copies>>
vars == <<loop, jobs, thread, link, broker, faults>>

Queues == {"legacy", "intelligent"}
Jobs == Requests \union {"start", "beat", "close"}
Phases == {"down", "starting", "failed", "serving", "closing", "released", "closed"}
Calls == {"idle", "waiting", "ok", "failed", "cancelled"}
Connecting == {"open", "unbind", "bind", "confirm"}
Publishing == {"flush", "send", "await"}

TypeOK ==
    /\ phase \in [Procs -> Phases]
    /\ beating \in [Procs -> BOOLEAN]
    /\ call \in [Requests -> Calls]
    /\ jobs \in [Procs -> Seq(Jobs)]
    /\ cur \in [Procs -> Jobs \union {"none"}]
    /\ pc \in [Procs -> Connecting \union Publishing \union {"idle", "beat", "close"}]
    /\ try \in [Procs -> {0, 1}]
    /\ conn \in [Procs -> {"none", "open", "broken", "closed"}]
    /\ confirming \in [Procs -> BOOLEAN]
    /\ bound \in SUBSET Queues
    /\ copies \in [Queues -> [Requests -> Nat]]
    /\ faults \in 0..MaxFaults

Init ==
    /\ phase = [p \in Procs |-> "down"]
    /\ beating = [p \in Procs |-> FALSE]
    /\ call = [r \in Requests |-> "idle"]
    /\ jobs = [p \in Procs |-> <<>>]
    /\ cur = [p \in Procs |-> "none"]
    /\ pc = [p \in Procs |-> "idle"]
    /\ try = [p \in Procs |-> 0]
    /\ conn = [p \in Procs |-> "none"]
    /\ confirming = [p \in Procs |-> FALSE]
    /\ bound = {"legacy"}
    /\ copies = [q \in Queues |-> [r \in Requests |-> 0]]
    /\ faults = 0

Fault ==
    /\ faults < MaxFaults
    /\ faults' = faults + 1

-----------------------------------------------------------------------------
(* Faulty variants of operators below, one plausible bug each, unused by Spec. *)

(* The executor is shut down before the connection is closed. *)
Shutdown_early(p) ==
    /\ phase[p] = "closing"
    /\ cur[p] = "none"
    /\ phase' = [phase EXCEPT ![p] = "closed"]
    /\ jobs' = [jobs EXCEPT ![p] = <<>>]
    /\ UNCHANGED <<beating, call, thread, link, broker, faults>>

(* The earlier version's binding is left alone. *)
Unbind_skips(p) ==
    /\ pc[p] = "unbind"
    /\ conn[p] = "open"
    /\ pc' = [pc EXCEPT ![p] = "bind"]
    /\ UNCHANGED <<loop, jobs, cur, try, link, broker, faults>>

(* A connection that is still being configured is kept for the next attempt. *)
Discard_configured(p) ==
    /\ conn' = [conn EXCEPT ![p] = IF confirming[p] THEN "none" ELSE @]
    /\ confirming' = [confirming EXCEPT ![p] = FALSE]

(* _publish tries once too often. *)
AttemptFails_thrice(p) ==
    /\ cur[p] \in Requests
    /\ pc[p] \in Connecting \union Publishing
    /\ faults < MaxFaults
    /\ faults' = faults + 1
    /\ conn' = [conn EXCEPT ![p] = "none"]
    /\ confirming' = [confirming EXCEPT ![p] = FALSE]
    /\ try[p] < 2
    /\ try' = [try EXCEPT ![p] = @ + 1]
    /\ pc' = [pc EXCEPT ![p] = "open"]
    /\ UNCHANGED <<loop, jobs, cur, broker>>

(* The heartbeat waits for a connection when there is none. *)
BeatDone_loops(p) ==
    /\ pc[p] = "beat"
    /\ conn[p] # "none"
    /\ beating' = [beating EXCEPT ![p] = FALSE]
    /\ cur' = [cur EXCEPT ![p] = "none"]
    /\ pc' = [pc EXCEPT ![p] = "idle"]
    /\ UNCHANGED <<phase, call, jobs, try, link, broker, faults>>

(* A connection that is gone is not closed, and the executor left running. *)
Release_needsPeer(p) ==
    /\ pc[p] = "close"
    /\ conn[p] \in {"none", "open"}
    /\ conn' = [conn EXCEPT ![p] = IF @ = "none" THEN @ ELSE "closed"]
    /\ phase' = [phase EXCEPT ![p] = "released"]
    /\ cur' = [cur EXCEPT ![p] = "none"]
    /\ pc' = [pc EXCEPT ![p] = "idle"]
    /\ UNCHANGED <<beating, call, jobs, try, confirming, broker, faults>>

-----------------------------------------------------------------------------
(* The event loop.  run_in_executor queues the job; a job whose caller is    *)
(* cancelled before the thread takes it stays queued and is skipped.         *)

Enqueue(p, job) == jobs' = [jobs EXCEPT ![p] = Append(@, job)]

Start(p) ==
    /\ phase[p] = "down"
    /\ phase' = [phase EXCEPT ![p] = "starting"]
    /\ Enqueue(p, "start")
    /\ UNCHANGED <<beating, call, thread, link, broker, faults>>

Publish(r) ==
    /\ phase[ProcOf[r]] = "serving"
    /\ call[r] = "idle"
    /\ call' = [call EXCEPT ![r] = "waiting"]
    /\ Enqueue(ProcOf[r], r)
    /\ UNCHANGED <<phase, beating, thread, link, broker, faults>>

(* The server gives up on the handler, at the end of its grace period. *)
Cancel(r) ==
    /\ call[r] = "waiting"
    /\ Fault
    /\ call' = [call EXCEPT ![r] = "cancelled"]
    /\ UNCHANGED <<phase, beating, jobs, thread, link, broker>>

Heartbeat(p) ==
    /\ phase[p] = "serving"
    /\ ~ beating[p]
    /\ beating' = [beating EXCEPT ![p] = TRUE]
    /\ Enqueue(p, "beat")
    /\ UNCHANGED <<phase, call, thread, link, broker, faults>>

(* The lifespan ends once no handler is left, or at once when start failed. *)
Close(p) ==
    /\ phase[p] \in {"serving", "failed"}
    /\ \A r \in Requests : ProcOf[r] = p => call[r] # "waiting"
    /\ phase' = [phase EXCEPT ![p] = "closing"]
    /\ beating' = [beating EXCEPT ![p] = FALSE]
    /\ Enqueue(p, "close")
    /\ UNCHANGED <<call, thread, link, broker, faults>>

(* shutdown(wait=True, cancel_futures=True), whether or not _close raised. *)
Shutdown(p) ==
    /\ phase[p] = "released"
    /\ cur[p] = "none"
    /\ phase' = [phase EXCEPT ![p] = "closed"]
    /\ jobs' = [jobs EXCEPT ![p] = <<>>]
    /\ UNCHANGED <<beating, call, thread, link, broker, faults>>

-----------------------------------------------------------------------------
(* The executor's thread. *)

Go(p, op) == pc' = [pc EXCEPT ![p] = op]

Finish(p) ==
    /\ cur' = [cur EXCEPT ![p] = "none"]
    /\ try' = [try EXCEPT ![p] = 0]
    /\ Go(p, "idle")

(* What a handler that still waits is told. *)
Answer(r, outcome) ==
    call' = [call EXCEPT ![r] = IF @ = "waiting" THEN outcome ELSE @]

Skipped(p, job) ==
    \/ job \in Requests /\ call[job] = "cancelled"
    \/ job = "beat" /\ ~ beating[p]

Skip(p) ==
    /\ cur[p] = "none"
    /\ jobs[p] # <<>>
    /\ Skipped(p, Head(jobs[p]))
    /\ jobs' = [jobs EXCEPT ![p] = Tail(@)]
    /\ UNCHANGED <<loop, thread, link, broker, faults>>

(* Where an attempt of _publish begins: it connects when it holds no           *)
(* connection or a closed one.                                                 *)
Attempt(c) == IF c \in {"none", "closed"} THEN "open" ELSE "flush"

Take(p) ==
    /\ cur[p] = "none"
    /\ jobs[p] # <<>>
    /\ LET job == Head(jobs[p])
       IN  /\ ~ Skipped(p, job)
           /\ cur' = [cur EXCEPT ![p] = job]
           /\ Go(p, IF job \in {"beat", "close"} THEN job
                    ELSE IF job = "start" THEN "open"
                    ELSE Attempt(conn[p]))
    /\ jobs' = [jobs EXCEPT ![p] = Tail(@)]
    /\ UNCHANGED <<loop, try, link, broker, faults>>

(* _connect: a connection and a channel, ... *)
Open(p) ==
    /\ pc[p] = "open"
    /\ conn' = [conn EXCEPT ![p] = "open"]
    /\ confirming' = [confirming EXCEPT ![p] = FALSE]
    /\ Go(p, "unbind")
    /\ UNCHANGED <<loop, jobs, cur, try, broker, faults>>

(* ... the exchange and the queues, the legacy queue unbound, ... *)
Unbind(p) ==
    /\ pc[p] = "unbind"
    /\ conn[p] = "open"
    /\ bound' = bound \ {"legacy"}
    /\ Go(p, "bind")
    /\ UNCHANGED <<loop, jobs, cur, try, link, copies, faults>>

Bind(p) ==
    /\ pc[p] = "bind"
    /\ conn[p] = "open"
    /\ bound' = bound \union {"intelligent"}
    /\ Go(p, "confirm")
    /\ UNCHANGED <<loop, jobs, cur, try, link, copies, faults>>

(* ... and confirm mode, at the end. *)
ConfirmDelivery(p) ==
    /\ pc[p] = "confirm"
    /\ conn[p] = "open"
    /\ confirming' = [confirming EXCEPT ![p] = TRUE]
    /\ IF cur[p] = "start"
       THEN /\ phase' = [phase EXCEPT ![p] = "serving"]
            /\ Finish(p)
       ELSE /\ Go(p, "flush")
            /\ UNCHANGED <<phase, cur, try>>
    /\ UNCHANGED <<beating, call, jobs, conn, broker, faults>>

(* process_data_events may find the connection gone, or not notice yet. *)
Flush(p) ==
    /\ pc[p] = "flush"
    /\ Go(p, "send")
    /\ UNCHANGED <<loop, jobs, cur, try, link, broker, faults>>

(* The fanout exchange copies the command to every bound queue; mandatory=True *)
(* makes a command without a queue an error.  Only in confirm mode does        *)
(* basic_publish wait for the broker.                                          *)
Send(p) ==
    /\ pc[p] = "send"
    /\ bound # {}
    /\ copies' = IF conn[p] = "open"
                 THEN [q \in Queues |->
                          [copies[q] EXCEPT ![cur[p]] = IF q \in bound THEN @ + 1 ELSE @]]
                 ELSE copies
    /\ IF confirming[p]
       THEN /\ Go(p, "await")
            /\ UNCHANGED <<call, cur, try>>
       ELSE /\ Answer(cur[p], "ok")
            /\ Finish(p)
    /\ UNCHANGED <<phase, beating, jobs, link, bound, faults>>

Acked(p) ==
    /\ pc[p] = "await"
    /\ conn[p] = "open"
    /\ Answer(cur[p], "ok")
    /\ Finish(p)
    /\ UNCHANGED <<phase, beating, jobs, link, broker, faults>>

(* An AMQP, OS or timeout error in any operation. *)
Raises(p) ==
    /\ pc[p] \in Connecting \union Publishing \union {"beat"}
    /\ \/ UNCHANGED faults /\ conn[p] = "broken"
       \/ UNCHANGED faults /\ pc[p] = "send" /\ bound = {}
       \/ Fault

Discard(p) ==
    /\ conn' = [conn EXCEPT ![p] = "none"]
    /\ confirming' = [confirming EXCEPT ![p] = FALSE]

(* start() gives up and keeps what _connect has built so far. *)
StartFails(p) ==
    /\ Raises(p)
    /\ cur[p] = "start"
    /\ phase' = [phase EXCEPT ![p] = "failed"]
    /\ Finish(p)
    /\ UNCHANGED <<beating, call, jobs, link, broker>>

(* _publish discards the connection and makes a second attempt. *)
AttemptFails(p) ==
    /\ Raises(p)
    /\ cur[p] \in Requests
    /\ Discard(p)
    /\ IF try[p] = 0
       THEN /\ try' = [try EXCEPT ![p] = 1]
            /\ Go(p, Attempt(conn'[p]))
            /\ UNCHANGED <<call, cur>>
       ELSE /\ Answer(cur[p], "failed")
            /\ Finish(p)
    /\ UNCHANGED <<phase, beating, jobs, broker>>

BeatFails(p) ==
    /\ Raises(p)
    /\ cur[p] = "beat"
    /\ conn[p] \in {"open", "broken"}
    /\ Discard(p)
    /\ beating' = [beating EXCEPT ![p] = FALSE]
    /\ Finish(p)
    /\ UNCHANGED <<phase, call, jobs, broker>>

(* Without a connection the heartbeat has nothing to do. *)
BeatDone(p) ==
    /\ pc[p] = "beat"
    /\ beating' = [beating EXCEPT ![p] = FALSE]
    /\ Finish(p)
    /\ UNCHANGED <<phase, call, jobs, link, broker, faults>>

Release(p) ==
    /\ pc[p] = "close"
    /\ conn' = [conn EXCEPT ![p] = IF @ = "none" THEN @ ELSE "closed"]
    /\ phase' = [phase EXCEPT ![p] = "released"]
    /\ Finish(p)
    /\ UNCHANGED <<beating, call, jobs, confirming, broker, faults>>

(* The broker or the network drops the connection. *)
Break(p) ==
    /\ conn[p] = "open"
    /\ Fault
    /\ conn' = [conn EXCEPT ![p] = "broken"]
    /\ UNCHANGED <<loop, jobs, thread, confirming, broker>>

-----------------------------------------------------------------------------
Thread(p) ==
    \/ Skip(p)
    \/ Take(p)
    \/ Open(p)
    \/ Unbind(p)
    \/ Bind(p)
    \/ ConfirmDelivery(p)
    \/ Flush(p)
    \/ Send(p)
    \/ Acked(p)
    \/ StartFails(p)
    \/ AttemptFails(p)
    \/ BeatFails(p)
    \/ BeatDone(p)
    \/ Release(p)

Next ==
    \/ \E p \in Procs : Start(p) \/ Heartbeat(p) \/ Close(p) \/ Shutdown(p)
                          \/ Thread(p) \/ Break(p)
    \/ \E r \in Requests : Publish(r) \/ Cancel(r)

Spec == Init /\ [][Next]_vars

(* The thread runs what is queued; shutdown follows the release.  Start,    *)
(* requests, heartbeats, failures and the end of the service need not come. *)
Fairness == \A p \in Procs : WF_vars(Thread(p)) /\ WF_vars(Shutdown(p))

FairSpec == Spec /\ Fairness

-----------------------------------------------------------------------------
(* A publish() that returns normally has put its command in the queue of the *)
(* intelligent workers: every reconnection ends in confirm mode before a      *)
(* command is sent, so a broken connection cannot swallow one.                *)
ConfirmedIsQueued ==
    \A r \in Requests : call[r] = "ok" => copies["intelligent"][r] > 0

(* No command reaches the legacy queue, though an earlier version left it    *)
(* bound and attempts may stop half-way through _connect (publisher.py:96,    *)
(* README.md:20).                                                            *)
LegacyGetsNothing == \A r \in Requests : copies["legacy"][r] = 0

(* One publish() puts at most two copies in a queue, whatever is lost. *)
AtMostTwice == \A q \in Queues, r \in Requests : copies[q][r] <= 2

(* After close() the thread is gone and holds no connection: neither a       *)
(* heartbeat nor a command of a cancelled handler brings one back.           *)
ClosedForGood ==
    \A p \in Procs :
        phase[p] = "closed" => /\ cur[p] = "none" /\ jobs[p] = <<>>
                               /\ conn[p] \in {"none", "closed"}

(* Every publish() returns: neither a lost connection nor a heartbeat keeps  *)
(* the one thread from the jobs behind it.                                   *)
PublishEnds == \A r \in Requests : call[r] = "waiting" ~> call[r] # "waiting"

(* close() ends, whatever the thread is doing and whatever it finds. *)
CloseEnds == \A p \in Procs : phase[p] = "closing" ~> phase[p] = "closed"

(* What README.md:67-68 says: both queues get a copy of each command. *)
BothQueuesServed ==
    \A r \in Requests : call[r] = "ok" => \A q \in Queues : copies[q][r] > 0
=============================================================================
