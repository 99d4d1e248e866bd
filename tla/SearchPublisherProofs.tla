------------------------- MODULE SearchPublisherProofs -------------------------
(* Proofs about SearchPublisher for any processes, requests and failures. *)
EXTENDS SearchPublisher, TLAPS

(* A function updated at one point keeps its type. *)
LEMMA Update ==
    ASSUME NEW D, NEW R, NEW f \in [D -> R], NEW x, NEW v, x \in D => v \in R
    PROVE  [f EXCEPT ![x] = v] \in [D -> R]
OBVIOUS

(* Every reachable state is well typed. *)
THEOREM TypeCorrect == Spec => []TypeOK
<1>1. Init => TypeOK
  BY PublisherAssumption DEF Init, TypeOK, Queues, Phases, Calls, Jobs, Connecting, Publishing
<1>2. TypeOK /\ [Next]_vars => TypeOK'
  <2> SUFFICES ASSUME TypeOK, [Next]_vars
               PROVE  TypeOK'
    OBVIOUS
  <2> USE PublisherAssumption
      DEF TypeOK, Phases, Calls, Jobs, Connecting, Publishing,
          Fault, Enqueue, Go, Finish, Answer, loop, thread, link, broker
  <2>1. ASSUME NEW p \in Procs, Start(p)
        PROVE  TypeOK'
    BY <2>1 DEF Start
  <2>2. ASSUME NEW p \in Procs, Heartbeat(p)
        PROVE  TypeOK'
    BY <2>2 DEF Heartbeat
  <2>3. ASSUME NEW p \in Procs, Close(p)
        PROVE  TypeOK'
    BY <2>3 DEF Close
  <2>4. ASSUME NEW p \in Procs, Shutdown(p)
        PROVE  TypeOK'
    BY <2>4 DEF Shutdown
  <2>5. ASSUME NEW p \in Procs, Skip(p)
        PROVE  TypeOK'
    BY <2>5 DEF Skip
  <2>6. ASSUME NEW p \in Procs, Take(p)
        PROVE  TypeOK'
    BY <2>6 DEF Take, Attempt
  <2>7. ASSUME NEW p \in Procs, Open(p)
        PROVE  TypeOK'
    BY <2>7 DEF Open
  <2>8. ASSUME NEW p \in Procs, Unbind(p)
        PROVE  TypeOK'
    BY <2>8 DEF Unbind, Queues
  <2>9. ASSUME NEW p \in Procs, Bind(p)
        PROVE  TypeOK'
    BY <2>9 DEF Bind, Queues
  <2>10. ASSUME NEW p \in Procs, ConfirmDelivery(p)
        PROVE  TypeOK'
    <3>1. confirming' \in [Procs -> BOOLEAN]
      BY <2>10 DEF ConfirmDelivery
    <3>2. phase' \in [Procs -> Phases]
      BY <2>10, ZenonT(60) DEF ConfirmDelivery
    <3>3. cur' \in [Procs -> Jobs \union {"none"}] /\ try' \in [Procs -> {0, 1}]
      BY <2>10, ZenonT(60) DEF ConfirmDelivery
    <3>4. pc' \in [Procs -> Connecting \union Publishing \union {"idle", "beat", "close"}]
      <4>1. Go(p, "flush") \/ Go(p, "idle")
        BY <2>10, Zenon DEF ConfirmDelivery
      <4> QED
        BY <4>1
    <3> QED
      BY <2>10, <3>1, <3>2, <3>3, <3>4 DEF ConfirmDelivery
  <2>11. ASSUME NEW p \in Procs, Flush(p)
        PROVE  TypeOK'
    BY <2>11 DEF Flush
  <2>12. ASSUME NEW p \in Procs, Send(p)
        PROVE  TypeOK'
    <3>1. copies' \in [Queues -> [Requests -> Nat]]
      <4> DEFINE more == [q \in Queues |->
                   [copies[q] EXCEPT ![cur[p]] = IF q \in bound THEN @ + 1 ELSE @]]
      <4>1. more \in [Queues -> [Requests -> Nat]]
        <5>1. ASSUME NEW q \in Queues
              PROVE  [copies[q] EXCEPT ![cur[p]] = IF q \in bound THEN @ + 1 ELSE @]
                       \in [Requests -> Nat]
          <6>1. copies[q] \in [Requests -> Nat]
            BY Zenon
          <6> DEFINE v == IF q \in bound THEN copies[q][cur[p]] + 1 ELSE copies[q][cur[p]]
          <6>2. cur[p] \in Requests => v \in Nat
            <7>1. ASSUME cur[p] \in Requests  PROVE copies[q][cur[p]] \in Nat
              BY <6>1, <7>1
            <7> QED
              BY <7>1
          <6> HIDE DEF v
          <6>3. [copies[q] EXCEPT ![cur[p]] = v] \in [Requests -> Nat]
            BY ONLY <6>1, <6>2, Update
          <6> QED
            BY ONLY <6>3 DEF v
        <5> HIDE DEF TypeOK
        <5> QED
          BY <5>1, Zenon
      <4>2. copies' = more \/ copies' = copies
        BY <2>12 DEF Send
      <4> QED
        BY <4>1, <4>2
    <3>2. call' \in [Requests -> Calls]
      <4> DEFINE v(o) == IF call[cur[p]] = "waiting" THEN o ELSE call[cur[p]]
      <4>1. \A o \in Calls : cur[p] \in Requests => v(o) \in Calls
        OBVIOUS
      <4>2. \A o \in Calls : [call EXCEPT ![cur[p]] = v(o)] \in [Requests -> Calls]
        BY <4>1, Update
      <4> QED
        BY <4>2, <2>12 DEF Send
    <3>3. cur' \in [Procs -> Jobs \union {"none"}] /\ try' \in [Procs -> {0, 1}]
      BY <2>12, ZenonT(60) DEF Send
    <3>4. pc' \in [Procs -> Connecting \union Publishing \union {"idle", "beat", "close"}]
      <4>1. Go(p, "await") \/ Go(p, "idle")
        BY <2>12, Zenon DEF Send
      <4> QED
        BY <4>1
    <3> QED
      BY <2>12, <3>1, <3>2, <3>3, <3>4 DEF Send
  <2>13. ASSUME NEW p \in Procs, Acked(p)
        PROVE  TypeOK'
    BY <2>13 DEF Acked
  <2>14. ASSUME NEW p \in Procs, StartFails(p)
        PROVE  TypeOK'
    BY <2>14 DEF StartFails, Raises, Discard
  <2>15. ASSUME NEW p \in Procs, AttemptFails(p)
        PROVE  TypeOK'
    <3>1. /\ conn' \in [Procs -> {"none", "open", "broken", "closed"}]
          /\ confirming' \in [Procs -> BOOLEAN]
          /\ faults' \in 0..MaxFaults
      BY <2>15 DEF AttemptFails, Raises, Discard
    <3>2. call' \in [Requests -> Calls]
      <4> DEFINE v(o) == IF call[cur[p]] = "waiting" THEN o ELSE call[cur[p]]
      <4>1. \A o \in Calls : cur[p] \in Requests => v(o) \in Calls
        OBVIOUS
      <4>2. \A o \in Calls : [call EXCEPT ![cur[p]] = v(o)] \in [Requests -> Calls]
        BY <4>1, Update
      <4> QED
        BY <4>2, <2>15, ZenonT(60) DEF AttemptFails, Attempt
    <3>3. cur' \in [Procs -> Jobs \union {"none"}] /\ try' \in [Procs -> {0, 1}]
      BY <2>15, ZenonT(60) DEF AttemptFails, Attempt
    <3>4. pc' \in [Procs -> Connecting \union Publishing \union {"idle", "beat", "close"}]
      BY <2>15, ZenonT(60) DEF AttemptFails, Attempt
    <3> QED
      BY <2>15, <3>1, <3>2, <3>3, <3>4 DEF AttemptFails
  <2>16. ASSUME NEW p \in Procs, BeatFails(p)
        PROVE  TypeOK'
    BY <2>16 DEF BeatFails, Raises, Discard
  <2>17. ASSUME NEW p \in Procs, BeatDone(p)
        PROVE  TypeOK'
    BY <2>17 DEF BeatDone
  <2>18. ASSUME NEW p \in Procs, Release(p)
        PROVE  TypeOK'
    BY <2>18 DEF Release
  <2>19. ASSUME NEW p \in Procs, Break(p)
        PROVE  TypeOK'
    BY <2>19 DEF Break
  <2>20. ASSUME NEW r \in Requests, Publish(r)
        PROVE  TypeOK'
    BY <2>20 DEF Publish
  <2>21. ASSUME NEW r \in Requests, Cancel(r)
        PROVE  TypeOK'
    BY <2>21 DEF Cancel
  <2>22. CASE UNCHANGED vars
    BY <2>22 DEF vars
  <2> QED
    BY <2>1, <2>2, <2>3, <2>4, <2>5, <2>6, <2>7, <2>8, <2>9, <2>10, <2>11, <2>12, <2>13, <2>14, <2>15, <2>16, <2>17, <2>18, <2>19, <2>20, <2>21, <2>22 DEF Next, Thread
<1> QED
  BY <1>1, <1>2, PTL DEF Spec

-----------------------------------------------------------------------------
(* What the thread and its queue hold in each phase: start alone before the *)
(* service, close last at its end, nothing once it is released.             *)
Coupled(p) ==
    /\ pc[p] = "idle" <=> cur[p] = "none"
    /\ pc[p] \in {"beat", "close"} => cur[p] = pc[p]
    /\ pc[p] \in Connecting => cur[p] \in Requests \union {"start"}
    /\ pc[p] \in Publishing => cur[p] \in Requests

StartAlone(p) ==
    /\ \A i \in 1..Len(jobs[p]) : jobs[p][i] = "start" => phase[p] = "starting"
    /\ cur[p] = "start" => phase[p] = "starting" /\ jobs[p] = <<>>
    /\ phase[p] = "starting" => /\ cur[p] \in {"none", "start"}
                                /\ jobs[p] \in {<<>>, <<"start">>}
    /\ phase[p] \in {"down", "failed"} => cur[p] = "none" /\ jobs[p] = <<>>

CloseLast(p) ==
    /\ \A i \in 1..Len(jobs[p]) :
        jobs[p][i] = "close" => i = Len(jobs[p]) /\ phase[p] = "closing"
    /\ cur[p] = "close" => jobs[p] = <<>> /\ phase[p] = "closing"
    /\ phase[p] \in {"released", "closed"} =>
        cur[p] = "none" /\ jobs[p] = <<>> /\ conn[p] \in {"none", "closed"}

JobInv == \A p \in Procs : Coupled(p) /\ StartAlone(p) /\ CloseLast(p)

(* The order of jobs is invariant. *)
LEMMA JobsOrdered == Spec => []JobInv
<1> DEFINE Ordered(q) == Coupled(q) /\ StartAlone(q) /\ CloseLast(q)
           Same(q) == /\ phase'[q] = phase[q] /\ jobs'[q] = jobs[q] /\ cur'[q] = cur[q]
                      /\ pc'[q] = pc[q] /\ conn'[q] = conn[q]
<1>1. Init => JobInv
  <2> SUFFICES ASSUME Init, NEW p \in Procs
               PROVE  Ordered(p)
    BY DEF JobInv
  <2>1. /\ jobs[p] = <<>> /\ phase[p] = "down" /\ cur[p] = "none"
        /\ pc[p] = "idle" /\ conn[p] = "none"
    BY DEF Init
  <2> QED
    BY <2>1 DEF Coupled, StartAlone, CloseLast, Connecting, Publishing
<1>2. TypeOK /\ JobInv /\ [Next]_vars => JobInv'
  <2> SUFFICES ASSUME TypeOK, JobInv, [Next]_vars
               PROVE  JobInv'
    OBVIOUS
  <2>a. ASSUME NEW q \in Procs, Same(q)
        PROVE  Ordered(q)'
    BY <2>a DEF JobInv, Coupled, StartAlone, CloseLast
  <2>b. ASSUME NEW p \in Procs, Ordered(p)', \A q \in Procs \ {p} : Same(q)
        PROVE  JobInv'
    BY <2>a, <2>b DEF JobInv
  <2>1. ASSUME NEW p \in Procs, Start(p)
        PROVE  JobInv'
    <3>1. \A q \in Procs \ {p} : Same(q)
      BY <2>1 DEF Start, Enqueue, loop, thread, link, TypeOK, Jobs, Phases, Connecting, Publishing
    <3>2. Ordered(p)'
      <4>1. jobs[p] = <<>> /\ cur[p] = "none" /\ pc[p] = "idle"
        BY <2>1 DEF Start, JobInv, StartAlone, Coupled
      <4>2. jobs'[p] = <<"start">> /\ phase'[p] = "starting"
        BY <2>1, <4>1 DEF Start, Enqueue, TypeOK
      <4>3. cur'[p] = "none" /\ pc'[p] = "idle"
        BY <2>1, <4>1 DEF Start, thread
      <4> QED
        BY <4>2, <4>3 DEF Coupled, StartAlone, CloseLast, Connecting, Publishing
    <3> QED
      BY <3>1, <3>2, <2>b
  <2>2. ASSUME NEW p \in Procs, Heartbeat(p)
        PROVE  JobInv'
    <3>1. \A q \in Procs \ {p} : Same(q)
      BY <2>2 DEF Heartbeat, Enqueue, loop, thread, link, TypeOK, Jobs, Phases, Connecting, Publishing
    <3>2. Ordered(p)'
      BY <2>2, PublisherAssumption DEF JobInv, Coupled, StartAlone, CloseLast, Heartbeat, Enqueue, loop, thread, link, TypeOK, Jobs, Phases, Connecting, Publishing
    <3> QED
      BY <3>1, <3>2, <2>b
  <2>3. ASSUME NEW p \in Procs, Close(p)
        PROVE  JobInv'
    <3>1. \A q \in Procs \ {p} : Same(q)
      BY <2>3 DEF Close, Enqueue, loop, thread, link, TypeOK, Jobs, Phases, Connecting, Publishing
    <3>2. Ordered(p)'
      BY <2>3, PublisherAssumption DEF JobInv, Coupled, StartAlone, CloseLast, Close, Enqueue, loop, thread, link, TypeOK, Jobs, Phases, Connecting, Publishing
    <3> QED
      BY <3>1, <3>2, <2>b
  <2>4. ASSUME NEW p \in Procs, Shutdown(p)
        PROVE  JobInv'
    <3>1. \A q \in Procs \ {p} : Same(q)
      BY <2>4 DEF Shutdown, loop, thread, link, TypeOK, Jobs, Phases, Connecting, Publishing
    <3>2. Ordered(p)'
      BY <2>4, PublisherAssumption DEF JobInv, Coupled, StartAlone, CloseLast, Shutdown, loop, thread, link, TypeOK, Jobs, Phases, Connecting, Publishing
    <3> QED
      BY <3>1, <3>2, <2>b
  <2>5. ASSUME NEW p \in Procs, Skip(p)
        PROVE  JobInv'
    <3>1. \A q \in Procs \ {p} : Same(q)
      BY <2>5 DEF Skip, loop, thread, link, TypeOK, Jobs, Phases, Connecting, Publishing
    <3>2. Ordered(p)'
      BY <2>5, PublisherAssumption DEF JobInv, Coupled, StartAlone, CloseLast, Skip, loop, thread, link, TypeOK, Jobs, Phases, Connecting, Publishing
    <3> QED
      BY <3>1, <3>2, <2>b
  <2>6. ASSUME NEW p \in Procs, Take(p)
        PROVE  JobInv'
    <3>1. \A q \in Procs \ {p} : Same(q)
      BY <2>6 DEF Take, Go, Attempt, loop, thread, link, TypeOK, Jobs, Phases, Connecting, Publishing
    <3>2. Ordered(p)'
      BY <2>6, PublisherAssumption DEF JobInv, Coupled, StartAlone, CloseLast, Take, Go, Attempt, loop, thread, link, TypeOK, Jobs, Phases, Connecting, Publishing
    <3> QED
      BY <3>1, <3>2, <2>b
  <2>7. ASSUME NEW p \in Procs, Open(p)
        PROVE  JobInv'
    <3>1. \A q \in Procs \ {p} : Same(q)
      BY <2>7 DEF Open, Go, loop, thread, link, TypeOK, Jobs, Phases, Connecting, Publishing
    <3>2. Ordered(p)'
      BY <2>7, PublisherAssumption DEF JobInv, Coupled, StartAlone, CloseLast, Open, Go, loop, thread, link, TypeOK, Jobs, Phases, Connecting, Publishing
    <3> QED
      BY <3>1, <3>2, <2>b
  <2>8. ASSUME NEW p \in Procs, Unbind(p)
        PROVE  JobInv'
    <3>1. \A q \in Procs \ {p} : Same(q)
      BY <2>8 DEF Unbind, Go, loop, thread, link, TypeOK, Jobs, Phases, Connecting, Publishing
    <3>2. Ordered(p)'
      BY <2>8, PublisherAssumption DEF JobInv, Coupled, StartAlone, CloseLast, Unbind, Go, loop, thread, link, TypeOK, Jobs, Phases, Connecting, Publishing
    <3> QED
      BY <3>1, <3>2, <2>b
  <2>9. ASSUME NEW p \in Procs, Bind(p)
        PROVE  JobInv'
    <3>1. \A q \in Procs \ {p} : Same(q)
      BY <2>9 DEF Bind, Go, loop, thread, link, TypeOK, Jobs, Phases, Connecting, Publishing
    <3>2. Ordered(p)'
      BY <2>9, PublisherAssumption DEF JobInv, Coupled, StartAlone, CloseLast, Bind, Go, loop, thread, link, TypeOK, Jobs, Phases, Connecting, Publishing
    <3> QED
      BY <3>1, <3>2, <2>b
  <2>10. ASSUME NEW p \in Procs, ConfirmDelivery(p)
        PROVE  JobInv'
    <3>1. \A q \in Procs \ {p} : Same(q)
      BY <2>10 DEF ConfirmDelivery, Go, Finish, loop, thread, link, TypeOK, Jobs, Phases, Connecting, Publishing
    <3>2. Ordered(p)'
      BY <2>10, PublisherAssumption DEF JobInv, Coupled, StartAlone, CloseLast, ConfirmDelivery, Go, Finish, loop, thread, link, TypeOK, Jobs, Phases, Connecting, Publishing
    <3> QED
      BY <3>1, <3>2, <2>b
  <2>11. ASSUME NEW p \in Procs, Flush(p)
        PROVE  JobInv'
    <3>1. \A q \in Procs \ {p} : Same(q)
      BY <2>11 DEF Flush, Go, loop, thread, link, TypeOK, Jobs, Phases, Connecting, Publishing
    <3>2. Ordered(p)'
      BY <2>11, PublisherAssumption DEF JobInv, Coupled, StartAlone, CloseLast, Flush, Go, loop, thread, link, TypeOK, Jobs, Phases, Connecting, Publishing
    <3> QED
      BY <3>1, <3>2, <2>b
  <2>12. ASSUME NEW p \in Procs, Send(p)
        PROVE  JobInv'
    <3>1. \A q \in Procs \ {p} : Same(q)
      BY <2>12 DEF Send, Go, Finish, loop, thread, link, TypeOK, Jobs, Phases, Connecting, Publishing
    <3>2. Ordered(p)'
      BY <2>12, PublisherAssumption DEF JobInv, Coupled, StartAlone, CloseLast, Send, Go, Finish, loop, thread, link, TypeOK, Jobs, Phases, Connecting, Publishing
    <3> QED
      BY <3>1, <3>2, <2>b
  <2>13. ASSUME NEW p \in Procs, Acked(p)
        PROVE  JobInv'
    <3>1. \A q \in Procs \ {p} : Same(q)
      BY <2>13 DEF Acked, Go, Finish, loop, thread, link, TypeOK, Jobs, Phases, Connecting, Publishing
    <3>2. Ordered(p)'
      BY <2>13, PublisherAssumption DEF JobInv, Coupled, StartAlone, CloseLast, Acked, Go, Finish, loop, thread, link, TypeOK, Jobs, Phases, Connecting, Publishing
    <3> QED
      BY <3>1, <3>2, <2>b
  <2>14. ASSUME NEW p \in Procs, StartFails(p)
        PROVE  JobInv'
    <3>1. \A q \in Procs \ {p} : Same(q)
      BY <2>14 DEF StartFails, Raises, Go, Finish, loop, thread, link, TypeOK, Jobs, Phases, Connecting, Publishing
    <3>2. Ordered(p)'
      BY <2>14, PublisherAssumption DEF JobInv, Coupled, StartAlone, CloseLast, StartFails, Raises, Go, Finish, loop, thread, link, TypeOK, Jobs, Phases, Connecting, Publishing
    <3> QED
      BY <3>1, <3>2, <2>b
  <2>15. ASSUME NEW p \in Procs, AttemptFails(p)
        PROVE  JobInv'
    <3>1. \A q \in Procs \ {p} : Same(q)
      BY <2>15 DEF AttemptFails, Raises, Attempt, Discard, Go, Finish, loop, thread, link, TypeOK, Jobs, Phases, Connecting, Publishing
    <3>2. Ordered(p)'
      BY <2>15, PublisherAssumption DEF JobInv, Coupled, StartAlone, CloseLast, AttemptFails, Raises, Attempt, Discard, Go, Finish, loop, thread, link, TypeOK, Jobs, Phases, Connecting, Publishing
    <3> QED
      BY <3>1, <3>2, <2>b
  <2>16. ASSUME NEW p \in Procs, BeatFails(p)
        PROVE  JobInv'
    <3>1. \A q \in Procs \ {p} : Same(q)
      BY <2>16 DEF BeatFails, Raises, Discard, Go, Finish, loop, thread, link, TypeOK, Jobs, Phases, Connecting, Publishing
    <3>2. Ordered(p)'
      BY <2>16, PublisherAssumption DEF JobInv, Coupled, StartAlone, CloseLast, BeatFails, Raises, Discard, Go, Finish, loop, thread, link, TypeOK, Jobs, Phases, Connecting, Publishing
    <3> QED
      BY <3>1, <3>2, <2>b
  <2>17. ASSUME NEW p \in Procs, BeatDone(p)
        PROVE  JobInv'
    <3>1. \A q \in Procs \ {p} : Same(q)
      BY <2>17 DEF BeatDone, Go, Finish, loop, thread, link, TypeOK, Jobs, Phases, Connecting, Publishing
    <3>2. Ordered(p)'
      BY <2>17, PublisherAssumption DEF JobInv, Coupled, StartAlone, CloseLast, BeatDone, Go, Finish, loop, thread, link, TypeOK, Jobs, Phases, Connecting, Publishing
    <3> QED
      BY <3>1, <3>2, <2>b
  <2>18. ASSUME NEW p \in Procs, Release(p)
        PROVE  JobInv'
    <3>1. \A q \in Procs \ {p} : Same(q)
      BY <2>18 DEF Release, Go, Finish, loop, thread, link, TypeOK, Jobs, Phases, Connecting, Publishing
    <3>2. Ordered(p)'
      BY <2>18, PublisherAssumption DEF JobInv, Coupled, StartAlone, CloseLast, Release, Go, Finish, loop, thread, link, TypeOK, Jobs, Phases, Connecting, Publishing
    <3> QED
      BY <3>1, <3>2, <2>b
  <2>19. ASSUME NEW p \in Procs, Break(p)
        PROVE  JobInv'
    <3>1. \A q \in Procs \ {p} : Same(q)
      BY <2>19 DEF Break, loop, thread, link, TypeOK, Jobs, Phases, Connecting, Publishing
    <3>2. Ordered(p)'
      BY <2>19, PublisherAssumption, ZenonT(60) DEF JobInv, Coupled, StartAlone, CloseLast, Break, loop, thread, link, TypeOK, Jobs, Phases, Connecting, Publishing
    <3> QED
      BY <3>1, <3>2, <2>b
  <2>20. ASSUME NEW r \in Requests, Publish(r)
        PROVE  JobInv'
    <3> DEFINE p == ProcOf[r]
    <3>0. p \in Procs
      BY PublisherAssumption
    <3> HIDE DEF p
    <3>1. \A q \in Procs \ {p} : Same(q)
      BY <3>0, <2>20 DEF Publish, Enqueue, p, loop, thread, link, TypeOK, Jobs, Phases, Connecting, Publishing
    <3>2. Ordered(p)'
      <4>1. phase[p] = "serving" /\ jobs'[p] = Append(jobs[p], r)
        BY <3>0, <2>20 DEF Publish, Enqueue, TypeOK, p
      <4>2. phase'[p] = phase[p] /\ cur'[p] = cur[p] /\ pc'[p] = pc[p] /\ conn'[p] = conn[p]
        BY <2>20 DEF Publish, thread, link
      <4>3. /\ jobs[p] \in Seq(Jobs) /\ r \in Jobs
            /\ r \notin {"start", "close"}
        BY <3>0, PublisherAssumption DEF TypeOK, Jobs
      <4>4. /\ Len(jobs'[p]) = Len(jobs[p]) + 1
            /\ \A i \in 1..Len(jobs'[p]) :
                jobs'[p][i] = r \/ (i \in 1..Len(jobs[p]) /\ jobs'[p][i] = jobs[p][i])
        BY <4>1, <4>3
      <4>5. Ordered(p)
        BY <3>0 DEF JobInv
      <4>6. Coupled(p)'
        BY <4>2, <4>5 DEF Coupled
      <4>7. StartAlone(p)'
        <5>1. cur[p] # "start" /\ \A i \in 1..Len(jobs[p]) : jobs[p][i] # "start"
          BY <4>1, <4>5 DEF StartAlone
        <5> QED
          BY <4>1, <4>2, <4>3, <4>4, <5>1 DEF StartAlone
      <4>8. CloseLast(p)'
        <5>1. cur[p] # "close" /\ \A i \in 1..Len(jobs[p]) : jobs[p][i] # "close"
          BY <4>1, <4>5 DEF CloseLast
        <5> QED
          BY <4>1, <4>2, <4>3, <4>4, <5>1 DEF CloseLast
      <4> QED
        BY <4>6, <4>7, <4>8
    <3> QED
      BY <3>0, <3>1, <3>2, <2>b
  <2>21. ASSUME NEW r \in Requests, Cancel(r)
        PROVE  JobInv'
    <3> DEFINE p == ProcOf[r]
    <3>0. p \in Procs
      BY PublisherAssumption
    <3> HIDE DEF p
    <3>1. \A q \in Procs \ {p} : Same(q)
      BY <3>0, <2>21 DEF Cancel, p, loop, thread, link, TypeOK, Jobs, Phases, Connecting, Publishing
    <3>2. Ordered(p)'
      BY <3>0, <2>21, PublisherAssumption DEF JobInv, Coupled, StartAlone, CloseLast, Cancel, p, loop, thread, link, TypeOK, Jobs, Phases, Connecting, Publishing
    <3> QED
      BY <3>0, <3>1, <3>2, <2>b
  <2>22. CASE UNCHANGED vars
    BY <2>22, <2>a DEF vars, loop, thread, link, JobInv
  <2> QED
    BY <2>1, <2>2, <2>3, <2>4, <2>5, <2>6, <2>7, <2>8, <2>9, <2>10, <2>11, <2>12, <2>13, <2>14, <2>15, <2>16, <2>17, <2>18, <2>19, <2>20, <2>21, <2>22 DEF Next, Thread
<1> QED
  BY <1>1, <1>2, TypeCorrect, PTL DEF Spec

(* A connection carries commands only once it is configured to the end. *)
Configured == bound = {"intelligent"}

Wired(p) ==
    /\ pc[p] \in {"unbind", "bind", "confirm"} =>
        conn[p] \in {"open", "broken"} /\ ~ confirming[p]
    /\ pc[p] = "bind" => "legacy" \notin bound
    /\ pc[p] = "confirm" => Configured
    /\ confirming[p] => Configured
    /\ pc[p] \in Publishing => conn[p] \in {"open", "broken"} /\ confirming[p]
    /\ pc[p] = "await" /\ conn[p] = "open" => copies["intelligent"][cur[p]] > 0
    /\ conn[p] \in {"open", "broken"} /\ ~ confirming[p]
          /\ pc[p] \notin {"unbind", "bind", "confirm"}
        => /\ phase[p] \in {"failed", "closing"}
           /\ cur[p] \notin Requests
           /\ \A i \in 1..Len(jobs[p]) : jobs[p][i] \notin Requests

WireInv ==
    /\ \A p \in Procs : Wired(p)
    /\ ConfirmedIsQueued
    /\ LegacyGetsNothing

(* After close() the thread is idle for good and holds no connection: the     *)
(* executor's queue orders the close job behind everything submitted before.  *)
THEOREM ClosesForGood == Spec => []ClosedForGood
<1>1. JobInv => ClosedForGood
  BY DEF JobInv, CloseLast, ClosedForGood
<1> QED
  BY <1>1, JobsOrdered, PTL

(* The configuration of connections is invariant. *)
LEMMA WiresConfigured == Spec => []WireInv
<1> DEFINE Same(q) == /\ phase'[q] = phase[q] /\ jobs'[q] = jobs[q] /\ cur'[q] = cur[q]
                      /\ pc'[q] = pc[q] /\ conn'[q] = conn[q] /\ confirming'[q] = confirming[q]
           Quiet == /\ UNCHANGED broker
                    /\ \A r \in Requests : call'[r] = "ok" => call[r] = "ok"
<1>1. Init => WireInv
  BY DEF Init, WireInv, Wired, ConfirmedIsQueued, LegacyGetsNothing, Queues, Publishing
<1>2. TypeOK /\ JobInv /\ WireInv /\ [Next]_vars => WireInv'
  <2> SUFFICES ASSUME TypeOK, JobInv, WireInv, [Next]_vars
               PROVE  WireInv'
    OBVIOUS
  <2>a. ASSUME NEW q \in Procs, Same(q), UNCHANGED broker
        PROVE  Wired(q)'
    BY <2>a DEF WireInv, Wired, Configured, broker
  <2>b. ASSUME Quiet
        PROVE  ConfirmedIsQueued' /\ LegacyGetsNothing'
    BY <2>b DEF WireInv, ConfirmedIsQueued, LegacyGetsNothing, broker
  <2>c. ASSUME NEW p \in Procs, Wired(p)', \A q \in Procs \ {p} : Same(q), Quiet
        PROVE  WireInv'
    BY <2>a, <2>b, <2>c DEF WireInv
  <2>1. ASSUME NEW p \in Procs, Start(p)
        PROVE  WireInv'
    <3>1. \A q \in Procs \ {p} : Same(q)
      BY <2>1 DEF Start, Enqueue, loop, thread, link, broker, TypeOK, Jobs, Phases, Calls, Connecting, Publishing
    <3>2. Quiet
      BY <2>1 DEF Start, Enqueue, loop, thread, link, broker, TypeOK, Jobs, Phases, Calls, Connecting, Publishing
    <3>3. Wired(p)'
      BY <2>1, PublisherAssumption DEF JobInv, Coupled, StartAlone, CloseLast, WireInv, Wired, Configured, Start, Enqueue, loop, thread, link, broker, TypeOK, Jobs, Phases, Calls, Connecting, Publishing
    <3> QED
      BY <3>1, <3>2, <3>3, <2>c
  <2>2. ASSUME NEW p \in Procs, Heartbeat(p)
        PROVE  WireInv'
    <3>1. \A q \in Procs \ {p} : Same(q)
      BY <2>2 DEF Heartbeat, Enqueue, loop, thread, link, broker, TypeOK, Jobs, Phases, Calls, Connecting, Publishing
    <3>2. Quiet
      BY <2>2 DEF Heartbeat, Enqueue, loop, thread, link, broker, TypeOK, Jobs, Phases, Calls, Connecting, Publishing
    <3>3. Wired(p)'
      BY <2>2, PublisherAssumption DEF JobInv, Coupled, StartAlone, CloseLast, WireInv, Wired, Configured, Heartbeat, Enqueue, loop, thread, link, broker, TypeOK, Jobs, Phases, Calls, Connecting, Publishing
    <3> QED
      BY <3>1, <3>2, <3>3, <2>c
  <2>3. ASSUME NEW p \in Procs, Close(p)
        PROVE  WireInv'
    <3>1. \A q \in Procs \ {p} : Same(q)
      BY <2>3 DEF Close, Enqueue, loop, thread, link, broker, TypeOK, Jobs, Phases, Calls, Connecting, Publishing
    <3>2. Quiet
      BY <2>3 DEF Close, Enqueue, loop, thread, link, broker, TypeOK, Jobs, Phases, Calls, Connecting, Publishing
    <3>3. Wired(p)'
      BY <2>3, PublisherAssumption DEF JobInv, Coupled, StartAlone, CloseLast, WireInv, Wired, Configured, Close, Enqueue, loop, thread, link, broker, TypeOK, Jobs, Phases, Calls, Connecting, Publishing
    <3> QED
      BY <3>1, <3>2, <3>3, <2>c
  <2>4. ASSUME NEW p \in Procs, Shutdown(p)
        PROVE  WireInv'
    <3>1. \A q \in Procs \ {p} : Same(q)
      BY <2>4 DEF Shutdown, loop, thread, link, broker, TypeOK, Jobs, Phases, Calls, Connecting, Publishing
    <3>2. Quiet
      BY <2>4 DEF Shutdown, loop, thread, link, broker, TypeOK, Jobs, Phases, Calls, Connecting, Publishing
    <3>3. Wired(p)'
      BY <2>4, PublisherAssumption DEF JobInv, Coupled, StartAlone, CloseLast, WireInv, Wired, Configured, Shutdown, loop, thread, link, broker, TypeOK, Jobs, Phases, Calls, Connecting, Publishing
    <3> QED
      BY <3>1, <3>2, <3>3, <2>c
  <2>5. ASSUME NEW p \in Procs, Skip(p)
        PROVE  WireInv'
    <3>1. \A q \in Procs \ {p} : Same(q)
      BY <2>5 DEF Skip, loop, thread, link, broker, TypeOK, Jobs, Phases, Calls, Connecting, Publishing
    <3>2. Quiet
      BY <2>5 DEF Skip, loop, thread, link, broker, TypeOK, Jobs, Phases, Calls, Connecting, Publishing
    <3>3. Wired(p)'
      BY <2>5, PublisherAssumption DEF JobInv, Coupled, StartAlone, CloseLast, WireInv, Wired, Configured, Skip, loop, thread, link, broker, TypeOK, Jobs, Phases, Calls, Connecting, Publishing
    <3> QED
      BY <3>1, <3>2, <3>3, <2>c
  <2>6. ASSUME NEW p \in Procs, Take(p)
        PROVE  WireInv'
    <3>1. \A q \in Procs \ {p} : Same(q)
      BY <2>6 DEF Take, Go, Attempt, loop, thread, link, broker, TypeOK, Jobs, Phases, Calls, Connecting, Publishing
    <3>2. Quiet
      BY <2>6 DEF Take, Go, Attempt, loop, thread, link, broker, TypeOK, Jobs, Phases, Calls, Connecting, Publishing
    <3>3. Wired(p)'
      <4> DEFINE job == Head(jobs[p])
      <4>1. /\ Wired(p) /\ pc[p] = "idle" /\ jobs[p] # <<>> /\ jobs[p] \in Seq(Jobs)
            /\ phase'[p] = phase[p] /\ conn'[p] = conn[p] /\ confirming'[p] = confirming[p]
            /\ bound' = bound /\ copies' = copies
        BY <2>6 DEF WireInv, JobInv, Coupled, Take, TypeOK, loop, link, broker
      <4>2. /\ jobs'[p] = Tail(jobs[p]) /\ cur'[p] = job
            /\ pc'[p] = IF job \in {"beat", "close"} THEN job
                       ELSE IF job = "start" THEN "open" ELSE Attempt(conn[p])
        BY <2>6 DEF Take, Go, TypeOK
      <4>3. /\ job = jobs[p][1] /\ job \in Jobs /\ 1 \in 1..Len(jobs[p])
            /\ \A i \in 1..Len(jobs'[p]) :
                i + 1 \in 1..Len(jobs[p]) /\ jobs'[p][i] = jobs[p][i + 1]
        BY <4>1, <4>2
      <4> HIDE DEF job
      <4>4. conn[p] \in {"open", "broken"} /\ ~ confirming[p]
              => /\ phase[p] \in {"failed", "closing"}
                 /\ job \notin Requests
                 /\ \A i \in 1..Len(jobs'[p]) : jobs'[p][i] \notin Requests
        BY <4>1, <4>3 DEF Wired
      <4>5. /\ pc'[p] \notin {"unbind", "bind", "confirm", "await"}
            /\ pc'[p] \in Publishing
                => job \in Requests /\ conn[p] \notin {"none", "closed"}
        BY <4>2, <4>3, PublisherAssumption DEF Attempt, Publishing, Jobs
      <4>6. conn[p] \in {"none", "open", "broken", "closed"}
        BY DEF TypeOK
      <4> QED
        BY <4>1, <4>2, <4>4, <4>5, <4>6 DEF Wired, Configured
    <3> QED
      BY <3>1, <3>2, <3>3, <2>c
  <2>7. ASSUME NEW p \in Procs, Open(p)
        PROVE  WireInv'
    <3>1. \A q \in Procs \ {p} : Same(q)
      BY <2>7 DEF Open, Go, loop, thread, link, broker, TypeOK, Jobs, Phases, Calls, Connecting, Publishing
    <3>2. Quiet
      BY <2>7 DEF Open, Go, loop, thread, link, broker, TypeOK, Jobs, Phases, Calls, Connecting, Publishing
    <3>3. Wired(p)'
      BY <2>7, PublisherAssumption DEF JobInv, Coupled, StartAlone, CloseLast, WireInv, Wired, Configured, Open, Go, loop, thread, link, broker, TypeOK, Jobs, Phases, Calls, Connecting, Publishing
    <3> QED
      BY <3>1, <3>2, <3>3, <2>c
  <2>8. ASSUME NEW p \in Procs, Unbind(p)
        PROVE  WireInv'
    <3>1. \A q \in Procs \ {p} : Same(q)
      BY <2>8 DEF Unbind, Go, loop, thread, link, broker, TypeOK, Jobs, Phases, Calls, Connecting, Publishing
    <3>2. Wired(p)
      BY DEF WireInv
    <3>3. /\ bound' = bound \ {"legacy"}
          /\ Configured => Configured'
          /\ copies' = copies /\ call' = call
      BY <2>8 DEF Unbind, loop, Configured
    <3>4. Wired(p)'
      BY <2>8, <3>2, <3>3 DEF Unbind, Go, Wired, loop, link, TypeOK, Publishing
    <3>5. ASSUME NEW q \in Procs, q # p
          PROVE  Wired(q)'
      BY <3>1, <3>3, <3>5 DEF WireInv, Wired
    <3> QED
      BY <3>3, <3>4, <3>5 DEF WireInv, ConfirmedIsQueued, LegacyGetsNothing
  <2>9. ASSUME NEW p \in Procs, Bind(p)
        PROVE  WireInv'
    <3>1. \A q \in Procs \ {p} : Same(q)
      BY <2>9 DEF Bind, Go, loop, thread, link, broker, TypeOK, Jobs, Phases, Calls, Connecting, Publishing
    <3>2. Wired(p)
      BY DEF WireInv
    <3>3. /\ bound' = bound \union {"intelligent"} /\ "legacy" \notin bound
          /\ copies' = copies /\ call' = call
      BY <2>9, <3>2 DEF Bind, loop, Wired
    <3>4. Configured'
      BY <3>3 DEF TypeOK, Queues, Configured
    <3>5. Wired(p)'
      BY <2>9, <3>2, <3>3, <3>4 DEF Bind, Go, Wired, loop, link, TypeOK, Publishing
    <3>6. ASSUME NEW q \in Procs, q # p
          PROVE  Wired(q)'
      BY <3>1, <3>3, <3>4, <3>6 DEF WireInv, Wired
    <3> QED
      BY <3>3, <3>5, <3>6 DEF WireInv, ConfirmedIsQueued, LegacyGetsNothing
  <2>10. ASSUME NEW p \in Procs, ConfirmDelivery(p)
        PROVE  WireInv'
    <3>1. \A q \in Procs \ {p} : Same(q)
      BY <2>10 DEF ConfirmDelivery, Go, Finish, loop, thread, link, broker, TypeOK, Jobs, Phases, Calls, Connecting, Publishing
    <3>2. Quiet
      BY <2>10 DEF ConfirmDelivery, Go, Finish, loop, thread, link, broker, TypeOK, Jobs, Phases, Calls, Connecting, Publishing
    <3>3. Wired(p)'
      BY <2>10, PublisherAssumption DEF JobInv, Coupled, StartAlone, CloseLast, WireInv, Wired, Configured, ConfirmDelivery, Go, Finish, loop, thread, link, broker, TypeOK, Jobs, Phases, Calls, Connecting, Publishing
    <3> QED
      BY <3>1, <3>2, <3>3, <2>c
  <2>11. ASSUME NEW p \in Procs, Flush(p)
        PROVE  WireInv'
    <3>1. \A q \in Procs \ {p} : Same(q)
      BY <2>11 DEF Flush, Go, loop, thread, link, broker, TypeOK, Jobs, Phases, Calls, Connecting, Publishing
    <3>2. Quiet
      BY <2>11 DEF Flush, Go, loop, thread, link, broker, TypeOK, Jobs, Phases, Calls, Connecting, Publishing
    <3>3. Wired(p)'
      BY <2>11, PublisherAssumption DEF JobInv, Coupled, StartAlone, CloseLast, WireInv, Wired, Configured, Flush, Go, loop, thread, link, broker, TypeOK, Jobs, Phases, Calls, Connecting, Publishing
    <3> QED
      BY <3>1, <3>2, <3>3, <2>c
  <2>12. ASSUME NEW p \in Procs, Send(p)
        PROVE  WireInv'
    <3>1. /\ Wired(p) /\ cur[p] \in Requests /\ confirming[p] /\ Configured
          /\ conn[p] \in {"open", "broken"}
      BY <2>12 DEF Send, WireInv, Wired, JobInv, Coupled, Publishing
    <3>2. \A q \in Procs \ {p} : Same(q)
      BY <2>12, <3>1 DEF Send, Go, loop, link, TypeOK
    <3>3. \A r \in Requests :
              /\ copies'["legacy"][r] = copies["legacy"][r]
              /\ copies'["intelligent"][r] \in {copies["intelligent"][r], copies["intelligent"][r] + 1}
      BY <2>12, <3>1 DEF Send, TypeOK, Queues, Configured
    <3>4. conn[p] = "open" =>
              copies'["intelligent"][cur[p]] = copies["intelligent"][cur[p]] + 1
      BY <2>12, <3>1 DEF Send, TypeOK, Queues, Configured
    <3>5. \A r \in Requests : copies["intelligent"][r] \in Nat
      BY DEF TypeOK, Queues
    <3>6. Wired(p)'
      BY <2>12, <3>1, <3>4, <3>5 DEF Send, Go, Wired, Configured, loop, link, TypeOK, Publishing
    <3>7. ASSUME NEW q \in Procs, q # p
          PROVE  Wired(q)'
      <4>1. pc[q] = "await" => cur[q] \in Requests
        BY DEF JobInv, Coupled, Publishing
      <4>2. bound' = bound
        BY <2>12 DEF Send
      <4> QED
        BY <3>2, <3>3, <3>5, <3>7, <4>1, <4>2 DEF WireInv, Wired, Configured
    <3>8. call' = call
      BY <2>12, <3>1 DEF Send
    <3> QED
      BY <3>3, <3>5, <3>6, <3>7, <3>8 DEF WireInv, ConfirmedIsQueued, LegacyGetsNothing
  <2>13. ASSUME NEW p \in Procs, Acked(p)
        PROVE  WireInv'
    <3>1. \A q \in Procs \ {p} : Same(q)
      BY <2>13 DEF Acked, Go, Finish, loop, thread, link, broker, TypeOK, Jobs, Phases, Calls, Connecting, Publishing
    <3>2. Wired(p)
      BY DEF WireInv
    <3>3. cur[p] \in Requests /\ copies["intelligent"][cur[p]] > 0
      BY <2>13, <3>2 DEF Acked, Wired, JobInv, Coupled, Publishing
    <3>4. UNCHANGED broker
      BY <2>13 DEF Acked
    <3>5. Wired(p)'
      BY <2>13, <3>2, <3>4 DEF Acked, Go, Finish, Wired, Configured, loop, link, broker, TypeOK, Publishing
    <3>6. \A r \in Requests : call'[r] = "ok" => call[r] = "ok" \/ r = cur[p]
      BY <2>13, <3>3 DEF Acked, Answer, TypeOK
    <3>7. ConfirmedIsQueued' /\ LegacyGetsNothing'
      BY <3>3, <3>4, <3>6 DEF WireInv, ConfirmedIsQueued, LegacyGetsNothing, broker
    <3> QED
      BY <3>1, <3>4, <3>5, <3>7, <2>a DEF WireInv
  <2>14. ASSUME NEW p \in Procs, StartFails(p)
        PROVE  WireInv'
    <3>1. \A q \in Procs \ {p} : Same(q)
      BY <2>14 DEF StartFails, Raises, Go, Finish, loop, thread, link, broker, TypeOK, Jobs, Phases, Calls, Connecting, Publishing
    <3>2. Quiet
      BY <2>14 DEF StartFails, Raises, Go, Finish, loop, thread, link, broker, TypeOK, Jobs, Phases, Calls, Connecting, Publishing
    <3>3. Wired(p)'
      BY <2>14, PublisherAssumption DEF JobInv, Coupled, StartAlone, CloseLast, WireInv, Wired, Configured, StartFails, Raises, Go, Finish, loop, thread, link, broker, TypeOK, Jobs, Phases, Calls, Connecting, Publishing
    <3> QED
      BY <3>1, <3>2, <3>3, <2>c
  <2>15. ASSUME NEW p \in Procs, AttemptFails(p)
        PROVE  WireInv'
    <3>1. \A q \in Procs \ {p} : Same(q)
      BY <2>15 DEF AttemptFails, Raises, Attempt, Discard, Go, Finish, Answer, loop, thread, link, broker, TypeOK, Jobs, Phases, Calls, Connecting, Publishing
    <3>2. Quiet
      BY <2>15 DEF AttemptFails, Raises, Attempt, Discard, Go, Finish, Answer, loop, thread, link, broker, TypeOK, Jobs, Phases, Calls, Connecting, Publishing
    <3>3. Wired(p)'
      BY <2>15, PublisherAssumption DEF JobInv, Coupled, StartAlone, CloseLast, WireInv, Wired, Configured, AttemptFails, Raises, Attempt, Discard, Go, Finish, Answer, loop, thread, link, broker, TypeOK, Jobs, Phases, Calls, Connecting, Publishing
    <3> QED
      BY <3>1, <3>2, <3>3, <2>c
  <2>16. ASSUME NEW p \in Procs, BeatFails(p)
        PROVE  WireInv'
    <3>1. \A q \in Procs \ {p} : Same(q)
      BY <2>16 DEF BeatFails, Raises, Discard, Go, Finish, loop, thread, link, broker, TypeOK, Jobs, Phases, Calls, Connecting, Publishing
    <3>2. Quiet
      BY <2>16 DEF BeatFails, Raises, Discard, Go, Finish, loop, thread, link, broker, TypeOK, Jobs, Phases, Calls, Connecting, Publishing
    <3>3. Wired(p)'
      BY <2>16, PublisherAssumption DEF JobInv, Coupled, StartAlone, CloseLast, WireInv, Wired, Configured, BeatFails, Raises, Discard, Go, Finish, loop, thread, link, broker, TypeOK, Jobs, Phases, Calls, Connecting, Publishing
    <3> QED
      BY <3>1, <3>2, <3>3, <2>c
  <2>17. ASSUME NEW p \in Procs, BeatDone(p)
        PROVE  WireInv'
    <3>1. \A q \in Procs \ {p} : Same(q)
      BY <2>17 DEF BeatDone, Go, Finish, loop, thread, link, broker, TypeOK, Jobs, Phases, Calls, Connecting, Publishing
    <3>2. Quiet
      BY <2>17 DEF BeatDone, Go, Finish, loop, thread, link, broker, TypeOK, Jobs, Phases, Calls, Connecting, Publishing
    <3>3. Wired(p)'
      BY <2>17, PublisherAssumption DEF JobInv, Coupled, StartAlone, CloseLast, WireInv, Wired, Configured, BeatDone, Go, Finish, loop, thread, link, broker, TypeOK, Jobs, Phases, Calls, Connecting, Publishing
    <3> QED
      BY <3>1, <3>2, <3>3, <2>c
  <2>18. ASSUME NEW p \in Procs, Release(p)
        PROVE  WireInv'
    <3>1. \A q \in Procs \ {p} : Same(q)
      BY <2>18 DEF Release, Go, Finish, loop, thread, link, broker, TypeOK, Jobs, Phases, Calls, Connecting, Publishing
    <3>2. Quiet
      BY <2>18 DEF Release, Go, Finish, loop, thread, link, broker, TypeOK, Jobs, Phases, Calls, Connecting, Publishing
    <3>3. Wired(p)'
      BY <2>18, PublisherAssumption DEF JobInv, Coupled, StartAlone, CloseLast, WireInv, Wired, Configured, Release, Go, Finish, loop, thread, link, broker, TypeOK, Jobs, Phases, Calls, Connecting, Publishing
    <3> QED
      BY <3>1, <3>2, <3>3, <2>c
  <2>19. ASSUME NEW p \in Procs, Break(p)
        PROVE  WireInv'
    <3>1. \A q \in Procs \ {p} : Same(q)
      BY <2>19 DEF Break, loop, thread, link, broker, TypeOK, Jobs, Phases, Calls, Connecting, Publishing
    <3>2. Quiet
      BY <2>19 DEF Break, loop, thread, link, broker, TypeOK, Jobs, Phases, Calls, Connecting, Publishing
    <3>3. Wired(p)'
      BY <2>19, PublisherAssumption DEF JobInv, Coupled, StartAlone, CloseLast, WireInv, Wired, Configured, Break, loop, thread, link, broker, TypeOK, Jobs, Phases, Calls, Connecting, Publishing
    <3> QED
      BY <3>1, <3>2, <3>3, <2>c
  <2>20. ASSUME NEW r \in Requests, Publish(r)
        PROVE  WireInv'
    <3> DEFINE p == ProcOf[r]
    <3>0. p \in Procs
      BY PublisherAssumption
    <3> HIDE DEF p
    <3>1. \A q \in Procs \ {p} : Same(q)
      BY <3>0, <2>20 DEF Publish, Enqueue, p, loop, thread, link, broker, TypeOK, Jobs, Phases, Calls, Connecting, Publishing
    <3>2. Quiet
      BY <3>0, <2>20 DEF Publish, Enqueue, p, loop, thread, link, broker, TypeOK, Jobs, Phases, Calls, Connecting, Publishing
    <3>3. Wired(p)'
      BY <3>0, <2>20, PublisherAssumption DEF JobInv, Coupled, StartAlone, CloseLast, WireInv, Wired, Configured, Publish, Enqueue, p, loop, thread, link, broker, TypeOK, Jobs, Phases, Calls, Connecting, Publishing
    <3> QED
      BY <3>0, <3>1, <3>2, <3>3, <2>c
  <2>21. ASSUME NEW r \in Requests, Cancel(r)
        PROVE  WireInv'
    <3> DEFINE p == ProcOf[r]
    <3>0. p \in Procs
      BY PublisherAssumption
    <3> HIDE DEF p
    <3>1. \A q \in Procs \ {p} : Same(q)
      BY <3>0, <2>21 DEF Cancel, p, loop, thread, link, broker, TypeOK, Jobs, Phases, Calls, Connecting, Publishing
    <3>2. Quiet
      BY <3>0, <2>21 DEF Cancel, p, loop, thread, link, broker, TypeOK, Jobs, Phases, Calls, Connecting, Publishing
    <3>3. Wired(p)'
      BY <3>0, <2>21, PublisherAssumption DEF JobInv, Coupled, StartAlone, CloseLast, WireInv, Wired, Configured, Cancel, p, loop, thread, link, broker, TypeOK, Jobs, Phases, Calls, Connecting, Publishing
    <3> QED
      BY <3>0, <3>1, <3>2, <3>3, <2>c
  <2>22. CASE UNCHANGED vars
    BY <2>22, <2>a, <2>b DEF vars, loop, thread, link, broker, WireInv
  <2> QED
    BY <2>1, <2>2, <2>3, <2>4, <2>5, <2>6, <2>7, <2>8, <2>9, <2>10, <2>11, <2>12, <2>13, <2>14, <2>15, <2>16, <2>17, <2>18, <2>19, <2>20, <2>21, <2>22 DEF Next, Thread
<1> QED
  BY <1>1, <1>2, TypeCorrect, JobsOrdered, PTL DEF Spec

(* publish() returns normally only after its command is in the queue of the  *)
(* intelligent workers, whatever attempts and connections were lost before.   *)
THEOREM ConfirmedAreQueued == Spec => []ConfirmedIsQueued
<1>1. WireInv => ConfirmedIsQueued
  BY DEF WireInv
<1> QED
  BY <1>1, WiresConfigured, PTL

(* No command reaches the legacy queue, though it is bound at the start. *)
THEOREM LegacyIsSilent == Spec => []LegacyGetsNothing
<1>1. WireInv => LegacyGetsNothing
  BY DEF WireInv
<1> QED
  BY <1>1, WiresConfigured, PTL

-----------------------------------------------------------------------------
(* How often a command can have been sent, from where its job stands: never   *)
(* while it waits, then at most once for each attempt of _publish.            *)
Waits(p, r) == \E i \in 1..Len(jobs[p]) : jobs[p][i] = r

WaitsOnce(p, r) ==
    \A i, j \in 1..Len(jobs[p]) : jobs[p][i] = r /\ jobs[p][j] = r => i = j

Sent(p) == try[p] + (IF pc[p] = "await" THEN 1 ELSE 0)

Counted(p, r) ==
    /\ Waits(p, r) \/ cur[p] = r => p = ProcOf[r] /\ call[r] # "idle"
    /\ WaitsOnce(p, r)
    /\ Waits(p, r) => cur[p] # r /\ \A q \in Queues : copies[q][r] = 0
    /\ cur[p] = r => \A q \in Queues : copies[q][r] <= Sent(p)

CopyInv ==
    /\ \A p \in Procs : cur[p] \notin Requests => try[p] = 0
    /\ \A r \in Requests : call[r] = "idle" => \A q \in Queues : copies[q][r] = 0
    /\ \A p \in Procs, r \in Requests : Counted(p, r)
    /\ AtMostTwice

(* A step that moves no request into a queue adds none to those that wait. *)
Fewer(p) ==
    \/ jobs'[p] = jobs[p]
    \/ jobs'[p] = <<>>
    \/ jobs[p] # <<>> /\ jobs'[p] = Tail(jobs[p])
    \/ \E job \in Jobs \ Requests : jobs'[p] = Append(jobs[p], job)

LEMMA FewerWait ==
    ASSUME TypeOK, NEW p \in Procs, NEW r \in Requests, Fewer(p)
    PROVE  /\ Waits(p, r)' => Waits(p, r)
           /\ WaitsOnce(p, r) => WaitsOnce(p, r)'
<1> DEFINE s == jobs[p]
           t == jobs'[p]
           Once(u) == \A i, j \in 1..Len(u) : u[i] = r /\ u[j] = r => i = j
           In(u) == \E i \in 1..Len(u) : u[i] = r
<1>1. s \in Seq(Jobs)
  BY DEF TypeOK
<1>2. (In(t) => In(s)) /\ (Once(s) => Once(t))
  <2>1. CASE t = s
    BY <2>1
  <2>2. CASE t = <<>>
    BY <2>2
  <2>3. CASE s # <<>> /\ t = Tail(s)
    <3> HIDE DEF s, t
    <3>1. Len(t) = Len(s) - 1 /\ \A i \in 1..Len(t) : i + 1 \in 1..Len(s) /\ t[i] = s[i + 1]
      BY <1>1, <2>3
    <3>2. Len(s) \in Nat
      BY <1>1
    <3>3. In(t) => In(s)
      BY <3>1
    <3>4. ASSUME Once(s), NEW i \in 1..Len(t), NEW j \in 1..Len(t), t[i] = r, t[j] = r
          PROVE  i = j
      <4>1. i + 1 = j + 1
        BY <3>1, <3>4
      <4> QED
        BY <3>1, <3>2, <4>1
    <3> QED
      BY <3>3, <3>4
  <2>4. CASE \E job \in Jobs \ Requests : t = Append(s, job)
    <3>1. PICK job \in Jobs \ Requests : t = Append(s, job)
      BY <2>4
    <3> HIDE DEF s, t
    <3>2. Len(t) = Len(s) + 1 /\ t[Len(s) + 1] = job
          /\ \A i \in 1..Len(s) : t[i] = s[i]
      BY <1>1, <3>1
    <3>3. \A i \in 1..Len(t) : t[i] = r => i \in 1..Len(s) /\ s[i] = r
      <4>1. Len(s) \in Nat
        BY <1>1
      <4>2. \A i \in 1..Len(t) : i \in 1..Len(s) \/ i = Len(s) + 1
        BY <3>2, <4>1
      <4> QED
        BY <3>2, <4>2
    <3> QED
      BY <3>3
  <2> HIDE DEF s, t
  <2> QED
    BY <2>1, <2>2, <2>3, <2>4 DEF Fewer, s, t
<1> QED
  BY <1>2 DEF Waits, WaitsOnce

(* What every step but taking, sending and publishing leaves of the counts. *)
Calm(p) ==
    /\ Fewer(p)
    /\ copies' = copies
    /\ \A r \in Requests : call'[r] = "idle" <=> call[r] = "idle"
    /\ \/ cur'[p] = cur[p] /\ (cur[p] \in Requests => Sent(p)' >= Sent(p))
                           /\ (cur[p] \notin Requests => try'[p] = try[p])
       \/ cur'[p] = "none" /\ try'[p] = 0

LEMMA CalmSteps ==
    ASSUME TypeOK, TypeOK', CopyInv, NEW p \in Procs, Calm(p),
           \A q \in Procs \ {p} : /\ jobs'[q] = jobs[q] /\ cur'[q] = cur[q]
                                  /\ pc'[q] = pc[q] /\ try'[q] = try[q]
    PROVE  CopyInv'
<1>1. \A q \in Queues, r \in Requests : copies'[q][r] = copies[q][r] /\ copies[q][r] \in Nat
  BY DEF Calm, TypeOK
<1>2. \A q \in Procs : cur'[q] \notin Requests => try'[q] = 0
  BY PublisherAssumption DEF CopyInv, Calm
<1>3. ASSUME NEW r \in Requests
      PROVE  Counted(p, r)'
  <2>1. /\ Counted(p, r)
        /\ call'[r] = "idle" <=> call[r] = "idle"
    BY DEF CopyInv, Calm
  <2>2. /\ Waits(p, r)' => Waits(p, r)
        /\ WaitsOnce(p, r) => WaitsOnce(p, r)'
    BY FewerWait DEF Calm
  <2>3. cur'[p] = r => cur[p] = r /\ Sent(p)' >= Sent(p)
    BY PublisherAssumption DEF Calm
  <2>4. Sent(p) \in Nat /\ Sent(p)' \in Nat
    <3>1. try[p] \in {0, 1} /\ try'[p] \in {0, 1}
      BY DEF TypeOK
    <3> QED
      BY <3>1 DEF Sent
  <2>5. cur'[p] = r => \A q \in Queues : copies'[q][r] <= Sent(p)'
    BY <1>1, <2>1, <2>3, <2>4 DEF Counted
  <2>6. Waits(p, r)' => cur'[p] # r /\ \A q \in Queues : copies'[q][r] = 0
    BY <1>1, <2>1, <2>2, <2>3 DEF Counted
  <2> QED
    BY <2>1, <2>2, <2>3, <2>5, <2>6 DEF Counted
<1>4. ASSUME NEW q \in Procs \ {p}, NEW r \in Requests
      PROVE  Counted(q, r)'
  BY <1>1, <1>4 DEF CopyInv, Calm, Counted, Waits, WaitsOnce, Sent
<1>5. AtMostTwice'
  BY <1>1 DEF CopyInv, AtMostTwice
<1>6. \A r \in Requests : call'[r] = "idle" => \A q \in Queues : copies'[q][r] = 0
  BY <1>1 DEF CopyInv, Calm
<1> QED
  BY <1>2, <1>3, <1>4, <1>5, <1>6 DEF CopyInv

(* The counts of the commands sent are invariant. *)
LEMMA CopiesCounted == Spec => []CopyInv
<1> DEFINE Same(q) == /\ jobs'[q] = jobs[q] /\ cur'[q] = cur[q]
                      /\ pc'[q] = pc[q] /\ try'[q] = try[q]
           Told == \A r \in Requests : call'[r] = "idle" <=> call[r] = "idle"
<1>1. Init => CopyInv
  <2> SUFFICES ASSUME Init
               PROVE  CopyInv
    OBVIOUS
  <2>1. \A q \in Queues, r \in Requests : copies[q][r] = 0
    <3>1. copies = [q \in Queues |-> [r \in Requests |-> 0]]
      BY DEF Init
    <3> QED
      BY <3>1
  <2>2. \A p \in Procs : jobs[p] = <<>> /\ cur[p] = "none" /\ try[p] = 0
    BY DEF Init
  <2>3. \A p \in Procs, r \in Requests : Counted(p, r)
    BY <2>2, PublisherAssumption DEF Counted, Waits, WaitsOnce
  <2> QED
    BY <2>1, <2>2, <2>3 DEF CopyInv, AtMostTwice
<1>2. TypeOK /\ TypeOK' /\ JobInv /\ WireInv /\ CopyInv /\ [Next]_vars => CopyInv'
  <2> SUFFICES ASSUME TypeOK, TypeOK', JobInv, WireInv, CopyInv, [Next]_vars
               PROVE  CopyInv'
    OBVIOUS
  <2>a. \A p \in Procs : /\ jobs[p] \in Seq(Jobs) /\ try[p] \in {0, 1}
                         /\ pc[p] = "idle" <=> cur[p] = "none"
                         /\ pc[p] \in Publishing => cur[p] \in Requests
                         /\ pc[p] \in {"beat", "close"} => cur[p] = pc[p]
    BY DEF TypeOK, JobInv, Coupled
  <2>b. ASSUME NEW p \in Procs, UNCHANGED <<cur, pc, try, copies>>, Told, Fewer(p),
               \A q \in Procs \ {p} : jobs'[q] = jobs[q]
        PROVE  CopyInv'
    <3>1. Sent(p)' = Sent(p) /\ Sent(p) \in Nat
      BY <2>a, <2>b DEF Sent
    <3>2. Calm(p)
      BY <2>b, <3>1 DEF Calm
    <3> QED
      BY <2>b, <3>2, CalmSteps
  <2>c. ASSUME NEW p \in Procs, Finish(p), Told, UNCHANGED <<jobs, copies>>
        PROVE  CopyInv'
    <3>1. cur'[p] = "none" /\ try'[p] = 0
      BY <2>c DEF Finish, TypeOK
    <3>2. \A q \in Procs \ {p} : Same(q)
      BY <2>c DEF Finish, Go, TypeOK
    <3>3. Calm(p)
      BY <2>c, <3>1 DEF Calm, Fewer
    <3> QED
      BY <3>2, <3>3, CalmSteps
  <2>d. ASSUME NEW p \in Procs, NEW op, Go(p, op), pc[p] # "await",
               UNCHANGED <<jobs, cur, try, call, copies>>
        PROVE  CopyInv'
    <3>1. \A q \in Procs \ {p} : Same(q)
      BY <2>d DEF Go, TypeOK
    <3>2. Sent(p)' >= Sent(p)
      BY <2>a, <2>d DEF Sent
    <3>3. Calm(p)
      BY <2>d, <3>2 DEF Calm, Fewer
    <3> QED
      BY <3>1, <3>3, CalmSteps
  <2>1. ASSUME NEW p \in Procs, NEW job \in Jobs \ Requests, Enqueue(p, job), Told,
               UNCHANGED <<thread, broker>>
        PROVE  CopyInv'
    <3>1. jobs'[p] = Append(jobs[p], job) /\ \A q \in Procs \ {p} : jobs'[q] = jobs[q]
      BY <2>1 DEF Enqueue, TypeOK
    <3> QED
      BY <2>1, <2>b, <3>1 DEF Fewer, thread, broker
  <2>2. {"start", "beat", "close"} \subseteq Jobs \ Requests
    BY PublisherAssumption DEF Jobs
  <2>3. ASSUME NEW p \in Procs, Start(p) \/ Heartbeat(p) \/ Close(p)
        PROVE  CopyInv'
    BY <2>1, <2>2, <2>3 DEF Start, Heartbeat, Close
  <2>4. ASSUME NEW p \in Procs, Shutdown(p) \/ Skip(p)
        PROVE  CopyInv'
    <3>1. Fewer(p) /\ \A q \in Procs \ {p} : jobs'[q] = jobs[q]
      BY <2>4 DEF Shutdown, Skip, Fewer, TypeOK
    <3> QED
      BY <2>4, <2>b, <3>1 DEF Shutdown, Skip, loop, thread, broker
  <2>5. ASSUME NEW p \in Procs, Break(p)
        PROVE  CopyInv'
    BY <2>5, <2>b DEF Break, Fewer, loop, thread, broker
  <2>6. ASSUME NEW r \in Requests, Cancel(r)
        PROVE  CopyInv'
    <3>1. Told
      BY <2>6 DEF Cancel, TypeOK
    <3>2. ProcOf[r] \in Procs
      BY PublisherAssumption
    <3> QED
      BY <2>6, <2>b, <3>1, <3>2 DEF Cancel, Fewer, thread, broker
  <2>7. ASSUME NEW p \in Procs, Open(p) \/ Unbind(p) \/ Bind(p) \/ Flush(p)
        PROVE  CopyInv'
    BY <2>7, <2>d DEF Open, Unbind, Bind, Flush, loop, broker
  <2>8. ASSUME NEW p \in Procs, ConfirmDelivery(p)
        PROVE  CopyInv'
    <3>1. CASE cur[p] = "start"
      BY <2>8, <2>c, <3>1 DEF ConfirmDelivery, broker
    <3>2. CASE cur[p] # "start"
      BY <2>8, <2>d, <3>2 DEF ConfirmDelivery, broker
    <3> QED
      BY <3>1, <3>2
  <2>9. ASSUME NEW p \in Procs, NEW outcome \in Calls \ {"idle"}, cur[p] \in Requests,
               Answer(cur[p], outcome)
        PROVE  Told
    BY <2>9 DEF Answer, TypeOK
  <2>10. ASSUME NEW p \in Procs, Acked(p)
        PROVE  CopyInv'
    <3>1. cur[p] \in Requests
      BY <2>10, <2>a DEF Acked, Publishing
    <3>2. Told
      BY <2>9, <2>10, <3>1 DEF Acked, Calls
    <3> QED
      BY <2>10, <2>c, <3>2 DEF Acked, broker
  <2>11. ASSUME NEW p \in Procs, StartFails(p) \/ BeatFails(p) \/ BeatDone(p) \/ Release(p)
        PROVE  CopyInv'
    BY <2>11, <2>c DEF StartFails, BeatFails, BeatDone, Release, broker
  <2>12. ASSUME NEW p \in Procs, AttemptFails(p)
        PROVE  CopyInv'
    <3>1. /\ cur[p] \in Requests
          /\ jobs' = jobs /\ copies' = copies
      BY <2>12 DEF AttemptFails, broker
    <3>2. CASE try[p] = 0
      <4>1. /\ try' = [try EXCEPT ![p] = 1] /\ Go(p, Attempt(conn'[p]))
            /\ call' = call /\ cur' = cur
        BY <2>12, <3>2 DEF AttemptFails
      <4>2. \A q \in Procs \ {p} : Same(q)
        BY <3>1, <4>1 DEF Go, TypeOK
      <4>3. try'[p] = 1
        BY <4>1 DEF TypeOK
      <4>4. Sent(p)' >= Sent(p)
        BY <3>2, <4>3 DEF Sent
      <4>5. Calm(p)
        BY <3>1, <4>1, <4>4 DEF Calm, Fewer
      <4> QED
        BY <4>2, <4>5, CalmSteps
    <3>3. CASE try[p] # 0
      <4>1. Answer(cur[p], "failed") /\ Finish(p)
        BY <2>12, <3>3 DEF AttemptFails
      <4>2. Told
        BY <2>9, <3>1, <4>1 DEF Calls
      <4> QED
        BY <2>c, <3>1, <4>1, <4>2
    <3> QED
      BY <3>2, <3>3
  <2>13. ASSUME NEW p \in Procs, Take(p)
        PROVE  CopyInv'
    <3> DEFINE job == Head(jobs[p])
    <3>1. /\ cur[p] = "none" /\ jobs[p] # <<>>
          /\ cur'[p] = job /\ jobs'[p] = Tail(jobs[p])
          /\ try'[p] = 0 /\ call' = call /\ copies' = copies
          /\ \A q \in Procs \ {p} : Same(q)
      <4>1. try[p] = 0
        BY <2>13, PublisherAssumption DEF Take, CopyInv
      <4> QED
        BY <2>13, <4>1 DEF Take, Go, TypeOK, loop, broker
    <3>2. /\ job = jobs[p][1] /\ 1 \in 1..Len(jobs[p])
          /\ Len(jobs'[p]) \in Nat
          /\ \A i \in 1..Len(jobs'[p]) :
                i + 1 \in 1..Len(jobs[p]) /\ i + 1 # 1 /\ jobs'[p][i] = jobs[p][i + 1]
      BY <2>a, <3>1
    <3> HIDE DEF job
    <3>3. Fewer(p)
      BY <3>1 DEF Fewer
    <3>4. ASSUME NEW r \in Requests
          PROVE  Counted(p, r)'
      <4>1. /\ Counted(p, r)
            /\ Waits(p, r)' => Waits(p, r)
            /\ WaitsOnce(p, r) => WaitsOnce(p, r)'
        BY <3>3, FewerWait DEF CopyInv
      <4>2. cur'[p] = r => Waits(p, r) /\ ~ Waits(p, r)'
        BY <3>1, <3>2, <4>1 DEF Waits, WaitsOnce, Counted
      <4>3. Sent(p)' >= 0
        BY <3>1 DEF Sent
      <4> QED
        BY <3>1, <4>1, <4>2, <4>3 DEF Counted
    <3>5. ASSUME NEW q \in Procs \ {p}, NEW r \in Requests
          PROVE  Counted(q, r)'
      BY <3>1, <3>5 DEF CopyInv, Counted, Waits, WaitsOnce, Sent
    <3>6. \A q \in Procs : cur'[q] \notin Requests => try'[q] = 0
      BY <3>1 DEF CopyInv
    <3> QED
      BY <3>1, <3>4, <3>5, <3>6 DEF CopyInv, AtMostTwice
  <2>14. ASSUME NEW p \in Procs, Send(p)
        PROVE  CopyInv'
    <3> DEFINE r0 == cur[p]
    <3>1. /\ pc[p] = "send" /\ r0 \in Requests /\ confirming[p]
      BY <2>14, <2>a DEF Send, WireInv, Wired, Publishing
    <3>2. /\ pc' = [pc EXCEPT ![p] = "await"]
          /\ UNCHANGED <<call, cur, try, jobs>>
      BY <2>14, <3>1 DEF Send, Go
    <3>3. \A q \in Procs \ {p} : Same(q)
      BY <3>2 DEF TypeOK
    <3>4. \A q \in Queues, r \in Requests :
              /\ copies[q][r] \in Nat
              /\ copies'[q][r] \in {copies[q][r], copies[q][r] + 1}
              /\ r # r0 => copies'[q][r] = copies[q][r]
      BY <2>14, <3>1 DEF Send, TypeOK
    <3>5. /\ Sent(p) = try[p] /\ Sent(p)' = try[p] + 1 /\ try[p] \in {0, 1}
      BY <2>a, <3>1, <3>2 DEF Sent, TypeOK
    <3>6. Counted(p, r0) /\ \A q \in Queues : copies[q][r0] <= try[p]
      BY <3>1, <3>5 DEF CopyInv, Counted
    <3> HIDE DEF r0
    <3>7. \A q \in Queues : copies'[q][r0] <= Sent(p)' /\ copies'[q][r0] <= 2
      BY <3>1, <3>4, <3>5, <3>6
    <3>8. ~ Waits(p, r0) /\ p = ProcOf[r0] /\ call[r0] # "idle"
      BY <3>6 DEF Counted, r0
    <3>9. ASSUME NEW q \in Procs, NEW r \in Requests
          PROVE  Counted(q, r)'
      <4>1. Counted(q, r) /\ Counted(q, r0)
        BY <3>1, <3>9 DEF CopyInv
      <4>2. /\ Waits(q, r)' <=> Waits(q, r)
            /\ WaitsOnce(q, r)' <=> WaitsOnce(q, r)
            /\ cur'[q] = cur[q] /\ call'[r] = call[r]
        BY <3>2 DEF Waits, WaitsOnce
      <4>3. r # r0 => Counted(q, r)'
        <5>1. r # r0 /\ cur[q] = r => q # p
          BY DEF r0
        <5>2. q # p => Sent(q)' = Sent(q)
          BY <3>3 DEF Sent
        <5> QED
          BY <3>4, <4>1, <4>2, <5>1, <5>2 DEF Counted
      <4>4. q = p /\ r = r0 => Counted(q, r)'
        BY <3>7, <3>8, <4>1, <4>2 DEF Counted
      <4>5. q # p /\ r = r0 => Counted(q, r)'
        BY <3>8, <4>1, <4>2 DEF Counted
      <4> QED
        BY <4>3, <4>4, <4>5
    <3>10. AtMostTwice'
      <4>1. \A q \in Queues, r \in Requests : copies[q][r] <= 2
        BY DEF CopyInv, AtMostTwice
      <4> QED
        BY <3>4, <3>7, <4>1 DEF AtMostTwice
    <3>11. \A q \in Procs : cur'[q] \notin Requests => try'[q] = 0
      BY <3>2 DEF CopyInv
    <3>12. \A r \in Requests : call'[r] = "idle" => \A q \in Queues : copies'[q][r] = 0
      BY <3>2, <3>4, <3>8 DEF CopyInv
    <3> QED
      BY <3>9, <3>10, <3>11, <3>12 DEF CopyInv
  <2>15. ASSUME NEW r0 \in Requests, Publish(r0)
        PROVE  CopyInv'
    <3> DEFINE p == ProcOf[r0]
    <3>0. p \in Procs
      BY PublisherAssumption
    <3>1. /\ call[r0] = "idle"
          /\ call' = [call EXCEPT ![r0] = "waiting"]
          /\ jobs'[p] = Append(jobs[p], r0) /\ \A q \in Procs \ {p} : jobs'[q] = jobs[q]
          /\ UNCHANGED <<cur, pc, try, copies>>
      BY <2>15, <3>0 DEF Publish, Enqueue, TypeOK, thread, broker
    <3>2. \A r \in Requests : (r = r0 => call'[r] # "idle") /\ (r # r0 => call'[r] = call[r])
      BY <3>1 DEF TypeOK
    <3>3. /\ Len(jobs[p]) \in Nat /\ Len(jobs'[p]) = Len(jobs[p]) + 1
          /\ jobs'[p][Len(jobs[p]) + 1] = r0
          /\ \A i \in 1..Len(jobs[p]) : jobs'[p][i] = jobs[p][i]
      BY <2>a, <3>0, <3>1
    <3>4. \A q \in Queues : copies[q][r0] = 0
      BY <3>1 DEF CopyInv
    <3>5. \A q \in Procs : ~ Waits(q, r0) /\ cur[q] # r0
      BY <3>1 DEF CopyInv, Counted
    <3>6. \A q \in Procs : Sent(q)' = Sent(q)
      BY <3>1 DEF Sent
    <3> HIDE DEF p
    <3>7. \A i \in 1..Len(jobs'[p]) : i \in 1..Len(jobs[p]) \/ i = Len(jobs[p]) + 1
      BY <3>3
    <3>8. ASSUME NEW q \in Procs, NEW r \in Requests, r # r0
          PROVE  Counted(q, r)'
      <4>1. Counted(q, r)
        BY DEF CopyInv
      <4>2. (Waits(q, r)' => Waits(q, r)) /\ (WaitsOnce(q, r) => WaitsOnce(q, r)')
        <5>1. CASE q # p
          BY <3>1, <5>1 DEF Waits, WaitsOnce
        <5>2. CASE q = p
          <6>1. \A i \in 1..Len(jobs'[q]) :
                    jobs'[q][i] = r => i \in 1..Len(jobs[q]) /\ jobs[q][i] = r
            BY <3>3, <3>7, <3>8, <5>2
          <6> QED
            BY <6>1 DEF Waits, WaitsOnce
        <5> QED
          BY <5>1, <5>2
      <4> QED
        BY <3>1, <3>2, <3>6, <3>8, <4>1, <4>2 DEF Counted
    <3>9. ASSUME NEW q \in Procs
          PROVE  Counted(q, r0)'
      <4>1. Waits(q, r0)' => q = p
        BY <3>1, <3>5 DEF Waits
      <4>2. WaitsOnce(q, r0)'
        <5>1. CASE q # p
          BY <3>1, <3>5, <5>1 DEF Waits, WaitsOnce
        <5>2. CASE q = p
          <6>1. \A i \in 1..Len(jobs'[q]) : jobs'[q][i] = r0 => i = Len(jobs[q]) + 1
            BY <3>3, <3>5, <3>7, <5>2 DEF Waits
          <6> QED
            BY <6>1 DEF WaitsOnce
        <5> QED
          BY <5>1, <5>2
      <4> QED
        BY <3>1, <3>2, <3>4, <3>5, <4>1, <4>2 DEF Counted, p
    <3>10. \A q \in Procs : cur'[q] \notin Requests => try'[q] = 0
      BY <3>1 DEF CopyInv
    <3>11. AtMostTwice'
      BY <3>1 DEF CopyInv, AtMostTwice
    <3>12. \A r \in Requests : call'[r] = "idle" => \A q \in Queues : copies'[q][r] = 0
      BY <3>1, <3>2 DEF CopyInv
    <3> QED
      BY <3>8, <3>9, <3>10, <3>11, <3>12 DEF CopyInv
  <2>16. CASE UNCHANGED vars
    BY <2>16 DEF vars, loop, thread, broker, CopyInv, AtMostTwice, Counted, Waits, WaitsOnce, Sent
  <2> QED
    BY <2>3, <2>4, <2>5, <2>6, <2>7, <2>8, <2>10, <2>11, <2>12, <2>13, <2>14, <2>15, <2>16 DEF Next, Thread
<1> QED
  BY <1>1, <1>2, TypeCorrect, JobsOrdered, WiresConfigured, PTL DEF Spec

(* One publish() puts at most two copies of its command in a queue: one for   *)
(* each attempt of _publish, however often connections are lost, and whether  *)
(* or not its caller still waits.                                             *)
THEOREM SentAtMostTwice == Spec => []AtMostTwice
<1>1. CopyInv => AtMostTwice
  BY DEF CopyInv
<1> QED
  BY <1>1, CopiesCounted, PTL

=============================================================================
