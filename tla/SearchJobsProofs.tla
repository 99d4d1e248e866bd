-------------------------- MODULE SearchJobsProofs --------------------------
(***************************************************************************)
(* Theorems about SearchJobs, for any codes, queries, workers, readers and  *)
(* number of failures.                                                      *)
(***************************************************************************)
EXTENDS SearchJobs, TLAPS

(* Every variable stays within its type, a worker that is completing holds  *)
(* a result, and a query is COMPLETED exactly when it has one (the scripts   *)
(* of store.py and worker.py write status and result in one HSET).           *)
THEOREM TypeCorrect == Spec => []TypeOK
<1> USE SearchAssumption DEF TypeOK, Status, SubPC, WorkerPC, ReaderPC
<1>1. Init => TypeOK
  BY DEF Init
<1>2. TypeOK /\ [Next]_vars => TypeOK'
  <2> SUFFICES ASSUME TypeOK, [Next]_vars
               PROVE  TypeOK'
    OBVIOUS
  <2> USE DEF redis, posts, works, reads, history, Move, Fault, Release, ReadDone, DEL
  <2>0. \A q \in Queries : WaitingWithout(q) \in SUBSET Codes
    BY DEF WaitingWithout
  <2>1. ASSUME NEW c \in Codes, ExpireTicket(c) PROVE TypeOK'
    BY <2>1 DEF ExpireTicket
  <2>2. ASSUME NEW q \in Queries, ExpireQuery(q) PROVE TypeOK'
    BY <2>0, <2>2 DEF ExpireQuery
  <2>3. ASSUME NEW c \in Codes, Submit(c) PROVE TypeOK'
    BY <2>3 DEF Submit
  <2>4. ASSUME NEW c \in Codes, CreateTicket(c) PROVE TypeOK'
    BY <2>4 DEF CreateTicket, CREATE_TICKET
  <2>5. ASSUME NEW c \in Codes, Publish(c) PROVE TypeOK'
    BY <2>5 DEF Publish
  <2>6. ASSUME NEW c \in Codes, Confirm(c) PROVE TypeOK'
    BY <2>6 DEF Confirm
  <2>7. ASSUME NEW c \in Codes, MarkPublishFailed(c) PROVE TypeOK'
    BY <2>7 DEF MarkPublishFailed, MARK_PUBLISH_FAILED
  <2>8. ASSUME NEW w \in Workers, NEW c \in Codes, Deliver(w, c) PROVE TypeOK'
    BY <2>8 DEF Deliver
  <2>9. ASSUME NEW w \in Workers, ReadTicket(w) PROVE TypeOK'
    BY <2>9 DEF ReadTicket
  <2>10. ASSUME NEW w \in Workers, ReadQuery(w) PROVE TypeOK'
    BY <2>10 DEF ReadQuery
  <2>11. ASSUME NEW w \in Workers, SearchSucceeds(w) PROVE TypeOK'
    BY <2>11 DEF SearchSucceeds
  <2>12. ASSUME NEW w \in Workers, SearchFails(w) PROVE TypeOK'
    BY <2>12 DEF SearchFails
  <2>13. ASSUME NEW w \in Workers, Complete(w) PROVE TypeOK'
    BY <2>0, <2>13 DEF Complete, COMPLETE_QUERY
  <2>14. ASSUME NEW w \in Workers, Fail(w) PROVE TypeOK'
    BY <2>0, <2>14 DEF Fail, FAIL_QUERY
  <2>15. ASSUME NEW w \in Workers, Settle(w) PROVE TypeOK'
    BY <2>15 DEF Settle
  <2>16. ASSUME NEW r \in Readers, NEW c \in Codes, GetTicket(r, c) PROVE TypeOK'
    BY <2>16 DEF GetTicket
  <2>17. ASSUME NEW r \in Readers, GetQuery(r) PROVE TypeOK'
    <3>0. /\ rpc[r] = "read_query"
          /\ UNCHANGED <<redis, posts, queued, works, history, faults>>
      BY <2>17 DEF GetQuery
    <3>1. CASE query[QueryOf[code[r]]] = "COMPLETED"
      <4>1. /\ rpc' = [rpc EXCEPT ![r] = "deleting"]
            /\ got' = [got EXCEPT ![r] = result[QueryOf[code[r]]]]
            /\ UNCHANGED code
        BY <2>17, <3>1 DEF GetQuery
      <4>2. result[QueryOf[code[r]]] \in Answers
        BY <3>0, <3>1
      <4> QED BY <3>0, <4>1, <4>2
    <3>2. CASE query[QueryOf[code[r]]] # "COMPLETED"
      <4>1. ReadDone(r)
        BY <2>17, <3>2 DEF GetQuery
      <4> QED BY <3>0, <4>1
    <3> QED BY <3>1, <3>2
  <2>18. ASSUME NEW r \in Readers, DeleteTicket(r) PROVE TypeOK'
    BY <2>18 DEF DeleteTicket
  <2>19. ASSUME NEW c \in Codes, CreateReplyLost(c) PROVE TypeOK'
    BY <2>19 DEF CreateReplyLost, CREATE_TICKET
  <2>20. ASSUME NEW c \in Codes, PublishFails(c) PROVE TypeOK'
    <3>0. /\ faults' \in 0..MaxFaults
          /\ UNCHANGED <<redis, queued, works, reads, history>>
      BY <2>20 DEF PublishFails
    <3>1. CASE attempt[c] = 0
      <4>1. /\ attempt' = [attempt EXCEPT ![c] = 1]
            /\ sub' = [sub EXCEPT ![c] = "publishing"]
        BY <2>20, <3>1 DEF PublishFails
      <4> QED BY <3>0, <4>1
    <3>2. CASE attempt[c] # 0
      <4>1. /\ UNCHANGED attempt
            /\ sub' = [sub EXCEPT ![c] = "marking"]
        BY <2>20, <3>2 DEF PublishFails
      <4> QED BY <3>0, <4>1
    <3> QED BY <3>1, <3>2
  <2>21. ASSUME NEW c \in Codes, SubmitDies(c) PROVE TypeOK'
    BY <2>21 DEF SubmitDies
  <2>22. ASSUME NEW w \in Workers, WriteReplyLost(w) PROVE TypeOK'
    <3>1. PICK pc \in {wpc[w], "requeue"} : Move(w, pc)
      BY <2>22 DEF WriteReplyLost
    <3>2. CASE wpc[w] = "completing" /\ COMPLETE_QUERY(QueryOf[job[w]], found[w])
      <4>1. pc \in {"completing", "requeue"}
        BY <3>1, <3>2
      <4> QED BY <2>0, <2>22, <3>1, <3>2, <4>1 DEF WriteReplyLost, COMPLETE_QUERY
    <3>3. CASE wpc[w] = "failing" /\ FAIL_QUERY(QueryOf[job[w]])
      <4>1. pc \in {"failing", "requeue"}
        BY <3>1, <3>3
      <4> QED BY <2>0, <2>22, <3>1, <3>3, <4>1 DEF WriteReplyLost, FAIL_QUERY
    <3> QED BY <2>22, <3>2, <3>3 DEF WriteReplyLost
  <2>23. ASSUME NEW w \in Workers, WorkerRedisError(w) PROVE TypeOK'
    BY <2>23 DEF WorkerRedisError
  <2>24. ASSUME NEW w \in Workers, LoseLink(w) PROVE TypeOK'
    BY <2>24 DEF LoseLink
  <2>25. ASSUME NEW w \in Workers, WorkerCrash(w) PROVE TypeOK'
    BY <2>25 DEF WorkerCrash
  <2>26. ASSUME NEW r \in Readers, DeleteReplyLost(r) PROVE TypeOK'
    <3>0. /\ rpc[r] = "deleting"
          /\ DEL(code[r])
          /\ faults' \in 0..MaxFaults
          /\ UNCHANGED <<posts, queued, works, delivered>>
      BY <2>26 DEF DeleteReplyLost
    <3>1. CASE ReadDone(r)
      BY <3>0, <3>1
    <3>2. CASE UNCHANGED reads
      BY <3>0, <3>2
    <3> QED BY <2>26, <3>1, <3>2 DEF DeleteReplyLost
  <2>27. ASSUME NEW r \in Readers, GetDies(r) PROVE TypeOK'
    BY <2>27 DEF GetDies
  <2>28. CASE UNCHANGED vars
    BY <2>28 DEF vars
  <2> QED
    BY <2>1, <2>2, <2>3, <2>4, <2>5, <2>6, <2>7, <2>8, <2>9, <2>10, <2>11,
       <2>12, <2>13, <2>14, <2>15, <2>16, <2>17, <2>18, <2>19, <2>20, <2>21,
       <2>22, <2>23, <2>24, <2>25, <2>26, <2>27, <2>28
       DEF Next, Expire, Post, Work, Get, Failure
<1> QED
  BY <1>1, <1>2, PTL DEF Spec
-----------------------------------------------------------------------------
(* What a step may do to the part of the state the other theorems speak of. *)
(* Workers and handlers take many kinds of step; few of them touch Redis.   *)

view == <<redis, sub, reads, delivered>>

PostMoves ==
    \E c \in Codes, s \in SubPC :
        /\ sub[c] \notin {"accepted", "refused"}
        /\ sub' = [sub EXCEPT ![c] = s]
        /\ UNCHANGED <<redis, reads, delivered>>

Creates ==
    \E c \in Codes, s \in SubPC :
        /\ sub[c] = "creating"
        /\ CREATE_TICKET(c)
        /\ sub' = [sub EXCEPT ![c] = s]
        /\ UNCHANGED <<reads, delivered>>

Marks ==
    \E c \in Codes :
        /\ sub[c] = "marking"
        /\ MARK_PUBLISH_FAILED(c)
        /\ sub' = [sub EXCEPT ![c] = "refused"]
        /\ UNCHANGED <<reads, delivered>>

Completes ==
    \E q \in Queries, a \in Answers :
        COMPLETE_QUERY(q, a) /\ UNCHANGED <<sub, reads, delivered>>

Fails ==
    \E q \in Queries : FAIL_QUERY(q) /\ UNCHANGED <<sub, reads, delivered>>

Reads == \E r \in Readers : GetTicket(r, code'[r]) \/ GetQuery(r) \/ GetDies(r)

Deletes == \E r \in Readers : DeleteTicket(r) \/ DeleteReplyLost(r)

LEMMA StepEffects ==
  ASSUME TypeOK, [Next]_vars
  PROVE  UNCHANGED view \/ Expire \/ PostMoves \/ Creates \/ Marks \/ Completes
         \/ Fails \/ Reads \/ Deletes
<1> DEFINE Goal == UNCHANGED view \/ Expire \/ PostMoves \/ Creates \/ Marks
                   \/ Completes \/ Fails \/ Reads \/ Deletes
<1> USE DEF view, redis, posts, works, reads, history
<1>1. ASSUME NEW c \in Codes, Submit(c) \/ Publish(c) \/ Confirm(c)
                               \/ PublishFails(c) \/ SubmitDies(c)
      PROVE  Goal
  <2>1. UNCHANGED <<redis, reads, delivered>>
    BY <1>1 DEF Submit, Publish, Confirm, PublishFails, SubmitDies
  <2>2. sub[c] \notin {"accepted", "refused"}
    BY <1>1 DEF Submit, Publish, Confirm, PublishFails, SubmitDies
  <2>3. \E s \in SubPC : sub' = [sub EXCEPT ![c] = s]
    BY <1>1 DEF Submit, Publish, Confirm, PublishFails, SubmitDies, SubPC
  <2> QED BY <2>1, <2>2, <2>3 DEF PostMoves
<1>2. ASSUME NEW c \in Codes, CreateTicket(c) \/ CreateReplyLost(c)
      PROVE  Goal
  <2>1. /\ sub[c] = "creating"
        /\ CREATE_TICKET(c)
        /\ UNCHANGED <<reads, delivered>>
    BY <1>2 DEF CreateTicket, CreateReplyLost
  <2>2. \E s \in SubPC : sub' = [sub EXCEPT ![c] = s]
    BY <1>2 DEF CreateTicket, CreateReplyLost, SubPC
  <2> QED BY <2>1, <2>2 DEF Creates
<1>3. ASSUME NEW c \in Codes, MarkPublishFailed(c)
      PROVE  Goal
  BY <1>3 DEF MarkPublishFailed, Marks
<1>4. ASSUME NEW w \in Workers, ~ UNCHANGED view,
             Work(w) \/ WriteReplyLost(w) \/ WorkerRedisError(w) \/ LoseLink(w)
                     \/ WorkerCrash(w)
      PROVE  Goal
  <2>1. Complete(w) \/ Fail(w) \/ WriteReplyLost(w)
    BY <1>4 DEF Work, Deliver, ReadTicket, ReadQuery, SearchSucceeds, SearchFails,
                Settle, WorkerRedisError, LoseLink, WorkerCrash
  <2>2. UNCHANGED <<sub, reads, delivered>>
    BY <2>1 DEF Complete, Fail, WriteReplyLost
  <2>3. ASSUME wpc[w] = "completing", COMPLETE_QUERY(QueryOf[job[w]], found[w])
        PROVE  Completes
    <3>1. QueryOf[job[w]] \in Queries /\ found[w] \in Answers
      BY <2>3, SearchAssumption DEF TypeOK
    <3> QED BY <2>2, <2>3, <3>1 DEF Completes
  <2>4. ASSUME wpc[w] = "failing", FAIL_QUERY(QueryOf[job[w]])
        PROVE  Fails
    <3>1. QueryOf[job[w]] \in Queries
      BY <2>4, SearchAssumption DEF TypeOK
    <3> QED BY <2>2, <2>4, <3>1 DEF Fails
  <2> QED BY <2>1, <2>3, <2>4 DEF Complete, Fail, WriteReplyLost
<1>5. ASSUME NEW r \in Readers, NEW c \in Codes, GetTicket(r, c)
      PROVE  Reads
  <2>1. code'[r] = c
    BY <1>5 DEF GetTicket, TypeOK
  <2> QED BY <1>5, <2>1 DEF Reads
<1>6. ASSUME NEW r \in Readers, GetQuery(r) \/ GetDies(r)
      PROVE  Reads
  BY <1>6 DEF Reads
<1>7. ASSUME NEW r \in Readers, DeleteTicket(r) \/ DeleteReplyLost(r)
      PROVE  Deletes
  BY <1>7 DEF Deletes
<1>8. CASE UNCHANGED vars
  BY <1>8 DEF vars
<1> QED
  BY <1>1, <1>2, <1>3, <1>4, <1>5, <1>6, <1>7, <1>8 DEF Next, Post, Get, Failure

-----------------------------------------------------------------------------
(* The argument for OneDelivery: a code whose result was sent belongs to an  *)
(* accepted submission and its ticket is gone, and only the CREATE_TICKET of *)
(* a submission that is still creating writes a ticket.                      *)
DeliveryInv ==
    /\ \A c \in Codes :
        delivered[c] # <<>> => /\ Len(delivered[c]) = 1
                              /\ ticket[c] = "absent"
                              /\ sub[c] = "accepted"
    /\ \A r \in Readers : rpc[r] # "idle" => sub[code[r]] = "accepted"

LEMMA DeliveryStep ==
  ASSUME TypeOK, DeliveryInv, [Next]_vars
  PROVE  DeliveryInv'
<1> USE DEF TypeOK, DeliveryInv, redis, reads, history
<1>1. CASE UNCHANGED view
  BY <1>1 DEF view
<1>2. CASE Expire
  BY <1>2 DEF Expire, ExpireTicket, ExpireQuery, posts
<1>3. CASE PostMoves
  BY <1>3 DEF PostMoves
<1>4. CASE Creates
  BY <1>4 DEF Creates, CREATE_TICKET
<1>5. CASE Marks
  BY <1>5 DEF Marks, MARK_PUBLISH_FAILED
<1>6. CASE Completes
  BY <1>6 DEF Completes, COMPLETE_QUERY
<1>7. CASE Fails
  BY <1>7 DEF Fails, FAIL_QUERY
<1>8. CASE Reads
  <2> PICK r \in Readers : GetTicket(r, code'[r]) \/ GetQuery(r) \/ GetDies(r)
    BY <1>8 DEF Reads
  <2>1. CASE GetTicket(r, code'[r])
    BY <2>1 DEF GetTicket, posts
  <2>2. CASE GetQuery(r) \/ GetDies(r)
    <3>1. UNCHANGED <<ticket, sub, delivered>>
      BY <2>2 DEF GetQuery, GetDies, posts
    <3>2. rpc[r] # "idle"
      BY <2>2 DEF GetQuery, GetDies
    <3>3. \/ rpc' = [rpc EXCEPT ![r] = "deleting"] /\ UNCHANGED code
          \/ rpc' = [rpc EXCEPT ![r] = "idle"] /\ code' = [code EXCEPT ![r] = NoCode]
      BY <2>2 DEF GetQuery, GetDies, ReadDone
    <3> QED BY <3>1, <3>2, <3>3, ZenonT(60)
  <2> QED BY <2>1, <2>2
<1>9. CASE Deletes
  <2> PICK r \in Readers : DeleteTicket(r) \/ DeleteReplyLost(r)
    BY <1>9 DEF Deletes
  <2>1. /\ rpc[r] = "deleting"
        /\ code[r] \in Codes
        /\ ticket' = [ticket EXCEPT ![code[r]] = "absent"]
        /\ UNCHANGED sub
    BY DEF DeleteTicket, DeleteReplyLost, DEL, posts
  <2>2. ReadDone(r) \/ UNCHANGED reads
    BY DEF DeleteTicket, DeleteReplyLost
  <2>3. \A s \in Readers : rpc'[s] # "idle" => sub'[code'[s]] = "accepted"
    BY <2>1, <2>2, ZenonT(60) DEF ReadDone
  <2>4. CASE ticket[code[r]] = "absent" \/ DeleteReplyLost(r)
    <3>1. UNCHANGED delivered
      BY <2>1, <2>4 DEF DeleteTicket, DeleteReplyLost
    <3> QED BY <2>1, <2>3, <3>1
  <2>5. CASE ticket[code[r]] # "absent" /\ DeleteTicket(r)
    <3>1. delivered[code[r]] = <<>>
      BY <2>1, <2>5
    <3>2. delivered' = [delivered EXCEPT ![code[r]] = Append(@, got[r])]
      BY <2>5 DEF DeleteTicket
    <3>3. delivered'[code[r]] = Append(<<>>, got[r])
      BY <2>1, <3>1, <3>2
    <3>4. Len(delivered'[code[r]]) = 1
      BY <3>3
    <3> QED BY <2>1, <2>3, <3>2, <3>4
  <2> QED BY <2>4, <2>5
<1> QED
  BY <1>1, <1>2, <1>3, <1>4, <1>5, <1>6, <1>7, <1>8, <1>9, StepEffects

THEOREM DeliveryInvariant == Spec => []DeliveryInv
<1>1. Init => DeliveryInv
  BY DEF Init, DeliveryInv
<1> QED
  BY <1>1, DeliveryStep, TypeCorrect, PTL DEF Spec

(* At most one 200 per magicCode, whatever GET handlers race for it, whatever *)
(* replies are lost and however DEL is resent.                                *)
THEOREM DeliveredOnce == Spec => []OneDelivery
<1>1. TypeOK /\ DeliveryInv => OneDelivery
  <2> SUFFICES ASSUME TypeOK, DeliveryInv, NEW c \in Codes
               PROVE  Len(delivered[c]) <= 1
    BY DEF OneDelivery
  <2>1. CASE delivered[c] = <<>>
    BY <2>1
  <2>2. CASE delivered[c] # <<>>
    <3>1. Len(delivered[c]) = 1
      BY <2>2 DEF DeliveryInv
    <3> QED BY <3>1
  <2> QED BY <2>1, <2>2
<1> QED
  BY <1>1, TypeCorrect, DeliveryInvariant, PTL

-----------------------------------------------------------------------------
(* No step replaces, clears or fails a stored result, or writes a result     *)
(* into a key that has expired: the guards of the four scripts suffice,       *)
(* whatever attempts and submissions overlap.                                 *)
THEOREM ResultsAreFinal == Spec => ResultFinal
<1> DEFINE Final ==
      \A q \in Queries :
          /\ query[q] = "COMPLETED" => \/ query'[q] = "COMPLETED" /\ result'[q] = result[q]
                                       \/ query'[q] = "absent"
          /\ query[q] = "absent" => query'[q] \in {"absent", "PENDING"}
<1>1. TypeOK /\ [Next]_vars => [Final]_vars
  <2> SUFFICES ASSUME TypeOK, [Next]_vars
               PROVE  Final
    OBVIOUS
  <2> USE DEF TypeOK, redis, reads, history, posts
  <2>1. CASE UNCHANGED view
    BY <2>1 DEF view
  <2>2. CASE Expire
    BY <2>2 DEF Expire, ExpireTicket, ExpireQuery
  <2>3. CASE PostMoves
    BY <2>3 DEF PostMoves
  <2>4. CASE Creates
    BY <2>4 DEF Creates, CREATE_TICKET
  <2>5. CASE Marks
    BY <2>5 DEF Marks, MARK_PUBLISH_FAILED
  <2>6. CASE Completes
    BY <2>6 DEF Completes, COMPLETE_QUERY
  <2>7. CASE Fails
    BY <2>7 DEF Fails, FAIL_QUERY
  <2>8. CASE Reads \/ Deletes
    BY <2>8 DEF Reads, Deletes, GetTicket, GetQuery, GetDies, DeleteTicket,
                DeleteReplyLost, DEL
  <2> QED
    BY <2>1, <2>2, <2>3, <2>4, <2>5, <2>6, <2>7, <2>8, StepEffects
<1> QED
  BY <1>1, TypeCorrect, PTL DEF Spec, ResultFinal

-----------------------------------------------------------------------------
(* TicketBacked and ReadIsCurrent are inductive together with what they rest *)
(* on: only refused submissions have a FAILED ticket, and a GET handler is   *)
(* called with an accepted code, whose ticket is therefore live or gone.     *)
BackingInv ==
    /\ TicketBacked
    /\ ReadIsCurrent
    /\ \A c \in Codes : ticket[c] = "FAILED" => sub[c] = "refused"
    /\ \A r \in Readers : rpc[r] # "idle" => sub[code[r]] = "accepted"

LEMMA BackingStep ==
  ASSUME TypeOK, BackingInv, [Next]_vars
  PROVE  BackingInv'
<1> USE SearchAssumption
    DEF TypeOK, BackingInv, TicketBacked, ReadIsCurrent, redis, reads
<1>1. CASE UNCHANGED view
  BY <1>1 DEF view
<1>2. CASE Expire
  <2>1. ASSUME NEW c \in Codes, ExpireTicket(c) PROVE BackingInv'
    BY <2>1 DEF ExpireTicket, posts, history
  <2>2. ASSUME NEW q \in Queries, ExpireQuery(q) PROVE BackingInv'
    <3>1. /\ QueryCoversTicket => \A c \in Codes : Live(c) => QueryOf[c] # q
          /\ query' = [query EXCEPT ![q] = "absent"]
          /\ result' = [result EXCEPT ![q] = NoAnswer]
          /\ UNCHANGED <<ticket, sub, reads>>
      BY <2>2 DEF ExpireQuery, posts
    <3>2. TicketBacked'
      BY <3>1 DEF Live
    <3>3. ReadIsCurrent'
      BY <3>1 DEF Live, Status
    <3> QED BY <3>1, <3>2, <3>3
  <2> QED BY <1>2, <2>1, <2>2 DEF Expire
<1>3. CASE PostMoves
  BY <1>3 DEF PostMoves
<1>4. CASE Creates
  <2> PICK c \in Codes, s \in SubPC :
        /\ sub[c] = "creating"
        /\ CREATE_TICKET(c)
        /\ sub' = [sub EXCEPT ![c] = s]
        /\ UNCHANGED <<reads, delivered>>
    BY <1>4 DEF Creates
  <2>0. \A r \in Readers : rpc[r] # "idle" => code[r] # c
    BY Zenon
  <2>1. CASE query[QueryOf[c]] = "COMPLETED"
    <3>1. /\ ticket' = [ticket EXCEPT ![c] = "COMPLETED"]
          /\ UNCHANGED <<query, result>>
      BY <2>1 DEF CREATE_TICKET
    <3>2. TicketBacked'
      BY <2>1, <3>1
    <3>3. ReadIsCurrent'
      BY <2>0, <3>1
    <3> QED BY <3>1, <3>2, <3>3
  <2>2. CASE query[QueryOf[c]] # "COMPLETED"
    <3>1. /\ ticket' = [ticket EXCEPT ![c] = "PENDING"]
          /\ query' = [query EXCEPT ![QueryOf[c]] = "PENDING"]
          /\ result' = [result EXCEPT ![QueryOf[c]] = NoAnswer]
      BY <2>2 DEF CREATE_TICKET
    <3>2. TicketBacked'
      BY <2>2, <3>1
    <3>3. ReadIsCurrent'
      BY <2>0, <2>2, <3>1
    <3> QED BY <3>1, <3>2, <3>3
  <2> QED BY <2>1, <2>2
<1>5. CASE Marks
  BY <1>5 DEF Marks, MARK_PUBLISH_FAILED
<1>6. CASE Completes
  BY <1>6 DEF Completes, COMPLETE_QUERY
<1>7. CASE Fails
  BY <1>7 DEF Fails, FAIL_QUERY
<1>8. CASE Reads
  <2> PICK r \in Readers : GetTicket(r, code'[r]) \/ GetQuery(r) \/ GetDies(r)
    BY <1>8 DEF Reads
  <2>0. UNCHANGED <<redis, sub>>
    BY DEF GetTicket, GetQuery, GetDies, posts
  <2>1. CASE GetTicket(r, code'[r])
    BY <2>0, <2>1 DEF GetTicket
  <2>2. CASE GetQuery(r) /\ query[QueryOf[code[r]]] = "COMPLETED"
    <3>1. /\ rpc[r] # "idle"
          /\ rpc' = [rpc EXCEPT ![r] = "deleting"]
          /\ got' = [got EXCEPT ![r] = result[QueryOf[code[r]]]]
          /\ UNCHANGED code
      BY <2>2 DEF GetQuery
    <3> QED BY <2>0, <2>2, <3>1
  <2>3. CASE ReadDone(r)
    BY <2>0, <2>3 DEF ReadDone
  <2> QED BY <2>1, <2>2, <2>3 DEF GetQuery, GetDies
<1>9. CASE Deletes
  <2> PICK r \in Readers : DeleteTicket(r) \/ DeleteReplyLost(r)
    BY <1>9 DEF Deletes
  <2>1. /\ code[r] \in Codes
        /\ ticket' = [ticket EXCEPT ![code[r]] = "absent"]
        /\ UNCHANGED <<query, result, sub>>
    BY DEF DeleteTicket, DeleteReplyLost, DEL, posts
  <2>2. CASE ReadDone(r)
    BY <2>1, <2>2 DEF ReadDone
  <2>3. CASE UNCHANGED reads
    BY <2>1, <2>3
  <2> QED BY <2>2, <2>3 DEF DeleteTicket, DeleteReplyLost
<1> QED
  BY <1>1, <1>2, <1>3, <1>4, <1>5, <1>6, <1>7, <1>8, <1>9, StepEffects

LEMMA BackingInvariant == Spec => []BackingInv
<1>1. Init => BackingInv
  BY DEF Init, BackingInv, TicketBacked, ReadIsCurrent
<1> QED
  BY <1>1, BackingStep, TypeCorrect, PTL DEF Spec

(* With TTLs that keep queries at least as long as tickets, every ticket is  *)
(* backed by the query it was issued for.                                    *)
THEOREM TicketsAreBacked == Spec => []TicketBacked
BY BackingInvariant, PTL DEF BackingInv

(* With the same TTLs, the result a GET returns with 200 is the stored result *)
(* at the moment the DEL takes effect.                                        *)
THEOREM ReadsAreCurrent == Spec => []ReadIsCurrent
BY BackingInvariant, PTL DEF BackingInv

-----------------------------------------------------------------------------
(* SearchJobs implements SearchContract: each step opens or closes a code,   *)
(* stores or forgets an answer, delivers one, or does nothing a client can    *)
(* see.  A code is open while its ticket is PENDING or COMPLETED.             *)

OpenCodes == {c \in Codes : Live(c)}

LEMMA ContractStep ==
  ASSUME QueryCoversTicket, TypeOK, DeliveryInv, BackingInv, [Next]_vars
  PROVE  [Contract!Next]_(Contract!vars)
<1> DEFINE Same == OpenCodes' = OpenCodes /\ result' = result /\ delivered' = delivered
<1> USE SearchAssumption DEF TypeOK, Status, redis, reads, history, posts, Live, OpenCodes
<1>0. Same => UNCHANGED Contract!vars
  BY DEF Contract!vars
<1>1. CASE UNCHANGED view
  BY <1>0, <1>1 DEF view
<1>2. ASSUME NEW c \in Codes, OpenCodes' = OpenCodes \ {c}, UNCHANGED <<result, delivered>>
      PROVE  Same \/ Contract!Next
  <2>1. CASE c \in OpenCodes
    BY <1>2, <2>1 DEF Contract!Next, Contract!Close
  <2>2. CASE c \notin OpenCodes
    <3>1. OpenCodes \ {c} = OpenCodes
      BY <2>2
    <3> QED BY <1>2, <3>1
  <2> QED BY <2>1, <2>2
<1>3. CASE Expire
  <2>1. ASSUME NEW c \in Codes, ExpireTicket(c)
        PROVE  Same \/ Contract!Next
    <3>1. OpenCodes' = OpenCodes \ {c} /\ UNCHANGED <<result, delivered>>
      BY <2>1 DEF ExpireTicket
    <3> QED BY <3>1, <1>2
  <2>2. ASSUME NEW q \in Queries, ExpireQuery(q)
        PROVE  Contract!Next
    BY <2>2 DEF ExpireQuery, Contract!Next, Contract!Forget
  <2> QED BY <1>0, <1>3, <2>1, <2>2 DEF Expire
<1>4. CASE PostMoves
  BY <1>0, <1>4 DEF PostMoves
<1>5. CASE Creates
  <2> PICK c \in Codes, s \in SubPC :
        /\ sub[c] = "creating"
        /\ CREATE_TICKET(c)
        /\ sub' = [sub EXCEPT ![c] = s]
        /\ UNCHANGED <<reads, delivered>>
    BY <1>5 DEF Creates
  <2>1. OpenCodes' = OpenCodes \union {c}
    BY DEF CREATE_TICKET
  <2>2. result' = result
    <3>1. CASE query[QueryOf[c]] = "COMPLETED"
      BY <3>1 DEF CREATE_TICKET
    <3>2. CASE query[QueryOf[c]] # "COMPLETED"
      <4>1. result[QueryOf[c]] = NoAnswer
        BY <3>2
      <4>2. result' = [result EXCEPT ![QueryOf[c]] = NoAnswer]
        BY <3>2 DEF CREATE_TICKET
      <4> QED BY <4>1, <4>2
    <3> QED BY <3>1, <3>2
  <2>3. delivered[c] = <<>> /\ delivered' = delivered
    BY DEF DeliveryInv
  <2> QED BY <1>0, <2>1, <2>2, <2>3 DEF Contract!Next, Contract!Open
<1>6. CASE Marks
  <2> PICK c \in Codes :
        /\ sub[c] = "marking"
        /\ MARK_PUBLISH_FAILED(c)
        /\ sub' = [sub EXCEPT ![c] = "refused"]
        /\ UNCHANGED <<reads, delivered>>
    BY <1>6 DEF Marks
  <2>1. CASE ticket[c] = "PENDING"
    <3>1. OpenCodes' = OpenCodes \ {c} /\ UNCHANGED <<result, delivered>>
      BY <2>1 DEF MARK_PUBLISH_FAILED
    <3> QED BY <1>0, <1>2, <3>1
  <2>2. CASE ticket[c] # "PENDING"
    BY <1>0, <2>2 DEF MARK_PUBLISH_FAILED
  <2> QED BY <2>1, <2>2
<1>7. CASE Completes
  <2> PICK q \in Queries, a \in Answers :
        COMPLETE_QUERY(q, a) /\ UNCHANGED <<sub, reads, delivered>>
    BY <1>7 DEF Completes
  <2>1. OpenCodes' = OpenCodes
    BY DEF COMPLETE_QUERY
  <2>2. CASE query[q] = "PENDING"
    <3>1. result[q] = NoAnswer
      BY <2>2
    <3>2. result' = [result EXCEPT ![q] = a]
      BY <2>2 DEF COMPLETE_QUERY
    <3> QED BY <2>1, <3>1, <3>2 DEF Contract!Next, Contract!Answer
  <2>3. CASE query[q] # "PENDING"
    BY <1>0, <2>1, <2>3 DEF COMPLETE_QUERY
  <2> QED BY <2>2, <2>3
<1>8. CASE Fails
  <2> PICK q \in Queries : FAIL_QUERY(q) /\ UNCHANGED <<sub, reads, delivered>>
    BY <1>8 DEF Fails
  <2>1. result' = result
    <3>1. query[q] = "PENDING" => result[q] = NoAnswer
      OBVIOUS
    <3> QED BY <3>1 DEF FAIL_QUERY
  <2> QED BY <1>0, <2>1 DEF FAIL_QUERY
<1>9. CASE Reads
  BY <1>0, <1>9 DEF Reads, GetTicket, GetQuery, GetDies
<1>10. CASE Deletes
  <2> PICK r \in Readers : DeleteTicket(r) \/ DeleteReplyLost(r)
    BY <1>10 DEF Deletes
  <2> DEFINE c == code[r]
  <2>1. /\ rpc[r] = "deleting"
        /\ c \in Codes
        /\ ticket' = [ticket EXCEPT ![c] = "absent"]
        /\ result' = result
    BY DEF DeleteTicket, DeleteReplyLost, DEL
  <2>2. OpenCodes' = OpenCodes \ {c}
    BY <2>1
  <2>3. ticket[c] # "absent" => c \in OpenCodes
    BY <2>1 DEF BackingInv
  <2>4. CASE delivered' = delivered
    BY <1>0, <1>2, <2>1, <2>2, <2>4
  <2>5. CASE delivered' # delivered
    <3>1. ticket[c] # "absent" /\ delivered' = [delivered EXCEPT ![c] = Append(@, got[r])]
      BY <2>1, <2>5 DEF DeleteTicket, DeleteReplyLost
    <3>2. result[QueryOf[c]] = got[r] /\ got[r] # NoAnswer
      BY <2>1, <3>1 DEF BackingInv, ReadIsCurrent
    <3> QED BY <2>1, <2>2, <2>3, <3>1, <3>2 DEF Contract!Next, Contract!Deliver
  <2> QED BY <2>4, <2>5
<1> QED
  BY <1>1, <1>3, <1>4, <1>5, <1>6, <1>7, <1>8, <1>9, <1>10, StepEffects

(* With TTLs that keep queries at least as long as tickets, everything the    *)
(* backend, the queue and the workers do is allowed by the contract.          *)
THEOREM SearchImplementsContract ==
  ASSUME QueryCoversTicket
  PROVE  Spec => ImplementsContract
<1>1. Init => Contract!Init
  BY DEF Init, Contract!Init, Live
<1>2. TypeOK /\ DeliveryInv /\ BackingInv /\ [Next]_vars => [Contract!Next]_(Contract!vars)
  BY ContractStep
<1> QED
  BY <1>1, <1>2, TypeCorrect, DeliveryInvariant, BackingInvariant, PTL
     DEF Spec, ImplementsContract, Contract!Spec

-----------------------------------------------------------------------------
(* The argument for NoLostJob.  A waiting code's command stays in flight from *)
(* the moment it is published: while the ticket and the query are PENDING,     *)
(* whatever reads the command finds them so and goes on, whatever fails puts   *)
(* it back, and the only writes that end an attempt take the query out of      *)
(* PENDING, which ends the waiting.                                            *)
InFlight(c) == queued[c] > 0 \/ \E w \in Workers : Carries(w, c)

Due(c) == sub[c] \in {"confirming", "accepted"} /\ ticket[c] = "PENDING"

JobInv ==
    /\ \A w \in Workers : wpc[w] = "idle" => linked[w]
    /\ \A c \in waiting : query[QueryOf[c]] = "PENDING"
    /\ \A c \in waiting : Due(c) => InFlight(c)

LEMMA JobStep ==
  ASSUME TypeOK, JobInv, [Next]_vars
  PROVE  JobInv'
<1> USE SearchAssumption DEF TypeOK, JobInv, InFlight, Carries, Due
<1> USE DEF redis, posts, works, reads, history, Move, Release
(* Steps of the expiry, of POST and of GET: the queue only grows. *)
<1>1. ASSUME Expire
      PROVE  JobInv'
  <2>1. ASSUME NEW c \in Codes, ExpireTicket(c) PROVE JobInv'
    BY <2>1 DEF ExpireTicket
  <2>2. ASSUME NEW q \in Queries, ExpireQuery(q) PROVE JobInv'
    BY <2>2 DEF ExpireQuery, WaitingWithout
  <2> QED BY <1>1, <2>1, <2>2 DEF Expire
<1>2. ASSUME NEW c \in Codes, Submit(c) \/ SubmitDies(c) \/ PublishFails(c)
      PROVE  JobInv'
  <2>1. UNCHANGED <<redis, queued, works>> /\ (sub[c] = "accepted" <=> FALSE)
    BY <1>2 DEF Submit, SubmitDies, PublishFails
  <2>2. \E s \in {"creating", "publishing", "marking", "refused"} :
           sub' = [sub EXCEPT ![c] = s]
    BY <1>2 DEF Submit, SubmitDies, PublishFails
  <2> QED BY <2>1, <2>2
<1>3. ASSUME NEW c \in Codes, CreateTicket(c) \/ CreateReplyLost(c)
      PROVE  JobInv'
  <2>1. CREATE_TICKET(c) /\ UNCHANGED <<queued, works>> /\ sub[c] = "creating"
    BY <1>3 DEF CreateTicket, CreateReplyLost
  <2>2. CASE query[QueryOf[c]] = "COMPLETED"
    <3>1. /\ waiting' = waiting \ {c}
          /\ query' = query
          /\ ticket' = [ticket EXCEPT ![c] = "COMPLETED"]
      BY <2>1, <2>2 DEF CREATE_TICKET
    <3>2. \A d \in Codes : d # c => sub'[d] = sub[d]
      BY <1>3 DEF CreateTicket, CreateReplyLost
    <3> QED BY <2>1, <3>1, <3>2
  <2>3. CASE query[QueryOf[c]] # "COMPLETED"
    <3>1. /\ waiting' = waiting \union {c}
          /\ query' = [query EXCEPT ![QueryOf[c]] = "PENDING"]
          /\ ticket' = [ticket EXCEPT ![c] = "PENDING"]
      BY <2>1, <2>3 DEF CREATE_TICKET
    <3>2. \E s \in {"creating", "publishing", "refused"} : sub' = [sub EXCEPT ![c] = s]
      BY <1>3, <2>3 DEF CreateTicket, CreateReplyLost
    <3>3. \A d \in waiting' : query'[QueryOf[d]] = "PENDING"
      BY <3>1
    <3>4. \A d \in waiting' : Due(d)' => d # c /\ Due(d)
      BY <3>1, <3>2
    <3> QED BY <2>1, <3>1, <3>3, <3>4
  <2> QED BY <2>2, <2>3
<1>4. ASSUME NEW c \in Codes, Publish(c) \/ Confirm(c)
      PROVE  JobInv'
  <2>1. CASE Publish(c)
    BY <2>1 DEF Publish
  <2>2. CASE Confirm(c)
    BY <2>2 DEF Confirm
  <2> QED BY <1>4, <2>1, <2>2
<1>5. ASSUME NEW c \in Codes, MarkPublishFailed(c)
      PROVE  JobInv'
  BY <1>5 DEF MarkPublishFailed, MARK_PUBLISH_FAILED
<1>6. ASSUME NEW r \in Readers, Get(r) \/ DeleteReplyLost(r) \/ GetDies(r)
      PROVE  JobInv'
  <2>1. /\ UNCHANGED <<query, waiting, posts, queued, works>>
        /\ ticket' = ticket \/ \E c \in Codes : ticket' = [ticket EXCEPT ![c] = "absent"]
    BY <1>6 DEF Get, GetTicket, GetQuery, DeleteTicket, DeleteReplyLost, GetDies, DEL
  <2> QED BY <2>1
(* Steps of a worker that leave Redis and the submissions alone. *)
<1>7. ASSUME NEW w \in Workers, NEW c \in Codes, Deliver(w, c)
      PROVE  JobInv'
  <2>1. Carries(w, c)'
    BY <1>7 DEF Deliver
  <2>2. \A d \in Codes \ {c} : queued'[d] = queued[d]
    BY <1>7 DEF Deliver
  <2>3. \A v \in Workers \ {w}, d \in Codes : Carries(v, d) => Carries(v, d)'
    BY <1>7 DEF Deliver
  <2>4. \A d \in Codes : ~ Carries(w, d)
    BY <1>7 DEF Deliver
  <2>5. \A d \in Codes : InFlight(d) => InFlight(d)'
    <3> HIDE DEF Carries, TypeOK
    <3> QED BY <2>1, <2>2, <2>3, <2>4
  <2>6. /\ UNCHANGED <<redis, posts, linked>>
        /\ \A v \in Workers : wpc'[v] = "idle" => wpc[v] = "idle"
    BY <1>7 DEF Deliver
  <2>7. waiting \subseteq Codes /\ \A d \in Codes : Due(d)' <=> Due(d)
    BY <2>6
  <2> QED
    <3> HIDE DEF InFlight, Due, TypeOK
    <3> QED BY <2>5, <2>6, <2>7
<1>8. ASSUME NEW w \in Workers, wpc[w] # "idle", UNCHANGED <<redis, posts>>,
             \A v \in Workers \ {w} : /\ wpc'[v] = wpc[v] /\ job'[v] = job[v]
                                       /\ linked'[v] = linked[v] /\ seen'[v] = seen[v],
             wpc'[w] = "idle" => linked'[w],
             \A d \in Codes : queued[d] > 0 => queued'[d] > 0,
             \A d \in waiting : Due(d) /\ Carries(w, d)
                                => Carries(w, d)' \/ queued'[d] > 0
      PROVE  JobInv'
  <2>0. waiting \subseteq Codes
    OBVIOUS
  <2>1. \A v \in Workers \ {w}, d \in Codes : Carries(v, d) => Carries(v, d)'
    BY <1>8
  <2>2. \A d \in waiting : Due(d) => InFlight(d)'
    <3> HIDE DEF Carries, Due, TypeOK
    <3> QED BY <1>8, <2>0, <2>1
  <2>3. \A d \in Codes : Due(d)' <=> Due(d)
    BY <1>8
  <2>4. \A v \in Workers : wpc'[v] = "idle" => linked'[v]
    <3>1. \A v \in Workers \ {w} : wpc'[v] = "idle" => linked'[v]
      BY <1>8
    <3> HIDE DEF TypeOK, JobInv
    <3> QED BY <1>8, <3>1
  <2> QED
    <3> HIDE DEF InFlight, Due, TypeOK
    <3> QED BY <1>8, <2>0, <2>2, <2>3, <2>4
<1>9. ASSUME NEW w \in Workers, ReadTicket(w) \/ ReadQuery(w)
       PROVE  JobInv'
  <2>1. /\ wpc[w] \in {"read_ticket", "read_query"}
        /\ UNCHANGED <<redis, posts, queued, job, linked>>
    BY <1>9 DEF ReadTicket, ReadQuery
  <2>2. \A v \in Workers \ {w} : wpc'[v] = wpc[v] /\ seen'[v] = seen[v]
    BY <1>9 DEF ReadTicket, ReadQuery
  <2>3. wpc'[w] # "idle"
    BY <1>9 DEF ReadTicket, ReadQuery
  <2>4. \A d \in waiting : Due(d) /\ Carries(w, d) => Carries(w, d)'
    <3>1. CASE ReadTicket(w)
      BY <3>1 DEF ReadTicket
    <3>2. CASE ReadQuery(w)
      BY <3>2 DEF ReadQuery
    <3> QED BY <1>9, <3>1, <3>2
  <2>5. \A v \in Workers \ {w} : /\ wpc'[v] = wpc[v] /\ job'[v] = job[v]
                                  /\ linked'[v] = linked[v] /\ seen'[v] = seen[v]
    BY <2>1, <2>2
  <2> QED
    <3> HIDE DEF Carries, Due, TypeOK, JobInv
    <3> QED BY <1>8, <2>1, <2>3, <2>4, <2>5
<1>10. ASSUME NEW w \in Workers,
              SearchSucceeds(w) \/ SearchFails(w) \/ WorkerRedisError(w)
       PROVE  JobInv'
  <2>1. /\ wpc[w] # "idle"
        /\ UNCHANGED <<redis, posts, queued, job, linked, seen>>
    BY <1>10 DEF SearchSucceeds, SearchFails, WorkerRedisError
  <2>2. \E pc \in {"completing", "failing", "requeue"} : wpc' = [wpc EXCEPT ![w] = pc]
    BY <1>10 DEF SearchSucceeds, SearchFails, WorkerRedisError
  <2>3. \A v \in Workers \ {w} : /\ wpc'[v] = wpc[v] /\ job'[v] = job[v]
                                  /\ linked'[v] = linked[v] /\ seen'[v] = seen[v]
    BY <2>1, <2>2
  <2>4. wpc'[w] \in {"completing", "failing", "requeue"}
    BY <2>2
  <2>5. \A d \in waiting : Carries(w, d) => Carries(w, d)'
    BY <2>1, <2>4
  <2> QED
    <3> HIDE DEF Carries, Due, TypeOK, JobInv
    <3> QED BY <1>8, <2>1, <2>3, <2>4, <2>5
<1>11. ASSUME NEW w \in Workers, Settle(w) \/ LoseLink(w) \/ WorkerCrash(w)
       PROVE  JobInv'
  <2>1. wpc[w] # "idle" /\ job[w] \in Codes /\ UNCHANGED <<redis, posts>>
    BY <1>11 DEF Settle, LoseLink, WorkerCrash
  <2>2. \A v \in Workers \ {w} : /\ wpc'[v] = wpc[v] /\ job'[v] = job[v]
                                  /\ linked'[v] = linked[v] /\ seen'[v] = seen[v]
    BY <1>11 DEF Settle, LoseLink, WorkerCrash
  <2>3. wpc'[w] = "idle" => linked'[w]
    BY <1>11, <2>1 DEF Settle, LoseLink, WorkerCrash
  <2>4. \A d \in Codes : queued[d] > 0 => queued'[d] > 0
    <3>1. queued' = queued \/ queued' = [queued EXCEPT ![job[w]] = queued[job[w]] + 1]
      <4>1. CASE Settle(w)
        BY <2>1, <4>1, ZenonT(60) DEF Settle
      <4>2. CASE LoseLink(w) \/ WorkerCrash(w)
        BY <2>1, <4>2 DEF LoseLink, WorkerCrash
      <4> QED BY <1>11, <4>1, <4>2
    <3>2. queued \in [Codes -> Nat]
      OBVIOUS
    <3> HIDE DEF TypeOK, JobInv
    <3> QED BY <2>1, <3>1, <3>2
  <2>5. \A d \in waiting : Carries(w, d) => queued'[d] > 0
    <3>1. CASE Settle(w)
      BY <3>1 DEF Settle
    <3>2. CASE LoseLink(w) \/ WorkerCrash(w)
      BY <3>2 DEF LoseLink, WorkerCrash
    <3> QED BY <1>11, <3>1, <3>2
  <2> QED
    <3> HIDE DEF Carries, Due, TypeOK, JobInv
    <3> QED BY <1>8, <2>1, <2>2, <2>3, <2>4, <2>5
(* Steps of a worker that write the query: those waiting for it are done. *)
<1>12. ASSUME NEW w \in Workers, Complete(w) \/ Fail(w) \/ WriteReplyLost(w)
       PROVE  JobInv'
  <2> DEFINE q == QueryOf[job[w]]
  <2>1. /\ wpc[w] \in {"completing", "failing"}
        /\ q \in Queries
        /\ UNCHANGED <<ticket, posts, queued, job, linked, seen>>
    BY <1>12 DEF Complete, Fail, WriteReplyLost, COMPLETE_QUERY, FAIL_QUERY
  <2>2. /\ waiting' = WaitingWithout(q)
        /\ \A p \in Queries \ {q} : query'[p] = query[p]
        /\ query[q] # "PENDING" => query' = query
    BY <1>12, <2>1 DEF Complete, Fail, WriteReplyLost, COMPLETE_QUERY, FAIL_QUERY
  <2>3. \A d \in waiting' : d \in waiting /\ QueryOf[d] # q /\ job[w] # d
    BY <2>1, <2>2 DEF WaitingWithout
  <2>4. /\ wpc'[w] # "idle"
        /\ \A v \in Workers \ {w} : wpc'[v] = wpc[v]
    BY <1>12, <2>1 DEF Complete, Fail, WriteReplyLost
  <2>5. \A v \in Workers, d \in waiting' : Carries(v, d) => Carries(v, d)'
    BY <2>1, <2>3, <2>4
  <2>6. \A d \in waiting' : query'[QueryOf[d]] = "PENDING"
    BY <2>2, <2>3
  <2> QED BY <2>1, <2>3, <2>4, <2>5, <2>6
<1>13. CASE UNCHANGED vars
  BY <1>13 DEF vars
<1> QED
  BY <1>1, <1>2, <1>3, <1>4, <1>5, <1>6, <1>7, <1>9, <1>10, <1>11, <1>12, <1>13
     DEF Next, Post, Work, Failure

(* No failed attempt, lost reply, crash or redelivery loses the job of a      *)
(* client that was sent 202.                                                  *)
THEOREM JobsAreNotLost == Spec => []NoLostJob
<1>1. Init => JobInv
  BY DEF Init, JobInv
<1>2. JobInv => NoLostJob
  BY DEF JobInv, NoLostJob, InFlight, Due
<1> QED
  BY <1>1, <1>2, JobStep, TypeCorrect, PTL DEF Spec

=============================================================================
