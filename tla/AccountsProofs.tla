---------------------------- MODULE AccountsProofs ----------------------------
(* Proofs about Accounts for any users, browsers and requests, and any number *)
(* of flows and blogs.                                                       *)
EXTENDS Accounts, TLAPS

Ats == {"session", "exchange", "unlink", "delete", "upsert", "reply", "blog"}
Blog == [author : Users, row : Nat, by : Users] \cup {Gone}
Flow == [kind : Kinds, browser : Browsers, user : Users \cup {NoUser},
         code : {"none", "fresh", "spent"}]
Cookies == [session : Users \cup {NoUser}, login : 0..MaxFlows, withdraw : 0..MaxFlows]

(* What a step does to a request keeps it one. *)
LEMMA Goes_typed ==
    ASSUME TypeOK, NEW r \in Requests, req[r] # NoRequest, NEW at \in Ats, Goes(r, at)
    PROVE  req' \in [Requests -> Request \cup {NoRequest}]
<1>1. req[r] \in Request
  BY DEF TypeOK
<1>2. [req[r] EXCEPT !.at = at] \in Request
  BY <1>1 DEF Request, Ats
<1>3. req' = [req EXCEPT ![r] = [req[r] EXCEPT !.at = at]]
  BY DEF Goes, TypeOK
<1> QED
  BY <1>2, <1>3 DEF TypeOK

LEMMA Ends_typed ==
    ASSUME TypeOK, NEW r \in Requests, Ends(r)
    PROVE  /\ req' \in [Requests -> Request \cup {NoRequest}]
           /\ severed' \subseteq Requests
BY DEF TypeOK, Ends

LEMMA Retries_typed ==
    ASSUME TypeOK, NEW r \in Requests, req[r] # NoRequest, ~LastTry(r),
           req' = [req EXCEPT ![r].tries = @ + 1]
    PROVE  req' \in [Requests -> Request \cup {NoRequest}]
<1>1. req[r] \in Request
  BY DEF TypeOK
<1>2. req[r].tries \in 0..2 /\ req[r].tries # 2
  BY <1>1 DEF Request, LastTry, Attempts
<1>3. req[r].tries + 1 \in 0..(Attempts - 1)
  BY <1>2 DEF Attempts
<1>4. [req[r] EXCEPT !.tries = req[r].tries + 1] \in Request
  BY <1>1, <1>3 DEF Request
<1>5. req' = [req EXCEPT ![r] = [req[r] EXCEPT !.tries = req[r].tries + 1]]
  BY DEF TypeOK
<1> QED
  BY <1>4, <1>5 DEF TypeOK

LEMMA Began_typed ==
    ASSUME TypeOK, NEW r \in Requests, NEW b \in Browsers, NEW u \in Users,
           NEW n \in 0..MaxFlows,
           NEW job \in Kinds \cup {"reauthorize", "write", "edit", "erase"},
           NEW at \in Ats, req' = [req EXCEPT ![r] = Request0(job, at, b, u, n)]
    PROVE  req' \in [Requests -> Request \cup {NoRequest}]
<1>1. Request0(job, at, b, u, n) \in Request
  BY DEF Request0, Request, Ats, Attempts
<1> QED
  BY <1>1 DEF TypeOK

(* A new flow, and its number in the cookie of its kind. *)
LEMMA NewFlow_typed ==
    ASSUME TypeOK, NEW b \in Browsers, NEW kind \in Kinds, NewFlow(b, kind)
    PROVE  /\ flows' \in Seq(Flow) /\ Len(flows') <= MaxFlows
           /\ jar' \in [Browsers -> Cookies]
<1> USE AccountsAssumption
<1>1. /\ flows \in Seq(Flow) /\ Len(flows) \in Nat /\ Len(flows) < MaxFlows
      /\ jar \in [Browsers -> Cookies] /\ MaxFlows \in Nat
  BY DEF TypeOK, NewFlow, Flow, Cookies
<1>2. [kind |-> kind, browser |-> b, user |-> NoUser, code |-> "none"] \in Flow
  BY DEF Flow
<1>3. flows' \in Seq(Flow) /\ Len(flows') <= MaxFlows
  BY <1>1, <1>2 DEF NewFlow
<1>4. Len(flows) + 1 \in 0..MaxFlows
  BY <1>1
<1>5. CASE kind = "login"
  <2>1. jar' = [jar EXCEPT ![b] = [jar[b] EXCEPT !.login = Len(flows) + 1]]
    BY <1>1, <1>5 DEF NewFlow
  <2>2. [jar[b] EXCEPT !.login = Len(flows) + 1] \in Cookies
    BY <1>1, <1>4 DEF Cookies
  <2> QED
    BY <1>1, <1>3, <2>1, <2>2
<1>6. CASE kind = "withdraw"
  <2>1. jar' = [jar EXCEPT ![b] = [jar[b] EXCEPT !.withdraw = Len(flows) + 1]]
    BY <1>1, <1>6 DEF NewFlow
  <2>2. [jar[b] EXCEPT !.withdraw = Len(flows) + 1] \in Cookies
    BY <1>1, <1>4 DEF Cookies
  <2> QED
    BY <1>1, <1>3, <2>1, <2>2
<1> QED
  BY <1>5, <1>6 DEF Kinds

LEMMA FlowOf_typed ==
    ASSUME TypeOK, NEW n \in DOMAIN flows
    PROVE  /\ n \in 1..MaxFlows /\ n \in 0..MaxFlows
           /\ flows[n] \in Flow
           /\ flows[n].user # NoUser => flows[n].user \in Users
<1>1. flows \in Seq(Flow) /\ Len(flows) <= MaxFlows /\ MaxFlows \in Nat
  BY AccountsAssumption DEF TypeOK, Flow
<1>2. Len(flows) \in Nat /\ n \in 1..Len(flows) /\ flows[n] \in Flow
  BY <1>1
<1>3. n \in 1..MaxFlows /\ n \in 0..MaxFlows
  BY <1>1, <1>2
<1>4. flows[n].user # NoUser => flows[n].user \in Users
  BY <1>2 DEF Flow
<1> QED
  BY <1>2, <1>3, <1>4

(* What an answer does to the cookies of its browser. *)
LEMMA Answered_typed ==
    ASSUME NEW c \in Cookies, NEW u \in Users \cup {NoUser}
    PROVE  /\ [c EXCEPT !.session = u, !.login = 0] \in Cookies
           /\ [c EXCEPT !.session = u, !.withdraw = 0] \in Cookies
<1>1. 0 \in 0..MaxFlows
  BY AccountsAssumption
<1> QED
  BY <1>1 DEF Cookies

(* Row and blogs of a user, gone in one statement. *)
LEMMA RemoveRow_typed ==
    ASSUME TypeOK, NEW u \in Users, RemoveRow(u)
    PROVE  /\ rows' \subseteq Users
           /\ born' = born
           /\ blogs' \in Seq(Blog) /\ Len(blogs') = Len(blogs)
           /\ noted' \in [Users -> {"nothing", "flagged", "unheard", "raced"}]
<1>1. blogs \in Seq(Blog)
  BY DEF TypeOK, Blog
<1>2. blogs' = [i \in 1..Len(blogs) |-> IF blogs[i].author = u THEN Gone ELSE blogs[i]]
  BY <1>1 DEF RemoveRow
<1>3. blogs' \in Seq(Blog) /\ Len(blogs') = Len(blogs)
  BY <1>1, <1>2 DEF Blog
<1> QED
  BY <1>3 DEF RemoveRow, TypeOK

-----------------------------------------------------------------------------
(* Every reachable state is well typed; a withdrawal makes at most Attempts   *)
(* deletes.                                                                  *)
THEOREM TypeCorrect == Spec => []TypeOK
<1>1. Init => TypeOK
  BY AccountsAssumption DEF Init, TypeOK
<1>2. TypeOK /\ [Next]_vars => TypeOK'
  <2> SUFFICES ASSUME TypeOK, [Next]_vars
               PROVE  TypeOK'
    OBVIOUS
  <2> USE AccountsAssumption DEF db, kakao
  <2>1. ASSUME NEW b \in Browsers, Authorize(b)
        PROVE  TypeOK'
    <3>1. NewFlow(b, "login") /\ "login" \in Kinds
      BY <2>1 DEF Authorize, Kinds
    <3> QED
      BY <2>1, <3>1, NewFlow_typed DEF Authorize, NewFlow, TypeOK, Flow, Cookies
  <2>2. ASSUME NEW b \in Browsers, SessionEnds(b)
        PROVE  TypeOK'
    BY <2>2 DEF SessionEnds, TypeOK
  <2>3. ASSUME NEW n \in DOMAIN flows, NEW u \in Users, SignIn(n, u)
        PROVE  TypeOK'
    <3>1. flows[n] \in Flow /\ flows \in Seq(Flow)
      BY FlowOf_typed DEF TypeOK, Flow
    <3>2. [flows[n] EXCEPT !.user = u, !.code = "fresh"] \in Flow
      BY <3>1 DEF Flow
    <3>3. flows' = [flows EXCEPT ![n] = [flows[n] EXCEPT !.user = u, !.code = "fresh"]]
      BY <2>3, <3>1 DEF SignIn
    <3>4. flows' \in Seq(Flow) /\ Len(flows') = Len(flows)
      BY <3>1, <3>2, <3>3
    <3> QED
      BY <2>3, <3>4 DEF SignIn, TypeOK, Flow
  <2>4. ASSUME NEW r \in Requests, NEW b \in Browsers, NEW n \in DOMAIN flows,
               LoginCallback(r, b, n)
        PROVE  TypeOK'
    <3>1. flows[n].user \in Users /\ n \in 0..MaxFlows
      BY <2>4, FlowOf_typed DEF LoginCallback, CallbackOf
    <3>2. req' \in [Requests -> Request \cup {NoRequest}]
      BY <2>4, <3>1, Began_typed DEF LoginCallback, Kinds, Ats
    <3> QED
      BY <2>4, <3>2 DEF LoginCallback, TypeOK
  <2>5. ASSUME NEW r \in Requests, NEW b \in Browsers, NEW n \in DOMAIN flows,
               WithdrawCallback(r, b, n)
        PROVE  TypeOK'
    <3>1. jar[b].session \in Users /\ n \in 0..MaxFlows
      BY <2>5, FlowOf_typed DEF WithdrawCallback, HasSession, TypeOK
    <3>2. req' \in [Requests -> Request \cup {NoRequest}]
      BY <2>5, <3>1, Began_typed DEF WithdrawCallback, Kinds, Ats
    <3> QED
      BY <2>5, <3>2 DEF WithdrawCallback, TypeOK
  <2>6. ASSUME NEW r \in Requests, NEW b \in Browsers,
               NEW job \in {"reauthorize", "write", "edit", "erase"}, Call(r, b, job)
        PROVE  TypeOK'
    <3>1. jar[b].session \in Users /\ 0 \in 0..MaxFlows
      BY <2>6 DEF Call, HasSession, TypeOK
    <3>2. req' \in [Requests -> Request \cup {NoRequest}]
      BY <2>6, <3>1, Began_typed DEF Call, Ats
    <3> QED
      BY <2>6, <3>2 DEF Call, TypeOK
  <2>7. ASSUME NEW r \in Requests, req[r] # NoRequest
        PROVE  /\ req[r] \in Request
               /\ req[r].user \in Users /\ req[r].browser \in Browsers
               /\ req[r].row \in Nat
               /\ req[r].job \in Kinds \cup {"reauthorize", "write", "edit", "erase"}
    BY <2>7 DEF TypeOK, Request
  <2>8. ASSUME NEW r \in Requests, CheckSession(r)
        PROVE  TypeOK'
    <3>1. CASE /\ req[r].job = "withdraw"
               /\ req' = [req EXCEPT ![r].at = "exchange", ![r].row = born[req[r].user]]
               /\ UNCHANGED <<kakao, jar>>
      <4>1. req[r] \in Request /\ born[req[r].user] \in Nat
        BY <2>7, <2>8 DEF CheckSession, TypeOK
      <4>2. [req[r] EXCEPT !.at = "exchange", !.row = born[req[r].user]] \in Request
        BY <4>1 DEF Request
      <4>3. req' = [req EXCEPT ![r] = [req[r] EXCEPT !.at = "exchange",
                                                   !.row = born[req[r].user]]]
        BY <3>1 DEF TypeOK
      <4>4. req' \in [Requests -> Request \cup {NoRequest}]
        BY <4>2, <4>3 DEF TypeOK
      <4> QED
        BY <2>8, <3>1, <4>4 DEF CheckSession, TypeOK
    <3>2. CASE Goes(r, "blog") /\ UNCHANGED <<kakao, jar>>
      BY <2>8, <3>2, Goes_typed DEF CheckSession, TypeOK, Ats
    <3>3. CASE NewFlow(req[r].browser, "withdraw") /\ Ends(r) /\ UNCHANGED linked
      <4>1. req[r].browser \in Browsers /\ "withdraw" \in Kinds
        BY <2>7, <2>8 DEF CheckSession, Kinds
      <4>2. /\ flows' \in Seq(Flow) /\ Len(flows') <= MaxFlows
            /\ jar' \in [Browsers -> Cookies]
        BY <3>3, <4>1, NewFlow_typed
      <4> QED
        BY <2>8, <3>3, <4>2, Ends_typed DEF CheckSession, TypeOK, Flow, Cookies
    <3> QED
      BY <2>8, <3>1, <3>2, <3>3 DEF CheckSession
  <2>9. ASSUME NEW r \in Requests, Refuse(r)
        PROVE  TypeOK'
    BY <2>9, Ends_typed DEF Refuse, TypeOK
  <2>10. ASSUME NEW r \in Requests, Exchange(r)
         PROVE  TypeOK'
    <3> DEFINE n == req[r].flow
    <3>1. flows' \in Seq(Flow) /\ Len(flows') = Len(flows)
      <4>1. flows \in Seq(Flow)
        BY DEF TypeOK, Flow
      <4>2. CASE n \in DOMAIN flows
        <5>1. flows[n] \in Flow
          BY <4>2, FlowOf_typed
        <5>2. [flows[n] EXCEPT !.code = "spent"] \in Flow
          BY <5>1 DEF Flow
        <5>3. flows' = [flows EXCEPT ![n] = [flows[n] EXCEPT !.code = "spent"]]
          BY <2>10, <4>1, <4>2 DEF Exchange
        <5> QED
          BY <4>1, <4>2, <5>2, <5>3
      <4>3. CASE n \notin DOMAIN flows
        <5>1. flows' = flows
          BY <2>10, <4>1, <4>3 DEF Exchange
        <5> QED
          BY <4>1, <5>1
      <4> QED
        BY <4>2, <4>3
    <3>2. req' \in [Requests -> Request \cup {NoRequest}] /\ severed' \subseteq Requests
      <4>1. CASE Ends(r)
        BY <4>1, Ends_typed
      <4>2. CASE (Goes(r, "upsert") \/ Goes(r, "unlink")) /\ severed' = severed
        BY <2>10, <4>2, Goes_typed DEF Exchange, Ats, TypeOK
      <4> QED
        BY <2>10, <4>1, <4>2 DEF Exchange
    <3> QED
      BY <2>10, <3>1, <3>2 DEF Exchange, TypeOK, Flow
  <2>11. ASSUME NEW r \in Requests, Upsert(r)
         PROVE  TypeOK'
    <3>1. req[r].user \in Users /\ req[r] # NoRequest
      BY <2>7, <2>11 DEF Upsert, In
    <3>2. req' \in [Requests -> Request \cup {NoRequest}] /\ severed' \subseteq Requests
      <4>1. CASE Goes(r, "reply") /\ severed' = severed
        BY <3>1, <4>1, Goes_typed DEF Ats, TypeOK
      <4>2. CASE Ends(r)
        BY <4>2, Ends_typed
      <4> QED
        BY <2>11, <4>1, <4>2 DEF Upsert
    <3>3. /\ rows' \subseteq Users
          /\ born' \in [Users -> Nat]
          /\ noted' \in [Users -> {"nothing", "flagged", "unheard", "raced"}]
      BY <2>11, <3>1 DEF Upsert, UpsertRow, TypeOK
    <3> QED
      BY <2>11, <3>2, <3>3 DEF Upsert, UpsertRow, TypeOK
  <2>12. ASSUME NEW r \in Requests, LoginReply(r)
         PROVE  TypeOK'
    <3>1. req[r].user \in Users /\ req[r].browser \in Browsers
      BY <2>7, <2>12 DEF LoginReply, In
    <3> DEFINE b == req[r].browser
               u == req[r].user
    <3>2. jar \in [Browsers -> Cookies]
      BY DEF TypeOK, Cookies
    <3>3. [jar[b] EXCEPT !.session = u, !.login = 0] \in Cookies
      <4>1. jar[b] \in Cookies
        BY <3>1, <3>2
      <4> HIDE DEF b
      <4> QED
        BY <3>1, <4>1, Answered_typed
    <3>4. jar' = [jar EXCEPT ![b] = [jar[b] EXCEPT !.session = u, !.login = 0]]
      BY <2>12, <3>2 DEF LoginReply
    <3>5. jar' \in [Browsers -> Cookies]
      BY <3>1, <3>2, <3>3, <3>4
    <3> QED
      BY <2>12, <3>5, Ends_typed DEF LoginReply, TypeOK, Cookies
  <2>13. ASSUME NEW r \in Requests, Unlink(r)
         PROVE  TypeOK'
    <3>1. linked' \subseteq Users
      BY <2>13 DEF Unlink, TypeOK
    <3>2. noted' \in [Users -> {"nothing", "flagged", "unheard", "raced"}]
      BY <2>13 DEF Unlink, TypeOK
    <3>3. req' \in [Requests -> Request \cup {NoRequest}] /\ severed' \subseteq Requests
      <4>1. CASE Goes(r, "delete") /\ severed' = severed \cup {r}
        BY <2>13, <4>1, Goes_typed DEF Unlink, In, Ats, TypeOK
      <4>2. CASE Ends(r)
        BY <4>2, Ends_typed
      <4> QED
        BY <2>13, <4>1, <4>2 DEF Unlink
    <3> QED
      BY <2>13, <3>1, <3>2, <3>3 DEF Unlink, TypeOK
  <2>14. ASSUME NEW r \in Requests, DeleteRow(r)
         PROVE  TypeOK'
    <3>1. req[r].user \in Users /\ req[r] # NoRequest
      BY <2>7, <2>14 DEF DeleteRow, In
    <3> QED
      BY <2>14, <3>1, RemoveRow_typed, Goes_typed DEF DeleteRow, TypeOK, Blog, Ats
  <2>15. ASSUME NEW r \in Requests, DeleteFails(r)
         PROVE  TypeOK'
    <3>1. req' \in [Requests -> Request \cup {NoRequest}] /\ severed' \subseteq Requests
      BY <2>15, Ends_typed, Retries_typed DEF DeleteFails, In, GiveUp, Retry, TypeOK
    <3>2. noted' \in [Users -> {"nothing", "flagged", "unheard", "raced"}]
      BY <2>15 DEF DeleteFails, GiveUp, Retry, TypeOK
    <3> QED
      BY <2>15, <3>1, <3>2 DEF DeleteFails, TypeOK
  <2>16. ASSUME NEW r \in Requests, DeleteUnheard(r)
         PROVE  TypeOK'
    <3>1. req[r].user \in Users /\ req[r] # NoRequest
      BY <2>7, <2>16 DEF DeleteUnheard, In
    <3>2. req' \in [Requests -> Request \cup {NoRequest}] /\ severed' \subseteq Requests
      BY <2>16, <3>1, Ends_typed, Retries_typed DEF DeleteUnheard, TypeOK
    <3> QED
      BY <2>16, <3>1, <3>2, RemoveRow_typed DEF DeleteUnheard, TypeOK, Blog
  <2>17. ASSUME NEW r \in Requests, WithdrawReply(r)
         PROVE  TypeOK'
    <3> DEFINE b == req[r].browser
    <3>1. b \in Browsers
      BY <2>7, <2>17 DEF WithdrawReply, In
    <3>2. jar \in [Browsers -> Cookies]
      BY DEF TypeOK, Cookies
    <3>3. [jar[b] EXCEPT !.session = NoUser, !.withdraw = 0] \in Cookies
      <4>1. jar[b] \in Cookies
        BY <3>1, <3>2
      <4> HIDE DEF b
      <4> QED
        BY <3>1, <4>1, Answered_typed
    <3>4. jar' = [jar EXCEPT ![b] = [jar[b] EXCEPT !.session = NoUser, !.withdraw = 0]]
      BY <2>17, <3>2 DEF WithdrawReply
    <3>5. jar' \in [Browsers -> Cookies]
      BY <3>1, <3>2, <3>3, <3>4
    <3> QED
      BY <2>17, <3>5, Ends_typed DEF WithdrawReply, TypeOK, Cookies
  <2>18. ASSUME NEW r \in Requests, WriteBlog(r)
         PROVE  TypeOK'
    <3>1. req[r].user \in Users
      BY <2>7, <2>18 DEF WriteBlog, In
    <3>2. blogs \in Seq(Blog) /\ Len(blogs) \in Nat /\ MaxBlogs \in Nat
      BY DEF TypeOK, Blog
    <3>3. [author |-> req[r].user, row |-> born[req[r].user], by |-> req[r].user] \in Blog
      BY <3>1 DEF TypeOK, Blog
    <3>4. blogs' \in Seq(Blog) /\ Len(blogs') <= MaxBlogs
      BY <2>18, <3>2, <3>3 DEF WriteBlog, InsertBlog
    <3> QED
      BY <2>18, <3>4, Ends_typed DEF WriteBlog, TypeOK, Blog
  <2>19. ASSUME NEW r \in Requests, NEW i \in DOMAIN blogs, ChangeBlog(r, i)
         PROVE  TypeOK'
    <3>1. req[r].user \in Users
      BY <2>7, <2>19 DEF ChangeBlog, In
    <3>2. blogs \in Seq(Blog) /\ Len(blogs) \in Nat
      BY DEF TypeOK, Blog
    <3>3. blogs' \in Seq(Blog) /\ Len(blogs') = Len(blogs)
      <4>1. CASE UpdateBlog(req[r].user, i)
        <5>1. blogs[i] \in [author : Users, row : Nat, by : Users]
          BY <3>1, <3>2, <4>1 DEF UpdateBlog, Blog, Gone
        <5>2. [blogs[i] EXCEPT !.by = req[r].user] \in Blog
          BY <3>1, <5>1 DEF Blog
        <5>3. blogs' = [blogs EXCEPT ![i] = [blogs[i] EXCEPT !.by = req[r].user]]
          BY <3>2, <4>1 DEF UpdateBlog
        <5> QED
          BY <3>2, <5>2, <5>3
      <4>2. CASE DeleteBlog(req[r].user, i)
        BY <3>2, <4>2 DEF DeleteBlog, Blog
      <4> QED
        BY <2>19, <4>1, <4>2 DEF ChangeBlog
    <3> QED
      BY <2>19, <3>3, Ends_typed DEF ChangeBlog, TypeOK, Blog
  <2>20. ASSUME NEW r \in Requests, Crash(r)
         PROVE  TypeOK'
    <3>1. noted' \in [Users -> {"nothing", "flagged", "unheard", "raced"}]
      BY <2>20 DEF Crash, TypeOK
    <3> QED
      BY <2>20, <3>1, Ends_typed DEF Crash, TypeOK
  <2>21. CASE UNCHANGED vars
    BY <2>21 DEF vars, TypeOK
  <2> QED
    BY <2>1, <2>2, <2>3, <2>4, <2>5, <2>6, <2>8, <2>9, <2>10, <2>11, <2>12, <2>13,
       <2>14, <2>15, <2>16, <2>17, <2>18, <2>19, <2>20, <2>21
       DEF Next, Step, Begin
<1> QED
  BY <1>1, <1>2, PTL DEF Spec

-----------------------------------------------------------------------------
(* What a step does to the tables.                                           *)
LEMMA Tables ==
    ASSUME TypeOK, [Next]_vars
    PROVE  \/ UNCHANGED db
           \/ \E u \in Users :
                 \/ UpsertRow(u)
                 \/ RemoveRow(u)
                 \/ InsertBlog(u) /\ UNCHANGED <<rows, born>>
                 \/ \E i \in DOMAIN blogs : /\ UpdateBlog(u, i) \/ DeleteBlog(u, i)
                                            /\ UNCHANGED <<rows, born>>
<1>1. ASSUME NEW r \in Requests, req[r] # NoRequest
      PROVE  req[r].user \in Users
  BY <1>1 DEF TypeOK, Request
<1>2. ASSUME NEW b \in Browsers, Authorize(b) \/ SessionEnds(b)
      PROVE  UNCHANGED db
  BY <1>2 DEF Authorize, SessionEnds
<1>3. ASSUME NEW n \in DOMAIN flows, NEW u \in Users, SignIn(n, u)
      PROVE  UNCHANGED db
  BY <1>3 DEF SignIn
<1>4. ASSUME NEW r \in Requests, NEW b \in Browsers, Begin(r, b)
      PROVE  UNCHANGED db
  BY <1>4 DEF Begin, LoginCallback, WithdrawCallback, Call
<1>5. ASSUME NEW r \in Requests, \/ CheckSession(r) \/ Refuse(r) \/ Exchange(r)
                                \/ LoginReply(r) \/ Unlink(r) \/ DeleteFails(r)
                                \/ WithdrawReply(r) \/ Crash(r)
      PROVE  UNCHANGED db
  BY <1>5 DEF CheckSession, Refuse, Exchange, LoginReply, Unlink, DeleteFails,
     WithdrawReply, Crash
<1>6. ASSUME NEW r \in Requests, Upsert(r)
      PROVE  \E u \in Users : UpsertRow(u)
  BY <1>1, <1>6 DEF Upsert, In
<1>7. ASSUME NEW r \in Requests, DeleteRow(r) \/ DeleteUnheard(r)
      PROVE  \E u \in Users : RemoveRow(u)
  BY <1>1, <1>7 DEF DeleteRow, DeleteUnheard, In
<1>8. ASSUME NEW r \in Requests, WriteBlog(r)
      PROVE  \E u \in Users : InsertBlog(u) /\ UNCHANGED <<rows, born>>
  BY <1>1, <1>8 DEF WriteBlog, In
<1>9. ASSUME NEW r \in Requests, NEW i \in DOMAIN blogs, ChangeBlog(r, i)
      PROVE  \E u \in Users : /\ UpdateBlog(u, i) \/ DeleteBlog(u, i)
                              /\ UNCHANGED <<rows, born>>
  BY <1>1, <1>9 DEF ChangeBlog, In
<1>10. CASE UNCHANGED vars
  BY <1>10 DEF vars
<1> QED
  BY <1>2, <1>3, <1>4, <1>5, <1>6, <1>7, <1>8, <1>9, <1>10 DEF Next, Step

(* A blog has a row of its author, the one it was written under, and the     *)
(* author alone has written to it.                                           *)
Owned ==
    \A i \in DOMAIN blogs : blogs[i] # Gone =>
        /\ blogs[i].author \in rows
        /\ blogs[i].row = born[blogs[i].author]
        /\ blogs[i].by = blogs[i].author

LEMMA Owned_kept ==
    ASSUME TypeOK, Owned, [Next]_vars
    PROVE  Owned'
<1>1. /\ blogs \in Seq(Blog) /\ Len(blogs) \in Nat /\ DOMAIN blogs = 1..Len(blogs)
      /\ \A i \in DOMAIN blogs : blogs[i] \in Blog
  BY DEF TypeOK, Blog
<1>2. CASE UNCHANGED db
  BY <1>2 DEF db, Owned
<1>3. ASSUME NEW u \in Users, UpsertRow(u)
      PROVE  Owned'
  BY <1>3 DEF UpsertRow, Owned, TypeOK
<1>4. ASSUME NEW u \in Users, RemoveRow(u)
      PROVE  Owned'
  BY <1>1, <1>4 DEF RemoveRow, Owned
<1>5. ASSUME NEW u \in Users, InsertBlog(u), UNCHANGED <<rows, born>>
      PROVE  Owned'
  <2> DEFINE blog == [author |-> u, row |-> born[u], by |-> u]
  <2>1. blogs' = Append(blogs, blog) /\ u \in rows
    BY <1>5 DEF InsertBlog
  <2>2. blog \in Blog
    BY DEF TypeOK, Blog
  <2>3. \A i \in DOMAIN blogs' : \/ i \in DOMAIN blogs /\ blogs'[i] = blogs[i]
                                \/ blogs'[i] = blog
    BY <1>1, <2>1, <2>2
  <2>4. blog.author = u /\ blog.row = born[u] /\ blog.by = u
    OBVIOUS
  <2> QED
    BY <1>5, <2>1, <2>3, <2>4 DEF Owned
<1>6. ASSUME NEW u \in Users, NEW i \in DOMAIN blogs, UpdateBlog(u, i),
             UNCHANGED <<rows, born>>
      PROVE  Owned'
  <2>1. blogs[i] \in Blog /\ blogs[i] # Gone
    BY <1>1, <1>6, AccountsAssumption DEF UpdateBlog, Gone
  <2>2. blogs' = [blogs EXCEPT ![i] = [blogs[i] EXCEPT !.by = u]]
    BY <1>1, <1>6 DEF UpdateBlog
  <2>3. blogs[i] \in [author : Users, row : Nat, by : Users]
    BY <2>1 DEF Blog
  <2>4. [blogs[i] EXCEPT !.by = u] = blogs[i]
    BY <1>6, <2>1, <2>3 DEF Owned, UpdateBlog
  <2>5. blogs' = blogs
    BY <1>1, <2>2, <2>4
  <2> QED
    BY <1>6, <2>5 DEF Owned
<1>7. ASSUME NEW u \in Users, NEW i \in DOMAIN blogs, DeleteBlog(u, i),
             UNCHANGED <<rows, born>>
      PROVE  Owned'
  BY <1>1, <1>7 DEF DeleteBlog, Owned
<1> QED
  BY <1>2, <1>3, <1>4, <1>5, <1>6, <1>7, Tables

(* A blog belongs to the row it was written under, whatever the requests of  *)
(* its author and of others do in between (blog/modify.py, the cascade).     *)
THEOREM BlogsKeepTheirAuthor == Spec => []BlogsBelong
<1>1. Init => Owned
  BY DEF Init, Owned
<1>2. TypeOK /\ Owned /\ [Next]_vars => Owned'
  BY Owned_kept
<1>3. TypeOK /\ Owned => BlogsBelong
  BY DEF TypeOK, Owned, BlogsBelong, Latest, ByAuthor, Readable
<1> QED
  BY <1>1, <1>2, <1>3, TypeCorrect, PTL DEF Spec

-----------------------------------------------------------------------------
(* A step of one request leaves the other requests alone.                    *)
LEMMA Others ==
    ASSUME TypeOK, NEW r \in Requests, NEW q \in Requests \ {r},
           Step(r) \/ Crash(r) \/ \E b \in Browsers : Begin(r, b)
    PROVE  req'[q] = req[q] /\ (q \in severed => q \in severed')
<1> USE DEF kakao, db, Goes, Ends
<1>1. req \in [Requests -> Request \cup {NoRequest}]
  BY DEF TypeOK
<1>2. CASE CheckSession(r)
  BY <1>1, <1>2 DEF CheckSession
<1>3. CASE Refuse(r) \/ Exchange(r) \/ Upsert(r) \/ LoginReply(r) \/ Unlink(r)
  BY <1>1, <1>3 DEF Refuse, Exchange, Upsert, LoginReply, Unlink
<1>4. CASE DeleteRow(r) \/ DeleteFails(r) \/ DeleteUnheard(r) \/ WithdrawReply(r)
  BY <1>1, <1>4 DEF DeleteRow, DeleteFails, DeleteUnheard, WithdrawReply, GiveUp, Retry
<1>5. CASE WriteBlog(r) \/ \E i \in DOMAIN blogs : ChangeBlog(r, i)
  BY <1>1, <1>5 DEF WriteBlog, ChangeBlog
<1>6. CASE Crash(r)
  BY <1>1, <1>6 DEF Crash
<1>7. CASE \E b \in Browsers : Begin(r, b)
  BY <1>1, <1>7 DEF Begin, LoginCallback, WithdrawCallback, Call
<1> QED
  BY <1>2, <1>3, <1>4, <1>5, <1>6, <1>7 DEF Step

(* A request that goes on keeps what it was made with.                       *)
Kept(q) ==
    /\ req[q] # NoRequest
    /\ \A f \in {"job", "browser", "user", "flow"} : req'[q][f] = req[q][f]

(* How a step can move a request: every move but the check of the session    *)
(* keeps its row.                                                            *)
Moved(q) ==
    /\ Kept(q)
    /\ \/ /\ CheckSession(q)
          /\ \/ /\ req[q].job = "withdraw" /\ req'[q].at = "exchange"
                /\ req'[q].row = born[req[q].user]
             \/ req[q].job \in {"write", "edit", "erase"}
       \/ /\ req'[q].row = req[q].row
          /\ \/ Exchange(q) /\ \/ req[q].job = "login"
                               \/ SameAccount(q) /\ req'[q].at = "unlink"
             \/ Upsert(q)
             \/ Unlink(q) /\ req'[q].at = "delete" /\ q \in severed'
             \/ DeleteRow(q) /\ req'[q].at = "reply"
             \/ (DeleteFails(q) \/ DeleteUnheard(q)) /\ req'[q].at = "delete"

LEMMA Goes_moves ==
    ASSUME TypeOK, NEW q \in Requests, req[q] # NoRequest, NEW at \in Ats, Goes(q, at)
    PROVE  Kept(q) /\ req'[q].at = at /\ req'[q].row = req[q].row
<1>1. req[q] \in Request /\ req \in [Requests -> Request \cup {NoRequest}]
  BY DEF TypeOK
<1>2. req'[q] = [req[q] EXCEPT !.at = at]
  BY <1>1 DEF Goes
<1> QED
  BY <1>1, <1>2 DEF Request, Kept

LEMMA Moves ==
    ASSUME TypeOK, NEW q \in Requests, Step(q), req'[q] # NoRequest
    PROVE  Moved(q) /\ (q \in severed => q \in severed')
<1> USE DEF kakao, db
<1>1. req \in [Requests -> Request \cup {NoRequest}]
  BY DEF TypeOK
<1>2. ~Ends(q)
  BY <1>1 DEF Ends
<1>3. CASE CheckSession(q)
  <2>1. req[q] # NoRequest /\ req[q] \in Request
    BY <1>1, <1>3 DEF CheckSession
  <2>2. CASE /\ req[q].job = "withdraw"
             /\ req' = [req EXCEPT ![q].at = "exchange", ![q].row = born[req[q].user]]
             /\ UNCHANGED <<kakao, jar>>
    <3>1. req'[q] = [req[q] EXCEPT !.at = "exchange", !.row = born[req[q].user]]
      BY <1>1, <2>2
    <3>2. Kept(q) /\ req'[q].at = "exchange" /\ req'[q].row = born[req[q].user]
      BY <2>1, <3>1 DEF Request, Kept
    <3> QED
      BY <1>3, <2>2, <3>2 DEF Moved
  <2>3. CASE /\ req[q].job \in {"write", "edit", "erase"}
             /\ Goes(q, "blog")
             /\ UNCHANGED <<kakao, jar>>
    BY <1>3, <2>1, <2>3, Goes_moves DEF Moved, Ats
  <2> QED
    BY <1>2, <1>3, <2>2, <2>3 DEF CheckSession
<1>4. CASE Exchange(q)
  <2>1. req[q] # NoRequest /\ severed' = severed
    BY <1>2, <1>4 DEF Exchange
  <2>2. CASE req[q].job = "login" /\ Goes(q, "upsert")
    BY <1>4, <2>1, <2>2, Goes_moves DEF Moved, Ats
  <2>3. CASE SameAccount(q) /\ Goes(q, "unlink")
    BY <1>4, <2>1, <2>3, Goes_moves DEF Moved, Ats
  <2> QED
    BY <1>2, <1>4, <2>2, <2>3 DEF Exchange
<1>5. CASE Upsert(q)
  BY <1>2, <1>5, Goes_moves DEF Upsert, In, Moved, Ats
<1>6. CASE Unlink(q)
  BY <1>2, <1>6, Goes_moves DEF Unlink, In, Moved, Ats
<1>7. CASE DeleteRow(q)
  BY <1>7, Goes_moves DEF DeleteRow, In, Moved, Ats
<1>8. CASE DeleteFails(q) \/ DeleteUnheard(q)
  <2>1. In(q, "withdraw", "delete") /\ req[q] \in Request
    BY <1>1, <1>8 DEF DeleteFails, DeleteUnheard, In
  <2>2. req' = [req EXCEPT ![q].tries = @ + 1] /\ severed' = severed
    BY <1>2, <1>8 DEF DeleteFails, DeleteUnheard, GiveUp, Retry
  <2>3. req'[q] = [req[q] EXCEPT !.tries = req[q].tries + 1]
    BY <1>1, <2>2
  <2>4. Kept(q) /\ req'[q].at = req[q].at /\ req'[q].row = req[q].row
    BY <2>1, <2>3 DEF Request, Kept, In
  <2> QED
    BY <1>8, <2>1, <2>2, <2>4 DEF Moved, In
<1>9. CASE \/ Refuse(q) \/ LoginReply(q) \/ WithdrawReply(q) \/ WriteBlog(q)
           \/ \E i \in DOMAIN blogs : ChangeBlog(q, i)
  BY <1>2, <1>9 DEF Refuse, LoginReply, WithdrawReply, WriteBlog, ChangeBlog
<1> QED
  BY <1>3, <1>4, <1>5, <1>6, <1>7, <1>8, <1>9 DEF Step

(* What a step does to a request that is there after it.                     *)
LEMMA Requested ==
    ASSUME TypeOK, [Next]_vars, NEW q \in Requests, req'[q] # NoRequest
    PROVE  \/ req'[q] = req[q] /\ (q \in severed => q \in severed')
           \/ \E b \in Browsers : Begin(q, b)
           \/ Moved(q) /\ (q \in severed => q \in severed')
<1>1. CASE UNCHANGED vars
  BY <1>1 DEF vars, kakao
<1>2. CASE \E b \in Browsers : Authorize(b) \/ SessionEnds(b)
  BY <1>2 DEF Authorize, SessionEnds, kakao
<1>3. CASE \E n \in DOMAIN flows, u \in Users : SignIn(n, u)
  BY <1>3 DEF SignIn
<1>4. ASSUME NEW r \in Requests, r # q, Step(r) \/ Crash(r) \/ \E b \in Browsers : Begin(r, b)
      PROVE  req'[q] = req[q] /\ (q \in severed => q \in severed')
  BY <1>4, Others
<1>5. CASE Step(q)
  BY <1>5, Moves
<1>6. ~Crash(q)
  BY DEF Crash, Ends, TypeOK
<1> QED
  BY <1>1, <1>2, <1>3, <1>4, <1>5, <1>6 DEF Next

(* Flows are never forgotten, and whoever signed in to one stays its user.   *)
FlowStays(n) ==
    /\ n \in DOMAIN flows'
    /\ flows'[n].kind = flows[n].kind /\ flows'[n].browser = flows[n].browser
    /\ flows[n].user # NoUser => flows'[n].user = flows[n].user

LEMMA FlowsGrow ==
    ASSUME TypeOK, [Next]_vars, NEW n \in DOMAIN flows
    PROVE  FlowStays(n)
<1> USE DEF kakao, db
<1>1. /\ flows \in Seq(Flow) /\ flows[n] \in Flow /\ Len(flows) \in Nat
      /\ DOMAIN flows = 1..Len(flows)
  <2>1. flows \in Seq(Flow)
    BY DEF TypeOK, Flow
  <2> QED
    BY <2>1
<1>2. ASSUME UNCHANGED flows
      PROVE  FlowStays(n)
  BY <1>2 DEF FlowStays
<1>3. ASSUME NEW b \in Browsers, NEW kind \in Kinds, NewFlow(b, kind)
      PROVE  FlowStays(n)
  <2> DEFINE flow == [kind |-> kind, browser |-> b, user |-> NoUser, code |-> "none"]
  <2>1. flow \in Flow
    BY DEF Flow
  <2>2. flows' = Append(flows, flow)
    BY <1>3 DEF NewFlow
  <2>3. n \in DOMAIN flows' /\ flows'[n] = flows[n]
    <3> HIDE DEF flow
    <3> QED
      BY <1>1, <2>1, <2>2
  <2> QED
    BY <2>3 DEF FlowStays
<1>4. ASSUME NEW b \in Browsers, Authorize(b)
      PROVE  FlowStays(n)
  BY <1>3, <1>4 DEF Authorize, Kinds
<1>5. ASSUME NEW r \in Requests, CheckSession(r)
      PROVE  FlowStays(n)
  <2>1. req[r].browser \in Browsers
    BY <1>5 DEF CheckSession, TypeOK, Request
  <2> QED
    BY <1>2, <1>3, <1>5, <2>1 DEF CheckSession, Kinds
<1>6. ASSUME NEW k \in DOMAIN flows, NEW u \in Users, SignIn(k, u)
      PROVE  FlowStays(n)
  <2>1. flows' = [flows EXCEPT ![k] = [flows[k] EXCEPT !.user = u, !.code = "fresh"]]
    BY <1>1, <1>6 DEF SignIn
  <2>2. CASE n = k
    <3>1. flows'[n] = [flows[n] EXCEPT !.user = u, !.code = "fresh"] /\ n \in DOMAIN flows'
      BY <1>1, <2>1, <2>2
    <3>2. flows'[n].kind = flows[n].kind /\ flows'[n].browser = flows[n].browser
      BY <1>1, <3>1 DEF Flow
    <3> QED
      BY <1>6, <2>2, <3>1, <3>2 DEF SignIn, FlowStays
  <2>3. CASE n # k
    BY <1>1, <2>1, <2>3 DEF FlowStays
  <2> QED
    BY <2>2, <2>3
<1>7. ASSUME NEW r \in Requests, Exchange(r)
      PROVE  FlowStays(n)
  <2>1. flows' = [flows EXCEPT ![req[r].flow] = [flows[req[r].flow] EXCEPT !.code = "spent"]]
    BY <1>1, <1>7 DEF Exchange
  <2>2. CASE n = req[r].flow
    <3>1. flows'[n] = [flows[n] EXCEPT !.code = "spent"] /\ n \in DOMAIN flows'
      BY <1>1, <2>1, <2>2
    <3> QED
      BY <1>1, <3>1 DEF Flow, FlowStays
  <2>3. CASE n # req[r].flow
    BY <1>1, <2>1, <2>3 DEF FlowStays
  <2> QED
    BY <2>2, <2>3
<1>8. ASSUME NEW r \in Requests, \/ Refuse(r) \/ Upsert(r) \/ LoginReply(r) \/ Unlink(r)
                                \/ DeleteRow(r) \/ DeleteFails(r) \/ DeleteUnheard(r)
                                \/ WithdrawReply(r) \/ WriteBlog(r) \/ Crash(r)
                                \/ \E i \in DOMAIN blogs : ChangeBlog(r, i)
      PROVE  FlowStays(n)
  BY <1>2, <1>8 DEF Refuse, Upsert, LoginReply, Unlink, DeleteRow, DeleteFails, DeleteUnheard,
     WithdrawReply, WriteBlog, Crash, ChangeBlog
<1>9. ASSUME UNCHANGED vars \/ \E b \in Browsers : SessionEnds(b)
      PROVE  FlowStays(n)
  BY <1>2, <1>9 DEF vars, SessionEnds
<1>10. ASSUME NEW r \in Requests, Step(r)
       PROVE  FlowStays(n)
  BY <1>5, <1>7, <1>8, <1>10 DEF Step
<1> QED
  <2>1. CASE \E r \in Requests : Step(r) \/ Crash(r) \/ \E b \in Browsers : Begin(r, b)
    <3> PICK r \in Requests : Step(r) \/ Crash(r) \/ \E b \in Browsers : Begin(r, b)
      BY <2>1
    <3>1. CASE Step(r)
      BY <1>10, <3>1
    <3>2. CASE Crash(r)
      BY <1>8, <3>2
    <3>3. CASE \E b \in Browsers : Begin(r, b)
      BY <1>2, <3>3 DEF Begin, LoginCallback, WithdrawCallback, Call
    <3> QED
      BY <3>1, <3>2, <3>3
  <2>2. CASE \E b \in Browsers : Authorize(b) \/ SessionEnds(b)
    BY <1>4, <1>9, <2>2
  <2>3. CASE \E k \in DOMAIN flows, u \in Users : SignIn(k, u)
    BY <1>6, <2>3
  <2>4. CASE UNCHANGED vars
    BY <1>9, <2>4
  <2> QED
    BY <2>1, <2>2, <2>3, <2>4 DEF Next

-----------------------------------------------------------------------------
(* A row that appears is a new one, and no count of rows falls.              *)
LEMMA Reborn ==
    ASSUME TypeOK, [Next]_vars, NEW u \in Users
    PROVE  /\ born'[u] >= born[u]
           /\ u \in rows' => u \in rows \/ born'[u] > born[u]
<1>1. born[u] \in Nat
  BY DEF TypeOK
<1>2. ASSUME NEW v \in Users, UpsertRow(v)
      PROVE  /\ born'[u] >= born[u]
             /\ u \in rows' => u \in rows \/ born'[u] > born[u]
  BY <1>1, <1>2 DEF UpsertRow, TypeOK
<1>3. ASSUME NEW v \in Users, RemoveRow(v)
      PROVE  born' = born /\ rows' \subseteq rows
  BY <1>3 DEF RemoveRow
<1> QED
  BY <1>1, <1>2, <1>3, Tables DEF db

(* A withdrawal beyond the session check has read a row of its user that is  *)
(* the latest or an earlier one, and one that answers has seen it go.        *)
Withdrawing ==
    \A q \in Requests :
        req[q] # NoRequest /\ req[q].job = "withdraw" /\ req[q].at # "session" =>
            /\ req[q].row <= born[req[q].user]
            /\ req[q].at = "reply" /\ req[q].user \in rows =>
                  born[req[q].user] > req[q].row

LEMMA Withdrawing_kept ==
    ASSUME TypeOK, TypeOK', Withdrawing, [Next]_vars
    PROVE  Withdrawing'
<1> SUFFICES ASSUME NEW q \in Requests, req'[q] # NoRequest, req'[q].job = "withdraw",
                    req'[q].at # "session"
             PROVE  /\ req'[q].row <= born'[req'[q].user]
                    /\ req'[q].at = "reply" /\ req'[q].user \in rows' =>
                          born'[req'[q].user] > req'[q].row
  BY DEF Withdrawing
<1> DEFINE u == req'[q].user
<1>1. u \in Users /\ req'[q].row \in Nat /\ born[u] \in Nat /\ born'[u] \in Nat
  BY DEF TypeOK, Request
<1>2. /\ born'[u] >= born[u]
      /\ u \in rows' => u \in rows \/ born'[u] > born[u]
  <2> HIDE DEF u
  <2> QED
    BY <1>1, Reborn
<1>3. CASE req'[q] = req[q]
  <2>1. /\ req'[q].row <= born[u]
        /\ req'[q].at = "reply" /\ u \in rows => born[u] > req'[q].row
    BY <1>3 DEF Withdrawing
  <2> HIDE DEF u
  <2>2. /\ req'[q].row <= born'[u]
        /\ req'[q].at = "reply" /\ u \in rows' => born'[u] > req'[q].row
    BY <1>1, <1>2, <2>1
  <2> QED
    BY <2>2 DEF u
<1>4. CASE \E b \in Browsers : Begin(q, b)
  <2> PICK b \in Browsers : Begin(q, b)
    BY <1>4
  <2>1. req'[q].job # "withdraw" \/ req'[q].at = "session"
    <3>1. CASE \E n \in DOMAIN flows : LoginCallback(q, b, n)
      BY <3>1 DEF LoginCallback, Request0, TypeOK
    <3>2. CASE \E n \in DOMAIN flows : WithdrawCallback(q, b, n)
      BY <3>2 DEF WithdrawCallback, Request0, TypeOK
    <3>3. CASE \E job \in {"reauthorize", "write", "edit", "erase"} : Call(q, b, job)
      BY <3>3 DEF Call, Request0, TypeOK
    <3> QED
      BY <3>1, <3>2, <3>3 DEF Begin
  <2> QED
    BY <2>1
<1>5. CASE Moved(q)
  <2>1. req[q] # NoRequest /\ req[q].job = "withdraw" /\ req[q].user = u
    BY <1>5 DEF Moved, Kept
  <2>2. CASE req'[q].at = "exchange" /\ req'[q].row = born[u]
    BY <1>1, <1>2, <2>2
  <2>3. CASE /\ req'[q].row = req[q].row /\ req[q].at # "session"
             /\ req'[q].at \in {"unlink", "delete"}
    <3>1. req'[q].row <= born[u]
      BY <2>1, <2>3 DEF Withdrawing
    <3> QED
      BY <1>1, <1>2, <2>3, <3>1
  <2>4. CASE req'[q].row = req[q].row /\ DeleteRow(q)
    <3>1. req'[q].row <= born[u] /\ u \notin rows'
      BY <2>1, <2>4 DEF Withdrawing, DeleteRow, In, RemoveRow
    <3> QED
      BY <1>1, <1>2, <3>1
  <2> QED
    BY <1>5, <2>1, <2>2, <2>3, <2>4
       DEF Moved, CheckSession, Exchange, Upsert, Unlink, DeleteFails, DeleteUnheard, In
<1> QED
  BY <1>3, <1>4, <1>5, Requested

(* A withdrawal that answers has deleted the row it began with, and that     *)
(* row's blogs, whatever logins come in between (auth:withdraw_redirect).    *)
THEOREM WithdrawalsAreDone == Spec => []WithdrawnIsGone
<1>1. Init => Withdrawing /\ Owned
  BY DEF Init, Withdrawing, Owned
<1>2. TypeOK /\ TypeOK' /\ Withdrawing /\ [Next]_vars => Withdrawing'
  BY Withdrawing_kept
<1>3. TypeOK /\ Owned /\ [Next]_vars => Owned'
  BY Owned_kept
<1>4. ASSUME TypeOK, Withdrawing, Owned
      PROVE  WithdrawnIsGone
  <2> SUFFICES ASSUME NEW r \in Requests, In(r, "withdraw", "reply")
               PROVE  /\ req[r].user \in rows => born[req[r].user] > req[r].row
                      /\ \A i \in DOMAIN blogs :
                            blogs[i].author = req[r].user => blogs[i].row > req[r].row
    BY DEF WithdrawnIsGone
  <2>1. req[r].user \in rows => born[req[r].user] > req[r].row
    BY <1>4 DEF Withdrawing, In
  <2>2. ASSUME NEW i \in DOMAIN blogs, blogs[i].author = req[r].user
        PROVE  blogs[i].row > req[r].row
    <3>1. req[r].user \in Users
      BY <1>4 DEF TypeOK, Request, In
    <3>2. blogs[i] # Gone
      BY <2>2, <3>1, AccountsAssumption DEF Gone
    <3> QED
      BY <1>4, <2>1, <2>2, <3>2 DEF Owned
  <2> QED
    BY <2>1, <2>2
<1> QED
  BY <1>1, <1>2, <1>3, <1>4, TypeCorrect, PTL DEF Spec

-----------------------------------------------------------------------------
(* What a step does to the cookies.                                          *)
LEMMA Jars ==
    ASSUME TypeOK, [Next]_vars
    PROVE  \/ UNCHANGED jar
           \/ \E b \in Browsers, kind \in Kinds : NewFlow(b, kind)
           \/ \E b \in Browsers : SessionEnds(b)
           \/ \E r \in Requests : LoginReply(r) \/ WithdrawReply(r)
<1> USE DEF db, kakao
<1>1. ASSUME NEW r \in Requests, Step(r)
      PROVE  \/ UNCHANGED jar
             \/ \E b \in Browsers, kind \in Kinds : NewFlow(b, kind)
             \/ LoginReply(r) \/ WithdrawReply(r)
  <2>1. CASE CheckSession(r)
    <3>1. req[r].browser \in Browsers /\ "withdraw" \in Kinds
      BY <2>1 DEF CheckSession, TypeOK, Request, Kinds
    <3> QED
      BY <2>1, <3>1 DEF CheckSession
  <2>2. CASE \/ Refuse(r) \/ Exchange(r) \/ Upsert(r) \/ Unlink(r) \/ DeleteRow(r)
             \/ DeleteFails(r) \/ DeleteUnheard(r) \/ WriteBlog(r)
             \/ \E i \in DOMAIN blogs : ChangeBlog(r, i)
    BY <2>2 DEF Refuse, Exchange, Upsert, Unlink, DeleteRow, DeleteFails, DeleteUnheard,
       WriteBlog, ChangeBlog
  <2> QED
    BY <1>1, <2>1, <2>2 DEF Step
<1>2. ASSUME NEW r \in Requests, Crash(r) \/ \E b \in Browsers : Begin(r, b)
      PROVE  UNCHANGED jar
  BY <1>2 DEF Crash, Begin, LoginCallback, WithdrawCallback, Call
<1>3. CASE \E r \in Requests : Step(r) \/ Crash(r) \/ \E b \in Browsers : Begin(r, b)
  BY <1>1, <1>2, <1>3
<1>4. ASSUME NEW b \in Browsers, Authorize(b)
      PROVE  NewFlow(b, "login") /\ "login" \in Kinds
  BY <1>4 DEF Authorize, Kinds
<1>5. CASE \E n \in DOMAIN flows, u \in Users : SignIn(n, u)
  BY <1>5 DEF SignIn
<1>6. CASE UNCHANGED vars
  BY <1>6 DEF vars
<1> QED
  BY <1>3, <1>4, <1>5, <1>6 DEF Next

(* A state cookie is the number of a flow of its kind that its browser began. *)
Cookied ==
    \A b \in Browsers, kind \in Kinds : jar[b][kind] # 0 =>
        /\ jar[b][kind] \in DOMAIN flows
        /\ flows[jar[b][kind]].kind = kind
        /\ flows[jar[b][kind]].browser = b

LEMMA Cookied_kept ==
    ASSUME TypeOK, TypeOK', Cookied, [Next]_vars
    PROVE  Cookied'
<1> USE DEF db, kakao
<1>1. jar \in [Browsers -> Cookies]
  BY DEF TypeOK, Cookies
<1>2. ASSUME NEW b \in Browsers, NEW kind \in Kinds,
             jar'[b][kind] = 0 \/ jar'[b][kind] = jar[b][kind], jar'[b][kind] # 0
      PROVE  /\ jar'[b][kind] \in DOMAIN flows'
             /\ flows'[jar'[b][kind]].kind = kind
             /\ flows'[jar'[b][kind]].browser = b
  <2>1. /\ jar[b][kind] \in DOMAIN flows
        /\ flows[jar[b][kind]].kind = kind
        /\ flows[jar[b][kind]].browser = b
    BY <1>2 DEF Cookied
  <2>2. FlowStays(jar[b][kind])
    BY <2>1, FlowsGrow
  <2> QED
    BY <1>2, <2>1, <2>2 DEF FlowStays
<1>3. CASE UNCHANGED jar
  BY <1>2, <1>3 DEF Cookied
<1>4. ASSUME NEW c \in Browsers, NEW new \in Kinds, NewFlow(c, new)
      PROVE  Cookied'
  <2> DEFINE flow == [kind |-> new, browser |-> c, user |-> NoUser, code |-> "none"]
  <2>1. flows \in Seq(Flow) /\ flow \in Flow /\ flows' = Append(flows, flow)
    BY <1>4 DEF TypeOK, Flow, NewFlow
  <2>2. flow.kind = new /\ flow.browser = c
    OBVIOUS
  <2>3. /\ Len(flows) + 1 \in DOMAIN flows'
        /\ flows'[Len(flows) + 1].kind = new /\ flows'[Len(flows) + 1].browser = c
    <3> HIDE DEF flow
    <3> QED
      BY <2>1, <2>2
  <2>4. jar'[c][new] = Len(flows) + 1
    BY <1>1, <1>4 DEF NewFlow, Cookies, Kinds
  <2>5. ASSUME NEW b \in Browsers, NEW kind \in Kinds, b # c \/ kind # new
        PROVE  jar'[b][kind] = jar[b][kind]
    BY <1>1, <1>4, <2>5 DEF NewFlow, Cookies, Kinds
  <2> QED
    BY <1>2, <2>3, <2>4, <2>5 DEF Cookied
<1>5. ASSUME NEW b \in Browsers, SessionEnds(b)
      PROVE  Cookied'
  <2>1. \A c \in Browsers, kind \in Kinds : jar'[c][kind] = jar[c][kind]
    BY <1>1, <1>5 DEF SessionEnds, Cookies, Kinds
  <2> QED
    BY <1>2, <2>1 DEF Cookied
<1>6. ASSUME NEW r \in Requests, LoginReply(r) \/ WithdrawReply(r)
      PROVE  Cookied'
  <2>1. \A c \in Browsers, kind \in Kinds :
           jar'[c][kind] = 0 \/ jar'[c][kind] = jar[c][kind]
    BY <1>1, <1>6 DEF LoginReply, WithdrawReply, Cookies, Kinds
  <2> QED
    BY <1>2, <2>1 DEF Cookied
<1> QED
  BY <1>3, <1>4, <1>5, <1>6, Jars

(* A callback names a flow somebody signed in to; a login is for that user,  *)
(* in the browser that began the flow; beyond its token exchange a withdrawal *)
(* is of that user, and one that deletes has unlinked.                       *)
Aimed ==
    \A q \in Requests : req[q] # NoRequest /\ req[q].job \in Kinds =>
        /\ req[q].flow \in DOMAIN flows
        /\ flows[req[q].flow].user # NoUser
        /\ req[q].job = "login" => /\ flows[req[q].flow].kind = "login"
                                   /\ flows[req[q].flow].browser = req[q].browser
                                   /\ flows[req[q].flow].user = req[q].user
        /\ req[q].job = "withdraw" /\ req[q].at \notin {"session", "exchange"} =>
              flows[req[q].flow].user = req[q].user
        /\ req[q].job = "withdraw" /\ req[q].at = "delete" => q \in severed

LEMMA Aimed_kept ==
    ASSUME TypeOK, TypeOK', Cookied, Aimed, [Next]_vars
    PROVE  Aimed'
<1> SUFFICES ASSUME NEW q \in Requests, req'[q] # NoRequest, req'[q].job \in Kinds
             PROVE  /\ req'[q].flow \in DOMAIN flows'
                    /\ flows'[req'[q].flow].user # NoUser
                    /\ req'[q].job = "login" =>
                          /\ flows'[req'[q].flow].kind = "login"
                          /\ flows'[req'[q].flow].browser = req'[q].browser
                          /\ flows'[req'[q].flow].user = req'[q].user
                    /\ req'[q].job = "withdraw" /\ req'[q].at \notin {"session", "exchange"}
                          => flows'[req'[q].flow].user = req'[q].user
                    /\ req'[q].job = "withdraw" /\ req'[q].at = "delete" => q \in severed'
  BY DEF Aimed
<1> DEFINE n == req'[q].flow
<1>1. CASE req'[q] = req[q] /\ (q \in severed => q \in severed')
  <2>1. n \in DOMAIN flows /\ FlowStays(n)
    BY <1>1, FlowsGrow DEF Aimed
  <2> QED
    BY <1>1, <2>1 DEF Aimed, FlowStays
<1>2. CASE \E b \in Browsers : Begin(q, b)
  <2> PICK b \in Browsers : Begin(q, b)
    BY <1>2
  <2>1. ASSUME NEW k \in DOMAIN flows, LoginCallback(q, b, k)
        PROVE  /\ req'[q].job = "login" /\ req'[q].browser = b /\ n = k
               /\ req'[q].user = flows[k].user /\ flows[k].kind = "login"
               /\ flows[k].user # NoUser /\ flows[k].browser = b
    <3>1. /\ req'[q].job = "login" /\ req'[q].browser = b /\ n = k
          /\ req'[q].user = flows[k].user
      BY <2>1 DEF LoginCallback, Request0, TypeOK
    <3>2. jar[b]["login"] = k /\ k # 0
      BY <2>1, FlowOf_typed DEF LoginCallback, CallbackOf, StateMatches
    <3>3. flows[k].browser = b
      BY <3>2 DEF Cookied, Kinds
    <3> QED
      BY <2>1, <3>1, <3>3 DEF LoginCallback, CallbackOf
  <2>2. ASSUME NEW k \in DOMAIN flows, WithdrawCallback(q, b, k)
        PROVE  /\ req'[q].job = "withdraw" /\ req'[q].at = "session" /\ n = k
               /\ flows[k].user # NoUser
    BY <2>2 DEF WithdrawCallback, Request0, TypeOK, CallbackOf
  <2>3. ASSUME NEW job \in {"reauthorize", "write", "edit", "erase"}, Call(q, b, job)
        PROVE  FALSE
    BY <2>3 DEF Call, Request0, TypeOK, Kinds
  <2>4. \E k \in DOMAIN flows : LoginCallback(q, b, k) \/ WithdrawCallback(q, b, k)
    BY <2>3 DEF Begin
  <2>5. UNCHANGED flows
    BY <2>4 DEF LoginCallback, WithdrawCallback, kakao
  <2> QED
    BY <2>1, <2>2, <2>4, <2>5
<1>3. CASE Moved(q) /\ (q \in severed => q \in severed')
  <2>1. /\ req[q] # NoRequest /\ req'[q].job = req[q].job /\ n = req[q].flow
        /\ req'[q].browser = req[q].browser /\ req'[q].user = req[q].user
    BY <1>3 DEF Moved, Kept
  <2>2. n \in DOMAIN flows /\ FlowStays(n) /\ flows[n].user # NoUser
    BY <2>1, FlowsGrow DEF Aimed
  <2>3. /\ n \in DOMAIN flows' /\ flows'[n].user = flows[n].user
        /\ flows'[n].kind = flows[n].kind /\ flows'[n].browser = flows[n].browser
    BY <2>2 DEF FlowStays
  <2>4. ASSUME req[q].job = "withdraw", req'[q].at \notin {"session", "exchange"}
        PROVE  flows[n].user = req[q].user /\ (req'[q].at = "delete" => q \in severed')
    <3>1. CASE SameAccount(q) /\ req'[q].at = "unlink"
      BY <2>1, <3>1 DEF SameAccount
    <3>2. CASE Unlink(q) /\ req'[q].at = "delete" /\ q \in severed'
      BY <2>1, <2>4, <3>2 DEF Aimed, Unlink, In, Kinds
    <3>3. CASE DeleteRow(q) /\ req'[q].at = "reply"
      BY <2>1, <2>4, <3>3 DEF Aimed, DeleteRow, In, Kinds
    <3>4. CASE (DeleteFails(q) \/ DeleteUnheard(q)) /\ req'[q].at = "delete"
      BY <1>3, <2>1, <2>4, <3>4 DEF Aimed, DeleteFails, DeleteUnheard, In, Kinds
    <3> QED
      BY <1>3, <2>4, <3>1, <3>2, <3>3, <3>4 DEF Moved, Upsert, In
  <2> QED
    BY <2>1, <2>2, <2>3, <2>4 DEF Aimed
<1> QED
  BY <1>1, <1>2, <1>3, Requested

-----------------------------------------------------------------------------
Own == Cookied /\ Aimed

LEMMA Own_always == Spec => []Own
<1>1. Init => Own
  BY DEF Init, Own, Cookied, Aimed, Kinds
<1>2. TypeOK /\ TypeOK' /\ Own /\ [Next]_vars => Own'
  BY Cookied_kept, Aimed_kept DEF Own
<1> QED
  BY <1>1, <1>2, TypeCorrect, PTL DEF Spec

(* A session comes from a login flow of its own browser, which its user      *)
(* signed in to (auth:redirect's state check).                               *)
THEOREM SessionsAreOwned == Spec => []SessionsAreOwn
<1>1. Init => SessionsAreOwn
  BY DEF Init, SessionsAreOwn
<1>2. TypeOK /\ Own /\ SessionsAreOwn /\ [Next]_vars => SessionsAreOwn'
  <2> SUFFICES ASSUME TypeOK, Own, SessionsAreOwn, [Next]_vars,
                      NEW b \in Browsers, jar'[b].session # NoUser
               PROVE  \E n \in DOMAIN flows' : /\ flows'[n].kind = "login"
                                               /\ flows'[n].browser = b
                                               /\ flows'[n].user = jar'[b].session
    BY DEF SessionsAreOwn
  <2>1. jar \in [Browsers -> Cookies]
    BY DEF TypeOK, Cookies
  <2>2. ASSUME NEW n \in DOMAIN flows, flows[n].kind = "login", flows[n].browser = b,
               flows[n].user = jar'[b].session
        PROVE  \E k \in DOMAIN flows' : /\ flows'[k].kind = "login"
                                        /\ flows'[k].browser = b
                                        /\ flows'[k].user = jar'[b].session
    BY <2>2, FlowsGrow DEF FlowStays
  <2>3. CASE jar'[b].session = jar[b].session
    <3> PICK n \in DOMAIN flows : /\ flows[n].kind = "login"
                                  /\ flows[n].browser = b
                                  /\ flows[n].user = jar[b].session
      BY <2>3 DEF SessionsAreOwn
    <3> QED
      BY <2>2, <2>3
  <2>4. ASSUME NEW c \in Browsers, NEW kind \in Kinds, NewFlow(c, kind)
        PROVE  jar'[b].session = jar[b].session
    BY <2>1, <2>4 DEF NewFlow, Cookies, Kinds
  <2>5. ASSUME NEW c \in Browsers, SessionEnds(c)
        PROVE  jar'[b].session = jar[b].session
    BY <2>1, <2>5 DEF SessionEnds, Cookies
  <2>6. ASSUME NEW r \in Requests, WithdrawReply(r)
        PROVE  jar'[b].session = jar[b].session
    BY <2>1, <2>6 DEF WithdrawReply, Cookies
  <2>7. ASSUME NEW r \in Requests, LoginReply(r)
        PROVE  \/ jar'[b].session = jar[b].session
               \/ \E n \in DOMAIN flows : /\ flows[n].kind = "login"
                                          /\ flows[n].browser = b
                                          /\ flows[n].user = jar'[b].session
    <3>1. /\ req[r].flow \in DOMAIN flows
          /\ flows[req[r].flow].kind = "login"
          /\ flows[req[r].flow].browser = req[r].browser
          /\ flows[req[r].flow].user = req[r].user
      BY <2>7 DEF LoginReply, In, Own, Aimed, Kinds
    <3>2. CASE req[r].browser = b
      <4>1. jar'[b].session = req[r].user
        BY <2>1, <2>7, <3>2 DEF LoginReply, Cookies
      <4> QED
        BY <3>1, <3>2, <4>1
    <3>3. CASE req[r].browser # b
      BY <2>1, <2>7, <3>3 DEF LoginReply
    <3> QED
      BY <3>2, <3>3
  <2> QED
    BY <2>2, <2>3, <2>4, <2>5, <2>6, <2>7, Jars
<1> QED
  BY <1>1, <1>2, TypeCorrect, Own_always, PTL DEF Spec

-----------------------------------------------------------------------------
(* What cuts a link, and what deletes a row.                                 *)
LEMMA Cuts ==
    ASSUME TypeOK, [Next]_vars, NEW u \in linked, u \notin linked'
    PROVE  \E r \in Requests : /\ Unlink(r)
                               /\ linked' = linked \ {flows[req[r].flow].user}
                               /\ flows[req[r].flow].user = u
<1> USE DEF db, kakao
<1>1. CASE UNCHANGED linked
  BY <1>1
<1>2. CASE \E b \in Browsers : Authorize(b) \/ SessionEnds(b)
  BY <1>1, <1>2 DEF Authorize, SessionEnds
<1>3. CASE \E n \in DOMAIN flows, v \in Users : SignIn(n, v)
  BY <1>3 DEF SignIn
<1>4. ASSUME NEW r \in Requests, Step(r)
      PROVE  UNCHANGED linked \/ Unlink(r)
  <2>1. CASE \/ CheckSession(r) \/ Refuse(r) \/ Exchange(r) \/ Upsert(r) \/ LoginReply(r)
    BY <2>1 DEF CheckSession, Refuse, Exchange, Upsert, LoginReply
  <2>2. CASE \/ DeleteRow(r) \/ DeleteFails(r) \/ DeleteUnheard(r) \/ WithdrawReply(r)
             \/ WriteBlog(r) \/ \E i \in DOMAIN blogs : ChangeBlog(r, i)
    BY <2>2 DEF DeleteRow, DeleteFails, DeleteUnheard, WithdrawReply, WriteBlog, ChangeBlog
  <2> QED
    BY <1>4, <2>1, <2>2 DEF Step
<1>5. ASSUME NEW r \in Requests, Crash(r) \/ \E b \in Browsers : Begin(r, b)
      PROVE  UNCHANGED linked
  BY <1>5 DEF Crash, Begin, LoginCallback, WithdrawCallback, Call
<1>6. ASSUME NEW r \in Requests, Unlink(r)
      PROVE  UNCHANGED linked \/ linked' = linked \ {flows[req[r].flow].user}
  BY <1>6 DEF Unlink
<1>7. \E r \in Requests : Unlink(r)
  <2>1. CASE \E r \in Requests : Step(r) \/ Crash(r) \/ \E b \in Browsers : Begin(r, b)
    BY <1>1, <1>4, <1>5, <2>1
  <2>2. CASE UNCHANGED vars
    BY <1>1, <2>2 DEF vars
  <2> QED
    BY <1>2, <1>3, <2>1, <2>2 DEF Next
<1> QED
  BY <1>1, <1>6, <1>7

LEMMA Deletes ==
    ASSUME TypeOK, [Next]_vars, NEW u \in rows, u \notin rows'
    PROVE  \E r \in Requests : In(r, "withdraw", "delete") /\ req[r].user = u
<1> USE DEF db, kakao
<1>1. ASSUME NEW r \in Requests, DeleteRow(r) \/ DeleteUnheard(r)
      PROVE  In(r, "withdraw", "delete") /\ rows' = rows \ {req[r].user}
  BY <1>1 DEF DeleteRow, DeleteUnheard, RemoveRow
<1>2. ASSUME NEW r \in Requests, \/ CheckSession(r) \/ Refuse(r) \/ Exchange(r) \/ Upsert(r)
                                \/ LoginReply(r) \/ Unlink(r) \/ DeleteFails(r)
      PROVE  rows \subseteq rows'
  BY <1>2 DEF CheckSession, Refuse, Exchange, Upsert, UpsertRow, LoginReply, Unlink,
     DeleteFails
<1>3. ASSUME NEW r \in Requests, \/ WithdrawReply(r) \/ WriteBlog(r) \/ Crash(r)
                                \/ \E i \in DOMAIN blogs : ChangeBlog(r, i)
      PROVE  rows \subseteq rows'
  BY <1>3 DEF WithdrawReply, WriteBlog, Crash, ChangeBlog
<1>4. ASSUME NEW r \in Requests, NEW b \in Browsers, Begin(r, b)
      PROVE  rows \subseteq rows'
  BY <1>4 DEF Begin, LoginCallback, WithdrawCallback, Call
<1>5. ASSUME \/ UNCHANGED vars
             \/ \E b \in Browsers : Authorize(b) \/ SessionEnds(b)
             \/ \E n \in DOMAIN flows, v \in Users : SignIn(n, v)
      PROVE  rows \subseteq rows'
  BY <1>5 DEF vars, Authorize, SessionEnds, SignIn
<1>6. \E r \in Requests : DeleteRow(r) \/ DeleteUnheard(r)
  <2>1. ASSUME NEW r \in Requests, Step(r)
        PROVE  rows \subseteq rows' \/ DeleteRow(r) \/ DeleteUnheard(r)
    BY <1>2, <1>3, <2>1 DEF Step
  <2>2. CASE \E r \in Requests : Step(r) \/ Crash(r) \/ \E b \in Browsers : Begin(r, b)
    BY <1>3, <1>4, <2>1, <2>2
  <2> QED
    BY <1>5, <2>2 DEF Next
<1> QED
  BY <1>1, <1>6

(* No step cuts the link of a user whose session the withdrawal does not     *)
(* hold, or deletes a row whose owner Kakao has not unlinked for it          *)
(* (auth:withdraw_redirect).                                                 *)
THEOREM AccountsAreOwn == Spec => OnlyOwnAccount
<1>1. ASSUME TypeOK, Own, [Next]_vars
      PROVE  [/\ \A u \in linked \ linked' : \E r \in Requests :
                    In(r, "withdraw", "unlink") /\ req[r].user = u
              /\ \A u \in rows \ rows' : \E r \in severed :
                    In(r, "withdraw", "delete") /\ req[r].user = u]_vars
  <2>1. ASSUME NEW u \in linked \ linked'
        PROVE  \E r \in Requests : In(r, "withdraw", "unlink") /\ req[r].user = u
    <3>1. PICK r \in Requests : Unlink(r) /\ flows[req[r].flow].user = u
      BY <1>1, <2>1, Cuts
    <3>2. In(r, "withdraw", "unlink") /\ req[r].user = u
      BY <1>1, <3>1 DEF Unlink, In, Own, Aimed, Kinds
    <3> QED
      BY <3>2
  <2>2. ASSUME NEW u \in rows \ rows'
        PROVE  \E r \in severed : In(r, "withdraw", "delete") /\ req[r].user = u
    <3>1. PICK r \in Requests : In(r, "withdraw", "delete") /\ req[r].user = u
      BY <1>1, <2>2, Deletes
    <3>2. r \in severed
      BY <1>1, <3>1 DEF In, Own, Aimed, Kinds
    <3> QED
      BY <3>1, <3>2
  <2> QED
    BY <2>1, <2>2
<1> QED
  BY <1>1, TypeCorrect, Own_always, PTL DEF Spec, OnlyOwnAccount

-----------------------------------------------------------------------------
Accounted(u) ==
    \/ noted[u] # "nothing"
    \/ \E r \in severed : In(r, "withdraw", "delete") /\ req[r].user = u

LEMMA Accounted_kept ==
    ASSUME TypeOK, TypeOK', Own, OrphansAreKnown, [Next]_vars, NEW u \in rows' \ linked'
    PROVE  Accounted(u)'
<1> USE DEF db, kakao
<1>1. /\ u \in Users /\ severed \subseteq Requests
      /\ noted \in [Users -> {"nothing", "flagged", "unheard", "raced"}]
      /\ req \in [Requests -> Request \cup {NoRequest}]
  BY DEF TypeOK
<1>2. u \in rows /\ u \notin linked => Accounted(u)
  BY DEF OrphansAreKnown, Accounted
<1>3. CASE UNCHANGED <<rows, linked, req, severed, noted>>
  BY <1>2, <1>3 DEF Accounted, In
<1>4. CASE UNCHANGED vars \/ \E b \in Browsers : Authorize(b) \/ SessionEnds(b)
  BY <1>3, <1>4 DEF vars, Authorize, SessionEnds
<1>5. CASE \E n \in DOMAIN flows, v \in Users : SignIn(n, v)
  <2> PICK n \in DOMAIN flows, v \in Users : SignIn(n, v)
    BY <1>5
  <2>1. v # u /\ u \in rows /\ u \notin linked /\ noted'[u] = noted[u]
        /\ UNCHANGED <<req, severed>>
    BY <1>1 DEF SignIn
  <2> QED
    BY <1>2, <2>1 DEF Accounted, In
<1>6. ASSUME NEW r \in Requests, Step(r) \/ Crash(r) \/ \E b \in Browsers : Begin(r, b),
             u \in rows, u \notin linked, noted'[u] = noted[u],
             In(r, "withdraw", "delete") => req[r].user # u
      PROVE  Accounted(u)'
  <2>1. ASSUME NEW q \in severed, In(q, "withdraw", "delete"), req[q].user = u
        PROVE  q \in severed' /\ req'[q] = req[q]
    <3>1. q \in Requests \ {r}
      BY <1>1, <1>6, <2>1
    <3> QED
      BY <1>6, <2>1, <3>1, Others
  <2> QED
    BY <1>2, <1>6, <2>1 DEF Accounted, In
<1>7. ASSUME NEW r \in Requests, \/ CheckSession(r) \/ Refuse(r) \/ Exchange(r)
                                \/ LoginReply(r) \/ WithdrawReply(r) \/ WriteBlog(r)
                                \/ \E i \in DOMAIN blogs : ChangeBlog(r, i)
      PROVE  Accounted(u)'
  <2>1. UNCHANGED <<rows, linked, noted>> /\ ~In(r, "withdraw", "delete")
    <3>1. CASE CheckSession(r)
      BY <3>1 DEF CheckSession, In
    <3>2. CASE Refuse(r) \/ Exchange(r)
      BY <3>2 DEF Refuse, Exchange, In
    <3>3. CASE LoginReply(r) \/ WithdrawReply(r) \/ WriteBlog(r)
      BY <3>3 DEF LoginReply, WithdrawReply, WriteBlog, In
    <3>4. CASE \E i \in DOMAIN blogs : ChangeBlog(r, i)
      BY <3>4 DEF ChangeBlog, In
    <3> QED
      BY <1>7, <3>1, <3>2, <3>3, <3>4
  <2> QED
    BY <1>6, <1>7, <2>1 DEF Step
<1>8. ASSUME NEW r \in Requests, NEW b \in Browsers, Begin(r, b)
      PROVE  Accounted(u)'
  <2>1. UNCHANGED <<rows, linked, noted>> /\ ~In(r, "withdraw", "delete")
    BY <1>8 DEF Begin, LoginCallback, WithdrawCallback, Call, In
  <2> QED
    BY <1>6, <1>8, <2>1
<1>9. ASSUME NEW r \in Requests, Upsert(r)
      PROVE  Accounted(u)'
  <2>1. linked' = linked /\ ~In(r, "withdraw", "delete") /\ UpsertRow(req[r].user)
    BY <1>9 DEF Upsert, In
  <2>2. CASE req[r].user = u
    <3>1. noted'[u] = "raced"
      BY <1>1, <2>1, <2>2 DEF UpsertRow
    <3> QED
      BY <3>1 DEF Accounted
  <2>3. CASE req[r].user # u
    <3>1. u \in rows /\ noted'[u] = noted[u]
      BY <1>1, <2>1, <2>3 DEF UpsertRow
    <3> QED
      BY <1>6, <1>9, <2>1, <3>1 DEF Step
  <2> QED
    BY <2>2, <2>3
<1>10. ASSUME NEW r \in Requests, Unlink(r)
       PROVE  Accounted(u)'
  <2>1. /\ flows[req[r].flow].user = req[r].user /\ rows' = rows
        /\ In(r, "withdraw", "unlink") /\ ~In(r, "withdraw", "delete")
    BY <1>10 DEF Unlink, In, Own, Aimed, Kinds
  <2>2. CASE u \notin linked /\ noted'[u] = noted[u]
    BY <1>6, <1>10, <2>1, <2>2 DEF Step
  <2>3. CASE /\ linked' = linked \ {req[r].user} /\ req[r].user = u
             /\ Goes(r, "delete") /\ severed' = severed \cup {r}
    <3>1. Kept(r) /\ req'[r].at = "delete"
      BY <2>1, <2>3, Goes_moves DEF In, Ats
    <3>2. req'[r] # NoRequest
      <4>1. [req[r] EXCEPT !.at = "delete"] \in Request
        BY <1>1, <2>1 DEF In, Request
      <4>2. req'[r] = [req[r] EXCEPT !.at = "delete"]
        BY <1>1, <2>3 DEF Goes
      <4> QED
        BY <4>1, <4>2, AccountsAssumption
    <3>3. r \in severed' /\ In(r, "withdraw", "delete")' /\ req'[r].user = u
      BY <2>1, <2>3, <3>1, <3>2 DEF In, Kept
    <3> QED
      BY <3>3 DEF Accounted
  <2>4. CASE req[r].user = u /\ noted' = [noted EXCEPT ![u] = "unheard"]
    BY <1>1, <2>4 DEF Accounted
  <2>5. CASE /\ linked' = linked \ {req[r].user} /\ req[r].user # u
             /\ \/ UNCHANGED noted
                \/ noted' = [noted EXCEPT ![req[r].user] = "unheard"]
    BY <1>1, <2>2, <2>5
  <2> QED
    BY <1>10, <2>1, <2>2, <2>3, <2>4, <2>5 DEF Unlink
<1>11. ASSUME NEW r \in Requests, DeleteRow(r) \/ DeleteUnheard(r)
       PROVE  Accounted(u)'
  <2>1. RemoveRow(req[r].user) /\ linked' = linked
    BY <1>11 DEF DeleteRow, DeleteUnheard
  <2>2. u \in rows /\ req[r].user # u /\ noted'[u] = noted[u]
    BY <1>1, <2>1 DEF RemoveRow
  <2> QED
    BY <1>6, <1>11, <2>1, <2>2 DEF Step
<1>12. ASSUME NEW r \in Requests, DeleteFails(r)
       PROVE  Accounted(u)'
  <2>1. In(r, "withdraw", "delete") /\ UNCHANGED <<rows, linked>>
    BY <1>12 DEF DeleteFails
  <2>2. CASE req[r].user # u
    <3>1. noted'[u] = noted[u]
      BY <1>1, <1>12, <2>2 DEF DeleteFails, GiveUp, Retry
    <3> QED
      BY <1>6, <1>12, <2>1, <2>2, <3>1 DEF Step
  <2>3. CASE req[r].user = u /\ GiveUp(r)
    BY <1>1, <2>3 DEF GiveUp, Accounted
  <2>4. CASE req[r].user = u /\ Retry(r) /\ ~LastTry(r)
    <3>1. req'[r] = [req[r] EXCEPT !.tries = req[r].tries + 1]
      BY <1>1, <2>4 DEF Retry
    <3>2. req[r] \in Request /\ req[r] # NoRequest
      BY <1>1, <2>1 DEF In
    <3>3. req'[r] # NoRequest
      <4>1. req[r].tries \in 0..2 /\ req[r].tries # 2
        BY <2>4, <3>2 DEF Request, LastTry, Attempts
      <4>2. req[r].tries + 1 \in 0..(Attempts - 1)
        BY <4>1 DEF Attempts
      <4>3. [req[r] EXCEPT !.tries = req[r].tries + 1] \in Request
        BY <3>2, <4>2 DEF Request
      <4> QED
        BY <3>1, <4>3, AccountsAssumption
    <3>4. req'[r].job = req[r].job /\ req'[r].at = req[r].at /\ req'[r].user = req[r].user
      BY <3>1, <3>2 DEF Request
    <3>5. r \in severed'
      BY <2>1, <2>4 DEF Own, Aimed, In, Kinds, Retry
    <3>6. In(r, "withdraw", "delete")' /\ req'[r].user = u
      BY <2>1, <2>4, <3>3, <3>4 DEF In
    <3> QED
      BY <3>5, <3>6 DEF Accounted
  <2> QED
    BY <1>12, <2>2, <2>3, <2>4 DEF DeleteFails
<1>13. ASSUME NEW r \in Requests, Crash(r)
       PROVE  Accounted(u)'
  <2>1. UNCHANGED <<rows, linked>>
    BY <1>13 DEF Crash
  <2>2. CASE In(r, "withdraw", "delete") /\ req[r].user = u
    BY <1>1, <1>13, <2>1, <2>2 DEF Crash, Accounted
  <2>3. CASE ~(In(r, "withdraw", "delete") /\ req[r].user = u)
    <3>1. noted'[u] = noted[u]
      BY <1>1, <1>13, <2>3 DEF Crash
    <3> QED
      BY <1>6, <1>13, <2>1, <2>3, <3>1
  <2> QED
    BY <2>2, <2>3
<1>14. ASSUME NEW r \in Requests, Step(r)
       PROVE  Accounted(u)'
  BY <1>7, <1>9, <1>10, <1>11, <1>12, <1>14 DEF Step
<1> QED
  BY <1>4, <1>5, <1>8, <1>13, <1>14 DEF Next

(* A row whose user is not linked at Kakao is being deleted or is accounted  *)
(* for, whatever fails and whoever logs in meanwhile                         *)
(* (auth:_delete_local_user_after_unlink).                                   *)
THEOREM OrphansAreAccounted == Spec => []OrphansAreKnown
<1>1. Init => OrphansAreKnown
  BY DEF Init, OrphansAreKnown
<1>2. TypeOK /\ TypeOK' /\ Own /\ OrphansAreKnown /\ [Next]_vars => OrphansAreKnown'
  <2> SUFFICES ASSUME TypeOK, TypeOK', Own, OrphansAreKnown, [Next]_vars,
                      NEW u \in rows' \ linked'
               PROVE  \/ noted'[u] # "nothing"
                      \/ \E r \in severed' : In(r, "withdraw", "delete")' /\ req'[r].user = u
    BY DEF OrphansAreKnown
  <2> QED
    BY Accounted_kept DEF Accounted
<1> QED
  BY <1>1, <1>2, TypeCorrect, Own_always, PTL DEF Spec
=============================================================================
