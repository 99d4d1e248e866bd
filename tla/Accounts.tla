------------------------------- MODULE Accounts -------------------------------
(***************************************************************************)
(* Accounts and what they own (src/auth, src/blog): login and withdrawal     *)
(* through Kakao, the session each browser carries, and the blog table.  The *)
(* users row, the link at Kakao and the cookies change in separate steps,    *)
(* and requests interleave between them: a withdrawal unlinks first and      *)
(* deletes the row later, a blog write checks its user in one transaction    *)
(* and writes in another.                                                    *)
(*                                                                           *)
(* An OAuth state is the number of the flow that drew it.  Sessions are      *)
(* stateless: a cookie is as good as the user it names until it expires, in  *)
(* the browser and for the server alike (SessionEnds).                       *)
(***************************************************************************)
EXTENDS Naturals, Sequences, FiniteSets

CONSTANTS
    Users,     \* Kakao user ids
    NoUser,    \* no session
    Browsers,
    Requests,  \* requests in flight
    NoRequest, \* the state of a request that is over, or has not begun
    MaxFlows,  \* how many OAuth flows are started (a bound)
    MaxBlogs   \* how many blogs are written (a bound)

VARIABLES
    rows,    \* users with a row in the table
    born,    \* born[u]: how often u's row has been inserted (history)
    blogs,   \* blogs[i]: author, the row of the author it was written
             \* under and its last writer (history); Gone when deleted
    linked,  \* users linked to the application at Kakao (external)
    flows,   \* flows[n]: kind, browser, the user who signed in, the code
    jar,     \* jar[b]: session, and the state cookie of each kind of flow
    req,     \* the requests
    severed, \* requests whose unlink Kakao has carried out (history)
    noted    \* noted[u]: what the record shows of u's last unlink (history)

db == <<rows, born, blogs>>
kakao == <<linked, flows, severed>>
vars == <<db, kakao, jar, req, noted>>

Kinds == {"login", "withdraw"}
Gone == [author |-> NoUser, row |-> 0, by |-> NoUser]
Attempts == 3  \* len(WITHDRAW_LOCAL_DELETE_RETRY_DELAYS) + 1

Request ==
    [job : Kinds \cup {"reauthorize", "write", "edit", "erase"},
     at : {"session", "exchange", "unlink", "delete", "upsert", "reply", "blog"},
     browser : Browsers, user : Users, flow : 0..MaxFlows,
     tries : 0..(Attempts - 1), row : Nat]

ASSUME AccountsAssumption ==
    /\ NoUser \notin Users
    /\ NoRequest \notin Request
    /\ MaxFlows \in Nat
    /\ MaxBlogs \in Nat

TypeOK ==
    /\ rows \subseteq Users
    /\ born \in [Users -> Nat]
    /\ blogs \in Seq([author : Users, row : Nat, by : Users] \cup {Gone})
    /\ Len(blogs) <= MaxBlogs
    /\ linked \subseteq Users
    /\ flows \in Seq([kind : Kinds, browser : Browsers,
                      user : Users \cup {NoUser},
                      code : {"none", "fresh", "spent"}])
    /\ Len(flows) <= MaxFlows
    /\ jar \in [Browsers -> [session : Users \cup {NoUser},
                             login : 0..MaxFlows, withdraw : 0..MaxFlows]]
    /\ req \in [Requests -> Request \cup {NoRequest}]
    /\ severed \subseteq Requests
    /\ noted \in [Users -> {"nothing", "flagged", "unheard", "raced"}]

Init ==
    /\ rows = {}
    /\ born = [u \in Users |-> 0]
    /\ blogs = <<>>
    /\ linked = {}
    /\ flows = <<>>
    /\ jar = [b \in Browsers |-> [session |-> NoUser, login |-> 0, withdraw |-> 0]]
    /\ req = [r \in Requests |-> NoRequest]
    /\ severed = {}
    /\ noted = [u \in Users |-> "nothing"]

(***************************************************************************)
(* Requests.  Every error answer ends one and leaves the rest alone; which   *)
(* of 401, 404, 409, 502 and 503 it is makes no difference here.             *)
(***************************************************************************)
In(r, job, at) == req[r] # NoRequest /\ req[r].job = job /\ req[r].at = at

Goes(r, at) == req' = [req EXCEPT ![r].at = at]

Ends(r) ==
    /\ req' = [req EXCEPT ![r] = NoRequest]
    /\ severed' = severed \ {r}

Request0(job, at, b, u, n) ==
    [job |-> job, at |-> at, browser |-> b, user |-> u, flow |-> n,
     tries |-> 0, row |-> 0]

(***************************************************************************)
(* Faulty variants of the definitions below.                                 *)
(***************************************************************************)

(* Any state cookie of the kind will do. *)
StateMatches_anyState(b, n) == jar[b][flows[n].kind] # 0

(* The code's owner is not compared with the session's user. *)
SameAccount_unchecked(r) == TRUE

(* The last failure is logged and then taken for a success. *)
GiveUp_swallowed(r) ==
    /\ Goes(r, "reply")
    /\ noted' = [noted EXCEPT ![req[r].user] = "flagged"]
    /\ severed' = severed

(* Nothing is logged when the last attempt fails. *)
GiveUp_silent(r) == Ends(r) /\ UNCHANGED noted

(* The row goes without its blogs. *)
RemoveRow_noCascade(u) ==
    /\ rows' = rows \ {u}
    /\ noted' = [noted EXCEPT ![u] = "nothing"]
    /\ UNCHANGED <<born, blogs>>

(* The last attempt is one too late. *)
LastTry_offByOne(r) == req[r].tries = Attempts

(***************************************************************************)
(* The tables.                                                               *)
(***************************************************************************)

(* DELETE FROM users: the blogs of the row go in the same statement. *)
RemoveRow(u) ==
    /\ rows' = rows \ {u}
    /\ blogs' = [i \in DOMAIN blogs |->
                    IF blogs[i].author = u THEN Gone ELSE blogs[i]]
    /\ noted' = [noted EXCEPT ![u] = "nothing"]
    /\ UNCHANGED born

(* INSERT ... ON CONFLICT (id) DO UPDATE: a row that is there stays. *)
UpsertRow(u) ==
    /\ rows' = rows \cup {u}
    /\ born' = IF u \in rows THEN born ELSE [born EXCEPT ![u] = @ + 1]
    /\ noted' = IF u \in linked THEN noted ELSE [noted EXCEPT ![u] = "raced"]
    /\ UNCHANGED blogs

(* INSERT INTO blogs: the foreign key refuses an author without a row. *)
InsertBlog(u) ==
    /\ u \in rows
    /\ blogs' = Append(blogs, [author |-> u, row |-> born[u], by |-> u])

(* UPDATE and DELETE ... WHERE id = i AND author_id = u. *)
UpdateBlog(u, i) ==
    /\ blogs[i].author = u
    /\ blogs' = [blogs EXCEPT ![i].by = u]

DeleteBlog(u, i) ==
    /\ blogs[i].author = u
    /\ blogs' = [blogs EXCEPT ![i] = Gone]

(***************************************************************************)
(* The browser and Kakao.                                                    *)
(***************************************************************************)

(* GET /authorize, and the second half of /auth/withdraw/authorize: a new    *)
(* state replaces the cookie of that kind.                                   *)
NewFlow(b, kind) ==
    /\ Len(flows) < MaxFlows
    /\ flows' = Append(flows, [kind |-> kind, browser |-> b, user |-> NoUser,
                               code |-> "none"])
    /\ jar' = [jar EXCEPT ![b][kind] = Len(flows) + 1]

Authorize(b) ==
    /\ NewFlow(b, "login")
    /\ UNCHANGED <<db, linked, req, severed, noted>>

(* u signs in at Kakao and consents: the link is made (again) and a code is  *)
(* issued for the flow.  Kakao is external.                                  *)
SignIn(n, u) ==
    /\ flows[n].user = NoUser
    /\ flows' = [flows EXCEPT ![n].user = u, ![n].code = "fresh"]
    /\ linked' = linked \cup {u}
    /\ noted' = [noted EXCEPT ![u] = "nothing"]
    /\ UNCHANGED <<db, jar, req, severed>>

(* POST /auth/logout, or the session's age runs out: the browser drops the   *)
(* cookie at the instant the server begins to refuse it.                     *)
SessionEnds(b) ==
    /\ jar[b].session # NoUser
    /\ jar' = [jar EXCEPT ![b].session = NoUser]
    /\ UNCHANGED <<db, kakao, req, noted>>

(***************************************************************************)
(* A request begins: its cookies are read here, once.                        *)
(***************************************************************************)

(* read_session_cookie: signed by this server and not expired. *)
HasSession(b) == jar[b].session # NoUser

(* The state that comes back must be the one in the browser's cookie. *)
StateMatches(b, n) == jar[b][flows[n].kind] = n

CallbackOf(b, n, kind) ==
    /\ flows[n].kind = kind
    /\ flows[n].user # NoUser
    /\ StateMatches(b, n)

LoginCallback(r, b, n) ==
    /\ req[r] = NoRequest
    /\ CallbackOf(b, n, "login")
    /\ req' = [req EXCEPT ![r] = Request0("login", "exchange", b, flows[n].user, n)]
    /\ UNCHANGED <<db, kakao, jar, noted>>

WithdrawCallback(r, b, n) ==
    /\ req[r] = NoRequest
    /\ HasSession(b)
    /\ CallbackOf(b, n, "withdraw")
    /\ req' = [req EXCEPT ![r] = Request0("withdraw", "session", b, jar[b].session, n)]
    /\ UNCHANGED <<db, kakao, jar, noted>>

Call(r, b, job) ==
    /\ req[r] = NoRequest
    /\ HasSession(b)
    /\ req' = [req EXCEPT ![r] = Request0(job, "session", b, jar[b].session, 0)]
    /\ UNCHANGED <<db, kakao, jar, noted>>

(***************************************************************************)
(* get_current_user_id, then what runs without another step in between: a    *)
(* withdrawal's re-authorization answers at once.  The row may go as soon as *)
(* this query has seen it.                                                   *)
(***************************************************************************)
CheckSession(r) ==
    /\ req[r] # NoRequest
    /\ req[r].at = "session"
    /\ req[r].user \in rows
    /\ \/ /\ req[r].job = "withdraw"
          /\ req' = [req EXCEPT ![r].at = "exchange", ![r].row = born[req[r].user]]
          /\ UNCHANGED <<kakao, jar>>
       \/ /\ req[r].job \in {"write", "edit", "erase"}
          /\ Goes(r, "blog")
          /\ UNCHANGED <<kakao, jar>>
       \/ /\ req[r].job = "reauthorize"
          /\ NewFlow(req[r].browser, "withdraw")
          /\ Ends(r)
          /\ UNCHANGED linked
    /\ UNCHANGED <<db, noted>>

(* An early return: no row, a database error, a failed token or profile      *)
(* request, another account at Kakao, no such blog or not its author.        *)
Refuse(r) ==
    /\ req[r] # NoRequest
    /\ req[r].at \in {"session", "exchange", "upsert", "blog"}
    /\ Ends(r)
    /\ UNCHANGED <<db, linked, flows, jar, noted>>

(***************************************************************************)
(* Login and withdrawal.                                                     *)
(***************************************************************************)
SameAccount(r) == flows[req[r].flow].user = req[r].user

(* The token for the code, once, and the profile of whoever signed in; the   *)
(* profile can still be refused when the code has gone.  A login takes any    *)
(* user, a withdrawal only the session's.                                    *)
Exchange(r) ==
    /\ req[r] # NoRequest
    /\ req[r].at = "exchange"
    /\ flows[req[r].flow].code = "fresh"
    /\ flows' = [flows EXCEPT ![req[r].flow].code = "spent"]
    /\ \/ /\ flows[req[r].flow].user \in linked
          /\ \/ req[r].job = "login" /\ Goes(r, "upsert")
             \/ req[r].job = "withdraw" /\ SameAccount(r) /\ Goes(r, "unlink")
          /\ severed' = severed
       \/ Ends(r)
    /\ UNCHANGED <<db, linked, jar, noted>>

(* A query whose answer is lost has run or has not; its request ends in 503. *)
Upsert(r) ==
    /\ In(r, "login", "upsert")
    /\ UpsertRow(req[r].user)
    /\ \/ Goes(r, "reply") /\ severed' = severed
       \/ Ends(r)
    /\ UNCHANGED <<linked, flows, jar>>

LoginReply(r) ==
    /\ In(r, "login", "reply")
    /\ jar' = [jar EXCEPT ![req[r].browser].session = req[r].user,
                          ![req[r].browser].login = 0]
    /\ Ends(r)
    /\ UNCHANGED <<db, linked, flows, noted>>

(* Kakao refuses or nothing reaches it, 502; or the answer is lost after it   *)
(* has unlinked.                                                             *)
Unlink(r) ==
    /\ In(r, "withdraw", "unlink")
    /\ \/ /\ flows[req[r].flow].user \in linked
          /\ linked' = linked \ {flows[req[r].flow].user}
          /\ \/ /\ Goes(r, "delete")
                /\ severed' = severed \cup {r}
                /\ UNCHANGED noted
             \/ /\ Ends(r)
                /\ noted' = [noted EXCEPT ![flows[req[r].flow].user] = "unheard"]
       \/ Ends(r) /\ UNCHANGED <<linked, noted>>
    /\ UNCHANGED <<db, flows, jar>>

(* _delete_local_user_after_unlink: up to Attempts deletes, the last failure *)
(* is logged for an operator.                                                *)
LastTry(r) == req[r].tries + 1 = Attempts

GiveUp(r) ==
    /\ Ends(r)
    /\ noted' = [noted EXCEPT ![req[r].user] = "flagged"]

Retry(r) ==
    /\ req' = [req EXCEPT ![r].tries = @ + 1]
    /\ UNCHANGED <<noted, severed>>

DeleteRow(r) ==
    /\ In(r, "withdraw", "delete")
    /\ RemoveRow(req[r].user)
    /\ Goes(r, "reply")
    /\ UNCHANGED <<kakao, jar>>

DeleteFails(r) ==
    /\ In(r, "withdraw", "delete")
    /\ IF LastTry(r) THEN GiveUp(r) ELSE Retry(r)
    /\ UNCHANGED <<db, linked, flows, jar>>

(* The delete has run and its answer is lost: the next one finds no row. *)
DeleteUnheard(r) ==
    /\ In(r, "withdraw", "delete")
    /\ RemoveRow(req[r].user)
    /\ IF LastTry(r)
       THEN Ends(r)
       ELSE /\ req' = [req EXCEPT ![r].tries = @ + 1]
            /\ UNCHANGED severed
    /\ UNCHANGED <<linked, flows, jar>>

WithdrawReply(r) ==
    /\ In(r, "withdraw", "reply")
    /\ jar' = [jar EXCEPT ![req[r].browser].session = NoUser,
                          ![req[r].browser].withdraw = 0]
    /\ Ends(r)
    /\ UNCHANGED <<db, linked, flows, noted>>

(***************************************************************************)
(* The blog.  An id is never given twice; a query that runs and whose answer *)
(* is lost differs only in the status.                                       *)
(***************************************************************************)
WriteBlog(r) ==
    /\ In(r, "write", "blog")
    /\ Len(blogs) < MaxBlogs
    /\ InsertBlog(req[r].user)
    /\ Ends(r)
    /\ UNCHANGED <<rows, born, linked, flows, jar, noted>>

ChangeBlog(r, i) ==
    /\ \/ In(r, "edit", "blog") /\ UpdateBlog(req[r].user, i)
       \/ In(r, "erase", "blog") /\ DeleteBlog(req[r].user, i)
    /\ Ends(r)
    /\ UNCHANGED <<rows, born, linked, flows, jar, noted>>

(* A backend process dies with the request. *)
Crash(r) ==
    /\ req[r] # NoRequest
    /\ Ends(r)
    /\ noted' = IF In(r, "withdraw", "delete") /\ req[r].user \notin linked
                THEN [noted EXCEPT ![req[r].user] = "unheard"] ELSE noted
    /\ UNCHANGED <<db, linked, flows, jar>>

Step(r) ==
    \/ CheckSession(r) \/ Refuse(r) \/ Exchange(r) \/ Upsert(r)
    \/ LoginReply(r) \/ Unlink(r) \/ DeleteRow(r) \/ DeleteFails(r)
    \/ DeleteUnheard(r) \/ WithdrawReply(r) \/ WriteBlog(r)
    \/ \E i \in DOMAIN blogs : ChangeBlog(r, i)

Begin(r, b) ==
    \/ \E n \in DOMAIN flows : LoginCallback(r, b, n) \/ WithdrawCallback(r, b, n)
    \/ \E job \in {"reauthorize", "write", "edit", "erase"} : Call(r, b, job)

Next ==
    \/ \E b \in Browsers : Authorize(b) \/ SessionEnds(b)
    \/ \E n \in DOMAIN flows, u \in Users : SignIn(n, u)
    \/ \E r \in Requests :
          \/ Step(r) \/ Crash(r)
          \/ \E b \in Browsers : Begin(r, b)

Spec == Init /\ [][Next]_vars

(***************************************************************************)
(* Properties.                                                               *)
(***************************************************************************)

(* The reads of the blog (get.py): each joins a blog to its author's row.    *)
(* /latest gives the newest of these, as many as it is asked for.            *)
Readable(i) == blogs[i] # Gone /\ blogs[i].author \in rows
Latest == {i \in DOMAIN blogs : Readable(i)}
ByAuthor(u) == IF u \in rows THEN {i \in DOMAIN blogs : blogs[i].author = u} ELSE {}

(* A blog belongs to the row it was written under: a request that passed the *)
(* session check before its user withdrew, or before the user withdrew and   *)
(* came back, leaves no blog without its author, no blog of an account that   *)
(* is gone comes back with a new one, every blog can be read (but for the     *)
(* count of /latest), and nobody but the author has written to it             *)
(* (blog/modify.py, the cascade, get.py).                                    *)
BlogsBelong ==
    \A i \in DOMAIN blogs : blogs[i] # Gone =>
        /\ blogs[i].row = born[blogs[i].author]
        /\ blogs[i].by = blogs[i].author
        /\ i \in Latest
        /\ i \in ByAuthor(blogs[i].author)

(* A row whose user is no longer linked at Kakao is either being deleted by  *)
(* the withdrawal that unlinked it, or is accounted for: the final failure   *)
(* was logged, the outcome never reached a live process, or a login that had *)
(* read its profile before the unlink wrote the row after it                 *)
(* (auth:_delete_local_user_after_unlink, redirect).                         *)
OrphansAreKnown ==
    \A u \in rows \ linked :
        \/ noted[u] # "nothing"
        \/ \E r \in severed : In(r, "withdraw", "delete") /\ req[r].user = u

(* A browser's session names a user who signed in at Kakao in that browser,  *)
(* in a login flow it started itself: no callback of another browser's flow  *)
(* is taken (redirect's state check).                                        *)
SessionsAreOwn ==
    \A b \in Browsers : jar[b].session # NoUser =>
        \E n \in DOMAIN flows : /\ flows[n].kind = "login"
                                /\ flows[n].browser = b
                                /\ flows[n].user = jar[b].session

(* When a withdrawal answers that it is done, the row the user asked to      *)
(* withdraw is gone with all its blogs; a row there now was made by a later  *)
(* login (withdraw_redirect).                                                *)
WithdrawnIsGone ==
    \A r \in Requests : In(r, "withdraw", "reply") =>
        /\ req[r].user \in rows => born[req[r].user] > req[r].row
        /\ \A i \in DOMAIN blogs :
              blogs[i].author = req[r].user => blogs[i].row > req[r].row

(* A link is cut only by a withdrawal with that user's session, and a row is  *)
(* deleted only by one whose unlink Kakao has carried out (the 409 and 502    *)
(* early returns of withdraw_redirect).                                      *)
OnlyOwnAccount ==
    [][/\ \A u \in linked \ linked' : \E r \in Requests :
             In(r, "withdraw", "unlink") /\ req[r].user = u
       /\ \A u \in rows \ rows' : \E r \in severed :
             In(r, "withdraw", "delete") /\ req[r].user = u]_vars
=============================================================================
