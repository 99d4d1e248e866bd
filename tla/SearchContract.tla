--------------------------- MODULE SearchContract ---------------------------
(***************************************************************************)
(* What the search API promises its client, with no queue, worker or       *)
(* handler in sight.  A query has at most one answer at a time, which no    *)
(* step replaces by another one; a magicCode is open from its submission    *)
(* until it is consumed, refused or expires; a result is handed out for an  *)
(* open code only, closes it, and is the answer the query has at that very  *)
(* instant; and an answer somebody's open code waits for is not forgotten.  *)
(* SearchJobs implements this contract when tickets expire before queries.  *)
(***************************************************************************)
EXTENDS Sequences

CONSTANTS Codes, Queries, QueryOf, Answers, NoAnswer

VARIABLES
    open,      \* the codes a client may still exchange for a result
    answer,    \* answer[q]: the stored result of query q, or NoAnswer
    delivered  \* delivered[c]: the results sent in exchange for code c

vars == <<open, answer, delivered>>

Init ==
    /\ open = {}
    /\ answer = [q \in Queries |-> NoAnswer]
    /\ delivered = [c \in Codes |-> <<>>]

Open(c) ==
    /\ c \notin open
    /\ delivered[c] = <<>>
    /\ open' = open \union {c}
    /\ UNCHANGED <<answer, delivered>>

Close(c) ==
    /\ c \in open
    /\ open' = open \ {c}
    /\ UNCHANGED <<answer, delivered>>

Answer(q) ==
    /\ answer[q] = NoAnswer
    /\ \E a \in Answers : answer' = [answer EXCEPT ![q] = a]
    /\ UNCHANGED <<open, delivered>>

Forget(q) ==
    /\ \A c \in open : QueryOf[c] # q
    /\ answer' = [answer EXCEPT ![q] = NoAnswer]
    /\ UNCHANGED <<open, delivered>>

Deliver(c) ==
    /\ c \in open
    /\ answer[QueryOf[c]] # NoAnswer
    /\ open' = open \ {c}
    /\ delivered' = [delivered EXCEPT ![c] = Append(@, answer[QueryOf[c]])]
    /\ UNCHANGED answer

Next ==
    \/ \E c \in Codes : Open(c) \/ Close(c) \/ Deliver(c)
    \/ \E q \in Queries : Answer(q) \/ Forget(q)

Spec == Init /\ [][Next]_vars
=============================================================================
