----------------------------- MODULE SearchEngine -----------------------------
(***************************************************************************)
(* One search of the engine a worker runs (src/search/engine): the language  *)
(* model plans it, the providers are asked at once and answer, fail or time  *)
(* out in any order, web providers stand in when a public one finds nothing, *)
(* and the documents are merged, ranked, selected and put into an answer.    *)
(*                                                                           *)
(* A document's key is its normalized URL, its weight the pair of authority  *)
(* and freshness as one number.  Scores are integers: a reciprocal rank is    *)
(* Unit \div (60 + rank), exact for the ranks in reach, and everything in a   *)
(* ranking score that does not come from the ranks is the document's merit,   *)
(* in hundredths: any integer, as the weights of HybridRanker need only sum  *)
(* to 1.  rerank adds to the merit and sorts again, and knowledge_select     *)
(* sorts by requested_fields, which the analysis leaves empty: neither is a  *)
(* step of its own.  The graph, claim fusion and follow-up flags are         *)
(* constant FALSE in from_payload and left out.                              *)
(*                                                                           *)
(* Sorting, filtering and concatenating are stated by InLine, in first-order  *)
(* terms: SearchEngineProofs reasons about them for all inputs.              *)
(***************************************************************************)
EXTENDS Integers, Sequences, FiniteSets, SequencesExt, Functions

CONSTANTS
    Order,      \* every provider, in the order of registration
    Targets,    \* the providers the planning schema may name
    Type,       \* Type[p]: "public", "internal" or "web"
    Standing,   \* Standing[p]: authority, then latency, as one number
    Tries,      \* Tries[p]: requests of one call at most
    Docs,       \* records [id, provider, key, authority, weight]
    Merits,     \* the merits a query may give the documents
    Unit,       \* a common multiple of 60 + rank
    MaxBatch,   \* max_candidates
    MaxResults, \* max_results
    MaxTargets  \* how many providers a plan names (a bound)

Providers == ToSet(Order)
Remote == {p \in Providers : Type[p] = "web"}

ASSUME EngineAssumption ==
    /\ Order \in Seq(Providers) /\ IsInjective(Order)
    /\ Targets \subseteq Remote
    /\ Type \in [Providers -> {"public", "internal", "web"}]
    /\ Standing \in [Providers -> Nat]
    /\ Tries \in [Providers -> 1..2]
    /\ IsFiniteSet(Docs)
    /\ \A d \in Docs : /\ d.provider \in Providers
                       /\ {d.id, d.authority, d.weight} \subseteq Nat
    /\ \A d, e \in Docs : d.id = e.id => d = e
    /\ \A d, e \in Docs : d.authority > e.authority => d.weight > e.weight
    /\ Merits \subseteq [Docs -> Int]
    /\ Unit \in Nat /\ Unit > 0
    /\ MaxBatch \in Nat /\ MaxResults \in Nat /\ MaxTargets \in Nat
    /\ MaxBatch > 0 /\ MaxResults > 0
    /\ \A rank \in 1..(MaxBatch * Cardinality(Remote)) : Unit % (60 + rank) = 0

VARIABLES
    registered, \* the providers registered
    phase,      \* "analyze", "gather", "fallback", "answer", "done", "raised"
    targets,    \* provider_targets of the plan
    calls,      \* provider calls, selected ones first, then fallbacks
    standIns,   \* fallback_ids still to be asked
    fused,      \* candidates before ranking
    ranked,     \* candidates ranked
    diverse,    \* needs_diversity
    results,    \* the response's results
    answer      \* what generate_answer says

vars == <<registered, phase, targets, calls, standIns, fused, ranked,
          diverse, results, answer>>

Messages == {"", "not configured", "failed", "nothing found", "first result", "llm"}

(* A search API may list one document twice. *)
Batch == SeqOf(Docs, MaxBatch)

TypeOK ==
    /\ registered \subseteq Providers
    /\ phase \in {"analyze", "gather", "fallback", "answer", "done", "raised"}
    /\ targets \in SeqOf(Targets, MaxTargets)
    /\ \A i \in DOMAIN calls :
          /\ calls[i].provider \in registered
          /\ calls[i].state \in {"asking", "ok", "failed"}
          /\ calls[i].asked \in 1..Tries[calls[i].provider]
          /\ calls[i].docs \in Batch
    /\ ToSet(standIns) \subseteq Remote
    /\ ToSet(fused) \cup ToSet(ranked) \cup ToSet(results) \subseteq Docs
    /\ diverse \in BOOLEAN
    /\ answer \in Messages

(***************************************************************************)
(* A finite set in a strict order given as a set of pairs.                   *)
(***************************************************************************)
InLine(S, before) ==
    LET ahead(d) == {e \in S : <<e, d>> \in before}
    IN  [n \in 1..Cardinality(S) |-> CHOOSE d \in S : Cardinality(ahead(d)) = n - 1]

(* The elements of a sequence that are in a set. *)
Within(s, S) ==
    LET kept == {i \in DOMAIN s : s[i] \in S}
        line == InLine(kept, {x \in kept \X kept : x[1] < x[2]})
    IN  [n \in DOMAIN line |-> s[line[n]]]

(* One sequence after another. *)
Chained(batches) ==
    LET places == UNION {{i} \X DOMAIN batches[i] : i \in DOMAIN batches}
        line == InLine(places, {x \in places \X places :
                                  \/ x[1][1] < x[2][1]
                                  \/ x[1][1] = x[2][1] /\ x[1][2] < x[2][2]})
    IN  [n \in DOMAIN line |-> batches[line[n][1]][line[n][2]]]

(* SearchWorker refuses to start without a real provider. *)
Init ==
    /\ registered \in SUBSET Providers
    /\ registered \cap Targets # {}
    /\ phase = "analyze"
    /\ targets = <<>>
    /\ calls = <<>>
    /\ standIns = <<>>
    /\ fused = <<>>
    /\ ranked = <<>>
    /\ diverse = FALSE
    /\ results = <<>>
    /\ answer = ""

(***************************************************************************)
(* Faulty variants of the definitions below.                                 *)
(***************************************************************************)

(* A tie replaces the document that was kept. *)
Replaces_onTie(kept, d) == d.weight >= kept.weight

(* A provider's earlier picks count for it. *)
Adjusted_reversed(score, count) == score + 25 * count

(* A failure is not remembered when some other call succeeded. *)
Failed_ifAll == calls # <<>> /\ \A i \in DOMAIN calls : calls[i].state = "failed"

(* One request too many. *)
MayRetry_offByOne(i) == calls[i].asked <= Tries[calls[i].provider]

(* No time limit on a provider's call. *)
Timeout_never(i) == FALSE

(***************************************************************************)
(* RuleBasedPlanner.plan: the targets that are registered or, without any     *)
(* target, the public and internal providers of the query's domains, and the  *)
(* web ones when there are none.                                             *)
(***************************************************************************)
Position(p) == CHOOSE i \in DOMAIN Order : Order[i] = p
ByOrder(S) == InLine(S, {x \in S \X S : Position(x[1]) < Position(x[2])})
ByStanding(S) ==
    InLine(S, {x \in S \X S :
        \/ Standing[x[1]] < Standing[x[2]]
        \/ Standing[x[1]] = Standing[x[2]] /\ Position(x[1]) < Position(x[2])})

Web == {p \in registered : Type[p] = "web"}

Selected(wanted, matching) ==
    IF wanted # <<>> THEN Within(wanted, registered)
    ELSE LET dedicated == {p \in matching : Type[p] \in {"public", "internal"}}
         IN  ByStanding(IF dedicated # {} THEN dedicated ELSE Web)

Ask(p) == [provider |-> p, state |-> "asking", asked |-> 1, docs |-> <<>>]

(* One call for each provider selected, all at once; a target named twice is  *)
(* asked twice.                                                              *)
Asked(wanted, matching) ==
    LET selected == Selected(wanted, matching)
    IN  [i \in DOMAIN selected |-> Ask(selected[i])]

Analyze ==
    /\ phase = "analyze"
    /\ \E n \in 0..MaxTargets : targets' \in [1..n -> Targets]
    /\ \E matching \in SUBSET registered : calls' = Asked(targets', matching)
    /\ phase' = "gather"
    /\ UNCHANGED <<registered, standIns, fused, ranked, diverse, results, answer>>

(* The model cannot be reached or its plan cannot be read. *)
AnalyzeFails ==
    /\ phase = "analyze"
    /\ phase' = "raised"
    /\ UNCHANGED <<registered, targets, calls, standIns, fused, ranked, diverse,
                   results, answer>>

(***************************************************************************)
(* One provider's call.  The ones in memory do not fail.                     *)
(***************************************************************************)
Asking(i) == i \in DOMAIN calls /\ calls[i].state = "asking"

Becomes(i, state, docs) ==
    /\ calls' = [calls EXCEPT ![i].state = state, ![i].docs = docs]
    /\ UNCHANGED <<registered, phase, targets, standIns, fused, ranked, diverse,
                   results, answer>>

Answers(i) ==
    \E docs \in Batch :
        /\ \A d \in ToSet(docs) : d.provider = calls[i].provider
        /\ Becomes(i, "ok", docs)

Respond(i) ==
    /\ Asking(i)
    /\ calls[i].provider \in Remote
    /\ Answers(i)

LookUp(i) ==
    /\ Asking(i)
    /\ calls[i].provider \notin Remote
    /\ Answers(i)
    /\ IsInjective(calls'[i].docs)

(* A transport error, 429 or 5xx: one more request where the provider allows  *)
(* it (_request), or the call fails.                                         *)
MayRetry(i) == calls[i].asked < Tries[calls[i].provider]

RequestFails(i) ==
    /\ Asking(i)
    /\ calls[i].provider \in Remote
    /\ IF MayRetry(i)
       THEN /\ calls' = [calls EXCEPT ![i].asked = @ + 1]
            /\ UNCHANGED <<registered, phase, targets, standIns, fused, ranked,
                           diverse, results, answer>>
       ELSE Becomes(i, "failed", <<>>)

(* Another status, or a body that is not what was agreed: no retry. *)
ResponseInvalid(i) ==
    /\ Asking(i)
    /\ calls[i].provider \in Remote
    /\ Becomes(i, "failed", <<>>)

(* wait_for cuts a call off, in the middle of its requests. *)
Timeout(i) ==
    /\ Asking(i)
    /\ calls[i].provider \in Remote
    /\ Becomes(i, "failed", <<>>)

(***************************************************************************)
(* reciprocal_rank_fusion.  A key counts once per batch, at its first rank;  *)
(* the heaviest of those documents stands for it, the earliest on a tie.      *)
(***************************************************************************)
Keys(batches) == {d.key : d \in UNION {ToSet(batches[i]) : i \in DOMAIN batches}}

Holding(key, batches) ==
    {i \in DOMAIN batches : \E d \in ToSet(batches[i]) : d.key = key}

RankIn(key, batch) == Min({j \in DOMAIN batch : batch[j].key = key})

(* Faulty variant: a document ranks by its best batch alone. *)
Score_bestOnly(key, batches) ==
    LET ranks == {RankIn(key, batches[i]) : i \in Holding(key, batches)}
    IN  IF ranks = {} THEN 0 ELSE Unit \div (60 + Min(ranks))

Score(key, batches) ==
    LET holding == Holding(key, batches)
        sum[n \in 0..Len(batches)] ==
          IF n = 0 THEN 0
          ELSE sum[n - 1] + (IF n \in holding
                             THEN Unit \div (60 + RankIn(key, batches[n])) ELSE 0)
    IN  sum[Len(batches)]

Replaces(kept, d) == d.weight > kept.weight

Stands(key, batches) ==
    LET holding == Holding(key, batches)
        first(i) == batches[i][RankIn(key, batches[i])]
        best == CHOOSE i \in holding : \A j \in holding \ {i} :
                   IF j < i THEN Replaces(first(j), first(i))
                   ELSE ~Replaces(first(i), first(j))
    IN  first(best)

Fusion(batches) ==
    LET standing == {Stands(key, batches) : key \in Keys(batches)}
    IN  InLine(standing, {x \in standing \X standing :
            \/ Score(x[1].key, batches) > Score(x[2].key, batches)
            \/ /\ Score(x[1].key, batches) = Score(x[2].key, batches)
               /\ x[1].id < x[2].id})

(***************************************************************************)
(* HybridRanker.rank: 0.20 of the score is the fused score between its        *)
(* minimum and maximum; all scores are multiplied by the spread of those.     *)
(***************************************************************************)
Spread(S, batches) ==
    LET scores == {Score(d.key, batches) : d \in S}
    IN  IF Max(scores) = Min(scores) THEN 1 ELSE Max(scores) - Min(scores)

Totals(S, batches, merit) ==
    LET low == Min({Score(d.key, batches) : d \in S})
        spread == Spread(S, batches)
    IN  [d \in S |-> 20 * (Score(d.key, batches) - low) + spread * merit[d]]

Ranking(S, total) ==
    InLine(S, {x \in S \X S :
        \/ total[x[1]] > total[x[2]]
        \/ total[x[1]] = total[x[2]] /\ x[1].authority > x[2].authority
        \/ /\ total[x[1]] = total[x[2]]
           /\ x[1].authority = x[2].authority
           /\ x[1].id < x[2].id})

(***************************************************************************)
(* diverse_select: one document after another, the best once 0.25 is taken    *)
(* off for every document its provider already has; the first of equals.      *)
(***************************************************************************)
Adjusted(score, count) == score - 25 * count

Had(s, i) == {s[j] : j \in 1..(i - 1)}
Count(p, s, i) == Cardinality({j \in 1..(i - 1) : s[j].provider = p})

Diverse(seq, total, spread) ==
    {s \in [1..Min({Len(seq), MaxResults}) -> ToSet(seq)] :
        \A i \in DOMAIN s :
            LET rest == {n \in DOMAIN seq : seq[n] \notin Had(s, i)}
                worth(n) == Adjusted(total[seq[n]], Count(seq[n].provider, s, i) * spread)
            IN  \E n \in rest :
                   /\ s[i] = seq[n]
                   /\ \A m \in rest :
                         worth(n) > worth(m) \/ (worth(n) = worth(m) /\ n <= m)}

(***************************************************************************)
(* From the candidates to the results: no await, one step.  Candidates of     *)
(* public and internal providers, each asked once, are distinct.             *)
(***************************************************************************)
Settle(cands, batches) ==
    /\ fused' = cands
    /\ diverse' \in BOOLEAN
    /\ \E total \in {Totals(ToSet(cands), batches, merit) : merit \in Merits} :
          /\ ranked' = Ranking(ToSet(cands), total)
          /\ IF diverse' /\ Len(ranked') > 1
             THEN results' \in Diverse(ranked', total, Spread(ToSet(cands), batches))
             ELSE results' = [n \in 1..Min({Len(ranked'), MaxResults}) |-> ranked'[n]]
    /\ phase' = "answer"

Answered == \A i \in DOMAIN calls : calls[i].state # "asking"

(* A call that failed has an empty batch. *)
Batches == [i \in DOMAIN calls |-> calls[i].docs]

UsesWeb == \E i \in DOMAIN calls : Type[calls[i].provider] = "web"
AllPublic == calls # <<>> /\ \A i \in DOMAIN calls : Type[calls[i].provider] = "public"

Candidates ==
    IF UsesWeb THEN Fusion(Batches) ELSE Chained(Batches)

(* gather returns when the last call has, its results in the order asked. *)
Gathered ==
    /\ phase = "gather"
    /\ Answered
    /\ IF Candidates = <<>> /\ AllPublic
       THEN /\ phase' = "fallback"
            /\ standIns' = ByOrder(Web)
            /\ UNCHANGED <<fused, ranked, diverse, results>>
       ELSE /\ Settle(Candidates, IF UsesWeb THEN Batches ELSE <<>>)
            /\ UNCHANGED standIns
    /\ UNCHANGED <<registered, targets, calls, answer>>

(* The web providers one after another, whatever the one before has found.   *)
AskNext ==
    /\ phase = "fallback"
    /\ Answered
    /\ standIns # <<>>
    /\ calls' = Append(calls, Ask(Head(standIns)))
    /\ standIns' = Tail(standIns)
    /\ UNCHANGED <<registered, phase, targets, fused, ranked, diverse, results, answer>>

(* Their documents are fused as one batch. *)
FallbackEnds ==
    /\ phase = "fallback"
    /\ Answered
    /\ standIns = <<>>
    /\ LET one == <<Chained(Batches)>>
       IN  Settle(Fusion(one), one)
    /\ UNCHANGED <<registered, targets, calls, standIns, answer>>

(***************************************************************************)
(* generate_answer.                                                          *)
(***************************************************************************)
Failed == \E i \in DOMAIN calls : calls[i].state = "failed"

Says(text) ==
    /\ answer' = text
    /\ phase' = "done"
    /\ UNCHANGED <<registered, targets, calls, standIns, fused, ranked, diverse, results>>

AnswerWithout ==
    /\ phase = "answer"
    /\ results = <<>>
    /\ Says(IF targets # <<>> /\ calls = <<>> THEN "not configured"
            ELSE IF Failed THEN "failed" ELSE "nothing found")

(* The model's text, or the first result's own when it has none. *)
AnswerFrom ==
    /\ phase = "answer"
    /\ results # <<>>
    /\ \E text \in {"llm", "first result"} : Says(text)

(* The call for the answer fails and takes the search with it. *)
AnswerFails ==
    /\ phase = "answer"
    /\ results # <<>>
    /\ phase' = "raised"
    /\ UNCHANGED <<registered, targets, calls, standIns, fused, ranked, diverse,
                   results, answer>>

Next ==
    \/ Analyze \/ AnalyzeFails
    \/ \E i \in DOMAIN calls :
          Respond(i) \/ LookUp(i) \/ RequestFails(i) \/ ResponseInvalid(i) \/ Timeout(i)
    \/ Gathered \/ AskNext \/ FallbackEnds
    \/ AnswerWithout \/ AnswerFrom \/ AnswerFails

Spec == Init /\ [][Next]_vars

(***************************************************************************)
(* A provider may never answer: only wait_for and the providers in memory are *)
(* counted on, and for the rest that the engine goes on when no call is       *)
(* outstanding, which the event loop and the language model's client, with a  *)
(* time limit of its own, see to.  As some other step is enabled exactly when *)
(* Ready holds, and a search takes finitely many, []<>~Ready says what weak   *)
(* fairness of those steps would.                                            *)
(***************************************************************************)
CallEnds(i) == Timeout(i) \/ LookUp(i)

Ready == Answered /\ phase \notin {"done", "raised"}

FairSpec ==
    /\ Spec
    /\ []<>~Ready
    /\ WF_vars(\E i \in DOMAIN calls : CallEnds(i))

(***************************************************************************)
(* Properties.                                                               *)
(***************************************************************************)
Settled == phase \in {"answer", "done"}

(* A public provider found nothing and the web ones stood in. *)
FellBack == \E i \in DOMAIN calls : Type[calls[i].provider] = "public"

(* Every document some call found is among the candidates, itself or by one   *)
(* of the same URL, whatever the other calls did and in whatever order they   *)
(* ended; with a web provider no URL is there twice.  What stands for a URL   *)
(* is no lighter than the first document any call has of it, and the earliest *)
(* call's of equals; after a fallback it is the earliest call's (gather,      *)
(* reciprocal_rank_fusion).                                                  *)
NothingLost ==
    Settled => \A i \in DOMAIN calls : \A j \in DOMAIN calls[i].docs :
        LET d == calls[i].docs[j]
            first == j = RankIn(d.key, calls[i].docs)
            standing == {n \in DOMAIN fused : fused[n].key = d.key}
        IN  IF UsesWeb
            THEN \E n \in standing :
                   /\ standing = {n}
                   /\ (~FellBack /\ first) => fused[n].weight >= d.weight
                   /\ (FellBack \/ (first /\ fused[n].weight = d.weight)) =>
                        \E l \in 1..i : fused[n] \in ToSet(calls[l].docs)
            ELSE d \in ToSet(fused)

(* In the fused list a document two calls agree on is ahead of any that only  *)
(* one call found, at whatever ranks (the constant 60 against max_candidates). *)
(* HybridRanker weighs this order with the merits and may still turn it round. *)
(* A fallback's documents are fused as one batch, so it does not hold there.   *)
AgreedFirst ==
    Settled /\ UsesWeb /\ ~FellBack =>
        LET found(d) == Holding(d.key, Batches)
        IN  \A m, n \in DOMAIN fused :
              Cardinality(found(fused[m])) > 1 /\ Cardinality(found(fused[n])) = 1
                 => m < n

(* The results are as many distinct documents as fit.  One may stand before   *)
(* or instead of a better ranked one only for diversity: the other's provider *)
(* had more results ahead of it; the best ranked document is always first     *)
(* (diverse_select, the slice to max_results).                               *)
ResultsWellChosen ==
    Settled =>
        /\ Len(results) = Min({Len(ranked), MaxResults})
        /\ results # <<>> => results[1] = ranked[1]
        /\ \A i \in DOMAIN results :
              /\ results[i] \notin Had(results, i)
              /\ \A m, n \in DOMAIN ranked :
                    ranked[m] = results[i] /\ n < m /\ ranked[n] \notin Had(results, i)
                       => /\ diverse
                          /\ Count(ranked[n].provider, results, i)
                               > Count(results[i].provider, results, i)

(* What the user is told is what happened to the calls: an answer from        *)
(* documents exactly when a call found one, a failure exactly when nothing    *)
(* was found and a call failed, and "not configured" only when none was made  *)
(* for the targets the plan named (generate_answer).                         *)
AnswerHonest ==
    phase = "done" =>
        LET found == \E i \in DOMAIN calls : calls[i].docs # <<>>
            broken == \E i \in DOMAIN calls : calls[i].state = "failed"
        IN  /\ answer \in {"llm", "first result"} <=> found
            /\ answer = "failed" <=> ~found /\ broken
            /\ answer = "not configured" =>
                  targets # <<>> /\ ToSet(targets) \cap registered = {}
            /\ answer = "nothing found" =>
                  \A i \in DOMAIN calls : calls[i].state = "ok"

(* A search ends, however long the providers keep silent (wait_for around     *)
(* each call, the fallbacks one by one).                                     *)
SearchEnds == (phase = "analyze") ~> (phase \in {"done", "raised"})
=============================================================================
