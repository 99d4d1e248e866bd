--------------------------- MODULE SearchEngineProofs ---------------------------
(***************************************************************************)
(* SearchEngine for any providers, documents and limits: its types, and what  *)
(* its candidates, its results and its answer say about the calls it made.   *)
(***************************************************************************)
EXTENDS SearchEngineOrder

(***************************************************************************)
(* Types.                                                                    *)
(***************************************************************************)
Call == [provider : Providers, state : {"asking", "ok", "failed"}, asked : Nat, docs : Batch]

TypeInv ==
    /\ TypeOK
    /\ calls \in Seq(Call)
    /\ standIns \in Seq(Web)
    /\ fused \in Seq(Docs)
    /\ ranked \in Seq(Docs)
    /\ results \in Seq(Docs)

LEMMA BatchIs ==
    /\ \A b \in Batch : b \in Seq(Docs) /\ Len(b) <= MaxBatch
    /\ <<>> \in Batch
<1>1. ASSUME NEW b \in Batch
      PROVE  b \in Seq(Docs) /\ Len(b) <= MaxBatch
  <2>1. PICK m \in 0..MaxBatch : b \in [1..m -> Docs]
    BY DEF Batch, SeqOf
  <2>2. m \in Nat /\ m <= MaxBatch
    BY <2>1, EngineAssumption
  <2> QED
    BY <2>1, <2>2
<1>2. <<>> \in Batch
  <2>1. 0 \in 0..MaxBatch /\ <<>> \in [1..0 -> Docs]
    BY EngineAssumption
  <2> QED
    BY <2>1 DEF Batch, SeqOf, IsInjective
<1> QED
  BY <1>1, <1>2

(* The providers selected are registered; they are all web providers or none  *)
(* is, and targets no one is registered for select nobody.                   *)
LEMMA SelectedAre ==
    ASSUME registered \in SUBSET Providers,
           NEW wanted \in Seq(Targets), NEW matching \in SUBSET registered
    PROVE  /\ Selected(wanted, matching) \in Seq(registered)
           /\ \/ \A i \in DOMAIN Selected(wanted, matching) :
                    Type[Selected(wanted, matching)[i]] = "web"
              \/ \A i \in DOMAIN Selected(wanted, matching) :
                    Type[Selected(wanted, matching)[i]] # "web"
           /\ wanted # <<>> /\ Selected(wanted, matching) = <<>> =>
                 ToSet(wanted) \cap registered = {}
<1> DEFINE sel == Selected(wanted, matching)
<1>1. CASE wanted # <<>>
  <2>1. sel = Within(wanted, registered)
    BY <1>1 DEF Selected
  <2>2. sel \in Seq(Targets) /\ ToSet(sel) = ToSet(wanted) \cap registered
    BY <2>1, Filtered
  <2> HIDE DEF sel
  <2>3. \A i \in DOMAIN sel : sel[i] \in registered /\ sel[i] \in Targets
    BY <2>2 DEF ToSet
  <2>4. sel \in Seq(registered)
    BY <2>2, <2>3
  <2>5. \A i \in DOMAIN sel : Type[sel[i]] = "web"
    BY <2>3, EngineAssumption DEF Remote
  <2>6. sel = <<>> => ToSet(sel) = {}
    BY DEF ToSet
  <2> QED
    BY <2>2, <2>4, <2>5, <2>6 DEF sel
<1>2. CASE wanted = <<>>
  <2> DEFINE dedicated == {p \in matching : Type[p] \in {"public", "internal"}}
             S == IF dedicated # {} THEN dedicated ELSE Web
  <2>1. sel = ByStanding(S)
    BY <1>2 DEF Selected
  <2>2. S \in SUBSET registered
    BY DEF Web
  <2>3. (\A p \in S : Type[p] = "web") \/ (\A p \in S : Type[p] # "web")
    BY DEF Web
  <2> HIDE DEF sel, S
  <2>4. sel \in Seq(S) /\ ToSet(sel) = S
    BY <2>1, <2>2, Sorted
  <2>5. \A i \in DOMAIN sel : sel[i] \in S
    BY <2>4
  <2>6. sel \in Seq(registered)
    BY <2>2, <2>4
  <2> QED
    BY <1>2, <2>3, <2>5, <2>6 DEF sel
<1> QED
  BY <1>1, <1>2

(* Batches, and Batches chained, are sequences of sequences of documents. *)
LEMMA BatchesAre ==
    ASSUME TypeInv
    PROVE  /\ Batches \in Seq(Seq(Docs))
           /\ DOMAIN Batches = DOMAIN calls
           /\ \A i \in DOMAIN calls : /\ Batches[i] = calls[i].docs
                                      /\ Len(Batches[i]) <= MaxBatch
           /\ Chained(Batches) \in Seq(Docs)
           /\ <<Chained(Batches)>> \in Seq(Seq(Docs))
<1>1. \A i \in DOMAIN calls : calls[i].docs \in Batch
  BY DEF TypeInv, TypeOK
<1>2. calls \in Seq(Call)
  BY DEF TypeInv
<1>3. \A i \in DOMAIN calls : calls[i].docs \in Seq(Docs) /\ Len(calls[i].docs) <= MaxBatch
  BY <1>1, BatchIs
<1>4. Batches \in Seq(Seq(Docs))
  BY <1>2, <1>3 DEF Batches
<1>5. Chained(Batches) \in Seq(Docs)
  BY <1>4, Concatenated
<1> QED
  BY <1>3, <1>4, <1>5 DEF Batches

LEMMA SeqMade ==
    ASSUME NEW T, NEW k \in Nat, NEW s \in [1..k -> T]
    PROVE  s \in Seq(T) /\ Len(s) = k /\ DOMAIN s = 1..k
OBVIOUS

(***************************************************************************)
(* What Settle does, whatever the candidates.                                *)
(***************************************************************************)
LEMMA Picked ==
    ASSUME NEW seq \in Seq(Docs), NEW total, NEW spread,
           NEW r \in Diverse(seq, total, spread)
    PROVE  /\ Min({Len(seq), MaxResults}) \in Nat
           /\ r \in [1..Min({Len(seq), MaxResults}) -> ToSet(seq)]
           /\ r \in Seq(Docs)
           /\ Len(r) = Min({Len(seq), MaxResults})
<1>1. Min({Len(seq), MaxResults}) \in Nat
  <2>1. {Len(seq), MaxResults} \in SUBSET Nat
    BY EngineAssumption
  <2> QED
    BY <2>1, MinIs
<1>2. r \in [1..Min({Len(seq), MaxResults}) -> ToSet(seq)]
  BY DEF Diverse
<1>3. ToSet(seq) \subseteq Docs
  BY DEF ToSet
<1>4. r \in [1..Min({Len(seq), MaxResults}) -> Docs]
  BY <1>2, <1>3
<1> QED
  BY <1>1, <1>2, <1>4, SeqMade

LEMMA Settling ==
    ASSUME NEW cands \in Seq(Docs), NEW batches \in Seq(Seq(Docs)), Settle(cands, batches)
    PROVE  /\ phase' = "answer" /\ diverse' \in BOOLEAN /\ fused' = cands
           /\ \E total \in [ToSet(cands) -> Int] :
                 /\ ranked' = Ranking(ToSet(cands), total)
                 /\ ranked' \in Seq(Docs)
                 /\ ToSet(ranked') = ToSet(cands)
                 /\ IF diverse' /\ Len(ranked') > 1
                    THEN results' \in Diverse(ranked', total, Spread(ToSet(cands), batches))
                    ELSE results' = [n \in 1..Min({Len(ranked'), MaxResults}) |-> ranked'[n]]
           /\ results' \in Seq(Docs)
<1>1. phase' = "answer" /\ diverse' \in BOOLEAN /\ fused' = cands
  BY DEF Settle
<1>2. ToSet(cands) \in SUBSET Docs
  BY DEF ToSet
<1>3. PICK merit \in Merits :
         LET total == Totals(ToSet(cands), batches, merit)
         IN  /\ ranked' = Ranking(ToSet(cands), total)
             /\ IF diverse' /\ Len(ranked') > 1
                THEN results' \in Diverse(ranked', total, Spread(ToSet(cands), batches))
                ELSE results' = [n \in 1..Min({Len(ranked'), MaxResults}) |-> ranked'[n]]
  BY Zenon DEF Settle
<1> DEFINE total == Totals(ToSet(cands), batches, merit)
<1>4. total \in [ToSet(cands) -> Int]
  BY <1>2, TotalsAre
<1> HIDE DEF total
<1>5. ranked' \in Seq(ToSet(cands)) /\ ToSet(ranked') = ToSet(cands)
  <2>1. ranked' = Ranking(ToSet(cands), total)
    BY <1>3 DEF total
  <2> QED
    BY <1>2, <1>4, <2>1, RankedBy
<1>6. ranked' \in Seq(Docs)
  BY <1>2, <1>5
<1>7. results' \in Seq(Docs)
  <2>1. CASE diverse' /\ Len(ranked') > 1
    <3>1. results' \in Diverse(ranked', total, Spread(ToSet(cands), batches))
      BY <1>3, <2>1 DEF total
    <3> QED
      BY <1>6, <3>1, Picked
  <2>2. CASE ~(diverse' /\ Len(ranked') > 1)
    <3>1. results' = [n \in 1..Min({Len(ranked'), MaxResults}) |-> ranked'[n]]
      BY <1>3, <2>2
    <3>2. Min({Len(ranked'), MaxResults}) \in Nat /\ Min({Len(ranked'), MaxResults}) <= Len(ranked')
      <4>1. {Len(ranked'), MaxResults} \in SUBSET Nat
        BY <1>6, EngineAssumption
      <4> QED
        BY <4>1, MinIs
    <3>3. \A n \in 1..Min({Len(ranked'), MaxResults}) : ranked'[n] \in Docs
      <4>1. Len(ranked') \in Nat /\ \A n \in 1..Len(ranked') : ranked'[n] \in Docs
        BY <1>6
      <4> QED
        BY <3>2, <4>1
    <3>4. results' \in [1..Min({Len(ranked'), MaxResults}) -> Docs]
      BY <3>1, <3>3
    <3> QED
      BY <3>2, <3>4, SeqMade
  <2> QED
    BY <2>1, <2>2
<1>8. /\ ranked' = Ranking(ToSet(cands), total)
      /\ IF diverse' /\ Len(ranked') > 1
         THEN results' \in Diverse(ranked', total, Spread(ToSet(cands), batches))
         ELSE results' = [n \in 1..Min({Len(ranked'), MaxResults}) |-> ranked'[n]]
  BY <1>3, Zenon DEF total
<1> QED
  BY <1>1, <1>4, <1>5, <1>6, <1>7, <1>8

(***************************************************************************)
(* Type correctness.                                                         *)
(***************************************************************************)
CallOK(c) ==
    /\ c.provider \in registered
    /\ c.state \in {"asking", "ok", "failed"}
    /\ c.asked \in 1..Tries[c.provider]
    /\ c.docs \in Batch

LEMMA AskIs ==
    ASSUME registered \in SUBSET Providers, NEW p \in registered
    PROVE  Ask(p) \in Call /\ CallOK(Ask(p))
<1>1. Tries[p] \in 1..2
  BY EngineAssumption
<1>2. 1 \in 1..Tries[p] /\ 1 \in Nat
  BY <1>1
<1>3. p \in Providers /\ <<>> \in Batch
  BY BatchIs
<1> QED
  BY <1>2, <1>3 DEF Ask, Call, CallOK

(* One call changes, the others do not. *)
LEMMA CallTyped ==
    ASSUME TypeInv, NEW i \in DOMAIN calls, NEW c \in Call, CallOK(c),
           calls' = [calls EXCEPT ![i] = c],
           UNCHANGED <<registered, phase, targets, standIns, fused, ranked, diverse,
                       results, answer>>
    PROVE  TypeInv'
<1>1. calls \in Seq(Call) /\ \A j \in DOMAIN calls : CallOK(calls[j])
  BY DEF TypeInv, TypeOK, CallOK
<1>2. calls' \in Seq(Call) /\ DOMAIN calls' = DOMAIN calls
  BY <1>1
<1>3. \A j \in DOMAIN calls' : CallOK(calls'[j])
  BY <1>1, <1>2
<1>4. Web' = Web
  BY DEF Web
<1> QED
  BY <1>2, <1>3, <1>4, Zenon DEF TypeInv, TypeOK, CallOK

LEMMA InitTyped == Init => TypeInv
<1> SUFFICES ASSUME Init
             PROVE  TypeInv
  OBVIOUS
<1>1. targets \in SeqOf(Targets, MaxTargets)
  <2>1. 0 \in 0..MaxTargets /\ <<>> \in [1..0 -> Targets]
    BY EngineAssumption
  <2> QED
    BY <2>1 DEF Init, SeqOf
<1>2. registered \in SUBSET Providers
  BY DEF Init
<1>3. /\ calls = <<>> /\ standIns = <<>> /\ fused = <<>> /\ ranked = <<>>
      /\ results = <<>> /\ diverse = FALSE /\ answer = "" /\ phase = "analyze"
  BY DEF Init
<1>4. ToSet(<<>>) = {} /\ DOMAIN calls = {}
  <2>1. DOMAIN <<>> = {}
    OBVIOUS
  <2> QED
    BY <1>3, <2>1, Zenon DEF ToSet
<1>5. TypeOK
  BY <1>1, <1>2, <1>3, <1>4 DEF TypeOK, Messages
<1>6. \A T : <<>> \in Seq(T)
  OBVIOUS
<1>7. /\ calls \in Seq(Call) /\ standIns \in Seq(Web) /\ fused \in Seq(Docs)
      /\ ranked \in Seq(Docs) /\ results \in Seq(Docs)
  BY <1>3, <1>6
<1> QED
  BY <1>5, <1>7 DEF TypeInv

LEMMA StepTyped == TypeInv /\ [Next]_vars => TypeInv'
<1> SUFFICES ASSUME TypeInv, [Next]_vars
             PROVE  TypeInv'
  OBVIOUS
<1>0. /\ registered \in SUBSET Providers
      /\ calls \in Seq(Call) /\ \A j \in DOMAIN calls : CallOK(calls[j])
      /\ targets \in SeqOf(Targets, MaxTargets)
      /\ standIns \in Seq(Web) /\ ToSet(standIns) \subseteq Remote
      /\ fused \in Seq(Docs) /\ ranked \in Seq(Docs) /\ results \in Seq(Docs)
      /\ diverse \in BOOLEAN /\ answer \in Messages
      /\ ToSet(fused) \cup ToSet(ranked) \cup ToSet(results) \subseteq Docs
  BY DEF TypeInv, TypeOK, CallOK
<1>w. Web \subseteq Remote /\ Web \subseteq registered
  BY <1>0 DEF Web, Remote
<1>s. \A s \in Seq(Docs) : ToSet(s) \subseteq Docs
  BY DEF ToSet
<1>1. CASE Analyze
  <2>1. PICK n \in 0..MaxTargets : targets' \in [1..n -> Targets]
    BY <1>1 DEF Analyze
  <2>2. PICK matching \in SUBSET registered : calls' = Asked(targets', matching)
    BY <1>1 DEF Analyze
  <2> DEFINE sel == Selected(targets', matching)
  <2>3. targets' \in Seq(Targets)
    BY <2>1
  <2>4. sel \in Seq(registered)
    BY <1>0, <2>3, SelectedAre
  <2>5. calls' = [i \in DOMAIN sel |-> Ask(sel[i])]
    BY <2>2 DEF Asked
  <2> HIDE DEF sel
  <2>6. \A i \in DOMAIN sel : Ask(sel[i]) \in Call /\ CallOK(Ask(sel[i]))
    BY <1>0, <2>4, AskIs
  <2>7. calls' \in Seq(Call)
    BY <2>4, <2>5, <2>6
  <2>8. \A i \in DOMAIN calls' : CallOK(calls'[i])
    BY <2>5, <2>6
  <2>9. targets' \in SeqOf(Targets, MaxTargets)
    BY <2>1 DEF SeqOf
  <2>10. /\ registered' = registered /\ standIns' = standIns /\ fused' = fused
         /\ ranked' = ranked /\ diverse' = diverse /\ results' = results
         /\ answer' = answer /\ phase' = "gather"
    BY <1>1 DEF Analyze
  <2>11. Web' = Web
    BY <2>10 DEF Web
  <2>12. TypeOK'
    BY <1>0, <2>8, <2>9, <2>10 DEF TypeOK, CallOK
  <2> QED
    BY <1>0, <2>7, <2>10, <2>11, <2>12 DEF TypeInv
<1>2. ASSUME NEW i \in DOMAIN calls, NEW state \in {"ok", "failed"}, NEW docs \in Batch,
             Becomes(i, state, docs)
      PROVE  TypeInv'
  <2> DEFINE c == [calls[i] EXCEPT !.state = state, !.docs = docs]
  <2>1. calls[i] \in Call /\ CallOK(calls[i])
    BY <1>0
  <2>2. c \in Call
    BY <2>1 DEF Call
  <2>3. CallOK(c)
    BY <2>1 DEF Call, CallOK
  <2>4. calls' = [calls EXCEPT ![i] = c]
    BY <1>0, <1>2 DEF Becomes
  <2>5. UNCHANGED <<registered, phase, targets, standIns, fused, ranked, diverse,
                    results, answer>>
    BY <1>2 DEF Becomes
  <2> HIDE DEF c
  <2> QED
    BY <2>2, <2>3, <2>4, <2>5, CallTyped
<1>3. ASSUME NEW i \in DOMAIN calls,
             Respond(i) \/ LookUp(i) \/ ResponseInvalid(i) \/ Timeout(i)
      PROVE  TypeInv'
  BY <1>2, <1>3, BatchIs DEF Respond, LookUp, Answers, ResponseInvalid, Timeout
<1>4. ASSUME NEW i \in DOMAIN calls, RequestFails(i)
      PROVE  TypeInv'
  <2>1. CASE MayRetry(i)
    <3> DEFINE c == [calls[i] EXCEPT !.asked = @ + 1]
    <3>1. calls[i] \in Call /\ CallOK(calls[i])
      BY <1>0
    <3>2. Tries[calls[i].provider] \in 1..2
      BY <1>0, <3>1, EngineAssumption DEF CallOK
    <3>3. calls[i].asked + 1 \in 1..Tries[calls[i].provider] /\ calls[i].asked + 1 \in Nat
      BY <2>1, <3>1, <3>2 DEF CallOK, MayRetry
    <3>4. c \in Call
      BY <3>1, <3>3 DEF Call
    <3>5. CallOK(c)
      BY <3>1, <3>3 DEF Call, CallOK
    <3>6. calls' = [calls EXCEPT ![i] = c]
      BY <1>0, <1>4, <2>1 DEF RequestFails
    <3>7. UNCHANGED <<registered, phase, targets, standIns, fused, ranked, diverse,
                      results, answer>>
      BY <1>4, <2>1 DEF RequestFails
    <3> HIDE DEF c
    <3> QED
      BY <3>4, <3>5, <3>6, <3>7, CallTyped
  <2>2. CASE ~MayRetry(i)
    BY <1>2, <1>4, <2>2, BatchIs DEF RequestFails
  <2> QED
    BY <2>1, <2>2
<1>5. ASSUME NEW cands \in Seq(Docs), NEW batches \in Seq(Seq(Docs)),
             Settle(cands, batches), UNCHANGED <<registered, targets, calls, standIns, answer>>
      PROVE  TypeInv'
  <2>1. /\ phase' = "answer" /\ diverse' \in BOOLEAN /\ fused' \in Seq(Docs)
        /\ ranked' \in Seq(Docs) /\ results' \in Seq(Docs)
    BY <1>5, Settling
  <2>2. Web' = Web
    BY <1>5 DEF Web
  <2>3. \A j \in DOMAIN calls' : CallOK(calls[j])'
    BY <1>0, <1>5 DEF CallOK
  <2>4. /\ ToSet(fused') \subseteq Docs /\ ToSet(ranked') \subseteq Docs
        /\ ToSet(results') \subseteq Docs
    BY <1>s, <2>1
  <2>5. TypeOK'
    BY <1>0, <1>5, <2>1, <2>3, <2>4 DEF TypeOK, CallOK
  <2> QED
    BY <1>0, <1>5, <2>1, <2>2, <2>5 DEF TypeInv
<1>6. CASE Gathered
  <2>1. CASE Candidates = <<>> /\ AllPublic
    <3>1. /\ phase' = "fallback" /\ standIns' = ByOrder(Web)
          /\ UNCHANGED <<fused, ranked, diverse, results, registered, targets, calls, answer>>
      BY <1>6, <2>1 DEF Gathered
    <3>2. Web \in SUBSET Providers
      BY <1>0, <1>w
    <3>3. standIns' \in Seq(Web) /\ ToSet(standIns') \subseteq Remote
      BY <1>w, <3>1, <3>2, Sorted
    <3>4. Web' = Web
      BY <3>1 DEF Web
    <3>5. TypeOK'
      BY <1>0, <3>1, <3>3 DEF TypeOK, CallOK
    <3> QED
      BY <1>0, <3>1, <3>3, <3>4, <3>5 DEF TypeInv
  <2>2. CASE ~(Candidates = <<>> /\ AllPublic)
    <3> DEFINE batches == IF UsesWeb THEN Batches ELSE <<>>
    <3>1. Settle(Candidates, batches) /\ UNCHANGED <<registered, targets, calls, standIns, answer>>
      BY <1>6, <2>2 DEF Gathered
    <3>2. Batches \in Seq(Seq(Docs)) /\ Chained(Batches) \in Seq(Docs)
      BY BatchesAre
    <3>3. Fusion(Batches) \in Seq(Docs)
      BY <3>2, Fused
    <3>4. batches \in Seq(Seq(Docs)) /\ Candidates \in Seq(Docs)
      BY <3>2, <3>3 DEF Candidates
    <3> HIDE DEF batches
    <3> QED
      BY <3>1, <3>4, <1>5
  <2> QED
    BY <2>1, <2>2
<1>7. CASE AskNext
  <2>1. Head(standIns) \in Web /\ Tail(standIns) \in Seq(Web)
    BY <1>0, <1>7 DEF AskNext
  <2>2. Ask(Head(standIns)) \in Call /\ CallOK(Ask(Head(standIns)))
    BY <1>0, <1>w, <2>1, AskIs
  <2>3. /\ calls' = Append(calls, Ask(Head(standIns))) /\ standIns' = Tail(standIns)
        /\ UNCHANGED <<registered, phase, targets, fused, ranked, diverse, results, answer>>
    BY <1>7 DEF AskNext
  <2>4. calls' \in Seq(Call) /\ \A j \in DOMAIN calls' : CallOK(calls'[j])
    BY <1>0, <2>2, <2>3
  <2>5. Web' = Web
    BY <2>3 DEF Web
  <2>6. ToSet(standIns') \subseteq Remote
    BY <1>w, <2>1, <2>3 DEF ToSet
  <2>7. phase' \in {"analyze", "gather", "fallback", "answer", "done", "raised"}
    BY <2>3 DEF TypeInv, TypeOK
  <2>8. TypeOK'
    BY <1>0, <2>3, <2>4, <2>6, <2>7 DEF TypeOK, CallOK
  <2> QED
    BY <1>0, <2>1, <2>3, <2>4, <2>5, <2>8 DEF TypeInv
<1>8. CASE FallbackEnds
  <2>1. <<Chained(Batches)>> \in Seq(Seq(Docs))
    BY BatchesAre
  <2>2. Fusion(<<Chained(Batches)>>) \in Seq(Docs)
    BY <2>1, Fused
  <2> QED
    BY <1>5, <1>8, <2>1, <2>2 DEF FallbackEnds
<1>9. ASSUME UNCHANGED <<registered, targets, calls, standIns, fused, ranked, diverse, results>>,
             phase' \in {"analyze", "gather", "fallback", "answer", "done", "raised"},
             answer' \in Messages
      PROVE  TypeInv'
  <2>1. Web' = Web
    BY <1>9 DEF Web
  <2>2. TypeOK'
    BY <1>0, <1>9 DEF TypeOK, CallOK
  <2> QED
    BY <1>0, <1>9, <2>1, <2>2 DEF TypeInv
<1>10. CASE AnalyzeFails
  BY <1>0, <1>9, <1>10 DEF AnalyzeFails
<1>11. CASE AnswerWithout \/ AnswerFrom
  BY <1>9, <1>11 DEF AnswerWithout, AnswerFrom, Says, Messages
<1>12. CASE AnswerFails
  BY <1>0, <1>9, <1>12 DEF AnswerFails
<1>13. CASE UNCHANGED vars
  <2>1. phase' \in {"analyze", "gather", "fallback", "answer", "done", "raised"}
    BY <1>13 DEF vars, TypeInv, TypeOK
  <2> QED
    BY <1>0, <1>9, <1>13, <2>1 DEF vars
<1> QED
  BY <1>1, <1>3, <1>4, <1>6, <1>7, <1>8, <1>10, <1>11, <1>12, <1>13 DEF Next

LEMMA Typed == Spec => []TypeInv
<1> QED
  BY InitTyped, StepTyped, PTL DEF Spec

(* No variable leaves its type: a call is never asked more often than its      *)
(* provider allows, what is asked is registered, and the candidates, the      *)
(* ranking and the results hold documents only.                              *)
THEOREM TypeCorrect == Spec => []TypeOK
<1>1. TypeInv => TypeOK
  BY DEF TypeInv
<1> QED
  BY <1>1, Typed, PTL

(***************************************************************************)
(* The calls.  Only a call that succeeded has documents, none is outstanding  *)
(* when the results stand, web providers are not mixed with others except in  *)
(* a fallback, and there the others have found nothing.                      *)
(***************************************************************************)
IsWeb(c) == Type[c.provider] = "web"

CallInv ==
    /\ \A i \in DOMAIN calls : calls[i].state # "ok" => calls[i].docs = <<>>
    /\ Settled => Answered
    /\ phase = "gather" => \/ \A i \in DOMAIN calls : IsWeb(calls[i])
                           \/ \A i \in DOMAIN calls : ~IsWeb(calls[i])
    /\ phase = "fallback" =>
          /\ FellBack
          /\ \A i \in DOMAIN calls : ~IsWeb(calls[i]) =>
                calls[i].state # "asking" /\ calls[i].docs = <<>>
    /\ phase \notin {"analyze", "raised"} /\ targets # <<>> /\ calls = <<>> =>
          ToSet(targets) \cap registered = {}

(* The candidates that are merely chained hold every document found. *)
LEMMA ChainedHolds ==
    ASSUME TypeInv
    PROVE  /\ \A i \in DOMAIN calls : \A j \in DOMAIN calls[i].docs :
                 calls[i].docs[j] \in ToSet(Chained(Batches))
           /\ Chained(Batches) # <<>> => \E i \in DOMAIN calls : calls[i].docs # <<>>
<1>1. /\ Batches \in Seq(Seq(Docs)) /\ DOMAIN Batches = DOMAIN calls
      /\ \A i \in DOMAIN calls : Batches[i] = calls[i].docs
      /\ Chained(Batches) \in Seq(Docs)
  BY BatchesAre
<1>2. PICK place \in [DOMAIN Chained(Batches) -> Nat \X Nat] :
         /\ \A n \in DOMAIN Chained(Batches) :
               /\ place[n][1] \in DOMAIN Batches
               /\ place[n][2] \in DOMAIN Batches[place[n][1]]
               /\ Chained(Batches)[n] = Batches[place[n][1]][place[n][2]]
         /\ \A i \in DOMAIN Batches : \A j \in DOMAIN Batches[i] :
               \E n \in DOMAIN Chained(Batches) : place[n] = <<i, j>>
         /\ \A m, n \in DOMAIN Chained(Batches) : m <= n => place[m][1] <= place[n][1]
  BY <1>1, Concatenated
<1>3. ASSUME NEW i \in DOMAIN calls, NEW j \in DOMAIN calls[i].docs
      PROVE  calls[i].docs[j] \in ToSet(Chained(Batches))
  <2>1. i \in DOMAIN Batches /\ j \in DOMAIN Batches[i]
    BY <1>1
  <2>2. PICK n \in DOMAIN Chained(Batches) : place[n] = <<i, j>>
    BY <1>2, <2>1
  <2>3. Chained(Batches)[n] = Batches[i][j]
    BY <1>2, <2>2
  <2> QED
    BY <1>1, <2>3 DEF ToSet
<1>4. ASSUME Chained(Batches) # <<>>
      PROVE  \E i \in DOMAIN calls : calls[i].docs # <<>>
  <2>1. 1 \in DOMAIN Chained(Batches)
    BY <1>1, <1>4
  <2>2. place[1][1] \in DOMAIN calls /\ place[1][2] \in DOMAIN calls[place[1][1]].docs
    BY <1>1, <1>2, <2>1
  <2>3. DOMAIN <<>> = {}
    OBVIOUS
  <2> QED
    BY <2>2, <2>3
<1> QED
  BY <1>3, <1>4

LEMMA InitCalls == Init => CallInv
<1> SUFFICES ASSUME Init
             PROVE  CallInv
  OBVIOUS
<1>1. calls = <<>> /\ phase = "analyze"
  BY DEF Init
<1>2. DOMAIN calls = {}
  BY <1>1
<1> QED
  BY <1>1, <1>2 DEF CallInv, Settled

LEMMA StepCalls == TypeInv /\ CallInv /\ [Next]_vars => CallInv'
<1> SUFFICES ASSUME TypeInv, CallInv, [Next]_vars
             PROVE  CallInv'
  OBVIOUS
<1>0. /\ registered \in SUBSET Providers /\ calls \in Seq(Call) /\ standIns \in Seq(Web)
      /\ \A i \in DOMAIN calls : calls[i].docs \in Seq(Docs)
  BY BatchIs DEF TypeInv, TypeOK
<1>1. CASE Analyze
  <2>1. PICK n \in 0..MaxTargets : targets' \in [1..n -> Targets]
    BY <1>1 DEF Analyze
  <2>2. PICK matching \in SUBSET registered : calls' = Asked(targets', matching)
    BY <1>1 DEF Analyze
  <2> DEFINE sel == Selected(targets', matching)
  <2>3. targets' \in Seq(Targets)
    BY <2>1
  <2>4. /\ sel \in Seq(registered)
        /\ \/ \A i \in DOMAIN sel : Type[sel[i]] = "web"
           \/ \A i \in DOMAIN sel : Type[sel[i]] # "web"
        /\ targets' # <<>> /\ sel = <<>> => ToSet(targets') \cap registered = {}
    BY <1>0, <2>3, SelectedAre
  <2>5. calls' = [i \in DOMAIN sel |-> Ask(sel[i])]
    BY <2>2 DEF Asked
  <2> HIDE DEF sel
  <2>6. DOMAIN calls' = DOMAIN sel
        /\ \A i \in DOMAIN sel : calls'[i].provider = sel[i] /\ calls'[i].docs = <<>>
    BY <2>5 DEF Ask
  <2>7. calls' = <<>> => sel = <<>>
    <3>1. DOMAIN <<>> = {}
      OBVIOUS
    <3> QED
      BY <2>4, <2>6, <3>1
  <2>8. phase' = "gather" /\ registered' = registered
    BY <1>1 DEF Analyze
  <2>9. \/ \A i \in DOMAIN calls' : Type[calls'[i].provider] = "web"
        \/ \A i \in DOMAIN calls' : Type[calls'[i].provider] # "web"
    BY <2>4, <2>6
  <2>10. targets' # <<>> /\ calls' = <<>> => ToSet(targets') \cap registered' = {}
    BY <2>4, <2>7, <2>8
  <2>11. \A i \in DOMAIN calls' : calls'[i].docs = <<>>
    BY <2>6
  <2> QED
    BY <2>8, <2>9, <2>10, <2>11, Zenon DEF CallInv, IsWeb, Settled
<1>2. ASSUME NEW i \in DOMAIN calls, Asking(i), NEW c, c.provider = calls[i].provider,
             c.state # "ok" => c.docs = <<>>,
             calls' = [calls EXCEPT ![i] = c],
             UNCHANGED <<registered, phase, targets>>
      PROVE  CallInv'
  <2>1. /\ DOMAIN calls' = DOMAIN calls /\ calls # <<>> /\ calls' # <<>>
        /\ \A j \in DOMAIN calls : j # i => calls'[j] = calls[j]
        /\ calls'[i] = c
    <3>1. DOMAIN <<>> = {}
      OBVIOUS
    <3> QED
      BY <1>0, <1>2, <3>1
  <2>2. \A j \in DOMAIN calls : calls'[j].provider = calls[j].provider
    BY <1>2, <2>1
  <2>3. ~Settled
    BY <1>2 DEF CallInv, Answered, Asking
  <2>4. \A j \in DOMAIN calls' : calls'[j].state # "ok" => calls'[j].docs = <<>>
    BY <1>2, <2>1 DEF CallInv
  <2>5. phase = "fallback" => IsWeb(calls[i])
    BY <1>2 DEF CallInv, Asking
  <2>6. phase' = "gather" => \/ \A j \in DOMAIN calls' : Type[calls'[j].provider] = "web"
                            \/ \A j \in DOMAIN calls' : Type[calls'[j].provider] # "web"
    BY <1>2, <2>1, <2>2 DEF CallInv, IsWeb
  <2>7. phase' = "fallback" =>
          /\ \E j \in DOMAIN calls' : Type[calls'[j].provider] = "public"
          /\ \A j \in DOMAIN calls' : Type[calls'[j].provider] # "web" =>
                calls'[j].state # "asking" /\ calls'[j].docs = <<>>
    BY <1>2, <2>1, <2>2, <2>5 DEF CallInv, IsWeb, FellBack
  <2> QED
    BY <1>2, <2>1, <2>3, <2>4, <2>6, <2>7, Zenon DEF CallInv, IsWeb, FellBack, Settled
<1>3. ASSUME NEW i \in DOMAIN calls, Asking(i), NEW state \in {"ok", "failed"}, NEW docs,
             state = "ok" \/ docs = <<>>, Becomes(i, state, docs)
      PROVE  CallInv'
  <2> DEFINE c == [calls[i] EXCEPT !.state = state, !.docs = docs]
  <2>1. calls[i] \in Call
    BY <1>0
  <2>2. c.provider = calls[i].provider /\ c.state = state /\ c.docs = docs
    BY <2>1 DEF Call
  <2>3. calls' = [calls EXCEPT ![i] = c]
    BY <1>0, <1>3 DEF Becomes
  <2>4. UNCHANGED <<registered, phase, targets>>
    BY <1>3 DEF Becomes
  <2> HIDE DEF c
  <2> QED
    BY <1>2, <1>3, <2>2, <2>3, <2>4
<1>4. ASSUME NEW i \in DOMAIN calls,
             Respond(i) \/ LookUp(i) \/ ResponseInvalid(i) \/ Timeout(i)
      PROVE  CallInv'
  BY <1>3, <1>4 DEF Respond, LookUp, Answers, ResponseInvalid, Timeout
<1>5. ASSUME NEW i \in DOMAIN calls, RequestFails(i)
      PROVE  CallInv'
  <2>1. CASE MayRetry(i)
    <3> DEFINE c == [calls[i] EXCEPT !.asked = @ + 1]
    <3>1. calls[i] \in Call
      BY <1>0
    <3>2. c.provider = calls[i].provider /\ c.state = calls[i].state /\ c.docs = calls[i].docs
      BY <3>1 DEF Call
    <3>3. calls' = [calls EXCEPT ![i] = c] /\ Asking(i)
      BY <1>0, <1>5, <2>1 DEF RequestFails
    <3>4. UNCHANGED <<registered, phase, targets>>
      BY <1>5, <2>1 DEF RequestFails
    <3>5. c.state # "ok" => c.docs = <<>>
      BY <3>2 DEF CallInv
    <3> HIDE DEF c
    <3> QED
      BY <1>2, <3>2, <3>3, <3>4, <3>5
  <2>2. CASE ~MayRetry(i)
    BY <1>3, <1>5, <2>2 DEF RequestFails
  <2> QED
    BY <2>1, <2>2
<1>6. ASSUME UNCHANGED <<registered, targets, calls>>,
             phase' \in {"answer", "done"} => Answered,
             phase' = "gather" => phase = "gather",
             phase' = "fallback" => phase = "fallback",
             phase' \notin {"analyze", "raised"} => phase \notin {"analyze", "raised"}
      PROVE  CallInv'
  BY <1>6, Zenon DEF CallInv, IsWeb, FellBack, Settled, Answered
<1>7. CASE Gathered
  <2>1. CASE Candidates = <<>> /\ AllPublic
    <3>1. /\ phase = "gather" /\ phase' = "fallback" /\ Answered
          /\ UNCHANGED <<registered, targets, calls>>
      BY <1>7, <2>1 DEF Gathered
    <3>2. \A i \in DOMAIN calls : Type[calls[i].provider] = "public"
      BY <2>1 DEF AllPublic
    <3>3. ~UsesWeb
      BY <3>2 DEF UsesWeb
    <3>4. Chained(Batches) = <<>>
      BY <2>1, <3>3 DEF Candidates
    <3>5. \A i \in DOMAIN calls : calls[i].docs = <<>>
      <4> TAKE i \in DOMAIN calls
      <4>1. ToSet(<<>>) = {}
        <5>1. DOMAIN <<>> = {}
          OBVIOUS
        <5> QED
          BY <5>1, Zenon DEF ToSet
      <4>2. \A j \in DOMAIN calls[i].docs : FALSE
        BY <3>4, <4>1, ChainedHolds
      <4>3. calls[i].docs # <<>> => 1 \in DOMAIN calls[i].docs
        <5>1. \A d \in Seq(Docs) : d # <<>> => 1 \in DOMAIN d
          OBVIOUS
        <5> QED
          BY <1>0, <5>1
      <4> QED
        BY <4>2, <4>3
    <3>6. FellBack
      <4>1. 1 \in DOMAIN calls
        BY <1>0, <2>1 DEF AllPublic
      <4> QED
        BY <3>2, <4>1 DEF FellBack
    <3>7. calls # <<>>
      BY <2>1 DEF AllPublic
    <3> QED
      BY <3>1, <3>5, <3>6, <3>7, Zenon DEF CallInv, IsWeb, FellBack, Settled, Answered
  <2>2. CASE ~(Candidates = <<>> /\ AllPublic)
    <3>1. /\ phase = "gather" /\ phase' = "answer" /\ Answered
          /\ UNCHANGED <<registered, targets, calls>>
      BY <1>7, <2>2 DEF Gathered, Settle
    <3> QED
      BY <1>6, <3>1
  <2> QED
    BY <2>1, <2>2
<1>8. CASE AskNext
  <2> DEFINE p == Head(standIns)
  <2>1. /\ phase = "fallback" /\ phase' = "fallback" /\ calls' = Append(calls, Ask(p))
        /\ UNCHANGED <<registered, targets>>
    BY <1>8 DEF AskNext
  <2>2. p \in Web
    BY <1>0, <1>8 DEF AskNext
  <2>3. Type[p] = "web" /\ Ask(p).provider = p /\ Ask(p).docs = <<>>
    BY <2>2 DEF Web, Ask
  <2> HIDE DEF p
  <2>4. /\ \A j \in DOMAIN calls' : (j \in DOMAIN calls /\ calls'[j] = calls[j]) \/ calls'[j] = Ask(p)
        /\ \A j \in DOMAIN calls : j \in DOMAIN calls' /\ calls'[j] = calls[j]
        /\ calls' # <<>>
    BY <1>0, <2>1
  <2>5. \A j \in DOMAIN calls' : calls'[j].state # "ok" => calls'[j].docs = <<>>
    BY <2>3, <2>4 DEF CallInv
  <2>6. /\ \E j \in DOMAIN calls' : Type[calls'[j].provider] = "public"
        /\ \A j \in DOMAIN calls' : Type[calls'[j].provider] # "web" =>
              calls'[j].state # "asking" /\ calls'[j].docs = <<>>
    BY <2>1, <2>3, <2>4 DEF CallInv, IsWeb, FellBack
  <2> QED
    BY <2>1, <2>4, <2>5, <2>6, Zenon DEF CallInv, IsWeb, FellBack, Settled
<1>9. CASE FallbackEnds
  <2>1. /\ phase = "fallback" /\ phase' = "answer" /\ Answered
        /\ UNCHANGED <<registered, targets, calls>>
    BY <1>9 DEF FallbackEnds, Settle
  <2> QED
    BY <1>6, <2>1
<1>10. CASE AnalyzeFails \/ AnswerFails
  <2>1. phase' = "raised" /\ UNCHANGED <<registered, targets, calls>>
    BY <1>10 DEF AnalyzeFails, AnswerFails
  <2> QED
    BY <1>6, <2>1
<1>11. CASE AnswerWithout \/ AnswerFrom
  <2>1. phase = "answer" /\ phase' = "done" /\ UNCHANGED <<registered, targets, calls>>
    BY <1>11 DEF AnswerWithout, AnswerFrom, Says
  <2>2. Answered
    BY <2>1 DEF CallInv, Settled
  <2> QED
    BY <1>6, <2>1, <2>2
<1>12. CASE UNCHANGED vars
  <2>1. UNCHANGED <<registered, targets, calls, phase>>
    BY <1>12 DEF vars
  <2>2. phase \in {"answer", "done"} => Answered
    BY DEF CallInv, Settled
  <2> QED
    BY <1>6, <2>1, <2>2
<1> QED
  BY <1>1, <1>4, <1>5, <1>7, <1>8, <1>9, <1>10, <1>11, <1>12 DEF Next

LEMMA Called == Spec => []CallInv
<1> QED
  BY Typed, InitCalls, StepCalls, PTL DEF Spec

(***************************************************************************)
(* The results are settled in one step, and from then on nothing they rest on *)
(* changes.                                                                  *)
(***************************************************************************)
LEMMA StaysSettled ==
    ASSUME TypeInv, CallInv, [Next]_vars, Settled, Settled'
    PROVE  UNCHANGED <<registered, targets, calls, fused, ranked, diverse, results>>
<1>1. Answered /\ phase \in {"answer", "done"} /\ phase' \in {"answer", "done"}
  BY DEF CallInv, Settled
<1>2. ~ \E i \in DOMAIN calls :
          Respond(i) \/ LookUp(i) \/ RequestFails(i) \/ ResponseInvalid(i) \/ Timeout(i)
  BY <1>1 DEF Answered, Respond, LookUp, RequestFails, ResponseInvalid, Timeout, Asking
<1>3. AnswerWithout \/ AnswerFrom \/ UNCHANGED vars
  BY <1>1, <1>2 DEF Next, Analyze, AnalyzeFails, Gathered, AskNext, FallbackEnds, AnswerFails
<1> QED
  BY <1>3 DEF AnswerWithout, AnswerFrom, Says, vars

LEMMA BecomesSettled ==
    ASSUME TypeInv, CallInv, [Next]_vars, ~Settled, Settled'
    PROVE  /\ UNCHANGED <<registered, targets, calls>> /\ phase' = "answer"
           /\ \/ UsesWeb /\ ~FellBack /\ Settle(Fusion(Batches), Batches)
              \/ ~UsesWeb /\ Settle(Chained(Batches), <<>>)
              \/ /\ phase = "fallback" /\ FellBack
                 /\ Settle(Fusion(<<Chained(Batches)>>), <<Chained(Batches)>>)
<1>1. phase \notin {"answer", "done"} /\ phase' \in {"answer", "done"}
  BY DEF Settled
<1>2. ~ \E i \in DOMAIN calls :
          Respond(i) \/ LookUp(i) \/ RequestFails(i) \/ ResponseInvalid(i) \/ Timeout(i)
  BY <1>1 DEF Respond, LookUp, Answers, RequestFails, ResponseInvalid, Timeout, Becomes
<1>3. Gathered \/ FallbackEnds
  BY <1>1, <1>2 DEF Next, Analyze, AnalyzeFails, AskNext, AnswerWithout, AnswerFrom,
                    AnswerFails, Says, vars
<1>4. CASE Gathered
  <2>1. /\ phase = "gather" /\ UNCHANGED <<registered, targets, calls>>
        /\ Settle(Candidates, IF UsesWeb THEN Batches ELSE <<>>)
    BY <1>1, <1>4 DEF Gathered
  <2>2. UsesWeb => ~FellBack
    BY <2>1 DEF CallInv, UsesWeb, FellBack, IsWeb
  <2>3. phase' = "answer"
    BY <2>1 DEF Settle
  <2> QED
    BY <2>1, <2>2, <2>3 DEF Candidates
<1>5. CASE FallbackEnds
  <2>1. /\ phase = "fallback" /\ UNCHANGED <<registered, targets, calls>>
        /\ Settle(Fusion(<<Chained(Batches)>>), <<Chained(Batches)>>)
    BY <1>5 DEF FallbackEnds
  <2>2. FellBack
    BY <2>1 DEF CallInv
  <2>3. phase' = "answer"
    BY <2>1 DEF Settle
  <2> QED
    BY <2>1, <2>2, <2>3
<1> QED
  BY <1>3, <1>4, <1>5

(***************************************************************************)
(* Nothing found is lost.                                                    *)
(***************************************************************************)
(* A key some batch holds is in the fusion exactly once. *)
LEMMA OneEach ==
    ASSUME NEW batches \in Seq(Seq(Docs)), NEW key, Holding(key, batches) # {},
           NEW F, F = Fusion(batches)
    PROVE  \E n \in DOMAIN F :
              /\ F[n] = Stands(key, batches)
              /\ {m \in DOMAIN F : F[m].key = key} = {n}
<1>1. /\ IsInjective(F)
      /\ ToSet(F) = {Stands(k, batches) : k \in Keys(batches)}
  BY Fused
<1>2. \A k \in Keys(batches) : Stands(k, batches).key = k
  BY KeysHeld, StandsIs
<1>3. key \in Keys(batches)
  BY KeysHeld
<1>4. PICK n \in DOMAIN F : F[n] = Stands(key, batches)
  BY <1>1, <1>3 DEF ToSet
<1>5. \A m \in DOMAIN F : F[m].key = key => m = n
  <2> SUFFICES ASSUME NEW m \in DOMAIN F, F[m].key = key
               PROVE  m = n
    OBVIOUS
  <2>1. F[m] \in ToSet(F)
    BY DEF ToSet
  <2>2. PICK k \in Keys(batches) : F[m] = Stands(k, batches)
    BY <1>1, <2>1
  <2>3. k = key
    BY <1>2, <2>2
  <2> QED
    BY <1>1, <1>4, <2>2, <2>3 DEF IsInjective
<1>6. F[n].key = key
  BY <1>2, <1>3, <1>4
<1> QED
  BY <1>4, <1>5, <1>6

LEMMA LostNothing ==
    ASSUME TypeInv, CallInv, [Next]_vars, ~Settled, Settled'
    PROVE  NothingLost'
<1>1. /\ Batches \in Seq(Seq(Docs)) /\ DOMAIN Batches = DOMAIN calls
      /\ \A i \in DOMAIN calls : Batches[i] = calls[i].docs
      /\ Chained(Batches) \in Seq(Docs) /\ <<Chained(Batches)>> \in Seq(Seq(Docs))
  BY BatchesAre
<1>2. /\ calls' = calls
      /\ \/ UsesWeb /\ ~FellBack /\ fused' = Fusion(Batches)
         \/ ~UsesWeb /\ fused' = Chained(Batches)
         \/ /\ phase = "fallback" /\ FellBack
            /\ fused' = Fusion(<<Chained(Batches)>>)
  BY BecomesSettled DEF Settle
<1>3. UsesWeb' = UsesWeb /\ FellBack' = FellBack
  BY <1>2 DEF UsesWeb, FellBack
<1> SUFFICES ASSUME NEW i \in DOMAIN calls', NEW j \in DOMAIN calls'[i].docs
             PROVE  LET d == calls'[i].docs[j]
                        first == j = RankIn(d.key, calls'[i].docs)
                        standing == {n \in DOMAIN fused' : fused'[n].key = d.key}
                    IN  IF UsesWeb'
                        THEN \E n \in standing :
                               /\ standing = {n}
                               /\ (~FellBack' /\ first) => fused'[n].weight >= d.weight
                               /\ (FellBack' \/ (first /\ fused'[n].weight = d.weight)) =>
                                    \E l \in 1..i : fused'[n] \in ToSet(calls'[l].docs)
                        ELSE d \in ToSet(fused')
  BY Zenon DEF NothingLost
<1>a. i \in DOMAIN calls /\ j \in DOMAIN calls[i].docs
  BY <1>2
<1> SUFFICES LET d == calls[i].docs[j]
                 first == j = RankIn(d.key, calls[i].docs)
                 standing == {n \in DOMAIN fused' : fused'[n].key = d.key}
             IN  IF UsesWeb
                 THEN \E n \in standing :
                        /\ standing = {n}
                        /\ (~FellBack /\ first) => fused'[n].weight >= d.weight
                        /\ (FellBack \/ (first /\ fused'[n].weight = d.weight)) =>
                             \E l \in 1..i : fused'[n] \in ToSet(calls[l].docs)
                 ELSE d \in ToSet(fused')
  BY <1>2, <1>3
<1> DEFINE d == calls[i].docs[j]
           key == d.key
<1>4. /\ i \in DOMAIN Batches /\ j \in DOMAIN Batches[i] /\ Batches[i][j] = d
      /\ i \in Nat /\ i > 0
  BY <1>1, <1>a
<1>5. i \in Holding(key, Batches)
  BY <1>4 DEF Holding, ToSet
<1> HIDE DEF d, key
<1>6. CASE ~UsesWeb /\ fused' = Chained(Batches)
  BY <1>6, <1>a, ChainedHolds DEF d
<1>7. CASE UsesWeb /\ ~FellBack /\ fused' = Fusion(Batches)
  <2>1. PICK n \in DOMAIN fused' :
           /\ fused'[n] = Stands(key, Batches)
           /\ {m \in DOMAIN fused' : fused'[m].key = key} = {n}
    BY <1>1, <1>5, <1>7, OneEach
  <2>2. PICK b \in Holding(key, Batches) :
           /\ fused'[n] = First(key, Batches, b)
           /\ \A k \in Holding(key, Batches) :
                 /\ First(key, Batches, k).weight <= fused'[n].weight
                 /\ k < b => First(key, Batches, k).weight < fused'[n].weight
    BY <1>1, <1>5, <2>1, StandsIs
  <2>3. ASSUME j = RankIn(key, calls[i].docs)
        PROVE  First(key, Batches, i) = d
    BY <1>1, <1>4, <1>a, <2>3 DEF First
  <2>4. /\ b \in 1..Len(Batches) /\ RankIn(key, Batches[b]) \in DOMAIN Batches[b]
        /\ First(key, Batches, b) \in Docs /\ First(key, Batches, i) \in Docs
    BY <1>1, <1>5, HoldingIs DEF First
  <2>5. fused'[n] \in ToSet(calls[b].docs)
    <3>1. b \in DOMAIN calls /\ Batches[b] = calls[b].docs
      BY <1>1, <2>4
    <3>2. fused'[n] = calls[b].docs[RankIn(key, calls[b].docs)]
      BY <2>2, <3>1 DEF First
    <3>3. RankIn(key, calls[b].docs) \in DOMAIN calls[b].docs
      BY <2>4, <3>1
    <3> QED
      BY <3>2, <3>3 DEF ToSet
  <2>6. fused'[n].weight \in Nat /\ First(key, Batches, i).weight \in Nat
    BY <2>2, <2>4, EngineAssumption
  <2>7. j = RankIn(key, calls[i].docs) => fused'[n].weight >= d.weight
    BY <1>5, <2>2, <2>3, <2>6
  <2>8. j = RankIn(key, calls[i].docs) /\ fused'[n].weight = d.weight => b \in 1..i
    BY <1>4, <1>5, <2>2, <2>3, <2>4, <2>6
  <2> QED
    BY <1>7, <2>1, <2>5, <2>7, <2>8 DEF d, key
<1>8. CASE phase = "fallback" /\ FellBack /\ fused' = Fusion(<<Chained(Batches)>>)
  <2> DEFINE all == Chained(Batches)
  <2>1. UsesWeb
    <3>1. calls[i].docs # <<>>
      <4>1. DOMAIN <<>> = {}
        OBVIOUS
      <4> QED
        BY <1>a, <4>1
    <3> QED
      BY <1>8, <1>a, <3>1 DEF CallInv, IsWeb, UsesWeb
  <2>2. PICK place \in [DOMAIN all -> Nat \X Nat] :
           /\ \A n \in DOMAIN all :
                 /\ place[n][1] \in DOMAIN Batches
                 /\ place[n][2] \in DOMAIN Batches[place[n][1]]
                 /\ all[n] = Batches[place[n][1]][place[n][2]]
           /\ \A k \in DOMAIN Batches : \A l \in DOMAIN Batches[k] :
                 \E n \in DOMAIN all : place[n] = <<k, l>>
           /\ \A m, n \in DOMAIN all : m <= n => place[m][1] <= place[n][1]
    BY <1>1, Concatenated
  <2>3. PICK q \in DOMAIN all : place[q] = <<i, j>>
    BY <1>4, <2>2
  <2>4. all[q] = d
    BY <1>4, <2>2, <2>3
  <2> DEFINE r == RankIn(key, all)
  <2>5. r \in DOMAIN all /\ r <= q /\ all[r].key = key
    BY <1>1, <2>4, RankInIs DEF key
  <2>6. place[r][1] <= i /\ place[r][1] \in DOMAIN Batches
        /\ all[r] \in ToSet(Batches[place[r][1]])
    BY <2>2, <2>3, <2>5 DEF ToSet
  <2>7. Holding(key, <<all>>) = {1} /\ <<all>>[1] = all
    <3>1. DOMAIN <<all>> = {1} /\ <<all>>[1] = all
      OBVIOUS
    <3>2. d \in ToSet(all) /\ d.key = key
      BY <2>4 DEF ToSet, key
    <3> QED
      BY <3>1, <3>2 DEF Holding
  <2> HIDE DEF all, r
  <2>8. PICK n \in DOMAIN fused' :
           /\ fused'[n] = Stands(key, <<all>>)
           /\ {m \in DOMAIN fused' : fused'[m].key = key} = {n}
    <3> DEFINE one == <<all>>
    <3>1. one \in Seq(Seq(Docs)) /\ Holding(key, one) # {} /\ fused' = Fusion(one)
      BY <1>1, <1>8, <2>7 DEF all
    <3> HIDE DEF one
    <3>2. \A F : F = Fusion(one) =>
             \E n \in DOMAIN F :
                /\ F[n] = Stands(key, one)
                /\ {m \in DOMAIN F : F[m].key = key} = {n}
      BY <3>1, OneEach
    <3>3. \E n \in DOMAIN fused' :
             /\ fused'[n] = Stands(key, one)
             /\ {m \in DOMAIN fused' : fused'[m].key = key} = {n}
      BY <3>1, <3>2
    <3> QED
      BY <3>3 DEF one
  <2>9. fused'[n] = all[r]
    <3>1. PICK b \in Holding(key, <<all>>) : Stands(key, <<all>>) = First(key, <<all>>, b)
      BY <1>1, <2>7, StandsIs DEF all
    <3>2. b = 1
      BY <2>7
    <3> QED
      BY <2>7, <2>8, <3>1, <3>2 DEF First, r
  <2>10. \E l \in 1..i : fused'[n] \in ToSet(calls[l].docs)
    <3>1. place[r][1] \in 1..i
      BY <1>1, <1>4, <2>6
    <3>2. Batches[place[r][1]] = calls[place[r][1]].docs
      BY <1>1, <2>6
    <3> QED
      BY <2>6, <2>9, <3>1, <3>2
  <2> QED
    BY <1>8, <2>1, <2>8, <2>10 DEF d, key
<1> QED
  BY <1>2, <1>6, <1>7, <1>8

(* Every document some call found is among the candidates, itself or by one    *)
(* of its URL that is chosen by weight and then by the order of the calls, in *)
(* whatever order they ended (gather, reciprocal_rank_fusion).               *)
THEOREM FoundIsKept == Spec => []NothingLost
<1>1. Init => NothingLost
  BY DEF Init, NothingLost, Settled
<1>2. TypeInv /\ CallInv /\ NothingLost /\ [Next]_vars => NothingLost'
  <2> SUFFICES ASSUME TypeInv, CallInv, NothingLost, [Next]_vars, Settled'
               PROVE  NothingLost'
    BY DEF NothingLost
  <2>1. CASE Settled
    BY <2>1, StaysSettled DEF NothingLost, UsesWeb, FellBack
  <2>2. CASE ~Settled
    BY <2>2, LostNothing
  <2> QED
    BY <2>1, <2>2
<1> QED
  BY <1>1, <1>2, Typed, Called, PTL DEF Spec

(***************************************************************************)
(* What two calls agree on comes first.                                      *)
(***************************************************************************)
LEMMA TwoMembers ==
    ASSUME NEW S \in SUBSET Nat, IsFiniteSet(S), Cardinality(S) > 1
    PROVE  \E i, j \in S : i < j
<1>1. S # {}
  BY FS_EmptySet
<1>2. PICK i \in S : TRUE
  BY <1>1
<1>3. S # {i}
  BY FS_Singleton
<1>4. PICK j \in S : j # i
  BY <1>2, <1>3
<1>5. i < j \/ j < i
  BY <1>4
<1> QED
  BY <1>5

LEMMA AgreedBefore ==
    ASSUME MaxBatch <= 61, TypeInv, UsesWeb,
           NEW m \in DOMAIN Fusion(Batches), NEW n \in DOMAIN Fusion(Batches),
           Cardinality(Holding(Fusion(Batches)[m].key, Batches)) > 1,
           Cardinality(Holding(Fusion(Batches)[n].key, Batches)) = 1
    PROVE  m < n
<1> DEFINE F == Fusion(Batches)
           H(k) == Holding(F[k].key, Batches)
<1>1. /\ Batches \in Seq(Seq(Docs))
      /\ \A k \in DOMAIN Batches : Len(Batches[k]) <= MaxBatch
  BY BatchesAre
<1>2. \A k : H(k) \in SUBSET Nat /\ IsFiniteSet(H(k))
  <2>1. IsFiniteSet(DOMAIN Batches) /\ DOMAIN Batches \subseteq Nat
    BY <1>1, FiniteSeq
  <2>2. \A k : H(k) \in SUBSET DOMAIN Batches
    BY DEF Holding
  <2> QED
    BY <2>1, <2>2, FS_Subset
<1>3. PICK i \in H(m), j \in H(m) : i < j
  BY <1>2, TwoMembers
<1>4. PICK l : H(n) = {l}
  BY <1>2, FS_Singleton
<1>5. Remote # {}
  BY DEF UsesWeb, Remote, TypeInv, TypeOK
<1>6. Score(F[m].key, Batches) > Score(F[n].key, Batches)
  BY <1>1, <1>3, <1>4, <1>5, Agreement
<1> QED
  BY <1>1, <1>6, Fused

(* A document two calls found is ahead of all that one call found, whatever    *)
(* the ranks, as long as a call returns at most 61 candidates: one more, and  *)
(* two last places weigh less than a first one (max_candidates against the    *)
(* constant 60 of reciprocal_rank_fusion).                                   *)
THEOREM AgreedComeFirst == ASSUME MaxBatch <= 61 PROVE Spec => []AgreedFirst
<1>1. Init => AgreedFirst
  BY DEF Init, AgreedFirst, Settled
<1>2. TypeInv /\ CallInv /\ AgreedFirst /\ [Next]_vars => AgreedFirst'
  <2> SUFFICES ASSUME TypeInv, CallInv, AgreedFirst, [Next]_vars,
                      Settled', UsesWeb', ~FellBack'
               PROVE  AgreedFirst'
    BY DEF AgreedFirst
  <2>1. CASE Settled
    <3>1. calls' = calls /\ fused' = fused
      BY <2>1, StaysSettled
    <3>2. UsesWeb /\ ~FellBack /\ Batches' = Batches
      BY <3>1 DEF UsesWeb, FellBack, Batches
    <3> QED
      BY <2>1, <3>1, <3>2, Zenon DEF AgreedFirst
  <2>2. CASE ~Settled
    <3>1. calls' = calls /\ UsesWeb /\ fused' = Fusion(Batches)
      <4>1. calls' = calls
        BY <2>2, BecomesSettled
      <4>2. UsesWeb /\ ~FellBack
        BY <4>1 DEF UsesWeb, FellBack
      <4> QED
        BY <2>2, <4>1, <4>2, BecomesSettled DEF Settle
    <3>2. Batches' = Batches
      BY <3>1 DEF Batches
    <3>3. \A m, n \in DOMAIN fused' :
             /\ Cardinality(Holding(fused'[m].key, Batches')) > 1
             /\ Cardinality(Holding(fused'[n].key, Batches')) = 1
             => m < n
      BY <3>1, <3>2, AgreedBefore
    <3> QED
      BY <3>3, Zenon DEF AgreedFirst
  <2> QED
    BY <2>1, <2>2
<1> QED
  BY <1>1, <1>2, Typed, Called, PTL DEF Spec

(***************************************************************************)
(* The results.                                                              *)
(***************************************************************************)
LEMMA MinOfTwo ==
    ASSUME NEW a \in Nat, NEW b \in Nat
    PROVE  /\ Min({a, b}) \in Nat /\ Min({a, b}) <= a /\ Min({a, b}) <= b
           /\ Min({a, b}) = a \/ Min({a, b}) = b
<1>1. {a, b} \in SUBSET Nat
  OBVIOUS
<1>2. Min({a, b}) \in {a, b} /\ \A k \in {a, b} : Min({a, b}) <= k
  BY <1>1, MinIs
<1> QED
  BY <1>2

LEMMA CountNat ==
    ASSUME NEW p, NEW s, NEW i \in Nat
    PROVE  Count(p, s, i) \in Nat
<1>1. IsFiniteSet(1..(i - 1))
  BY FS_Interval
<1>2. IsFiniteSet({j \in 1..(i - 1) : s[j].provider = p})
  BY <1>1, FS_Subset
<1> QED
  BY <1>2, FS_CardinalityType DEF Count

(* The results stand where ResultsWellChosen wants them. *)
WellChosen(res, rkd, div) ==
    /\ Len(res) = Min({Len(rkd), MaxResults})
    /\ res # <<>> => res[1] = rkd[1]
    /\ \A i \in DOMAIN res :
          /\ res[i] \notin Had(res, i)
          /\ \A m, n \in DOMAIN rkd :
                rkd[m] = res[i] /\ n < m /\ rkd[n] \notin Had(res, i)
                   => div /\ Count(rkd[n].provider, res, i) > Count(res[i].provider, res, i)

LEMMA PrefixWellChosen ==
    ASSUME NEW rkd \in Seq(Docs), IsInjective(rkd), NEW div,
           NEW res, res = [n \in 1..Min({Len(rkd), MaxResults}) |-> rkd[n]]
    PROVE  WellChosen(res, rkd, div)
<1> DEFINE k == Min({Len(rkd), MaxResults})
<1>1. Len(rkd) \in Nat /\ MaxResults \in Nat
  BY EngineAssumption
<1>2. k \in Nat /\ k <= Len(rkd)
  BY <1>1, MinOfTwo
<1>3. res = [n \in 1..k |-> rkd[n]]
  OBVIOUS
<1> HIDE DEF k
<1>a. \A n \in 1..k : n \in DOMAIN rkd /\ rkd[n] \in Docs
  <2>1. \A n \in 1..Len(rkd) : n \in DOMAIN rkd /\ rkd[n] \in Docs
    OBVIOUS
  <2>2. \A n \in 1..k : n \in 1..Len(rkd)
    BY <1>1, <1>2
  <2> QED
    BY <2>1, <2>2
<1>4. res \in [1..k -> Docs]
  BY <1>3, <1>a
<1>5. Len(res) = k /\ DOMAIN res = 1..k
  BY <1>2, <1>4, SeqMade
<1>6. \A i \in 1..k : res[i] = rkd[i] /\ i \in DOMAIN rkd
  BY <1>3, <1>a
<1>7. res # <<>> => res[1] = rkd[1]
  <2>1. res # <<>> => 1 \in 1..k
    <3>1. res \in Seq(Docs)
      BY <1>2, <1>4, SeqMade
    <3>2. \A s \in Seq(Docs) : s # <<>> => 1 \in DOMAIN s
      OBVIOUS
    <3> QED
      BY <1>5, <3>1, <3>2
  <2> QED
    BY <2>1, <1>6
<1>8. ASSUME NEW i \in 1..k
      PROVE  res[i] \notin Had(res, i)
  <2>1. \A j \in 1..(i - 1) : j \in 1..k /\ j # i
    BY <1>2
  <2>2. \A j \in 1..(i - 1) : res[j] # res[i]
    BY <1>6, <2>1 DEF IsInjective
  <2> QED
    BY <2>2 DEF Had
<1>9. ASSUME NEW i \in 1..k, NEW m \in DOMAIN rkd, NEW n \in DOMAIN rkd,
             rkd[m] = res[i], n < m
      PROVE  rkd[n] \in Had(res, i)
  <2>1. m = i
    BY <1>6, <1>9 DEF IsInjective
  <2>2. n \in 1..(i - 1) /\ n \in 1..k
    BY <1>2, <1>9, <2>1
  <2>3. rkd[n] = res[n]
    BY <1>6, <2>2
  <2> QED
    BY <2>2, <2>3 DEF Had
<1> QED
  BY <1>5, <1>7, <1>8, <1>9 DEF WellChosen, k

LEMMA DiverseWellChosen ==
    ASSUME NEW rkd \in Seq(Docs), IsInjective(rkd),
           NEW total \in [ToSet(rkd) -> Int],
           \A m, n \in DOMAIN rkd : m <= n => total[rkd[m]] >= total[rkd[n]],
           NEW spread \in Nat, spread > 0,
           NEW res \in Diverse(rkd, total, spread)
    PROVE  WellChosen(res, rkd, TRUE)
<1> DEFINE k == Min({Len(rkd), MaxResults})
           worth(d, i) == Adjusted(total[d], Count(d.provider, res, i) * spread)
           rest(i) == {n \in DOMAIN rkd : rkd[n] \notin Had(res, i)}
<1>1. /\ k \in Nat /\ res \in [1..k -> ToSet(rkd)] /\ res \in Seq(Docs) /\ Len(res) = k
  BY Picked
<1>2. DOMAIN res = 1..k
  BY <1>1
<1>3. \A i \in DOMAIN res : \E n \in rest(i) :
         /\ res[i] = rkd[n]
         /\ \A m \in rest(i) :
               \/ worth(rkd[n], i) > worth(rkd[m], i)
               \/ (worth(rkd[n], i) = worth(rkd[m], i) /\ n <= m)
  BY Zenon DEF Diverse
<1>4. \A n \in DOMAIN rkd : total[rkd[n]] \in Int /\ n \in Nat
  BY DEF ToSet
<1>5. \A c, e \in Nat : c * spread <= e * spread => c <= e
  <2> SUFFICES ASSUME NEW c \in Nat, NEW e \in Nat, c > e
               PROVE  c * spread > e * spread
    OBVIOUS
  <2>1. PICK h \in Nat : c = e + h /\ h > 0
    <3>1. c - e \in Nat /\ c = e + (c - e) /\ c - e > 0
      OBVIOUS
    <3> QED
      BY <3>1
  <2>2. c * spread = e * spread + h * spread
    BY <2>1
  <2>3. h * spread > 0 /\ h * spread \in Nat /\ e * spread \in Nat
    BY <2>1
  <2> QED
    BY <2>2, <2>3
<1> HIDE DEF worth, rest, k
<1>6. ASSUME NEW i \in DOMAIN res, NEW m \in DOMAIN rkd, NEW n \in DOMAIN rkd,
             rkd[m] = res[i], n < m, rkd[n] \notin Had(res, i)
      PROVE  Count(rkd[n].provider, res, i) > Count(res[i].provider, res, i)
  <2>1. PICK b \in rest(i) :
           /\ res[i] = rkd[b]
           /\ \A q \in rest(i) :
                 \/ worth(rkd[b], i) > worth(rkd[q], i)
                 \/ (worth(rkd[b], i) = worth(rkd[q], i) /\ b <= q)
    BY <1>3
  <2>2. b = m
    BY <1>6, <2>1 DEF IsInjective, rest
  <2>3. n \in rest(i)
    BY <1>6 DEF rest
  <2>4. i \in Nat
    BY <1>1, <1>2
  <2> DEFINE cn == Count(rkd[n].provider, res, i)
             cm == Count(rkd[m].provider, res, i)
             tn == total[rkd[n]]
             tm == total[rkd[m]]
  <2>5. cn \in Nat /\ cm \in Nat /\ tn \in Int /\ tm \in Int /\ tn >= tm
    BY <1>4, <1>6, <2>4, CountNat
  <2>6. worth(rkd[m], i) > worth(rkd[n], i)
    BY <1>4, <1>6, <2>1, <2>2, <2>3
  <2>7. worth(rkd[m], i) = tm - 25 * (cm * spread) /\ worth(rkd[n], i) = tn - 25 * (cn * spread)
    BY DEF worth, Adjusted
  <2> HIDE DEF cn, cm, tn, tm
  <2>8. cn * spread \in Nat /\ cm * spread \in Nat
    BY <2>5
  <2>9. cn * spread > cm * spread
    BY <2>5, <2>6, <2>7, <2>8
  <2>10. cn > cm
    BY <1>5, <2>5, <2>8, <2>9
  <2> QED
    BY <1>6, <2>10 DEF cn, cm
<1>7. ASSUME NEW i \in DOMAIN res
      PROVE  res[i] \notin Had(res, i)
  BY <1>3 DEF rest
<1>8. ASSUME res # <<>>
      PROVE  res[1] = rkd[1]
  <2>1. 1 \in DOMAIN res
    BY <1>1, <1>8
  <2>2. Had(res, 1) = {} /\ \A p : Count(p, res, 1) = 0
    <3>1. 1..(1 - 1) = {}
      OBVIOUS
    <3>2. \A p : {j \in 1..(1 - 1) : res[j].provider = p} = {}
      BY <3>1
    <3> QED
      BY <3>1, <3>2, FS_EmptySet DEF Had, Count
  <2>3. PICK b \in DOMAIN rkd : res[1] = rkd[b]
    BY <1>3, <2>1 DEF rest
  <2>4. 1 \in DOMAIN rkd /\ b \in Nat /\ b >= 1
    <3>1. DOMAIN rkd = 1..Len(rkd) /\ Len(rkd) \in Nat
      OBVIOUS
    <3> QED
      BY <2>3, <3>1
  <2>5. b > 1 => Count(rkd[1].provider, res, 1) > Count(res[1].provider, res, 1)
    BY <1>6, <2>1, <2>2, <2>3, <2>4
  <2>6. b = 1
    BY <2>2, <2>4, <2>5
  <2> QED
    BY <2>3, <2>6
<1> QED
  BY <1>1, <1>6, <1>7, <1>8 DEF WellChosen, k

LEMMA SettlesWell ==
    ASSUME NEW cands \in Seq(Docs), NEW batches \in Seq(Seq(Docs)), Settle(cands, batches)
    PROVE  /\ WellChosen(results', ranked', diverse')
           /\ ranked' \in Seq(Docs) /\ results' \in Seq(Docs)
           /\ ToSet(ranked') = ToSet(cands)
<1>1. PICK total \in [ToSet(cands) -> Int] :
         /\ ranked' = Ranking(ToSet(cands), total)
         /\ ranked' \in Seq(Docs)
         /\ ToSet(ranked') = ToSet(cands)
         /\ IF diverse' /\ Len(ranked') > 1
            THEN results' \in Diverse(ranked', total, Spread(ToSet(cands), batches))
            ELSE results' = [n \in 1..Min({Len(ranked'), MaxResults}) |-> ranked'[n]]
  BY Settling
<1>2. ToSet(cands) \in SUBSET Docs
  BY DEF ToSet
<1>3. /\ IsInjective(ranked')
      /\ \A m, n \in DOMAIN ranked' : m <= n => total[ranked'[m]] >= total[ranked'[n]]
  BY <1>1, <1>2, RankedBy
<1>4. CASE diverse' /\ Len(ranked') > 1
  <2>1. ToSet(cands) # {}
    <3>1. 1 \in DOMAIN ranked'
      BY <1>1, <1>4
    <3>2. ranked'[1] \in ToSet(ranked')
      BY <3>1, Zenon DEF ToSet
    <3> QED
      BY <1>1, <3>2
  <2>2. Spread(ToSet(cands), batches) \in Nat /\ Spread(ToSet(cands), batches) > 0
    BY <1>2, <2>1, SpreadIs
  <2>3. WellChosen(results', ranked', TRUE)
    BY <1>1, <1>3, <1>4, <2>2, DiverseWellChosen
  <2> QED
    BY <1>1, <1>4, <2>3, Settling DEF WellChosen
<1>5. CASE ~(diverse' /\ Len(ranked') > 1)
  <2>1. WellChosen(results', ranked', diverse')
    BY <1>1, <1>3, <1>5, PrefixWellChosen
  <2> QED
    BY <1>1, <2>1, Settling
<1> QED
  BY <1>4, <1>5

LEMMA ResultsSettled ==
    ASSUME TypeInv, CallInv, [Next]_vars, ~Settled, Settled'
    PROVE  /\ WellChosen(results', ranked', diverse')
           /\ ranked' \in Seq(Docs) /\ results' \in Seq(Docs)
           /\ ToSet(ranked') = ToSet(fused')
<1>1. /\ Batches \in Seq(Seq(Docs))
      /\ Chained(Batches) \in Seq(Docs) /\ <<Chained(Batches)>> \in Seq(Seq(Docs))
  BY BatchesAre
<1>2. Fusion(Batches) \in Seq(Docs) /\ Fusion(<<Chained(Batches)>>) \in Seq(Docs)
  BY <1>1, Fused
<1>3. <<>> \in Seq(Seq(Docs))
  OBVIOUS
<1>4. PICK cands \in Seq(Docs) : \E batches \in Seq(Seq(Docs)) : Settle(cands, batches)
  BY <1>1, <1>2, <1>3, BecomesSettled
<1>5. fused' = cands
  BY <1>4 DEF Settle
<1> QED
  BY <1>4, <1>5, SettlesWell

(* The best documents are shown, for diversity's sake or not                  *)
(* (diverse_select, the slice to max_results), for every number of results,   *)
(* whatever the documents merit.                                             *)
THEOREM ResultsChosenWell == Spec => []ResultsWellChosen
<1>1. Init => ResultsWellChosen
  BY DEF Init, ResultsWellChosen, Settled
<1>2. TypeInv /\ CallInv /\ ResultsWellChosen /\ [Next]_vars => ResultsWellChosen'
  <2> SUFFICES ASSUME TypeInv, CallInv, ResultsWellChosen, [Next]_vars, Settled'
               PROVE  ResultsWellChosen'
    BY DEF ResultsWellChosen
  <2>1. CASE Settled
    <3>1. UNCHANGED <<ranked, diverse, results>>
      BY <2>1, StaysSettled
    <3> QED
      BY <2>1, <3>1, Zenon DEF ResultsWellChosen
  <2>2. CASE ~Settled
    <3>1. WellChosen(results', ranked', diverse')
      BY <2>2, ResultsSettled
    <3> QED
      BY <3>1, Zenon DEF ResultsWellChosen, WellChosen
  <2> QED
    BY <2>1, <2>2
<1> QED
  BY <1>1, <1>2, Typed, Called, PTL DEF Spec

(***************************************************************************)
(* The answer.                                                               *)
(***************************************************************************)
(* A fusion is of something, and has something to show for it. *)
LEMMA FusedFrom ==
    ASSUME NEW batches \in Seq(Seq(Docs)), Fusion(batches) # <<>>
    PROVE  \E i \in DOMAIN batches : batches[i] # <<>>
<1>1. Fusion(batches) \in Seq(Docs)
      /\ ToSet(Fusion(batches)) = {Stands(key, batches) : key \in Keys(batches)}
  BY Fused
<1>2. \A f \in Seq(Docs) : f # <<>> => 1 \in DOMAIN f
  OBVIOUS
<1>3. Fusion(batches)[1] \in ToSet(Fusion(batches))
  BY <1>1, <1>2, Zenon DEF ToSet
<1>4. PICK key \in Keys(batches) : TRUE
  BY <1>1, <1>3
<1>5. PICK i \in Holding(key, batches) : TRUE
  BY KeysHeld
<1>6. i \in DOMAIN batches /\ ToSet(batches[i]) # {}
  BY DEF Holding
<1>7. ToSet(<<>>) = {}
  <2>1. DOMAIN <<>> = {}
    OBVIOUS
  <2> QED
    BY <2>1, Zenon DEF ToSet
<1> QED
  BY <1>6, <1>7

Found == \E i \in DOMAIN calls : calls[i].docs # <<>>

(* There are results exactly when a call found something. *)
LEMMA FoundShows ==
    ASSUME TypeInv, CallInv, [Next]_vars, ~Settled, Settled'
    PROVE  results' # <<>> <=> Found
<1>1. /\ Batches \in Seq(Seq(Docs)) /\ DOMAIN Batches = DOMAIN calls
      /\ \A i \in DOMAIN calls : Batches[i] = calls[i].docs
      /\ Chained(Batches) \in Seq(Docs) /\ <<Chained(Batches)>> \in Seq(Seq(Docs))
  BY BatchesAre
<1>2. /\ calls' = calls
      /\ \/ fused' = Fusion(Batches)
         \/ fused' = Chained(Batches)
         \/ fused' = Fusion(<<Chained(Batches)>>)
  BY BecomesSettled DEF Settle
<1>3. /\ WellChosen(results', ranked', diverse')
      /\ ranked' \in Seq(Docs) /\ results' \in Seq(Docs)
      /\ ToSet(ranked') = ToSet(fused')
  BY ResultsSettled
<1>4. \A s \in Seq(Docs) : /\ s # <<>> => 1 \in DOMAIN s /\ Len(s) > 0
                          /\ s = <<>> => Len(s) = 0
                          /\ Len(s) \in Nat
  OBVIOUS
<1>5. \A s \in Seq(Docs) : s = <<>> <=> ToSet(s) = {}
  <2>1. DOMAIN <<>> = {}
    OBVIOUS
  <2>2. \A s : ToSet(s) = {} <=> DOMAIN s = {}
    BY Zenon DEF ToSet
  <2> QED
    BY <1>4, <2>1, <2>2
<1>6. results' # <<>> <=> ranked' # <<>>
  <2>1. Len(results') = Min({Len(ranked'), MaxResults})
    BY <1>3, Zenon DEF WellChosen
  <2>2. Len(ranked') \in Nat /\ MaxResults \in Nat /\ MaxResults > 0
    BY <1>3, <1>4, EngineAssumption
  <2>3. /\ Min({Len(ranked'), MaxResults}) <= Len(ranked')
        /\ \/ Min({Len(ranked'), MaxResults}) = Len(ranked')
           \/ Min({Len(ranked'), MaxResults}) = MaxResults
    BY <2>2, MinOfTwo
  <2> HIDE DEF WellChosen
  <2> QED
    BY <1>3, <1>4, <2>1, <2>2, <2>3
<1>7. fused' \in Seq(Docs)
  BY <1>1, <1>2, Fused
<1>8. ranked' # <<>> <=> fused' # <<>>
  BY <1>3, <1>5, <1>7
<1>9. fused' # <<>> => Found
  <2>1. Chained(Batches) # <<>> => Found
    BY ChainedHolds DEF Found
  <2>2. Fusion(Batches) # <<>> => Found
    BY <1>1, FusedFrom DEF Found
  <2>3. Fusion(<<Chained(Batches)>>) # <<>> => Found
    <3> DEFINE one == <<Chained(Batches)>>
    <3>1. one \in Seq(Seq(Docs)) /\ \A i \in DOMAIN one : one[i] = Chained(Batches)
      BY <1>1
    <3> HIDE DEF one
    <3>2. Fusion(one) # <<>> => \E i \in DOMAIN one : one[i] # <<>>
      BY <3>1, FusedFrom
    <3>3. Fusion(one) # <<>> => Found
      BY <2>1, <3>1, <3>2
    <3> QED
      BY <3>3 DEF one
  <2> QED
    BY <1>2, <2>1, <2>2, <2>3
<1>10. Found => fused' # <<>>
  <2> SUFFICES ASSUME NEW i \in DOMAIN calls, calls[i].docs # <<>>
               PROVE  fused' # <<>>
    BY DEF Found
  <2>1. calls[i].docs \in Seq(Docs)
    BY <1>1
  <2>2. 1 \in DOMAIN calls[i].docs
    BY <1>4, <2>1
  <2>3. NothingLost'
    BY LostNothing
  <2>4. \/ \E n \in {m \in DOMAIN fused' : fused'[m].key = calls'[i].docs[1].key} : TRUE
        \/ calls'[i].docs[1] \in ToSet(fused')
    <3>1. i \in DOMAIN calls' /\ 1 \in DOMAIN calls'[i].docs
      BY <1>2, <2>2
    <3> QED
      BY <2>3, <3>1, Zenon DEF NothingLost
  <2>5. DOMAIN fused' # {} \/ ToSet(fused') # {}
    BY <2>4
  <2>6. DOMAIN <<>> = {}
    OBVIOUS
  <2> QED
    BY <1>5, <1>7, <2>5, <2>6
<1> QED
  BY <1>6, <1>8, <1>9, <1>10

(* What there is to show, and that the answer speaks of it. *)
AnswerInv ==
    /\ Settled => (results # <<>> <=> Found)
    /\ AnswerHonest

LEMMA StepAnswers == TypeInv /\ CallInv /\ AnswerInv /\ [Next]_vars => AnswerInv'
<1> SUFFICES ASSUME TypeInv, CallInv, AnswerInv, [Next]_vars
             PROVE  AnswerInv'
  OBVIOUS
<1>1. Settled' => (results' # <<>> <=> Found')
  <2> SUFFICES ASSUME Settled'
               PROVE  results' # <<>> <=> Found'
    OBVIOUS
  <2>1. CASE Settled
    <3>1. calls' = calls /\ results' = results
      BY <2>1, StaysSettled
    <3> QED
      BY <2>1, <3>1 DEF AnswerInv, Found
  <2>2. CASE ~Settled
    <3>1. calls' = calls
      BY <2>2, BecomesSettled
    <3> QED
      BY <2>2, <3>1, FoundShows DEF Found
  <2> QED
    BY <2>1, <2>2
<1>2. AnswerHonest'
  <2> SUFFICES ASSUME phase' = "done"
               PROVE  AnswerHonest'
    BY Zenon DEF AnswerHonest
  <2>1. Settled' /\ phase' # "answer"
    BY DEF Settled
  <2>2. Settled
    BY <2>1, BecomesSettled
  <2>3. UNCHANGED <<registered, targets, calls, results>>
    BY <2>1, <2>2, StaysSettled
  <2>4. Answered
    BY <2>2 DEF CallInv
  <2>5. results # <<>> <=> Found
    BY <2>2 DEF AnswerInv
  <2>6. CASE AnswerFrom
    <3>1. Found /\ answer' \in {"llm", "first result"}
      BY <2>5, <2>6 DEF AnswerFrom, Says
    <3> QED
      BY <2>3, <3>1, Zenon DEF AnswerHonest, Found
  <2>7. CASE AnswerWithout
    <3>1. /\ ~Found /\ phase = "answer"
          /\ answer' = IF targets # <<>> /\ calls = <<>> THEN "not configured"
                       ELSE IF Failed THEN "failed" ELSE "nothing found"
      BY <2>5, <2>7 DEF AnswerWithout, Says
    <3>2. \A i \in DOMAIN calls : calls[i].state \in {"ok", "failed"}
      BY <2>4 DEF Answered, TypeInv, TypeOK
    <3>3. CASE targets # <<>> /\ calls = <<>>
      <4>1. DOMAIN calls = {}
        BY <3>3
      <4>2. answer' = "not configured" /\ ToSet(targets) \cap registered = {}
        BY <3>1, <3>3 DEF CallInv
      <4> QED
        BY <2>3, <3>1, <3>3, <4>1, <4>2 DEF AnswerHonest, Found
    <3>4. CASE ~(targets # <<>> /\ calls = <<>>) /\ Failed
      <4>1. answer' = "failed"
        BY <3>1, <3>4
      <4> QED
        BY <2>3, <3>1, <3>4, <4>1 DEF AnswerHonest, Found, Failed
    <3>5. CASE ~(targets # <<>> /\ calls = <<>>) /\ ~Failed
      <4>1. answer' = "nothing found"
        BY <3>1, <3>5
      <4>2. \A i \in DOMAIN calls : calls[i].state = "ok"
        BY <3>2, <3>5 DEF Failed
      <4> QED
        BY <2>3, <3>1, <4>1, <4>2 DEF AnswerHonest, Found
    <3> QED
      BY <3>3, <3>4, <3>5
  <2>8. CASE UNCHANGED vars
    <3>1. UNCHANGED <<registered, targets, calls, phase, answer>>
      BY <2>8 DEF vars
    <3> QED
      BY <3>1 DEF AnswerInv, AnswerHonest
  <2>9. phase \in {"answer", "done"}
    BY <2>2 DEF Settled
  <2>10. ~ \E i \in DOMAIN calls :
            Respond(i) \/ LookUp(i) \/ RequestFails(i) \/ ResponseInvalid(i) \/ Timeout(i)
    BY <2>4 DEF Answered, Respond, LookUp, RequestFails, ResponseInvalid, Timeout, Asking
  <2>11. AnswerFrom \/ AnswerWithout \/ UNCHANGED vars
    BY <2>9, <2>10 DEF Next, Analyze, AnalyzeFails, Gathered, AskNext, FallbackEnds,
                       AnswerFails
  <2> QED
    BY <2>6, <2>7, <2>8, <2>11
<1> QED
  BY <1>1, <1>2 DEF AnswerInv

(* What the user is told is what happened to the calls: an answer exactly when *)
(* one of them found something, a failure exactly when none did and one       *)
(* failed, and "not configured" only when no provider the plan names is        *)
(* registered (generate_answer).                                             *)
THEOREM AnswersHonestly == Spec => []AnswerHonest
<1>1. Init => AnswerInv
  BY DEF Init, AnswerInv, AnswerHonest, Settled
<1>2. AnswerInv => AnswerHonest
  BY DEF AnswerInv
<1> QED
  BY <1>1, <1>2, StepAnswers, Typed, Called, PTL DEF Spec
=============================================================================
