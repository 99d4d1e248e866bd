--------------------------- MODULE SearchEngineOrder ---------------------------
(***************************************************************************)
(* What the operators of SearchEngine compute, for all inputs: sorting,       *)
(* filtering and concatenating (InLine, Within, Chained), the reciprocal rank *)
(* fusion and the ranking.                                                   *)
(***************************************************************************)
EXTENDS SearchEngine, FiniteSetTheorems, WellFoundedInduction, TLAPS

(* Every nonempty set of naturals has a least element: all that the proofs    *)
(* below need of induction.                                                  *)
LEMMA Least ==
    ASSUME NEW S \in SUBSET Nat, S # {}
    PROVE  \E m \in S : \A k \in S : m <= k
<1> DEFINE R == OpToRel(<, Nat)
<1>1. R = {ss \in Nat \X Nat : ss[1] < ss[2]}
  BY DEF OpToRel
<1>2. IsWellFoundedOn(R, Nat)
  BY NatLessThanWellFounded, Zenon
<1> HIDE DEF R
<1>3. PICK m \in S : \A k \in S : ~ (<<k, m>> \in R)
  BY <1>2, WFMin
<1>4. \A k \in S : ~ (k < m)
  BY <1>1, <1>3
<1> QED
  BY <1>4

(***************************************************************************)
(* A finite set in a strict total order.                                     *)
(***************************************************************************)
StrictlyOrders(R, S) ==
    /\ \A d \in S : <<d, d>> \notin R
    /\ \A d, e \in S : d # e => <<d, e>> \in R \/ <<e, d>> \in R
    /\ \A d, e, f \in S : <<d, e>> \in R /\ <<e, f>> \in R => <<d, f>> \in R

(* InLine lists each element once, in the order. *)
LEMMA Lined ==
    ASSUME NEW S, IsFiniteSet(S), NEW R, StrictlyOrders(R, S)
    PROVE  /\ InLine(S, R) \in Seq(S)
           /\ Len(InLine(S, R)) = Cardinality(S)
           /\ ToSet(InLine(S, R)) = S
           /\ \A m, n \in DOMAIN InLine(S, R) :
                 m < n <=> <<InLine(S, R)[m], InLine(S, R)[n]>> \in R
           /\ IsInjective(InLine(S, R))
<1> DEFINE Ahead(d) == {e \in S : <<e, d>> \in R}
           C == Cardinality(S)
           rank == [d \in S |-> Cardinality(Ahead(d)) + 1]
<1>c. C \in Nat
  BY FS_CardinalityType
<1>1. \A d \in S : Ahead(d) \in SUBSET S /\ d \notin Ahead(d)
  BY DEF StrictlyOrders
<1>2. \A d \in S : IsFiniteSet(Ahead(d)) /\ Cardinality(Ahead(d)) \in Nat
  BY <1>1, FS_Subset, FS_CardinalityType
<1>3. \A d \in S : Cardinality(Ahead(d)) < C
  <2> TAKE d \in S
  <2>1. Cardinality(Ahead(d)) <= C /\ Ahead(d) # S
    BY <1>1, FS_Subset
  <2>2. Cardinality(Ahead(d)) # C
    BY <2>1, <1>1, FS_Subset
  <2> QED
    BY <2>1, <2>2, <1>2, <1>c
<1>4. \A d, e \in S : <<d, e>> \in R => Cardinality(Ahead(d)) < Cardinality(Ahead(e))
  <2> SUFFICES ASSUME NEW d \in S, NEW e \in S, <<d, e>> \in R
               PROVE  Cardinality(Ahead(d)) < Cardinality(Ahead(e))
    OBVIOUS
  <2>1. Ahead(d) \in SUBSET Ahead(e) /\ d \in Ahead(e)
    BY DEF StrictlyOrders
  <2>2. Ahead(d) # Ahead(e)
    BY <2>1, <1>1
  <2>3. /\ Cardinality(Ahead(d)) <= Cardinality(Ahead(e))
        /\ Cardinality(Ahead(e)) # Cardinality(Ahead(d))
    BY <2>1, <2>2, <1>2, FS_Subset
  <2> QED
    BY <2>3, <1>2
<1> HIDE DEF Ahead
<1>5. rank \in [S -> 1..C]
  <2>1. \A d \in S : Cardinality(Ahead(d)) + 1 \in 1..C
    BY <1>2, <1>3, <1>c
  <2> QED
    BY <2>1
<1>6. \A d, e \in S : rank[d] < rank[e] <=> <<d, e>> \in R
  <2> TAKE d, e \in S
  <2>1. CASE d = e
    BY <2>1, <1>2 DEF StrictlyOrders
  <2>2. CASE d # e
    <3>1. <<d, e>> \in R => ~(<<e, d>> \in R)
      BY DEF StrictlyOrders
    <3>2. <<d, e>> \in R \/ <<e, d>> \in R
      BY <2>2 DEF StrictlyOrders
    <3>3. /\ <<d, e>> \in R => rank[d] < rank[e]
          /\ <<e, d>> \in R => rank[e] < rank[d]
      BY <1>2, <1>4
    <3>4. rank[d] \in Nat /\ rank[e] \in Nat
      BY <1>5, <1>c
    <3> QED
      BY <3>1, <3>2, <3>3, <3>4
  <2> QED
    BY <2>1, <2>2
<1>7. \A d, e \in S : rank[d] = rank[e] => d = e
  <2> SUFFICES ASSUME NEW d \in S, NEW e \in S, rank[d] = rank[e], d # e
               PROVE  FALSE
    OBVIOUS
  <2>1. rank[d] < rank[e] \/ rank[e] < rank[d]
    BY <1>6 DEF StrictlyOrders
  <2>2. rank[d] \in 1..C /\ rank[e] \in 1..C
    BY <1>5
  <2> QED
    BY <2>1, <2>2
<1>8. \A n \in 1..C : \E d \in S : rank[d] = n
  <2>1. rank \in Injection(S, 1..C)
    BY <1>5, <1>7 DEF Injection, IsInjective
  <2>2. IsFiniteSet(1..C) /\ Cardinality(1..C) = C
    BY <1>c, FS_Interval
  <2>3. rank \in Surjection(S, 1..C)
    BY <2>1, <2>2, FS_Injection
  <2> QED
    BY <2>3 DEF Surjection
<1> DEFINE line == InLine(S, R)
<1>9. line = [n \in 1..C |-> CHOOSE d \in S : Cardinality(Ahead(d)) = n - 1]
  BY DEF InLine, Ahead
<1>10. \A n \in 1..C : line[n] \in S /\ rank[line[n]] = n
  <2> TAKE n \in 1..C
  <2>1. PICK d \in S : rank[d] = n
    BY <1>8
  <2>2. Cardinality(Ahead(d)) = n - 1
    BY <2>1, <1>2
  <2>3. line[n] = CHOOSE e \in S : Cardinality(Ahead(e)) = n - 1
    BY <1>9
  <2>4. line[n] \in S /\ Cardinality(Ahead(line[n])) = n - 1
    BY <2>2, <2>3
  <2> QED
    BY <2>4
<1>11. line \in [1..C -> S]
  BY <1>9, <1>10
<1>12. line \in Seq(S) /\ Len(line) = C /\ DOMAIN line = 1..C
  BY <1>11, <1>c
<1>13. \A d \in S : rank[d] \in 1..C /\ line[rank[d]] = d
  BY <1>5, <1>7, <1>10
<1>r. \A n \in 1..C : rank[line[n]] = n
  BY <1>10
<1> HIDE DEF line, rank, C
<1>14. ToSet(line) = S
  <2>1. ToSet(line) \subseteq S
    BY <1>10, <1>12 DEF ToSet
  <2>2. S \subseteq ToSet(line)
    BY <1>12, <1>13 DEF ToSet
  <2> QED
    BY <2>1, <2>2
<1>15. \A m, n \in 1..C : m < n <=> <<line[m], line[n]>> \in R
  BY <1>6, <1>10
<1>16. IsInjective(line)
  <2> SUFFICES ASSUME NEW a \in 1..C, NEW b \in 1..C, line[a] = line[b]
               PROVE  a = b
    BY <1>12 DEF IsInjective
  <2> QED
    BY <1>r
<1> QED
  BY <1>12, <1>14, <1>15, <1>16 DEF line, C

(* What is first and what is last among naturals. *)
LEMMA MinIs ==
    ASSUME NEW S \in SUBSET Nat, S # {}
    PROVE  Min(S) \in S /\ \A k \in S : Min(S) <= k
<1>1. \E m \in S : \A k \in S : m =< k
  BY Least
<1> QED
  BY <1>1 DEF Min

LEMMA MaxIs ==
    ASSUME NEW S \in SUBSET Nat, S # {}, IsFiniteSet(S)
    PROVE  Max(S) \in S /\ \A k \in S : Max(S) >= k
<1> DEFINE R == {x \in S \X S : x[1] < x[2]}
           line == InLine(S, R)
<1>1. \A d, e \in S : <<d, e>> \in R <=> d < e
  OBVIOUS
<1> HIDE DEF R
<1>2. StrictlyOrders(R, S)
  BY <1>1 DEF StrictlyOrders
<1>3. /\ line \in Seq(S)
      /\ ToSet(line) = S
      /\ \A m, n \in DOMAIN line : m < n <=> <<line[m], line[n]>> \in R
  BY <1>2, Lined
<1> HIDE DEF line
<1>4. line # <<>>
  BY <1>3 DEF ToSet
<1> DEFINE last == line[Len(line)]
<1>5. Len(line) \in DOMAIN line /\ last \in S /\ DOMAIN line \subseteq Nat
  BY <1>3, <1>4
<1>6. \A k \in S : last >= k
  <2> TAKE k \in S
  <2>1. PICK n \in DOMAIN line : line[n] = k
    BY <1>3 DEF ToSet
  <2>2. n <= Len(line) /\ n \in Nat /\ Len(line) \in Nat
    BY <1>3, <2>1
  <2>3. n < Len(line) => <<line[n], last>> \in R
    BY <1>3, <1>5
  <2>4. n < Len(line) => k < last
    BY <1>1, <1>5, <2>1, <2>3
  <2>5. k \in Nat /\ last \in Nat
    BY <1>5
  <2>6. n = Len(line) => last = k
    BY <2>1
  <2> HIDE DEF last
  <2> QED
    BY <2>2, <2>4, <2>5, <2>6
<1> QED
  BY <1>5, <1>6 DEF Max

(* The values of a function on a finite set. *)
LEMMA FiniteImage ==
    ASSUME NEW S, IsFiniteSet(S), NEW f, DOMAIN f = S, f = [x \in S |-> f[x]]
    PROVE  IsFiniteSet({f[x] : x \in S})
<1> DEFINE T == {f[x] : x \in S}
<1>1. f \in Surjection(S, T)
  BY DEF Surjection
<1> QED
  BY <1>1, FS_Surjection

LEMMA FiniteSeq ==
    ASSUME NEW T, NEW s \in Seq(T)
    PROVE  IsFiniteSet(DOMAIN s) /\ IsFiniteSet(ToSet(s))
<1>1. DOMAIN s = 1..Len(s) /\ Len(s) \in Nat
  OBVIOUS
<1>2. IsFiniteSet(DOMAIN s)
  BY <1>1, FS_Interval
<1>3. s = [x \in DOMAIN s |-> s[x]]
  OBVIOUS
<1> QED
  BY <1>2, <1>3, FiniteImage DEF ToSet

(* Within keeps what is in the set and nothing else. *)
LEMMA Filtered ==
    ASSUME NEW T, NEW s \in Seq(T), NEW S
    PROVE  /\ Within(s, S) \in Seq(T)
           /\ ToSet(Within(s, S)) = ToSet(s) \cap S
<1> DEFINE kept == {i \in DOMAIN s : s[i] \in S}
           R == {x \in kept \X kept : x[1] < x[2]}
           line == InLine(kept, R)
<1>1. IsFiniteSet(kept) /\ kept \in SUBSET Nat
  BY FiniteSeq, FS_Subset
<1>2. \A d, e \in kept : <<d, e>> \in R <=> d < e
  OBVIOUS
<1>3. \A i \in kept : s[i] \in T /\ s[i] \in S
  OBVIOUS
<1>4. ToSet(s) \cap S = {s[i] : i \in kept}
  BY DEF ToSet
<1>5. Within(s, S) = [n \in DOMAIN line |-> s[line[n]]]
  BY DEF Within
<1> HIDE DEF kept, R
<1>6. StrictlyOrders(R, kept)
  BY <1>1, <1>2 DEF StrictlyOrders
<1>7. line \in Seq(kept) /\ ToSet(line) = kept
  BY <1>1, <1>6, Lined
<1> HIDE DEF line
<1>8. Within(s, S) \in Seq(T)
  BY <1>3, <1>5, <1>7
<1>9. ToSet(Within(s, S)) = {s[i] : i \in kept}
  BY <1>5, <1>7 DEF ToSet
<1> QED
  BY <1>4, <1>8, <1>9

(* Chained takes every element of every sequence, the earlier ones first. *)
LEMMA Concatenated ==
    ASSUME NEW T, NEW batches \in Seq(Seq(T))
    PROVE  /\ Chained(batches) \in Seq(T)
           /\ \E place \in [DOMAIN Chained(batches) -> Nat \X Nat] :
                 /\ \A n \in DOMAIN Chained(batches) :
                       /\ place[n][1] \in DOMAIN batches
                       /\ place[n][2] \in DOMAIN batches[place[n][1]]
                       /\ Chained(batches)[n] = batches[place[n][1]][place[n][2]]
                 /\ \A i \in DOMAIN batches : \A j \in DOMAIN batches[i] :
                       \E n \in DOMAIN Chained(batches) : place[n] = <<i, j>>
                 /\ \A m, n \in DOMAIN Chained(batches) :
                       m <= n => place[m][1] <= place[n][1]
<1> DEFINE chunk == [i \in DOMAIN batches |-> {i} \X DOMAIN batches[i]]
           places == UNION {{i} \X DOMAIN batches[i] : i \in DOMAIN batches}
           R == {x \in places \X places :
                   \/ x[1][1] < x[2][1]
                   \/ x[1][1] = x[2][1] /\ x[1][2] < x[2][2]}
           line == InLine(places, R)
<1>1. IsFiniteSet(places)
  <2>1. IsFiniteSet({chunk[i] : i \in DOMAIN batches})
    <3>1. IsFiniteSet(DOMAIN batches)
      BY FiniteSeq
    <3>2. DOMAIN chunk = DOMAIN batches /\ chunk = [i \in DOMAIN batches |-> chunk[i]]
      OBVIOUS
    <3> HIDE DEF chunk
    <3> QED
      BY <3>1, <3>2, FiniteImage
  <2>2. \A i \in DOMAIN batches : IsFiniteSet(chunk[i])
    <3> TAKE i \in DOMAIN batches
    <3>1. batches[i] \in Seq(T)
      OBVIOUS
    <3>2. IsFiniteSet(DOMAIN batches[i])
      BY <3>1, FiniteSeq
    <3>3. IsFiniteSet({i} \X DOMAIN batches[i])
      BY <3>2, FS_Singleton, FS_Product
    <3> QED
      BY <3>3, Zenon
  <2>3. IsFiniteSet(UNION {chunk[i] : i \in DOMAIN batches})
    BY <2>1, <2>2, FS_UNION
  <2> QED
    BY <2>3
<1>2. \A p : p \in places <=> \E i \in DOMAIN batches : \E j \in DOMAIN batches[i] : p = <<i, j>>
  OBVIOUS
<1>3. \A p \in places : /\ p \in Nat \X Nat
                        /\ p[1] \in DOMAIN batches
                        /\ p[2] \in DOMAIN batches[p[1]]
                        /\ batches[p[1]][p[2]] \in T
                        /\ p = <<p[1], p[2]>>
  <2> TAKE p \in places
  <2>0. PICK i \in DOMAIN batches : \E j \in DOMAIN batches[i] : p = <<i, j>>
    BY <1>2
  <2>1. PICK j \in DOMAIN batches[i] : p = <<i, j>>
    BY <2>0
  <2>2. batches[i] \in Seq(T) /\ i \in Nat
    OBVIOUS
  <2>3. j \in Nat /\ batches[i][j] \in T
    BY <2>2
  <2> QED
    BY <2>1, <2>2, <2>3
<1>4. Chained(batches) = [n \in DOMAIN line |-> batches[line[n][1]][line[n][2]]]
  BY DEF Chained
<1>5. \A p, q \in places :
        <<p, q>> \in R <=> p[1] < q[1] \/ (p[1] = q[1] /\ p[2] < q[2])
  OBVIOUS
<1> HIDE DEF places, R
<1>6. StrictlyOrders(R, places)
  <2>1. \A p \in places : p[1] \in Nat /\ p[2] \in Nat /\ p = <<p[1], p[2]>>
    BY <1>3
  <2>2. \A p, q \in places : p # q => p[1] # q[1] \/ p[2] # q[2]
    BY <2>1
  <2>3. \A p \in places : ~(<<p, p>> \in R)
    BY <1>5, <2>1
  <2>4. \A p, q \in places : p # q => <<p, q>> \in R \/ <<q, p>> \in R
    BY <1>5, <2>1, <2>2
  <2>5. \A p, q, r \in places : <<p, q>> \in R /\ <<q, r>> \in R => <<p, r>> \in R
    <3> SUFFICES ASSUME NEW p \in places, NEW q \in places, NEW r \in places,
                        <<p, q>> \in R, <<q, r>> \in R
                 PROVE  <<p, r>> \in R
      OBVIOUS
    <3>1. /\ p[1] \in Nat /\ p[2] \in Nat /\ q[1] \in Nat
          /\ q[2] \in Nat /\ r[1] \in Nat /\ r[2] \in Nat
      BY <2>1
    <3>2. p[1] < q[1] \/ (p[1] = q[1] /\ p[2] < q[2])
      BY <1>5
    <3>3. q[1] < r[1] \/ (q[1] = r[1] /\ q[2] < r[2])
      BY <1>5
    <3>4. p[1] < r[1] \/ (p[1] = r[1] /\ p[2] < r[2])
      BY <3>1, <3>2, <3>3
    <3> QED
      BY <1>5, <3>4
  <2> QED
    BY <2>3, <2>4, <2>5 DEF StrictlyOrders
<1>7. /\ line \in Seq(places) /\ ToSet(line) = places
      /\ \A m, n \in DOMAIN line : m < n <=> <<line[m], line[n]>> \in R
  BY <1>1, <1>6, Lined
<1> HIDE DEF line
<1>8. \A n \in DOMAIN line : line[n] \in places
  BY <1>7
<1>9. Chained(batches) \in Seq(T)
  <2>1. \A n \in DOMAIN line : batches[line[n][1]][line[n][2]] \in T
    BY <1>3, <1>8
  <2>2. DOMAIN line = 1..Len(line) /\ Len(line) \in Nat
    BY <1>7
  <2> QED
    BY <1>4, <2>1, <2>2
<1>10. DOMAIN Chained(batches) = DOMAIN line
  BY <1>4
<1>11. line \in [DOMAIN Chained(batches) -> Nat \X Nat]
  BY <1>3, <1>7, <1>8, <1>10
<1>12. \A n \in DOMAIN Chained(batches) :
         /\ line[n][1] \in DOMAIN batches
         /\ line[n][2] \in DOMAIN batches[line[n][1]]
         /\ Chained(batches)[n] = batches[line[n][1]][line[n][2]]
  BY <1>3, <1>4, <1>8, <1>10
<1>13. \A i \in DOMAIN batches : \A j \in DOMAIN batches[i] :
         \E n \in DOMAIN Chained(batches) : line[n] = <<i, j>>
  <2> TAKE i \in DOMAIN batches
  <2> TAKE j \in DOMAIN batches[i]
  <2>1. <<i, j>> \in places
    BY <1>2
  <2> QED
    BY <2>1, <1>7, <1>10 DEF ToSet
<1>14. \A m, n \in DOMAIN Chained(batches) : m <= n => line[m][1] <= line[n][1]
  <2> SUFFICES ASSUME NEW m \in DOMAIN line, NEW n \in DOMAIN line, m <= n
               PROVE  line[m][1] <= line[n][1]
    BY <1>10
  <2>1. line[m][1] \in Nat /\ line[n][1] \in Nat /\ m \in Nat /\ n \in Nat
    <3>1. line[m] \in places /\ line[n] \in places
      BY <1>8
    <3>2. DOMAIN line = 1..Len(line) /\ Len(line) \in Nat
      BY <1>7
    <3> QED
      BY <1>3, <3>1, <3>2
  <2>2. m < n => line[m][1] <= line[n][1]
    <3>1. line[m] \in places /\ line[n] \in places
      BY <1>8
    <3>2. m < n => <<line[m], line[n]>> \in R
      BY <1>7
    <3>3. m < n => line[m][1] < line[n][1] \/ line[m][1] = line[n][1]
      BY <1>5, <3>1, <3>2
    <3> QED
      BY <2>1, <3>3
  <2> QED
    BY <2>1, <2>2
<1> QED
  BY <1>9, <1>11, <1>12, <1>13, <1>14

(***************************************************************************)
(* The planner's orders.                                                     *)
(***************************************************************************)
LEMMA Positions ==
    /\ IsFiniteSet(Providers)
    /\ \A p \in Providers : Position(p) \in Nat
    /\ \A p, q \in Providers : Position(p) = Position(q) => p = q
<1>1. Order \in Seq(Providers)
  BY EngineAssumption
<1>2. \A p \in Providers : Position(p) \in DOMAIN Order /\ Order[Position(p)] = p
  <2> TAKE p \in Providers
  <2>1. \E i \in DOMAIN Order : Order[i] = p
    BY DEF Providers, ToSet
  <2> QED
    BY <2>1 DEF Position
<1>3. IsFiniteSet(ToSet(Order))
  BY <1>1, FiniteSeq
<1>4. DOMAIN Order \subseteq Nat
  BY <1>1
<1> QED
  BY <1>2, <1>3, <1>4 DEF Providers

LEMMA Sorted ==
    ASSUME NEW S \in SUBSET Providers
    PROVE  /\ ByOrder(S) \in Seq(S) /\ ToSet(ByOrder(S)) = S
           /\ ByStanding(S) \in Seq(S) /\ ToSet(ByStanding(S)) = S
<1>1. IsFiniteSet(S)
  BY Positions, FS_Subset
<1>2. \A p \in S : Position(p) \in Nat /\ Standing[p] \in Nat
  BY Positions, EngineAssumption
<1>3. \A p, q \in S : p # q => Position(p) # Position(q)
  BY Positions
<1>4. ByOrder(S) \in Seq(S) /\ ToSet(ByOrder(S)) = S
  <2> DEFINE R == {x \in S \X S : Position(x[1]) < Position(x[2])}
  <2>1. \A p, q \in S : <<p, q>> \in R <=> Position(p) < Position(q)
    OBVIOUS
  <2> HIDE DEF R
  <2>2. StrictlyOrders(R, S)
    BY <2>1, <1>2, <1>3 DEF StrictlyOrders
  <2>3. InLine(S, R) \in Seq(S) /\ ToSet(InLine(S, R)) = S
    BY <1>1, <2>2, Lined
  <2> QED
    BY <2>3 DEF ByOrder, R
<1>5. ByStanding(S) \in Seq(S) /\ ToSet(ByStanding(S)) = S
  <2> DEFINE R == {x \in S \X S :
                     \/ Standing[x[1]] < Standing[x[2]]
                     \/ Standing[x[1]] = Standing[x[2]] /\ Position(x[1]) < Position(x[2])}
  <2>1. \A p, q \in S : <<p, q>> \in R <=>
            \/ Standing[p] < Standing[q]
            \/ Standing[p] = Standing[q] /\ Position(p) < Position(q)
    OBVIOUS
  <2> HIDE DEF R
  <2>2. StrictlyOrders(R, S)
    BY <2>1, <1>2, <1>3 DEF StrictlyOrders
  <2>3. InLine(S, R) \in Seq(S) /\ ToSet(InLine(S, R)) = S
    BY <1>1, <2>2, Lined
  <2> QED
    BY <2>3 DEF ByStanding, R
<1> QED
  BY <1>4, <1>5

(***************************************************************************)
(* The reciprocal rank fusion.                                               *)
(***************************************************************************)
LEMMA RankInIs ==
    ASSUME NEW batch \in Seq(Docs), NEW j \in DOMAIN batch, NEW key, batch[j].key = key
    PROVE  /\ RankIn(key, batch) \in DOMAIN batch
           /\ RankIn(key, batch) <= j
           /\ batch[RankIn(key, batch)].key = key
<1> DEFINE S == {i \in DOMAIN batch : batch[i].key = key}
<1>1. S \in SUBSET Nat /\ j \in S
  OBVIOUS
<1>2. Min(S) \in S /\ \A k \in S : Min(S) <= k
  BY <1>1, MinIs
<1> QED
  BY <1>1, <1>2 DEF RankIn

(* The recursive sum of Score exists. *)
LEMMA SumExists ==
    ASSUME NEW N \in Nat, NEW a \in [1..N -> Nat]
    PROVE  \E f \in [0..N -> Nat] :
              f[0] = 0 /\ \A n \in 1..N : f[n] = f[n - 1] + a[n]
<1> DEFINE Sums(f, k) == f[0] = 0 /\ \A n \in 1..k : f[n] = f[n - 1] + a[n]
           Summed(k) == \E f \in [0..k -> Nat] : Sums(f, k)
           Bad == {k \in 0..N : ~Summed(k)}
<1>0. Summed(N) => \E f \in [0..N -> Nat] :
                     f[0] = 0 /\ \A n \in 1..N : f[n] = f[n - 1] + a[n]
  OBVIOUS
<1> HIDE DEF Summed
<1>1. SUFFICES ASSUME ~Summed(N)
               PROVE  FALSE
  BY <1>0
<1>a. Bad \in SUBSET Nat /\ N \in Bad
  BY <1>1
<1>2. PICK k \in Bad : \A m \in Bad : k <= m
  BY <1>a, Least
<1>3. k # 0
  <2>1. [x \in 0..0 |-> 0] \in [0..0 -> Nat] /\ Sums([x \in 0..0 |-> 0], 0)
    OBVIOUS
  <2>2. Summed(0)
    BY <2>1 DEF Summed
  <2> QED
    BY <2>2
<1>4. k - 1 \in 0..N /\ k - 1 \notin Bad /\ k \in 1..N
  BY <1>2, <1>3
<1>b. Summed(k - 1)
  BY <1>4
<1>5. PICK f \in [0..(k - 1) -> Nat] : Sums(f, k - 1)
  BY <1>b DEF Summed
<1> DEFINE g == [n \in 0..k |-> IF n = k THEN f[k - 1] + a[k] ELSE f[n]]
<1>6. g \in [0..k -> Nat]
  BY <1>4, <1>5
<1>7. \A n \in 1..k : g[n] = g[n - 1] + a[n]
  <2> TAKE n \in 1..k
  <2>1. CASE n = k
    BY <2>1, <1>4
  <2>2. CASE n # k
    <3>1. n \in 1..(k - 1) /\ n \in 0..k /\ n - 1 \in 0..k /\ n - 1 # k
      BY <2>2, <1>4
    <3>2. f[n] = f[n - 1] + a[n]
      BY <3>1, <1>5
    <3> QED
      BY <3>1, <3>2, <2>2
  <2> QED
    BY <2>1, <2>2
<1>8. g[0] = 0
  BY <1>4, <1>5
<1>9. Summed(k)
  BY <1>6, <1>7, <1>8 DEF Summed
<1> QED
  BY <1>2, <1>9

(* Partial sums of naturals grow, and stay where nothing is added. *)
LEMMA SumGrows ==
    ASSUME NEW N \in Nat, NEW a \in [1..N -> Nat], NEW f \in [0..N -> Nat],
           \A n \in 1..N : f[n] = f[n - 1] + a[n],
           NEW m \in 0..N, NEW k \in m..N
    PROVE  /\ f[m] <= f[k]
           /\ (\A n \in (m + 1)..k : a[n] = 0) => f[k] = f[m]
<1> DEFINE Flat(j) == \A n \in (m + 1)..j : a[n] = 0
           Bad == {j \in m..N : ~ (f[m] <= f[j] /\ (Flat(j) => f[j] = f[m]))}
<1>1. SUFFICES ASSUME Bad # {}
               PROVE  FALSE
  OBVIOUS
<1>a. Bad \in SUBSET Nat
  OBVIOUS
<1>2. PICK j \in Bad : \A i \in Bad : j <= i
  BY <1>1, <1>a, Least
<1>3. j # m
  BY <1>2
<1>4. j - 1 \in m..N /\ j - 1 \notin Bad /\ j \in 1..N /\ j \in (m + 1)..j
  BY <1>2, <1>3
<1>5. f[m] <= f[j - 1] /\ (Flat(j - 1) => f[j - 1] = f[m])
  BY <1>4
<1>6. f[j] = f[j - 1] + a[j]
  BY <1>4
<1>7. f[m] \in Nat /\ f[j - 1] \in Nat /\ a[j] \in Nat
  BY <1>4
<1>8. f[m] <= f[j]
  BY <1>5, <1>6, <1>7
<1>9. Flat(j) => f[j] = f[m]
  <2> SUFFICES ASSUME Flat(j)
               PROVE  f[j] = f[m]
    OBVIOUS
  <2>1. Flat(j - 1) /\ a[j] = 0
    BY <1>4
  <2> QED
    BY <2>1, <1>5, <1>6, <1>7
<1> QED
  BY <1>2, <1>8, <1>9

LEMMA HoldingIs ==
    ASSUME NEW batches \in Seq(Seq(Docs)), NEW key, NEW i \in Holding(key, batches)
    PROVE  /\ i \in 1..Len(batches) /\ batches[i] \in Seq(Docs)
           /\ RankIn(key, batches[i]) \in DOMAIN batches[i]
           /\ batches[i][RankIn(key, batches[i])] \in Docs
           /\ batches[i][RankIn(key, batches[i])].key = key
           /\ \A j \in DOMAIN batches[i] :
                 batches[i][j].key = key => RankIn(key, batches[i]) <= j
<1>1. i \in DOMAIN batches /\ \E d \in ToSet(batches[i]) : d.key = key
  BY DEF Holding
<1>2. i \in 1..Len(batches) /\ batches[i] \in Seq(Docs)
  BY <1>1
<1>3. PICK j \in DOMAIN batches[i] : batches[i][j].key = key
  BY <1>1 DEF ToSet
<1>4. /\ RankIn(key, batches[i]) \in DOMAIN batches[i]
      /\ batches[i][RankIn(key, batches[i])].key = key
  BY <1>2, <1>3, RankInIs
<1>5. \A k \in DOMAIN batches[i] :
         batches[i][k].key = key => RankIn(key, batches[i]) <= k
  BY <1>2, RankInIs
<1> QED
  BY <1>2, <1>4, <1>5

(* What the batches add to the score of a key, one by one. *)
Shares(key, batches) ==
    [n \in 1..Len(batches) |->
        IF n \in Holding(key, batches) THEN Unit \div (60 + RankIn(key, batches[n])) ELSE 0]

LEMMA Scored ==
    ASSUME NEW batches \in Seq(Seq(Docs)), NEW key
    PROVE  /\ Shares(key, batches) \in [1..Len(batches) -> Nat]
           /\ \E f \in [0..Len(batches) -> Nat] :
                 /\ f[0] = 0
                 /\ \A n \in 1..Len(batches) : f[n] = f[n - 1] + Shares(key, batches)[n]
                 /\ Score(key, batches) = f[Len(batches)]
<1> DEFINE N == Len(batches)
           a == Shares(key, batches)
           Step(f) == [n \in 0..N |-> IF n = 0 THEN 0 ELSE f[n - 1] +
                          (IF n \in Holding(key, batches)
                           THEN Unit \div (60 + RankIn(key, batches[n])) ELSE 0)]
<1>0. N \in Nat
  OBVIOUS
<1>1. a \in [1..N -> Nat]
  <2>1. \A n \in Holding(key, batches) :
           n \in 1..N /\ Unit \div (60 + RankIn(key, batches[n])) \in Nat
    <3> TAKE n \in Holding(key, batches)
    <3>1. RankIn(key, batches[n]) \in Nat /\ n \in 1..N
      BY HoldingIs
    <3>2. Unit \in Nat
      BY EngineAssumption
    <3>3. \A u, r \in Nat : u \div (60 + r) \in Nat
      OBVIOUS
    <3> QED
      BY <3>1, <3>2, <3>3
  <2> QED
    BY <2>1 DEF Shares
<1>2. PICK f \in [0..N -> Nat] : f[0] = 0 /\ \A n \in 1..N : f[n] = f[n - 1] + a[n]
  BY <1>0, <1>1, SumExists
<1>3. f = Step(f)
  <2>1. \A n \in 1..N : a[n] = IF n \in Holding(key, batches)
                               THEN Unit \div (60 + RankIn(key, batches[n])) ELSE 0
    BY DEF Shares
  <2>2. \A n \in 0..N : f[n] = Step(f)[n]
    <3> TAKE n \in 0..N
    <3>1. CASE n = 0
      BY <3>1, <1>2
    <3>2. CASE n # 0
      <4>1. n \in 1..N
        BY <3>2, <1>0
      <4> QED
        BY <4>1, <3>2, <2>1, <1>2
    <3> QED
      BY <3>1, <3>2
  <2>3. f = [n \in 0..N |-> f[n]]
    BY <1>2
  <2> QED
    BY <2>2, <2>3
<1> DEFINE sum == CHOOSE g : g = Step(g)
<1>4. sum = Step(sum)
  BY <1>3
<1>5. Score(key, batches) = sum[N]
  BY DEF Score
<1>6. \A n \in 0..N : sum[n] = IF n = 0 THEN 0 ELSE sum[n - 1] +
                          (IF n \in Holding(key, batches)
                           THEN Unit \div (60 + RankIn(key, batches[n])) ELSE 0)
  BY <1>4
<1>7. sum[0] = 0 /\ \A n \in 1..N : sum[n] = sum[n - 1] + a[n]
  <2>1. sum[0] = 0
    BY <1>0, <1>6
  <2>2. ASSUME NEW n \in 1..N
        PROVE  sum[n] = sum[n - 1] + a[n]
    <3>1. n \in 0..N /\ n # 0
      BY <1>0
    <3>2. a[n] = IF n \in Holding(key, batches)
                 THEN Unit \div (60 + RankIn(key, batches[n])) ELSE 0
      BY DEF Shares
    <3> HIDE DEF sum, a
    <3> QED
      BY <1>6, <3>1, <3>2
  <2> QED
    BY <2>1, <2>2
<1>8. DOMAIN sum = 0..N
  BY <1>4
<1> HIDE DEF sum, a
<1>9. \A n \in 0..N : sum[n] = f[n]
  <2> DEFINE Bad == {n \in 0..N : sum[n] # f[n]}
  <2>1. SUFFICES ASSUME Bad # {}
                 PROVE  FALSE
    OBVIOUS
  <2>2. Bad \in SUBSET Nat
    OBVIOUS
  <2>3. PICK k \in Bad : \A i \in Bad : k <= i
    BY <2>1, <2>2, Least
  <2>4. k # 0
    BY <1>2, <1>7
  <2>5. k - 1 \in 0..N /\ k - 1 \notin Bad /\ k \in 1..N
    BY <2>3, <2>4, <1>0
  <2>6. sum[k - 1] = f[k - 1]
    BY <2>5
  <2>7. sum[k] = f[k]
    BY <2>5, <2>6, <1>2, <1>7
  <2> QED
    BY <2>7
<1>10. Score(key, batches) = f[N]
  BY <1>0, <1>5, <1>9
<1> QED
  BY <1>1, <1>2, <1>10 DEF a

LEMMA ScoreNat ==
    ASSUME NEW batches \in Seq(Seq(Docs)), NEW key
    PROVE  Score(key, batches) \in Nat
<1>1. Len(batches) \in 0..Len(batches)
  OBVIOUS
<1>2. PICK f \in [0..Len(batches) -> Nat] : Score(key, batches) = f[Len(batches)]
  BY Scored
<1> QED
  BY <1>1, <1>2

(* 60 + rank: of batches no longer than 61, two always add more than one. *)
LEMMA TwoBeatOne ==
    ASSUME NEW u \in Nat, u > 0,
           NEW r \in 1..61, NEW s \in 1..61, NEW t \in 1..61,
           u % (60 + r) = 0, u % (60 + s) = 0, u % (60 + t) = 0
    PROVE  u \div (60 + r) + u \div (60 + s) > u \div (60 + t)
<1>1. ASSUME NEW d \in 1..121, u % d = 0
      PROVE  \E q \in Nat : q = u \div d /\ u = d * q
  BY <1>1
<1>2. 60 + r \in 1..121 /\ 60 + s \in 1..121 /\ 60 + t \in 1..121
  OBVIOUS
<1>3. PICK a \in Nat : a = u \div (60 + r) /\ u = (60 + r) * a
  BY <1>1, <1>2
<1>4. PICK b \in Nat : b = u \div (60 + s) /\ u = (60 + s) * b
  BY <1>1, <1>2
<1>5. PICK c \in Nat : c = u \div (60 + t) /\ u = (60 + t) * c
  BY <1>1, <1>2
<1>6. \A x, y, z \in Nat : x <= y => x * z <= y * z
  OBVIOUS
<1>7. (60 + r) * a <= 121 * a /\ (60 + s) * b <= 121 * b /\ 61 * c <= (60 + t) * c
  <2>1. /\ 60 + r \in Nat /\ 60 + s \in Nat /\ 60 + t \in Nat
        /\ 60 + r <= 121 /\ 60 + s <= 121 /\ 61 <= 60 + t
    OBVIOUS
  <2> QED
    BY <2>1, <1>6
<1>8. u <= 121 * a /\ u <= 121 * b /\ 61 * c <= u
  BY <1>3, <1>4, <1>5, <1>7
<1>9. a + b > c
  BY <1>8
<1> QED
  BY <1>3, <1>4, <1>5, <1>9

(* A key two batches hold outscores one that a single batch holds. *)
LEMMA Agreement ==
    ASSUME NEW batches \in Seq(Seq(Docs)), NEW key, NEW other,
           \A n \in DOMAIN batches : Len(batches[n]) <= MaxBatch,
           MaxBatch <= 61, Remote # {},
           NEW i \in Holding(key, batches), NEW j \in Holding(key, batches), i < j,
           NEW l, Holding(other, batches) = {l}
    PROVE  Score(key, batches) > Score(other, batches)
<1> DEFINE N == Len(batches)
           a == Shares(key, batches)
           b == Shares(other, batches)
           Rank(k, n) == RankIn(k, batches[n])
<1>1. PICK f \in [0..N -> Nat] :
         /\ f[0] = 0 /\ \A n \in 1..N : f[n] = f[n - 1] + a[n]
         /\ Score(key, batches) = f[N]
  BY Scored
<1>2. PICK g \in [0..N -> Nat] :
         /\ g[0] = 0 /\ \A n \in 1..N : g[n] = g[n - 1] + b[n]
         /\ Score(other, batches) = g[N]
  BY Scored
<1>3. a \in [1..N -> Nat] /\ b \in [1..N -> Nat] /\ N \in Nat
  BY Scored
<1>4. ASSUME NEW k, NEW n \in Holding(k, batches)
      PROVE  /\ n \in 1..N
             /\ Rank(k, n) \in 1..61
             /\ Unit % (60 + Rank(k, n)) = 0
  <2>1. n \in 1..N /\ batches[n] \in Seq(Docs) /\ Rank(k, n) \in DOMAIN batches[n]
    BY HoldingIs
  <2>2. Len(batches[n]) <= MaxBatch
    BY <2>1
  <2>3. Rank(k, n) \in 1..MaxBatch
    BY <2>1, <2>2, EngineAssumption
  <2>4. Cardinality(Remote) \in Nat /\ Cardinality(Remote) > 0
    <3>1. IsFiniteSet(Remote)
      BY Positions, FS_Subset DEF Remote
    <3> QED
      BY <3>1, FS_CardinalityType, FS_EmptySet
  <2>5. MaxBatch * Cardinality(Remote) >= MaxBatch
    <3>1. \A x, y \in Nat : y > 0 => x * y >= x
      OBVIOUS
    <3> QED
      BY <2>4, <3>1, EngineAssumption
  <2>6. Rank(k, n) \in 1..(MaxBatch * Cardinality(Remote))
    <3>1. MaxBatch * Cardinality(Remote) \in Nat
      BY <2>4, EngineAssumption
    <3>2. \A x, y \in Nat : x >= y => 1..y \subseteq 1..x
      OBVIOUS
    <3> QED
      BY <2>3, <2>5, <3>1, <3>2, EngineAssumption
  <2> QED
    <3>1. \A r \in 1..(MaxBatch * Cardinality(Remote)) : Unit % (60 + r) = 0
      BY EngineAssumption
    <3>2. Unit % (60 + Rank(k, n)) = 0
      BY <2>6, <3>1
    <3>3. Rank(k, n) \in 1..61
      <4>1. MaxBatch \in Nat
        BY EngineAssumption
      <4>2. 1..MaxBatch \subseteq 1..61
        BY <4>1
      <4> QED
        BY <2>3, <4>2
    <3> QED
      BY <2>1, <3>2, <3>3
<1>5. i \in 1..N /\ j \in 1..N /\ l \in 1..N
  BY <1>4
<1>6. /\ a[i] = Unit \div (60 + Rank(key, i))
      /\ a[j] = Unit \div (60 + Rank(key, j))
      /\ b[l] = Unit \div (60 + Rank(other, l))
  BY <1>5 DEF Shares
<1>7. a[i] + a[j] > b[l]
  <2>1. /\ Rank(key, i) \in 1..61 /\ Unit % (60 + Rank(key, i)) = 0
        /\ Rank(key, j) \in 1..61 /\ Unit % (60 + Rank(key, j)) = 0
        /\ Rank(other, l) \in 1..61 /\ Unit % (60 + Rank(other, l)) = 0
    BY <1>4
  <2>2. Unit \in Nat /\ Unit > 0
    BY EngineAssumption
  <2> HIDE DEF Rank, a, b
  <2>3. Unit \div (60 + Rank(key, i)) + Unit \div (60 + Rank(key, j))
          > Unit \div (60 + Rank(other, l))
    BY <2>1, <2>2, TwoBeatOne
  <2> QED
    BY <2>3, <1>6
<1>8. \A n \in 1..N : n # l => b[n] = 0
  BY DEF Shares
<1> HIDE DEF a, b, Rank, N
<1>9. f[N] >= a[i] + a[j]
  <2>1. /\ i \in 0..N /\ i - 1 \in 0..N /\ j - 1 \in i..N /\ j - 1 \in 0..N
        /\ j \in 0..N /\ N \in j..N
    BY <1>3, <1>5
  <2>2. f[i] = f[i - 1] + a[i] /\ f[j] = f[j - 1] + a[j]
    BY <1>1, <1>5
  <2>3. f[i] <= f[j - 1] /\ f[j] <= f[N]
    BY <1>1, <1>3, <2>1, SumGrows
  <2>4. /\ f[i] \in Nat /\ f[i - 1] \in Nat /\ f[j] \in Nat /\ f[j - 1] \in Nat
        /\ f[N] \in Nat /\ a[i] \in Nat /\ a[j] \in Nat
    <3>1. N \in 0..N
      BY <1>3
    <3> QED
      BY <1>1, <1>3, <1>5, <2>1, <3>1
  <2>5. f[i] >= a[i] /\ f[j - 1] >= a[i]
    BY <2>2, <2>3, <2>4
  <2>6. f[j] >= a[i] + a[j]
    BY <2>2, <2>4, <2>5
  <2> QED
    BY <2>3, <2>4, <2>6
<1>10. g[N] = b[l]
  <2>1. /\ 0 \in 0..N /\ l - 1 \in 0..N /\ l \in 0..N /\ N \in l..N
        /\ l \in Nat /\ l > 0
    BY <1>3, <1>5
  <2>2. g[l] = g[l - 1] + b[l]
    BY <1>2, <1>5
  <2>3. g[l - 1] = g[0]
    <3>1. \A n \in (0 + 1)..(l - 1) : b[n] = 0
      BY <1>3, <1>5, <1>8
    <3>2. \A n \in 1..N : g[n] = g[n - 1] + b[n]
      BY <1>2
    <3> QED
      BY <1>3, <2>1, <3>1, <3>2, SumGrows
  <2>4. g[N] = g[l]
    <3>1. \A n \in (l + 1)..N : b[n] = 0
      BY <1>3, <1>5, <1>8
    <3>2. \A n \in 1..N : g[n] = g[n - 1] + b[n]
      BY <1>2
    <3> QED
      BY <1>3, <2>1, <3>1, <3>2, SumGrows
  <2>5. b[l] \in Nat
    BY <1>3, <1>5
  <2> QED
    BY <1>2, <2>2, <2>3, <2>4, <2>5
<1>11. f[N] > g[N]
  <2>1. a[i] \in Nat /\ a[j] \in Nat /\ b[l] \in Nat /\ f[N] \in Nat
    <3>1. N \in 0..N
      BY <1>3
    <3> QED
      BY <1>1, <1>3, <1>5, <3>1
  <2> QED
    BY <2>1, <1>7, <1>9, <1>10
<1> QED
  BY <1>1, <1>2, <1>11

(* The first document a batch has of a key. *)
First(key, batches, i) == batches[i][RankIn(key, batches[i])]

(* What stands for a key is the earliest of the heaviest first documents. *)
LEMMA StandsIs ==
    ASSUME NEW batches \in Seq(Seq(Docs)), NEW key, Holding(key, batches) # {}
    PROVE  /\ Stands(key, batches) \in Docs
           /\ Stands(key, batches).key = key
           /\ \E b \in Holding(key, batches) :
                 /\ Stands(key, batches) = First(key, batches, b)
                 /\ \A j \in Holding(key, batches) :
                       /\ First(key, batches, j).weight <= Stands(key, batches).weight
                       /\ j < b => First(key, batches, j).weight < Stands(key, batches).weight
<1> DEFINE H == Holding(key, batches)
           w == [i \in H |-> First(key, batches, i).weight]
           W == {w[i] : i \in H}
           Best(i) == \A j \in H \ {i} :
                   IF j < i THEN Replaces(First(key, batches, j), First(key, batches, i))
                   ELSE ~Replaces(First(key, batches, i), First(key, batches, j))
           best == CHOOSE i \in H : Best(i)
<1>1. \A i \in H : /\ i \in Nat /\ First(key, batches, i) \in Docs
                   /\ First(key, batches, i).key = key
                   /\ First(key, batches, i).weight \in Nat
  BY HoldingIs, EngineAssumption DEF First
<1>2. IsFiniteSet(H)
  BY FiniteSeq, FS_Subset DEF Holding
<1>3. w = [i \in H |-> w[i]] /\ DOMAIN w = H
  OBVIOUS
<1>4. \A i \in H : w[i] = First(key, batches, i).weight
  OBVIOUS
<1>5. Stands(key, batches) = First(key, batches, best)
  BY DEF Stands, First
<1> HIDE DEF H, w
<1>6. IsFiniteSet(W) /\ W \in SUBSET Nat /\ W # {}
  <2>1. IsFiniteSet(W)
    BY <1>2, <1>3, FiniteImage
  <2>2. W \in SUBSET Nat
    BY <1>1, <1>4
  <2>3. H # {}
    BY DEF H
  <2> QED
    BY <2>1, <2>2, <2>3
<1>7. PICK i0 \in H : \A j \in H : w[j] <= w[i0]
  <2>1. Max(W) \in W /\ \A k \in W : Max(W) >= k
    BY <1>6, MaxIs
  <2>2. PICK i \in H : Max(W) = w[i]
    BY <2>1
  <2>3. \A j \in H : w[j] \in W /\ w[j] \in Nat
    BY <1>6
  <2> QED
    BY <2>1, <2>2, <2>3
<1> DEFINE Top == {i \in H : w[i] = w[i0]}
<1>8. Top \in SUBSET Nat /\ i0 \in Top
  BY <1>1
<1>9. PICK i1 \in Top : \A j \in Top : i1 <= j
  BY <1>8, Least
<1>10. Best(i1)
  <2> SUFFICES ASSUME NEW j \in H, j # i1
               PROVE  IF j < i1 THEN w[i1] > w[j] ELSE ~(w[j] > w[i1])
    BY <1>4, <1>9 DEF Replaces
  <2>1. w[j] <= w[i1] /\ w[j] \in Nat /\ w[i1] \in Nat /\ j \in Nat /\ i1 \in Nat
    BY <1>1, <1>4, <1>7, <1>9
  <2>2. j < i1 => w[j] # w[i1]
    BY <2>1, <1>9
  <2> QED
    BY <2>1, <2>2
<1>11. best \in H /\ Best(best)
  BY <1>9, <1>10
<1> HIDE DEF best
<1>12. ASSUME NEW j \in H
       PROVE  w[j] <= w[best] /\ (j < best => w[j] < w[best])
  <2>1. w[j] \in Nat /\ w[best] \in Nat /\ j \in Nat /\ best \in Nat
    BY <1>1, <1>4, <1>11
  <2>2. CASE j = best
    BY <2>1, <2>2
  <2>3. CASE j # best
    <3>1. IF j < best THEN w[best] > w[j] ELSE ~(w[j] > w[best])
      BY <1>4, <1>11, <2>3 DEF Replaces
    <3> QED
      BY <2>1, <3>1
  <2> QED
    BY <2>2, <2>3
<1>13. /\ best \in Holding(key, batches)
       /\ Stands(key, batches) = First(key, batches, best)
       /\ \A j \in Holding(key, batches) :
             /\ First(key, batches, j).weight <= Stands(key, batches).weight
             /\ j < best => First(key, batches, j).weight < Stands(key, batches).weight
  BY <1>4, <1>5, <1>11, <1>12 DEF H
<1> QED
  BY <1>1, <1>5, <1>11, <1>13

LEMMA KeysHeld ==
    ASSUME NEW batches \in Seq(Seq(Docs)), NEW key
    PROVE  key \in Keys(batches) <=> Holding(key, batches) # {}
BY DEF Keys, Holding

(* Fusion lists what stands for the keys, once each, by score. *)
LEMMA Fused ==
    ASSUME NEW batches \in Seq(Seq(Docs))
    PROVE  /\ Fusion(batches) \in Seq(Docs)
           /\ IsInjective(Fusion(batches))
           /\ ToSet(Fusion(batches)) = {Stands(key, batches) : key \in Keys(batches)}
           /\ \A m, n \in DOMAIN Fusion(batches) :
                 Score(Fusion(batches)[m].key, batches) > Score(Fusion(batches)[n].key, batches)
                    => m < n
<1> DEFINE S == {Stands(key, batches) : key \in Keys(batches)}
           score(d) == Score(d.key, batches)
           R == {x \in S \X S :
                   \/ score(x[1]) > score(x[2])
                   \/ score(x[1]) = score(x[2]) /\ x[1].id < x[2].id}
<1>1. S \in SUBSET Docs
  BY KeysHeld, StandsIs
<1>2. IsFiniteSet(S)
  BY <1>1, FS_Subset, EngineAssumption
<1>3. \A d \in S : score(d) \in Nat /\ d.id \in Nat
  BY <1>1, ScoreNat, EngineAssumption
<1>4. \A d, e \in S : d # e => d.id # e.id
  BY <1>1, EngineAssumption
<1>5. \A d, e \in S : <<d, e>> \in R <=>
          score(d) > score(e) \/ (score(d) = score(e) /\ d.id < e.id)
  OBVIOUS
<1>6. Fusion(batches) = InLine(S, R)
  BY DEF Fusion
<1> HIDE DEF S, score, R
<1>7. StrictlyOrders(R, S)
  BY <1>3, <1>4, <1>5 DEF StrictlyOrders
<1> DEFINE line == InLine(S, R)
<1>8. /\ line \in Seq(S) /\ ToSet(line) = S /\ IsInjective(line)
      /\ \A m, n \in DOMAIN line : m < n <=> <<line[m], line[n]>> \in R
  BY <1>2, <1>7, Lined
<1> HIDE DEF line
<1>9. \A m, n \in DOMAIN line : score(line[m]) > score(line[n]) => m < n
  <2> TAKE m, n \in DOMAIN line
  <2>1. line[m] \in S /\ line[n] \in S
    BY <1>8
  <2> QED
    BY <1>5, <1>8, <2>1
<1>10. line \in Seq(Docs)
  BY <1>1, <1>8
<1> QED
  BY <1>6, <1>8, <1>9, <1>10 DEF line, S, score

(***************************************************************************)
(* The ranking.                                                              *)
(***************************************************************************)
(* Ranking lists the documents once each, by total score. *)
LEMMA RankedBy ==
    ASSUME NEW S \in SUBSET Docs, NEW total \in [S -> Int]
    PROVE  /\ Ranking(S, total) \in Seq(S)
           /\ IsInjective(Ranking(S, total))
           /\ ToSet(Ranking(S, total)) = S
           /\ \A m, n \in DOMAIN Ranking(S, total) :
                 m <= n => total[Ranking(S, total)[m]] >= total[Ranking(S, total)[n]]
<1> DEFINE R == {x \in S \X S :
                   \/ total[x[1]] > total[x[2]]
                   \/ total[x[1]] = total[x[2]] /\ x[1].authority > x[2].authority
                   \/ /\ total[x[1]] = total[x[2]]
                      /\ x[1].authority = x[2].authority
                      /\ x[1].id < x[2].id}
           line == InLine(S, R)
<1>1. IsFiniteSet(S)
  BY FS_Subset, EngineAssumption
<1>2. \A d \in S : total[d] \in Int /\ d.authority \in Nat /\ d.id \in Nat
  BY EngineAssumption
<1>3. \A d, e \in S : d # e => d.id # e.id
  BY EngineAssumption
<1>4. \A d, e \in S : <<d, e>> \in R <=>
          \/ total[d] > total[e]
          \/ total[d] = total[e] /\ d.authority > e.authority
          \/ total[d] = total[e] /\ d.authority = e.authority /\ d.id < e.id
  OBVIOUS
<1>5. Ranking(S, total) = line
  BY DEF Ranking
<1> HIDE DEF R
<1>6. StrictlyOrders(R, S)
  BY <1>2, <1>3, <1>4 DEF StrictlyOrders
<1>7. /\ line \in Seq(S) /\ ToSet(line) = S /\ IsInjective(line)
      /\ \A m, n \in DOMAIN line : m < n <=> <<line[m], line[n]>> \in R
  BY <1>1, <1>6, Lined
<1> HIDE DEF line
<1>8. \A m, n \in DOMAIN line : m <= n => total[line[m]] >= total[line[n]]
  <2> TAKE m, n \in DOMAIN line
  <2>1. /\ line[m] \in S /\ line[n] \in S /\ m \in Nat /\ n \in Nat
    BY <1>7
  <2>2. m < n => total[line[m]] >= total[line[n]]
    <3>1. m < n => <<line[m], line[n]>> \in R
      BY <1>7
    <3>2. \A d, e \in S : <<d, e>> \in R => total[d] >= total[e]
      BY <1>2, <1>4
    <3> QED
      BY <2>1, <3>1, <3>2
  <2>3. m = n => total[line[m]] >= total[line[n]]
    BY <1>2, <2>1
  <2> QED
    BY <2>1, <2>2, <2>3
<1> QED
  BY <1>5, <1>7, <1>8

LEMMA SpreadIs ==
    ASSUME NEW S \in SUBSET Docs, S # {}, NEW batches \in Seq(Seq(Docs))
    PROVE  Spread(S, batches) \in Nat /\ Spread(S, batches) > 0
<1> DEFINE f == [d \in S |-> Score(d.key, batches)]
           scores == {f[d] : d \in S}
<1>1. IsFiniteSet(S)
  BY FS_Subset, EngineAssumption
<1>2. f = [d \in S |-> f[d]] /\ DOMAIN f = S /\ \A d \in S : f[d] \in Nat
  BY ScoreNat
<1>3. Spread(S, batches) = IF Max(scores) = Min(scores) THEN 1 ELSE Max(scores) - Min(scores)
  BY DEF Spread
<1> HIDE DEF f
<1>4. IsFiniteSet(scores) /\ scores \in SUBSET Nat /\ scores # {}
  <2>1. IsFiniteSet(scores)
    BY <1>1, <1>2, FiniteImage
  <2> QED
    BY <2>1, <1>2
<1> HIDE DEF scores
<1>5. /\ Max(scores) \in scores /\ \A k \in scores : Max(scores) >= k
      /\ Min(scores) \in scores /\ \A k \in scores : Min(scores) <= k
  BY <1>4, MaxIs, MinIs
<1>6. Max(scores) \in Nat /\ Min(scores) \in Nat /\ Max(scores) >= Min(scores)
  BY <1>4, <1>5
<1> QED
  BY <1>3, <1>6

LEMMA TotalsAre ==
    ASSUME NEW S \in SUBSET Docs, NEW batches \in Seq(Seq(Docs)), NEW merit \in Merits
    PROVE  Totals(S, batches, merit) \in [S -> Int]
<1> DEFINE scores == {Score(d.key, batches) : d \in S}
<1>1. ASSUME NEW d \in S
      PROVE  20 * (Score(d.key, batches) - Min(scores)) + Spread(S, batches) * merit[d] \in Int
  <2>1. Score(d.key, batches) \in Nat /\ scores \in SUBSET Nat /\ scores # {}
    BY ScoreNat
  <2>2. Min(scores) \in Nat
    BY <2>1, MinIs
  <2>3. Spread(S, batches) \in Nat
    BY SpreadIs
  <2>4. merit[d] \in Int
    <3>1. merit \in [Docs -> Int]
      BY EngineAssumption
    <3>2. d \in Docs
      OBVIOUS
    <3> QED
      BY <3>1, <3>2
  <2>5. \A a, b, c \in Nat, e \in Int : 20 * (a - b) + c * e \in Int
    OBVIOUS
  <2> QED
    BY <2>1, <2>2, <2>3, <2>4, <2>5
<1> QED
  BY <1>1 DEF Totals
=============================================================================
