-------------------------- MODULE WeatherCacheProofs --------------------------
(***************************************************************************)
(* Proofs about WeatherCache for any processes, handlers, forecast issues   *)
(* and numbers of failures.                                                 *)
(***************************************************************************)
EXTENDS WeatherCache, FiniteSetTheorems, TLAPS

LEMMA RightPart ==
    ASSUME NEW T, NEW u \in Seq(T), NEW v \in Seq(T), NEW k \in 1..Len(v)
    PROVE  (u \o v)[Len(u) + k] = v[k]
<1>1. Len(u) \in Nat /\ Len(v) \in Nat /\ k \in Nat /\ 1 <= k /\ k <= Len(v)
  OBVIOUS
<1>2. Len(u) + k \in 1..(Len(u) + Len(v)) /\ ~ (Len(u) + k <= Len(u))
  BY <1>1
<1>3. (u \o v)[Len(u) + k] = v[(Len(u) + k) - Len(u)]
  BY <1>1, <1>2
<1>4. (Len(u) + k) - Len(u) = k
  BY <1>1
<1> QED
  BY <1>3, <1>4

(* Taking one element out of a line of distinct elements. *)
LEMMA Removing ==
    ASSUME NEW T, NEW s \in Seq(T), NEW i \in DOMAIN s, IsInjective(s)
    PROVE  /\ RemoveAt(s, i) \in Seq(T)
           /\ IsInjective(RemoveAt(s, i))
           /\ ToSet(RemoveAt(s, i)) = ToSet(s) \ {s[i]}
           /\ i # 1 => RemoveAt(s, i) # <<>> /\ Head(RemoveAt(s, i)) = Head(s)
<1> DEFINE t == RemoveAt(s, i)
           n == Len(s)
<1>1. n \in Nat /\ DOMAIN s = 1..n /\ i \in 1..n
  OBVIOUS
<1>2. /\ SubSeq(s, 1, i - 1) \in Seq(T)
      /\ SubSeq(s, i + 1, n) \in Seq(T)
      /\ Len(SubSeq(s, 1, i - 1)) = i - 1
      /\ Len(SubSeq(s, i + 1, n)) = n - i
  BY <1>1
<1>3. t \in Seq(T) /\ Len(t) = n - 1
  BY <1>1, <1>2 DEF RemoveAt
<1>4. \A j \in 1..(n - 1) : t[j] = IF j < i THEN s[j] ELSE s[j + 1]
  <2> DEFINE u == SubSeq(s, 1, i - 1)
             v == SubSeq(s, i + 1, n)
  <2>1. \A k \in 1..(i - 1) : u[k] = s[k]
    BY <1>1
  <2>2. \A k \in 1..(n - i) : v[k] = s[i + k]
    BY <1>1
  <2>3. t = u \o v
    BY DEF RemoveAt
  <2>4. ASSUME NEW j \in 1..(n - 1), j < i
        PROVE  t[j] = s[j]
    <3> HIDE DEF u, v
    <3>1. j \in 1..Len(u)
      BY <1>1, <1>2, <2>4 DEF u
    <3>2. u \in Seq(T) /\ v \in Seq(T)
      BY <1>2 DEF u, v
    <3>3. t[j] = u[j]
      BY <2>3, <3>1, <3>2
    <3> QED
      BY <1>1, <2>1, <2>4, <3>3
  <2>5. ASSUME NEW j \in 1..(n - 1), ~ (j < i)
        PROVE  t[j] = s[j + 1]
    <3> DEFINE k == j - (i - 1)
    <3>0. u \in Seq(T) /\ v \in Seq(T) /\ Len(u) = i - 1 /\ Len(v) = n - i
      BY <1>2
    <3>1. k \in 1..(n - i) /\ j = (i - 1) + k /\ i + k = j + 1
      BY <1>1, <2>5
    <3> HIDE DEF u, v, k
    <3>2. t[j] = v[k]
      <4>1. k \in 1..Len(v) /\ j = Len(u) + k
        BY <3>0, <3>1
      <4>2. (u \o v)[Len(u) + k] = v[k]
        BY ONLY <3>0, <4>1, RightPart
      <4> QED
        BY <2>3, <4>1, <4>2, Zenon
    <3> QED
      BY <2>2, <3>1, <3>2
  <2> QED
    BY <2>4, <2>5
<1>5. DOMAIN t = 1..(n - 1)
  BY <1>3
<1> HIDE DEF t
<1>6. IsInjective(t)
  <2> SUFFICES ASSUME NEW j \in 1..(n - 1), NEW k \in 1..(n - 1), t[j] = t[k]
               PROVE  j = k
    BY <1>5 DEF IsInjective
  <2> DEFINE back(m) == IF m < i THEN m ELSE m + 1
  <2>1. s[back(j)] = s[back(k)] /\ back(j) \in 1..n /\ back(k) \in 1..n
    BY <1>1, <1>4
  <2>2. back(j) = back(k)
    BY <1>1, <2>1 DEF IsInjective
  <2> QED
    BY <1>1, <2>2
<1>7. ToSet(t) = ToSet(s) \ {s[i]}
  <2>1. ASSUME NEW j \in 1..(n - 1)
        PROVE  t[j] \in ToSet(s) \ {s[i]}
    <3> DEFINE k == IF j < i THEN j ELSE j + 1
    <3>1. k \in 1..n /\ k # i /\ t[j] = s[k]
      BY <1>1, <1>4
    <3> HIDE DEF k
    <3> QED
      BY <1>1, <3>1 DEF IsInjective, ToSet
  <2>2. ASSUME NEW k \in 1..n, k # i
        PROVE  s[k] \in ToSet(t)
    <3> DEFINE j == IF k < i THEN k ELSE k - 1
    <3>1. j \in 1..(n - 1) /\ t[j] = s[k]
      BY <1>1, <1>4, <2>2
    <3> HIDE DEF j
    <3> QED
      BY <1>5, <3>1 DEF ToSet
  <2> QED
    BY <1>1, <1>5, <2>1, <2>2 DEF ToSet
<1>8. i # 1 => t # <<>> /\ Head(t) = Head(s)
  <2> SUFFICES ASSUME i # 1
               PROVE  t # <<>> /\ Head(t) = Head(s)
    OBVIOUS
  <2>1. 1 \in 1..(n - 1) /\ t[1] = s[1]
    BY <1>1, <1>4
  <2> QED
    BY <1>3, <2>1
<1> QED
  BY <1>3, <1>6, <1>7, <1>8 DEF t

(* Joining a line of distinct elements at its end. *)
LEMMA Joining ==
    ASSUME NEW T, NEW s \in Seq(T), NEW e \in T \ ToSet(s), IsInjective(s)
    PROVE  /\ Append(s, e) \in Seq(T)
           /\ IsInjective(Append(s, e))
           /\ ToSet(Append(s, e)) = ToSet(s) \union {e}
           /\ s # <<>> => Append(s, e) # <<>> /\ Head(Append(s, e)) = Head(s)
<1> DEFINE t == Append(s, e)
           n == Len(s)
<1>1. /\ n \in Nat /\ DOMAIN s = 1..n
      /\ t \in Seq(T) /\ DOMAIN t = 1..(n + 1)
      /\ t[n + 1] = e /\ \A i \in 1..n : t[i] = s[i]
  OBVIOUS
<1>2. \A i \in 1..(n + 1) : i \in 1..n \/ i = n + 1
  BY <1>1
<1> HIDE DEF t
<1>3. \A i \in 1..n : s[i] # e
  BY <1>1 DEF ToSet
<1>4. IsInjective(t)
  BY <1>1, <1>2, <1>3 DEF IsInjective
<1>5. ToSet(t) = ToSet(s) \union {e}
  <2>1. n + 1 \in DOMAIN t /\ 1..n \subseteq DOMAIN t
    BY <1>1
  <2> QED
    BY <1>1, <1>2, <2>1 DEF ToSet
<1>6. s # <<>> => t # <<>> /\ Head(t) = Head(s)
  <2> SUFFICES ASSUME s # <<>>
               PROVE  t # <<>> /\ Head(t) = Head(s)
    OBVIOUS
  <2>1. 1 \in 1..n
    BY <1>1
  <2> QED
    BY <1>1, <2>1
<1> QED
  BY <1>1, <1>4, <1>5, <1>6 DEF t

-----------------------------------------------------------------------------
(* The lock: a line has no handler twice, and only its holder is past it.  *)
LineInv ==
    /\ \A p \in Procs : IsInjective(line[p])
    /\ \A r \in Requests : pc[r] \in {"load", "write"} => Holds(r) /\ sure[r]

(* The part of the type invariant about the line. *)
LineTyped ==
    /\ line \in [Procs -> Seq(Requests)]
    /\ pc \in [Requests -> {"idle", "wait", "load", "write"}]
    /\ sure \in [Requests -> BOOLEAN]
    /\ \A p \in Procs :
          ToSet(line[p]) = {r \in Requests : ProcOf[r] = p /\ pc[r] # "idle"}

(* A handler that leaves, the holder or not, keeps the line in order. *)
LEMMA LeaveKeeps ==
    ASSUME TypeOK, LineInv, NEW r \in Requests, Leave(r)
    PROVE  LineTyped' /\ LineInv'
<1> DEFINE p == ProcOf[r]
           s == line[p]
<1>1. p \in Procs
  BY WeatherAssumption
<1>2. s \in Seq(Requests) /\ IsInjective(s)
  BY <1>1 DEF TypeOK, LineInv
<1>3. PICK i \in DOMAIN s : s[i] = r /\ line' = [line EXCEPT ![p] = RemoveAt(s, i)]
  BY DEF Leave
<1> DEFINE t == RemoveAt(s, i)
<1>4. /\ t \in Seq(Requests) /\ IsInjective(t)
      /\ ToSet(t) = ToSet(s) \ {r}
      /\ i # 1 => t # <<>> /\ Head(t) = Head(s)
  BY <1>2, <1>3, Removing
<1>5. /\ line' \in [Procs -> Seq(Requests)] /\ line'[p] = t
      /\ \A q \in Procs \ {p} : line'[q] = line[q]
  BY <1>1, <1>3, <1>4 DEF TypeOK
<1>6. /\ pc' \in [Requests -> {"idle", "wait", "load", "write"}]
      /\ pc'[r] = "idle" /\ \A x \in Requests \ {r} : pc'[x] = pc[x]
      /\ sure' = sure
  BY DEF Leave, TypeOK
<1>7. i = 1 => Head(s) = r
  BY <1>2, <1>3
<1> HIDE DEF s, t, p
<1>8. ASSUME NEW q \in Procs
      PROVE  ToSet(line'[q]) = {x \in Requests : ProcOf[x] = q /\ pc'[x] # "idle"}
  <2>1. ToSet(line[q]) = {x \in Requests : ProcOf[x] = q /\ pc[x] # "idle"}
    BY DEF TypeOK
  <2>2. CASE q = p
    BY <1>4, <1>5, <1>6, <2>1, <2>2 DEF s
  <2>3. CASE q # p
    BY <1>5, <1>6, <2>1, <2>3 DEF p
  <2> QED
    BY <2>2, <2>3
<1>9. ASSUME NEW x \in Requests, pc'[x] \in {"load", "write"}
      PROVE  Holds(x)' /\ sure'[x]
  <2>1. x # r /\ Holds(x) /\ sure[x]
    BY <1>6, <1>9 DEF LineInv
  <2>2. CASE ProcOf[x] = p
    <3>1. i # 1
      BY <1>7, <2>1, <2>2 DEF Holds, s
    <3> QED
      BY <1>4, <1>5, <1>6, <2>1, <2>2, <3>1 DEF Holds, s
  <2>3. CASE ProcOf[x] # p
    BY <1>5, <1>6, <2>1, <2>3, WeatherAssumption DEF Holds
  <2> QED
    BY <2>2, <2>3
<1>10. \A q \in Procs : IsInjective(line'[q])
  BY <1>4, <1>5 DEF LineInv
<1> QED
  BY <1>5, <1>6, <1>8, <1>9, <1>10 DEF LineTyped, LineInv, TypeOK

(* A handler that joins does so behind the holder. *)
LEMMA QueueKeeps ==
    ASSUME TypeOK, LineInv, NEW r \in Requests, NEW available \in BOOLEAN,
           pc[r] = "idle", Queue(r, available)
    PROVE  LineTyped' /\ LineInv'
<1> DEFINE p == ProcOf[r]
           s == line[p]
           t == Append(s, r)
<1>1. p \in Procs
  BY WeatherAssumption
<1>2. s \in Seq(Requests) /\ IsInjective(s) /\ r \in Requests \ ToSet(s)
  BY <1>1 DEF TypeOK, LineInv
<1>3. line' = [line EXCEPT ![p] = t]
  BY DEF Queue
<1>4. /\ t \in Seq(Requests) /\ IsInjective(t)
      /\ ToSet(t) = ToSet(s) \union {r}
      /\ s # <<>> => t # <<>> /\ Head(t) = Head(s)
  BY <1>2, Joining
<1>5. /\ line' \in [Procs -> Seq(Requests)] /\ line'[p] = t
      /\ \A q \in Procs \ {p} : line'[q] = line[q]
  BY <1>1, <1>3, <1>4 DEF TypeOK
<1>6. /\ pc' \in [Requests -> {"idle", "wait", "load", "write"}]
      /\ pc'[r] = "wait" /\ \A x \in Requests \ {r} : pc'[x] = pc[x]
      /\ sure' \in [Requests -> BOOLEAN]
      /\ \A x \in Requests \ {r} : sure'[x] = sure[x]
  BY DEF Queue, TypeOK
<1> HIDE DEF s, t, p
<1>7. ASSUME NEW q \in Procs
      PROVE  ToSet(line'[q]) = {x \in Requests : ProcOf[x] = q /\ pc'[x] # "idle"}
  <2>1. ToSet(line[q]) = {x \in Requests : ProcOf[x] = q /\ pc[x] # "idle"}
    BY DEF TypeOK
  <2>2. CASE q = p
    BY <1>4, <1>5, <1>6, <2>1, <2>2 DEF s, p
  <2>3. CASE q # p
    BY <1>5, <1>6, <2>1, <2>3 DEF p
  <2> QED
    BY <2>2, <2>3
<1>8. ASSUME NEW x \in Requests, pc'[x] \in {"load", "write"}
      PROVE  Holds(x)' /\ sure'[x]
  <2>1. x # r /\ Holds(x) /\ sure[x]
    BY <1>6, <1>8 DEF LineInv
  <2>2. CASE ProcOf[x] = p
    BY <1>4, <1>5, <1>6, <2>1, <2>2 DEF Holds, s
  <2>3. CASE ProcOf[x] # p
    BY <1>5, <1>6, <2>1, <2>3, WeatherAssumption DEF Holds
  <2> QED
    BY <2>2, <2>3
<1>9. \A q \in Procs : IsInjective(line'[q])
  BY <1>4, <1>5 DEF LineInv
<1> QED
  BY <1>5, <1>6, <1>7, <1>8, <1>9 DEF LineTyped, LineInv

(* The holder that goes on keeps the lock. *)
LEMMA HolderKeeps ==
    ASSUME TypeOK, LineInv, NEW r \in Requests, NEW op \in {"load", "write"},
           Holds(r), pc[r] # "idle", sure[r],
           pc' = [pc EXCEPT ![r] = op], line' = line, sure' = sure
    PROVE  LineTyped' /\ LineInv'
<1>1. /\ pc' \in [Requests -> {"idle", "wait", "load", "write"}]
      /\ \A x \in Requests : (pc'[x] # "idle" <=> pc[x] # "idle") /\ (x # r => pc'[x] = pc[x])
  BY DEF TypeOK
<1>2. \A x \in Requests : pc'[x] \in {"load", "write"} => Holds(x) /\ sure[x]
  BY <1>1 DEF LineInv
<1>3. \A x \in Requests : Holds(x)' <=> Holds(x)
  BY DEF Holds
<1> QED
  BY <1>1, <1>2, <1>3 DEF TypeOK, LineTyped, LineInv

LEMMA LineSame ==
    ASSUME TypeOK, LineInv, UNCHANGED <<pc, sure, line>>
    PROVE  LineTyped' /\ LineInv'
BY DEF TypeOK, LineTyped, LineInv, Holds

(* The type invariant and the order of the lock, by the kind of step. *)
LEMMA WellTyped == Spec => [](TypeOK /\ LineInv)
<1>1. Init => TypeOK /\ LineInv
  <2> SUFFICES ASSUME Init
               PROVE  TypeOK /\ LineInv
    OBVIOUS
  <2>1. \A p \in Procs : line[p] = <<>>
    BY DEF Init
  <2>2. \A r \in Requests : pc[r] = "idle"
    BY DEF Init
  <2>3. ToSet(<<>>) = {} /\ IsInjective(<<>>)
    BY DEF ToSet, IsInjective
  <2>4. \A p \in Procs :
          ToSet(line[p]) = {r \in Requests : ProcOf[r] = p /\ pc[r] # "idle"}
    BY <2>1, <2>2, <2>3
  <2>5. LineInv
    BY <2>1, <2>2, <2>3 DEF LineInv
  <2>6. <<>> \in Seq(Requests) /\ 0 \in 0..MaxIssue /\ 0 \in 0..MaxLapses
    BY WeatherAssumption
  <2> QED
    BY <2>4, <2>5, <2>6 DEF Init, TypeOK
<1>2. TypeOK /\ LineInv /\ [Next]_vars => TypeOK' /\ LineInv'
  <2> SUFFICES ASSUME TypeOK, LineInv, [Next]_vars
               PROVE  TypeOK' /\ LineInv'
    OBVIOUS
  <2> DEFINE Rest == /\ issue \in 0..MaxIssue
                     /\ stored \in {"none", "good", "bad"}
                     /\ late \in BOOLEAN
                     /\ seen \in [Requests -> 0..MaxIssue]
                     /\ reads \in [Procs -> Nat]
                     /\ put \in [Procs -> 0..MaxIssue]
                     /\ lapses \in 0..MaxLapses
  <2>1. Rest' /\ LineTyped' /\ LineInv' => TypeOK' /\ LineInv'
    BY DEF LineTyped, TypeOK
  <2>2. Rest /\ (Lapse => lapses' \in 0..MaxLapses)
    BY WeatherAssumption DEF TypeOK, Lapse
  <2> DEFINE Kept == LineTyped' /\ LineInv'
  <2>3. ASSUME NEW r \in Requests, Loads(r)
        PROVE  reads' \in [Procs -> Nat]
    BY <2>3, WeatherAssumption DEF Loads, TypeOK
  <2>4. CASE Collect
    <3>1. Kept
      BY <2>4, LineSame DEF Collect, local
    <3>2. Rest'
      BY <2>2, <2>4, WeatherAssumption DEF Collect, redis, local
    <3> QED
      BY <2>1, <3>1, <3>2
  <2>5. CASE Expire \/ LateSet
    <3>1. Kept
      BY <2>5, LineSame DEF Expire, LateSet, local
    <3>2. Rest'
      BY <2>2, <2>5 DEF Expire, LateSet, local
    <3> QED
      BY <2>1, <3>1, <3>2
  <2>6. ASSUME NEW r \in Requests, FirstRead(r) \/ FirstReadFails(r)
        PROVE  TypeOK' /\ LineInv'
    <3>1. Kept
      BY <2>6, QueueKeeps DEF FirstRead, FirstReadFails
    <3>2. Rest'
      BY <2>2, <2>6 DEF FirstRead, FirstReadFails, Queue, redis
    <3> QED
      BY <2>1, <3>1, <3>2
  <2>7. ASSUME NEW r \in Requests, SecondRead(r)
        PROVE  TypeOK' /\ LineInv'
    <3>1. Kept
      <4>1. CASE stored = "good"
        BY <2>7, <4>1, LeaveKeeps DEF SecondRead
      <4>2. CASE stored # "good"
        BY <2>7, <4>2, HolderKeeps DEF SecondRead
      <4> QED
        BY <4>1, <4>2
    <3>2. seen' = seen
      BY <2>7 DEF SecondRead, Leave
    <3>3. Rest'
      BY <2>2, <2>7, <3>2 DEF SecondRead, redis
    <3> QED
      BY <2>1, <3>1, <3>3
  <2>8. ASSUME NEW r \in Requests, SecondReadFails(r)
        PROVE  TypeOK' /\ LineInv'
    <3>1. /\ pc' = pc /\ line' = line /\ pc[r] = "wait"
          /\ sure' = [sure EXCEPT ![r] = FALSE]
      BY <2>8 DEF SecondReadFails
    <3>2. sure' \in [Requests -> BOOLEAN] /\ \A x \in Requests \ {r} : sure'[x] = sure[x]
      BY <3>1 DEF TypeOK
    <3>3. Kept
      BY <3>1, <3>2 DEF TypeOK, LineTyped, LineInv, Holds
    <3>4. Rest'
      BY <2>2, <2>8 DEF SecondReadFails, redis
    <3> QED
      BY <2>1, <3>3, <3>4
  <2>9. ASSUME NEW r \in Requests, Load(r)
        PROVE  TypeOK' /\ LineInv'
    <3>1. Holds(r) /\ pc[r] # "idle" /\ Loads(r)
      BY <2>9 DEF Load, Loads
    <3>2. CASE sure[r]
      <4>1. /\ pc' = [pc EXCEPT ![r] = "write"] /\ sure' = sure /\ line' = line
            /\ seen' = [seen EXCEPT ![r] = issue]
        BY <2>9, <3>2 DEF Load
      <4>2. Kept
        BY <3>1, <3>2, <4>1, HolderKeeps
      <4>3. Rest'
        BY <2>2, <2>3, <2>9, <3>1, <4>1 DEF Load, redis
      <4> QED
        BY <2>1, <4>2, <4>3
    <3>3. CASE ~ sure[r]
      <4>1. Leave(r)
        BY <2>9, <3>3 DEF Load
      <4>2. Kept
        BY <4>1, LeaveKeeps
      <4>3. Rest'
        BY <2>2, <2>3, <2>9, <3>1, <4>1 DEF Load, Leave, redis
      <4> QED
        BY <2>1, <4>2, <4>3
    <3> QED
      BY <3>2, <3>3
  <2>10. ASSUME NEW r \in Requests, LoadFails(r)
         PROVE  TypeOK' /\ LineInv'
    <3>1. Kept
      BY <2>10, LeaveKeeps DEF LoadFails
    <3>2. Rest'
      BY <2>2, <2>3, <2>10 DEF LoadFails, Leave, redis
    <3> QED
      BY <2>1, <3>1, <3>2
  <2>11. ASSUME NEW r \in Requests, Write(r)
         PROVE  TypeOK' /\ LineInv'
    <3>1. Kept
      BY <2>11, LeaveKeeps DEF Write
    <3>2. Rest'
      BY <2>2, <2>11 DEF Write, Leave
    <3> QED
      BY <2>1, <3>1, <3>2
  <2>12. ASSUME NEW r \in Requests, WriteFails(r)
         PROVE  TypeOK' /\ LineInv'
    <3>1. Kept
      BY <2>12, LeaveKeeps DEF WriteFails
    <3>2. Rest'
      BY <2>2, <2>12 DEF WriteFails, Unconfirmed, Leave
    <3> QED
      BY <2>1, <3>1, <3>2
  <2>13. ASSUME NEW r \in Requests, Cancel(r)
         PROVE  TypeOK' /\ LineInv'
    <3>1. Kept
      BY <2>13, LeaveKeeps DEF Cancel
    <3>2. reads' \in [Procs -> Nat]
      BY <2>2, <2>3, <2>13 DEF Cancel
    <3>3. stored' \in {"none", "good", "bad"} /\ late' \in BOOLEAN
      BY <2>2, <2>13 DEF Cancel, Unconfirmed
    <3>4. Rest'
      BY <2>2, <2>13, <3>2, <3>3 DEF Cancel, Leave
    <3> QED
      BY <2>1, <3>1, <3>4
  <2>14. CASE UNCHANGED vars
    BY <2>14, LineSame, <2>1, <2>2 DEF vars, local, redis
  <2> QED
    BY <2>4, <2>5, <2>6, <2>7, <2>8, <2>9, <2>10, <2>11, <2>12, <2>13, <2>14 DEF Next, Step, Failure
<1> QED
  BY <1>1, <1>2, PTL DEF Spec

(* Every reachable state is well typed; in particular the handlers at a       *)
(* process's lock are those it serves that have not been answered.           *)
THEOREM TypeCorrect == Spec => []TypeOK
  BY WellTyped, PTL

-----------------------------------------------------------------------------
(* What the holder of a lock writes is no older than what its process has  *)
(* last stored: it has read PostgreSQL since it took the lock.             *)
OrderInv ==
    /\ \A p \in Procs : put[p] <= issue
    /\ \A r \in Requests : seen[r] <= issue
    /\ \A r \in Requests : pc[r] = "write" => put[ProcOf[r]] <= seen[r]

(* Past the lock a process has one handler. *)
LEMMA HolderAlone ==
    ASSUME LineInv, NEW r \in Requests, NEW x \in Requests, ProcOf[x] = ProcOf[r],
           Holds(r), pc[x] \in {"load", "write"}
    PROVE  x = r
BY DEF LineInv, Holds

LEMMA Ordered == Spec => []OrderInv
<1>1. Init => OrderInv
  BY WeatherAssumption DEF Init, OrderInv
<1>2. TypeOK /\ LineInv /\ OrderInv /\ [Next]_vars => OrderInv'
  <2> SUFFICES ASSUME TypeOK, LineInv, OrderInv, [Next]_vars
               PROVE  OrderInv'
    OBVIOUS
  <2>1. /\ issue \in Nat
        /\ \A p \in Procs : put[p] \in Nat
        /\ \A r \in Requests : seen[r] \in Nat /\ ProcOf[r] \in Procs
    BY WeatherAssumption DEF TypeOK
  <2>2. ASSUME UNCHANGED <<issue, seen, put>>,
               \A r \in Requests : pc'[r] = "write" => pc[r] = "write"
        PROVE  OrderInv'
    BY <2>2 DEF OrderInv
  <2>3. ASSUME NEW r \in Requests, Leave(r) \/ (\E a \in BOOLEAN : Queue(r, a))
        PROVE  /\ seen' = seen
               /\ \A x \in Requests : pc'[x] = "write" => pc[x] = "write" /\ x # r
    BY <2>3 DEF Leave, Queue, TypeOK
  <2>4. CASE Collect
    BY <2>1, <2>4 DEF Collect, redis, local, OrderInv
  <2>5. CASE Expire \/ LateSet
    BY <2>2, <2>5 DEF Expire, LateSet, local
  <2>6. ASSUME NEW r \in Requests, FirstRead(r) \/ FirstReadFails(r)
        PROVE  OrderInv'
    BY <2>2, <2>3, <2>6 DEF FirstRead, FirstReadFails, redis
  <2>7. ASSUME NEW r \in Requests, SecondRead(r)
        PROVE  OrderInv'
    <3>1. CASE stored = "good"
      BY <2>2, <2>3, <2>7, <3>1 DEF SecondRead, redis
    <3>2. CASE stored # "good"
      <4>1. \A x \in Requests : pc'[x] = "write" => pc[x] = "write"
        BY <2>7, <3>2 DEF SecondRead, TypeOK
      <4> QED
        BY <2>2, <2>7, <3>2, <4>1 DEF SecondRead, redis
    <3> QED
      BY <3>1, <3>2
  <2>8. ASSUME NEW r \in Requests, SecondReadFails(r)
        PROVE  OrderInv'
    BY <2>2, <2>8 DEF SecondReadFails, redis
  <2>9. ASSUME NEW r \in Requests, Load(r)
        PROVE  OrderInv'
    <3>1. issue' = issue /\ put' = put
      BY <2>9 DEF Load, redis
    <3>2. CASE sure[r]
      <4>1. /\ pc' = [pc EXCEPT ![r] = "write"] /\ seen' = [seen EXCEPT ![r] = issue]
        BY <2>9, <3>2 DEF Load
      <4>2. /\ seen'[r] = issue
            /\ \A x \in Requests \ {r} : seen'[x] = seen[x] /\ pc'[x] = pc[x]
        BY <4>1 DEF TypeOK
      <4> QED
        BY <2>1, <3>1, <4>2 DEF OrderInv
    <3>3. CASE ~ sure[r]
      BY <2>2, <2>3, <2>9, <3>1, <3>3 DEF Load
    <3> QED
      BY <3>2, <3>3
  <2>10. ASSUME NEW r \in Requests, Write(r)
         PROVE  OrderInv'
    <3>1. /\ issue' = issue /\ seen' = seen
          /\ \A x \in Requests : pc'[x] = "write" => pc[x] = "write" /\ x # r
      BY <2>3, <2>10 DEF Write
    <3>2. /\ put'[ProcOf[r]] = seen[r]
          /\ \A p \in Procs \ {ProcOf[r]} : put'[p] = put[p]
      BY <2>1, <2>10 DEF Write, TypeOK
    <3>3. \A x \in Requests : pc'[x] = "write" => ProcOf[x] # ProcOf[r]
      BY <2>10, <3>1, HolderAlone DEF Write
    <3> QED
      BY <2>1, <3>1, <3>2, <3>3 DEF OrderInv
  <2>11. ASSUME NEW r \in Requests, LoadFails(r) \/ WriteFails(r) \/ Cancel(r)
         PROVE  OrderInv'
    <3>1. Leave(r) /\ issue' = issue /\ put' = put
      BY <2>11 DEF LoadFails, WriteFails, Cancel, redis
    <3> QED
      BY <2>2, <2>3, <3>1
  <2>12. CASE UNCHANGED vars
    BY <2>2, <2>12 DEF vars, redis, local
  <2> QED
    BY <2>4, <2>5, <2>6, <2>7, <2>8, <2>9, <2>10, <2>11, <2>12 DEF Next, Step, Failure
<1> QED
  BY <1>1, <1>2, WellTyped, PTL DEF Spec

(* A process never replaces its answer in the cache by an older one: between  *)
(* its query and its SET no other handler of the process gets past the lock. *)
THEOREM WritesInOrder == Spec => OwnWritesInOrder
<1>1. TypeOK /\ OrderInv /\ [Next]_vars => (\A p \in Procs : put'[p] >= put[p]) \/ UNCHANGED vars
  <2> SUFFICES ASSUME TypeOK, OrderInv, [Next]_vars, NEW p \in Procs
               PROVE  put'[p] >= put[p]
    OBVIOUS
  <2>1. put[p] \in Nat /\ \A r \in Requests : seen[r] \in Nat
    BY DEF TypeOK
  <2>2. put' = put => put'[p] >= put[p]
    BY <2>1
  <2>3. ASSUME NEW r \in Requests, Write(r)
        PROVE  put'[p] >= put[p]
    BY <2>1, <2>3 DEF Write, OrderInv, TypeOK
  <2>4. \/ put' = put
        \/ \E r \in Requests : Write(r)
    BY DEF Next, Step, Failure, Collect, Expire, LateSet, FirstRead, FirstReadFails, SecondRead,
           SecondReadFails, Load, LoadFails, WriteFails, Cancel, vars, redis
  <2> QED
    BY <2>2, <2>3, <2>4
<1> QED
  BY <1>1, WellTyped, Ordered, PTL DEF Spec, OwnWritesInOrder

-----------------------------------------------------------------------------
(* What a process's queries of PostgreSQL are paid with.  Handlers that could *)
(* not ask the cache, or found it empty while they held the lock, will query;  *)
(* and so will the next to take the lock while the cache is empty and nobody   *)
(* is about to fill it.                                                        *)
Unsure(p) == {r \in Requests : ProcOf[r] = p /\ pc[r] = "wait" /\ ~ sure[r]}

At(p, op) == \E r \in Requests : ProcOf[r] = p /\ pc[r] = op

Due(p) == IF At(p, "load") \/ (stored # "good" /\ ~ At(p, "write")) THEN 1 ELSE 0

Bill(p) == reads[p] + Cardinality(Unsure(p)) + Due(p)

ReadInv == \A p \in Procs : Bill(p) <= lapses + 1

LEMMA UnsureFinite == \A p \in Procs : IsFiniteSet(Unsure(p)) /\ Cardinality(Unsure(p)) \in Nat
  BY WeatherAssumption, FS_Subset, FS_CardinalityType DEF Unsure

(* The number of a process's unsure handlers, after a step of the handler r. *)
LEMMA UnsureStep ==
    ASSUME NEW r \in Requests, NEW p \in Procs,
           \A x \in Requests \ {r} : pc'[x] = pc[x] /\ sure'[x] = sure[x]
    PROVE  /\ Cardinality(Unsure(p)') \in Nat
           /\ ProcOf[r] # p => Unsure(p)' = Unsure(p)
           /\ r \in Unsure(p) /\ r \notin Unsure(p)'
                => Cardinality(Unsure(p)') = Cardinality(Unsure(p)) - 1
           /\ r \notin Unsure(p) /\ r \in Unsure(p)'
                => Cardinality(Unsure(p)') = Cardinality(Unsure(p)) + 1
           /\ (r \in Unsure(p) <=> r \in Unsure(p)')
                => Cardinality(Unsure(p)') = Cardinality(Unsure(p))
<1>1. IsFiniteSet(Unsure(p)) /\ Cardinality(Unsure(p)) \in Nat
  BY UnsureFinite
<1>2. \A x \in Requests \ {r} : x \in Unsure(p)' <=> x \in Unsure(p)
  BY DEF Unsure
<1>3. r \in Unsure(p)' \/ r \in Unsure(p) => ProcOf[r] = p
  BY DEF Unsure
<1>4. Unsure(p) \subseteq Requests /\ Unsure(p)' \subseteq Requests
  BY DEF Unsure
<1> DEFINE S == Unsure(p)
           S2 == Unsure(p)'
<1> HIDE DEF S, S2
<1>5. S2 = S \/ S2 = S \ {r} \/ S2 = S \union {r}
  BY <1>2, <1>4 DEF S, S2
<1>6. /\ S2 = S => Cardinality(S2) = Cardinality(S)
      /\ S2 = S \ {r} /\ r \in S => Cardinality(S2) = Cardinality(S) - 1
      /\ S2 = S \union {r} /\ r \notin S => Cardinality(S2) = Cardinality(S) + 1
  BY <1>1, FS_RemoveElement, FS_AddElement DEF S
<1>7. IsFiniteSet(S2)
  BY <1>1, <1>5, FS_RemoveElement, FS_AddElement DEF S
<1>8. /\ r \in S /\ r \notin S2 => S2 = S \ {r}
      /\ r \notin S /\ r \in S2 => S2 = S \union {r}
      /\ (r \in S <=> r \in S2) => S2 = S
  BY <1>2, <1>4 DEF S, S2
<1>9. Cardinality(S2) \in Nat
  BY <1>7, FS_CardinalityType
<1>10. ProcOf[r] # p => S2 = S
  BY <1>3, <1>8 DEF S, S2
<1> QED
  BY <1>6, <1>8, <1>9, <1>10 DEF S, S2

(* A handler's step costs the other processes nothing. *)
LEMMA OthersPay ==
    ASSUME TypeOK, NEW r \in Requests, NEW p \in Procs, ProcOf[r] # p,
           \A x \in Requests \ {r} : pc'[x] = pc[x] /\ sure'[x] = sure[x],
           reads'[p] = reads[p], stored' \in {stored, "good"}
    PROVE  Bill(p)' <= Bill(p)
<1>1. Unsure(p)' = Unsure(p) /\ Cardinality(Unsure(p)) \in Nat
  BY UnsureStep, UnsureFinite
<1>2. \A op : At(p, op)' <=> At(p, op)
  BY DEF At
<1>3. Due(p)' <= Due(p) /\ Due(p) \in Nat /\ Due(p)' \in Nat
  BY <1>2 DEF Due
<1>4. reads[p] \in Nat
  BY DEF TypeOK
<1> QED
  BY <1>1, <1>3, <1>4 DEF Bill

(* The queries a process makes stay paid for. *)
LEMMA Paid == Spec => []ReadInv
<1>1. Init => ReadInv
  <2> SUFFICES ASSUME Init, NEW p \in Procs
               PROVE  Bill(p) <= lapses + 1
    BY DEF ReadInv
  <2>1. Unsure(p) = {}
    BY DEF Init, Unsure
  <2>2. Cardinality(Unsure(p)) = 0 /\ reads[p] = 0 /\ lapses = 0 /\ Due(p) \in {0, 1}
    BY <2>1, FS_EmptySet DEF Init, Due
  <2> QED
    BY <2>2 DEF Bill
<1>2. TypeOK /\ TypeOK' /\ LineInv /\ ReadInv /\ [Next]_vars => ReadInv'
  <2> SUFFICES ASSUME TypeOK, TypeOK', LineInv, ReadInv, [Next]_vars
               PROVE  ReadInv'
    OBVIOUS
  <2>1. ASSUME NEW p \in Procs
        PROVE  /\ reads[p] \in Nat /\ reads'[p] \in Nat /\ lapses \in Nat /\ lapses' \in Nat
               /\ Cardinality(Unsure(p)) \in Nat /\ Cardinality(Unsure(p)') \in Nat
               /\ Due(p) \in {0, 1} /\ Due(p)' \in {0, 1}
               /\ Bill(p) \in Nat /\ Bill(p)' \in Nat /\ Bill(p) <= lapses + 1
    <3>1. /\ reads[p] \in Nat /\ reads'[p] \in Nat /\ lapses \in Nat /\ lapses' \in Nat
          /\ Cardinality(Unsure(p)) \in Nat
          /\ Due(p) \in {0, 1} /\ Due(p)' \in {0, 1}
      BY UnsureFinite, WeatherAssumption DEF TypeOK, Due
    <3>2. Unsure(p)' \in SUBSET Requests
      BY DEF Unsure
    <3>3. Cardinality(Unsure(p)') \in Nat
      BY <3>2, WeatherAssumption, FS_Subset, FS_CardinalityType
    <3> QED
      BY <3>1, <3>3 DEF ReadInv, Bill
  <2> DEFINE Alone(r) == \A x \in Requests \ {r} : pc'[x] = pc[x] /\ sure'[x] = sure[x]
  <2>2. ASSUME NEW r \in Requests, Alone(r),
               \A p \in Procs \ {ProcOf[r]} : reads'[p] = reads[p],
               stored' \in {stored, "good"},
               \/ lapses' = lapses /\ Bill(ProcOf[r])' <= Bill(ProcOf[r])
               \/ lapses' = lapses + 1 /\ Bill(ProcOf[r])' <= Bill(ProcOf[r]) + 1
        PROVE  ReadInv'
    <3> SUFFICES ASSUME NEW p \in Procs
                 PROVE  Bill(p)' <= lapses' + 1
      BY DEF ReadInv
    <3>1. CASE p = ProcOf[r]
      BY <2>1, <2>2, <3>1
    <3>2. CASE p # ProcOf[r]
      <4>1. Bill(p)' <= Bill(p)
        BY <2>2, <3>2, OthersPay
      <4> QED
        BY <2>1, <2>2, <4>1
    <3> QED
      BY <3>1, <3>2
  <2>3. ASSUME NEW r \in Requests, Leave(r) \/ (\E a \in BOOLEAN : Queue(r, a))
        PROVE  Alone(r)
    BY <2>3 DEF Leave, Queue, TypeOK
  <2>4. ASSUME NEW r \in Requests, Loads(r)
        PROVE  /\ reads'[ProcOf[r]] = reads[ProcOf[r]] + 1
               /\ \A p \in Procs \ {ProcOf[r]} : reads'[p] = reads[p]
    BY <2>4, WeatherAssumption DEF Loads, TypeOK
  <2>5. ASSUME NEW p \in Procs, reads' = reads, UNCHANGED <<pc, sure>>,
               \/ lapses' = lapses /\ stored' \in {stored, "good"}
               \/ lapses' = lapses + 1
        PROVE  Bill(p)' <= lapses' + 1
    <3>1. /\ Unsure(p)' = Unsure(p)
          /\ At(p, "load")' <=> At(p, "load")
          /\ At(p, "write")' <=> At(p, "write")
      BY <2>5 DEF Unsure, At
    <3>2. Due(p)' <= Due(p) \/ lapses' = lapses + 1
      BY <2>5, <3>1 DEF Due
    <3>3. reads'[p] = reads[p]
      BY <2>5
    <3>4. Bill(p)' = reads[p] + Cardinality(Unsure(p)) + Due(p)'
      BY <3>1, <3>3 DEF Bill
    <3>5. Bill(p) = reads[p] + Cardinality(Unsure(p)) + Due(p)
      BY DEF Bill
    <3>6. Due(p) \in {0, 1} /\ Due(p)' \in {0, 1}
      BY <2>1
    <3> QED
      BY <2>1, <2>5, <3>2, <3>4, <3>5, <3>6
  <2>6. CASE Collect \/ Expire \/ LateSet \/ UNCHANGED vars
    BY <2>5, <2>6 DEF Collect, Expire, LateSet, Lapse, vars, local, redis, ReadInv
  <2>7. ASSUME NEW r \in Requests, FirstRead(r)
        PROVE  ReadInv'
    <3> DEFINE p == ProcOf[r]
    <3>0. p \in Procs /\ pc[r] = "idle" /\ pc'[r] = "wait" /\ sure'[r]
      BY <2>7, WeatherAssumption DEF FirstRead, Queue, TypeOK
    <3>1. Alone(r) /\ UNCHANGED <<stored, reads, lapses>>
      BY <2>3, <2>7 DEF FirstRead, redis
    <3>2. r \notin Unsure(p) /\ r \notin Unsure(p)'
      BY <3>0 DEF Unsure
    <3>3. Cardinality(Unsure(p)') = Cardinality(Unsure(p))
      BY <3>0, <3>1, <3>2, UnsureStep
    <3>4. (At(p, "load")' <=> At(p, "load")) /\ (At(p, "write")' <=> At(p, "write"))
      BY <3>0, <3>1 DEF At
    <3>5. Bill(p)' = Bill(p)
      BY <3>1, <3>3, <3>4 DEF Bill, Due
    <3> QED
      BY <2>1, <2>2, <3>0, <3>1, <3>5
  <2>8. ASSUME NEW r \in Requests, FirstReadFails(r) \/ SecondReadFails(r)
        PROVE  ReadInv'
    <3> DEFINE p == ProcOf[r]
    <3>0. /\ p \in Procs /\ pc[r] \in {"idle", "wait"} /\ (pc[r] = "wait" => sure[r])
          /\ pc'[r] = "wait" /\ ~ sure'[r]
      BY <2>8, WeatherAssumption DEF FirstReadFails, SecondReadFails, Queue, TypeOK
    <3>1. UNCHANGED <<stored, reads>> /\ lapses' = lapses + 1
      BY <2>8 DEF FirstReadFails, SecondReadFails, redis, Lapse
    <3>2. Alone(r)
      BY <2>3, <2>8 DEF FirstReadFails, SecondReadFails, TypeOK
    <3>3. r \notin Unsure(p) /\ r \in Unsure(p)'
      BY <3>0 DEF Unsure
    <3>4. Cardinality(Unsure(p)') = Cardinality(Unsure(p)) + 1
      BY <3>0, <3>2, <3>3, UnsureStep
    <3>5. (At(p, "load")' <=> At(p, "load")) /\ (At(p, "write")' <=> At(p, "write"))
      BY <3>0, <3>2 DEF At
    <3>6. Due(p)' = Due(p)
      BY <3>1, <3>5 DEF Due
    <3>7. Bill(p)' <= Bill(p) + 1
      BY <2>1, <3>0, <3>1, <3>4, <3>6 DEF Bill
    <3> QED
      BY <2>2, <3>1, <3>2, <3>7
  <2>9. ASSUME NEW r \in Requests, SecondRead(r)
        PROVE  ReadInv'
    <3> DEFINE p == ProcOf[r]
    <3>0. /\ p \in Procs /\ Holds(r) /\ pc[r] = "wait" /\ sure[r] /\ sure' = sure
          /\ UNCHANGED <<stored, reads, lapses>>
      BY <2>9, WeatherAssumption DEF SecondRead, redis, Leave
    <3>1. /\ Alone(r)
          /\ pc'[r] = IF stored = "good" THEN "idle" ELSE "load"
      BY <2>9 DEF SecondRead, Leave, TypeOK
    <3>2. r \notin Unsure(p) /\ r \notin Unsure(p)'
      BY <3>0 DEF Unsure
    <3>3. Cardinality(Unsure(p)') = Cardinality(Unsure(p))
      BY <3>0, <3>1, <3>2, UnsureStep
    <3>4. ~ At(p, "load") /\ ~ At(p, "write")
      BY <3>0, HolderAlone DEF At
    <3>5. Due(p)' <= Due(p)
      <4>1. CASE stored = "good"
        <5>1. ~ At(p, "load")'
          BY <3>0, <3>1, <3>4, <4>1 DEF At
        <5> QED
          BY <3>0, <3>4, <4>1, <5>1 DEF Due
      <4>2. CASE stored # "good"
        BY <2>1, <3>0, <3>4, <4>2 DEF Due
      <4> QED
        BY <4>1, <4>2
    <3>6. Bill(p)' <= Bill(p)
      BY <2>1, <3>0, <3>3, <3>5 DEF Bill
    <3> QED
      BY <2>2, <3>0, <3>1, <3>6
  <2>10. ASSUME NEW r \in Requests, Load(r)
         PROVE  ReadInv'
    <3> DEFINE p == ProcOf[r]
    <3>0. p \in Procs /\ Loads(r) /\ Holds(r) /\ UNCHANGED <<stored, lapses>>
      BY <2>10, WeatherAssumption DEF Load, Loads, redis
    <3>1. CASE sure[r]
      <4>1. pc[r] = "load" /\ pc' = [pc EXCEPT ![r] = "write"] /\ sure' = sure
        BY <2>10, <3>1 DEF Load, Loads
      <4>2. Alone(r) /\ pc'[r] = "write"
        BY <4>1 DEF TypeOK
      <4>3. r \notin Unsure(p) /\ r \notin Unsure(p)'
        BY <3>1, <4>1, <4>2 DEF Unsure
      <4>4. Cardinality(Unsure(p)') = Cardinality(Unsure(p))
        BY <3>0, <4>2, <4>3, UnsureStep
      <4>5. At(p, "load") /\ ~ At(p, "load")' /\ At(p, "write")'
        BY <3>0, <4>1, <4>2, HolderAlone DEF At
      <4>6. Due(p) = 1 /\ Due(p)' = 0
        BY <4>5 DEF Due
      <4>7. Bill(p)' <= Bill(p)
        BY <2>1, <2>4, <3>0, <4>4, <4>6 DEF Bill
      <4> QED
        BY <2>2, <2>4, <3>0, <4>2, <4>7
    <3>2. CASE ~ sure[r]
      <4>1. Leave(r) /\ pc[r] = "wait" /\ pc'[r] = "idle"
        BY <2>10, <3>0, <3>2 DEF Load, Loads, LineInv, Leave, TypeOK
      <4>2. Alone(r)
        BY <2>3, <4>1
      <4>3. r \in Unsure(p) /\ r \notin Unsure(p)'
        BY <3>2, <4>1 DEF Unsure
      <4>4. Cardinality(Unsure(p)') = Cardinality(Unsure(p)) - 1
        BY <3>0, <4>2, <4>3, UnsureStep
      <4>5. (At(p, "load")' <=> At(p, "load")) /\ (At(p, "write")' <=> At(p, "write"))
        BY <4>1, <4>2 DEF At
      <4>6. Due(p)' = Due(p)
        BY <3>0, <4>5 DEF Due
      <4>7. Bill(p)' <= Bill(p)
        BY <2>1, <2>4, <3>0, <4>4, <4>6 DEF Bill
      <4> QED
        BY <2>2, <2>4, <3>0, <4>2, <4>7
    <3> QED
      BY <3>1, <3>2
  <2>11. ASSUME NEW r \in Requests, Write(r)
         PROVE  ReadInv'
    <3> DEFINE p == ProcOf[r]
    <3>0. /\ p \in Procs /\ Holds(r) /\ pc[r] = "write" /\ Leave(r) /\ pc'[r] = "idle"
          /\ stored' = "good" /\ UNCHANGED <<reads, lapses>>
      BY <2>11, WeatherAssumption DEF Write, Leave, TypeOK
    <3>1. Alone(r)
      BY <2>3, <3>0
    <3>2. r \notin Unsure(p) /\ r \notin Unsure(p)'
      BY <3>0 DEF Unsure
    <3>3. Cardinality(Unsure(p)') = Cardinality(Unsure(p))
      BY <3>0, <3>1, <3>2, UnsureStep
    <3>4. ~ At(p, "load")'
      BY <3>0, <3>1, HolderAlone DEF At
    <3>5. Due(p)' = 0
      BY <3>0, <3>4 DEF Due
    <3>6. Bill(p)' <= Bill(p)
      BY <2>1, <3>0, <3>3, <3>5 DEF Bill
    <3> QED
      BY <2>2, <3>0, <3>1, <3>6
  <2>12. ASSUME NEW r \in Requests, LoadFails(r) \/ WriteFails(r) \/ Cancel(r)
         PROVE  ReadInv'
    <3> DEFINE p == ProcOf[r]
    <3>0. /\ p \in Procs /\ Leave(r) /\ pc'[r] = "idle"
          /\ lapses' = lapses + 1 /\ stored' \in {stored, "good"}
          /\ Loads(r) \/ reads' = reads
      BY <2>12, WeatherAssumption
         DEF LoadFails, WriteFails, Cancel, Leave, Lapse, Unconfirmed, redis, TypeOK
    <3>1. Alone(r)
      BY <2>3, <3>0
    <3>2. r \notin Unsure(p)'
      BY <3>0 DEF Unsure
    <3>3. Cardinality(Unsure(p)') <= Cardinality(Unsure(p))
      BY <2>1, <3>0, <3>1, <3>2, UnsureStep
    <3>4. CASE reads' = reads
      <4>1. Bill(p)' <= Bill(p) + 1
        BY <2>1, <3>0, <3>3, <3>4 DEF Bill
      <4> QED
        BY <2>2, <3>0, <3>1, <3>4, <4>1
    <3>5. CASE Loads(r)
      <4>1. CASE pc[r] = "load"
        <5>1. Due(p) = 1
          BY <4>1 DEF Due, At
        <5> QED
          BY <2>1, <2>2, <2>4, <3>0, <3>1, <3>3, <3>5, <5>1 DEF Bill
      <4>2. CASE pc[r] # "load"
        <5>1. pc[r] = "wait" /\ ~ sure[r]
          BY <3>5, <4>2 DEF Loads
        <5>2. Cardinality(Unsure(p)') = Cardinality(Unsure(p)) - 1
          <6>1. r \in Unsure(p)
            BY <5>1 DEF Unsure
          <6> QED
            BY <3>0, <3>1, <3>2, <6>1, UnsureStep
        <5> QED
          BY <2>1, <2>2, <2>4, <3>0, <3>1, <3>5, <5>2 DEF Bill
      <4> QED
        BY <4>1, <4>2
    <3> QED
      BY <3>0, <3>4, <3>5
  <2> QED
    BY <2>6, <2>7, <2>8, <2>9, <2>10, <2>11, <2>12 DEF Next, Step, Failure
<1> QED
  BY <1>1, <1>2, WellTyped, PTL DEF Spec

(* Misses are merged: a process queries PostgreSQL once, and once more for    *)
(* each expiry or failure, whatever the number of its handlers, of the other  *)
(* processes, and the order in which they read and write the cache.           *)
THEOREM QueriesArePaidFor == Spec => []ReadsArePaidFor
<1>1. TypeOK /\ ReadInv => ReadsArePaidFor
  <2> SUFFICES ASSUME TypeOK, ReadInv, NEW p \in Procs
               PROVE  reads[p] <= lapses + 1
    BY DEF ReadsArePaidFor
  <2>1. /\ reads[p] \in Nat /\ lapses \in Nat
        /\ Cardinality(Unsure(p)) \in Nat /\ Due(p) \in {0, 1}
    BY UnsureFinite, WeatherAssumption DEF TypeOK, Due
  <2> QED
    BY <2>1 DEF ReadInv, Bill
<1> QED
  BY <1>1, WellTyped, Paid, PTL
=============================================================================
