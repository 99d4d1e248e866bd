--------------------------- MODULE NewsPagesProofs ---------------------------
(* Proofs about NewsPages for any rows, dates, page sizes and any number of   *)
(* changes by the collector.                                                 *)
EXTENDS NewsPages, FiniteSetTheorems, TLAPS

(* Some page has row i under the date it has now. *)
Given(i) == \E n \in DOMAIN pages : KeyOf(i) \in pages[n]

(* Key x comes no later than the cursor. *)
Passed(x) == x = cursor \/ Precedes(x, cursor)

(* ReadOnce, and what a client that is under way can rely on: everything it   *)
(* has been given comes no later than its cursor, and every row left alone    *)
(* that comes no later than the cursor has been given.                       *)
Inv ==
    /\ ReadOnce
    /\ at = "first" => pages = <<>>
    /\ at = "next" =>
          /\ \A n \in DOMAIN pages : \A x \in pages[n] : Passed(x)
          /\ \A i \in same : Wanted(i) /\ Passed(KeyOf(i)) => Given(i)

-----------------------------------------------------------------------------
(* The order of the query. *)

LEMMA Keys ==
    ASSUME NEW x \in Key
    PROVE  /\ x.id \in Int
           /\ x.date # NoDate => x.date \in Int
           /\ x = [id |-> x.id, date |-> x.date]
<1>1. x.id \in Ids /\ x.date \in Dates \cup {NoDate}
  BY DEF Key
<1>2. x = [id |-> x.id, date |-> x.date]
  BY DEF Key
<1>3. x.date # NoDate => x.date \in Int
  <2>1. Dates \subseteq Int
    BY NewsAssumption
  <2> QED
    BY <1>1, <2>1
<1>4. x.id \in Int
  <2>1. Ids \subseteq Nat
    BY NewsAssumption
  <2>2. x.id \in Nat
    BY <1>1, <2>1, Zenon
  <2> QED
    BY <2>2
<1> QED
  BY <1>2, <1>3, <1>4

LEMMA PrecedesTransitive ==
    ASSUME NEW x \in Key, NEW y \in Key, NEW z \in Key, Precedes(x, y), Precedes(y, z)
    PROVE  Precedes(x, z)
<1>1. CASE x.date = NoDate
  BY <1>1, Keys DEF Precedes
<1>2. CASE x.date # NoDate /\ z.date = NoDate
  BY <1>2 DEF Precedes
<1>3. CASE x.date # NoDate /\ z.date # NoDate
  <2>1. y.date # NoDate
    BY <1>3 DEF Precedes
  <2> QED
    BY <1>3, <2>1, Keys DEF Precedes
<1> QED
  BY <1>1, <1>2, <1>3

LEMMA PrecedesAsymmetric ==
    ASSUME NEW x \in Key, NEW y \in Key, Precedes(x, y)
    PROVE  ~Precedes(y, x) /\ x # y
BY Keys DEF Precedes

(* The rows of different ids are never level: ties of the date are broken. *)
LEMMA PrecedesTotal ==
    ASSUME NEW x \in Key, NEW y \in Key
    PROVE  Precedes(x, y) \/ Precedes(y, x) \/ x = y
<1>1. CASE x.date = y.date
  <2>1. x.id > y.id \/ y.id > x.id \/ x.id = y.id
    BY Keys
  <2> QED
    BY <1>1, <2>1, Keys DEF Precedes
<1>2. CASE x.date # y.date
  BY <1>2, Keys DEF Precedes
<1> QED
  BY <1>1, <1>2

(* The WHERE clause of the next page is the order of its ORDER BY. *)
LEMMA AfterIsPrecedes ==
    ASSUME NEW c \in Key, NEW x \in Key
    PROVE  After(c, x) <=> Precedes(c, x)
<1>1. c # NoCursor
  BY NewsAssumption
<1>2. CASE c.date = NoDate
  BY <1>1, <1>2, Keys DEF Precedes, After
<1>3. CASE c.date # NoDate
  BY <1>1, <1>3, Keys DEF Precedes, After
<1> QED
  BY <1>2, <1>3

LEMMA AfterNoCursor == \A x : After(NoCursor, x)
BY DEF After

-----------------------------------------------------------------------------
(* One request. *)

LEMMA KeysAreTyped ==
    ASSUME TypeOK, NEW i \in DOMAIN items
    PROVE  KeyOf(i) \in Key
BY DEF TypeOK, KeyOf, Key, Item

LEMMA RemainingFinite ==
    ASSUME TypeOK
    PROVE  IsFiniteSet(Remaining) /\ Remaining \subseteq Key
<1> DEFINE J == {j \in DOMAIN items : Wanted(j) /\ After(cursor, KeyOf(j))}
<1>1. IsFiniteSet(J)
  <2>1. J \subseteq Ids
    BY DEF TypeOK
  <2> QED
    BY <2>1, NewsAssumption, FS_Subset
<1>2. Remaining = {KeyOf(i) : i \in J}
  BY DEF Remaining
<1>3. [i \in J |-> KeyOf(i)] \in Surjection(J, Remaining)
  BY <1>2 DEF Surjection
<1>4. IsFiniteSet(Remaining)
  BY <1>1, <1>3, FS_Surjection
<1> QED
  BY <1>4, KeysAreTyped DEF Remaining

(* A page is part of what remained; with a next cursor it is what comes no    *)
(* later than the cursor, without one it is everything.                      *)
LEMMA PageIs ==
    ASSUME TypeOK, GetPage
    PROVE  \E page \in SUBSET Remaining :
             /\ pages' = Append(pages, page)
             /\ Cardinality(page) <= size
             /\ \/ /\ at' = "next"
                   /\ cursor' \in page
                   /\ \A x \in page : x = cursor' \/ Precedes(x, cursor')
                   /\ \A x \in Remaining \ page : Precedes(cursor', x)
                \/ /\ at' = "done"
                   /\ cursor' = NoCursor
                   /\ page = Remaining
<1>0. PICK rows \in SUBSET Remaining :
         /\ IsFirst(rows, Remaining, size + 1)
         /\ \E page \in SUBSET rows :
               /\ PageOf(rows, page)
               /\ pages' = Append(pages, page)
               /\ IF Cardinality(rows) > size
                  THEN /\ \E x \in page : IsLast(x, page) /\ cursor' = x
                       /\ at' = "next"
                  ELSE cursor' = NoCursor /\ at' = "done"
  BY DEF GetPage
<1>1. PICK page \in SUBSET rows :
         /\ PageOf(rows, page)
         /\ pages' = Append(pages, page)
         /\ IF Cardinality(rows) > size
            THEN /\ \E x \in page : IsLast(x, page) /\ cursor' = x
                 /\ at' = "next"
            ELSE cursor' = NoCursor /\ at' = "done"
  BY <1>0
<1>2. Cardinality(page) <= size /\ page \in SUBSET Remaining
  BY <1>1 DEF PageOf, IsFirst
<1>3. CASE Cardinality(rows) > size
  <2>1. /\ at' = "next"
        /\ cursor' \in page
        /\ \A x \in page : x = cursor' \/ Precedes(x, cursor')
    BY <1>1, <1>3 DEF IsLast
  <2>2. \A x \in Remaining \ page : Precedes(cursor', x)
    BY <1>0, <1>1, <2>1 DEF PageOf, IsFirst
  <2> QED
    BY <1>1, <1>2, <2>1, <2>2
<1>4. CASE ~(Cardinality(rows) > size)
  <2>1. IsFiniteSet(rows) /\ Cardinality(rows) \in Nat /\ Cardinality(page) \in Nat
    BY <1>1, RemainingFinite, FS_Subset, FS_CardinalityType
  <2>2. size \in Nat
    BY NewsAssumption DEF TypeOK
  <2>3. rows = Remaining
    BY <1>0, <1>4, <2>1, <2>2 DEF IsFirst
  <2>4. page = rows
    <3>1. CASE Cardinality(page) < size
      BY <1>1, <3>1 DEF PageOf, IsFirst
    <3>2. CASE ~(Cardinality(page) < size)
      <4>1. Cardinality(page) = Cardinality(rows)
        <5>1. Cardinality(page) <= Cardinality(rows)
          BY <1>1, <2>1, FS_Subset
        <5> QED
          BY <1>4, <2>1, <2>2, <3>2, <5>1
      <4> QED
        BY <1>1, <2>1, <4>1, FS_Subset
    <3> QED
      BY <3>1, <3>2
  <2> QED
    BY <1>1, <1>2, <1>4, <2>3, <2>4
<1> QED
  BY <1>3, <1>4

-----------------------------------------------------------------------------
(* Every reachable state is well typed, and no page is longer than asked. *)
THEOREM TypeCorrect == Spec => []TypeOK
<1>1. Init => TypeOK
  BY NewsAssumption DEF Init, TypeOK
<1>2. TypeOK /\ [Next]_vars => TypeOK'
  <2> SUFFICES ASSUME TypeOK, [Next]_vars
               PROVE  TypeOK'
    OBVIOUS
  <2> USE NewsAssumption DEF table, client
  <2>1. CASE GetPage
    <3>1. PICK page \in SUBSET Remaining :
             /\ pages' = Append(pages, page)
             /\ Cardinality(page) <= size
             /\ \/ at' = "next" /\ cursor' \in page
                \/ at' = "done" /\ cursor' = NoCursor
      BY <2>1, PageIs
    <3>2. page \in SUBSET Key
      BY RemainingFinite
    <3>3. /\ pages' \in Seq(SUBSET Key)
          /\ \A n \in DOMAIN pages' : Cardinality(pages'[n]) <= size
      BY <3>1, <3>2 DEF TypeOK
    <3>4. /\ cursor' \in Key \cup {NoCursor}
          /\ cursor' = NoCursor <=> at' # "next"
          /\ at' \in {"first", "next", "done"}
      BY <3>1, <3>2
    <3> QED
      BY <2>1, <3>3, <3>4 DEF GetPage, TypeOK
  <2>2. ASSUME NEW i \in Ids, NEW item \in Item, Insert(i, item)
        PROVE  TypeOK'
    BY <2>2 DEF Insert, Change, TypeOK
  <2>3. ASSUME NEW i \in DOMAIN items, NEW date \in Dates \cup {NoDate}, Redate(i, date)
        PROVE  TypeOK'
    BY <2>3 DEF Redate, Change, TypeOK, Item
  <2>4. ASSUME NEW p \in Publishers, DropFeed(p)
        PROVE  TypeOK'
    BY <2>4 DEF DropFeed, Change, TypeOK
  <2>5. CASE UNCHANGED vars
    BY <2>5 DEF vars, TypeOK
  <2> QED
    BY <2>1, <2>2, <2>3, <2>4, <2>5 DEF Next
<1> QED
  BY <1>1, <1>2, PTL DEF Spec

(* What the collector does to a row that is left alone is nothing: it keeps   *)
(* its key and its publisher, and the client does not move.                   *)
LEMMA Kept ==
    ASSUME TypeOK, UNCHANGED client,
           same' \subseteq same,
           \A i \in same' : i \in DOMAIN items' /\ items'[i] = items[i]
    PROVE  Inv => Inv'
<1> SUFFICES ASSUME Inv
             PROVE  Inv'
  OBVIOUS
<1>1. /\ filter' = filter /\ cursor' = cursor /\ pages' = pages /\ at' = at
  BY DEF client
<1>2. ASSUME NEW i \in same'
      PROVE  /\ i \in same
             /\ KeyOf(i)' = KeyOf(i)
             /\ Wanted(i)' <=> Wanted(i)
  BY <1>1 DEF KeyOf, Wanted
<1>3. ASSUME NEW i \in same'
      PROVE  Given(i)' <=> Given(i)
  BY <1>1, <1>2 DEF Given
<1>4. ReadOnce'
  <2>1. \A m, n \in DOMAIN pages' : m < n =>
           \A x \in pages'[m], y \in pages'[n] : Precedes(x, y)
    BY <1>1 DEF Inv, ReadOnce
  <2>2. ASSUME at' = "done", NEW i \in same', Wanted(i)'
        PROVE  Given(i)'
    BY <1>1, <1>2, <1>3, <2>2 DEF Inv, ReadOnce, Given
  <2> QED
    BY <2>1, <2>2 DEF ReadOnce, Given
<1>5. ASSUME at' = "next"
      PROVE  /\ \A n \in DOMAIN pages' : \A x \in pages'[n] : Passed(x)'
             /\ \A i \in same' : Wanted(i)' /\ Passed(KeyOf(i))' => Given(i)'
  <2>1. \A x : Passed(x)' <=> Passed(x)
    BY <1>1 DEF Passed
  <2>2. ASSUME NEW i \in same', Wanted(i)', Passed(KeyOf(i))'
        PROVE  Given(i)'
    <3>1. Passed(KeyOf(i))
      BY <1>1, <1>2, <2>2 DEF Passed
    <3> QED
      BY <1>1, <1>2, <1>3, <1>5, <2>2, <3>1 DEF Inv
  <2> QED
    BY <1>1, <1>5, <2>1, <2>2 DEF Inv
<1> QED
  BY <1>1, <1>4, <1>5 DEF Inv

(* A page continues below the ones before it, and what was left behind above  *)
(* its end had been given or is on it.                                       *)
LEMMA PageKeepsInv ==
    ASSUME TypeOK, TypeOK', Inv, GetPage
    PROVE  Inv'
<1>1. PICK page \in SUBSET Remaining :
         /\ pages' = Append(pages, page)
         /\ \/ /\ at' = "next"
               /\ cursor' \in page
               /\ \A x \in page : x = cursor' \/ Precedes(x, cursor')
               /\ \A x \in Remaining \ page : Precedes(cursor', x)
            \/ at' = "done" /\ page = Remaining
  BY PageIs
<1>2. /\ items' = items /\ filter' = filter /\ same' = same /\ at # "done"
  BY DEF GetPage, table
<1>3. \A i : KeyOf(i)' = KeyOf(i) /\ (Wanted(i)' <=> Wanted(i))
  BY <1>2 DEF KeyOf, Wanted
<1>4. page \in SUBSET Key /\ pages \in Seq(SUBSET Key)
  BY RemainingFinite DEF TypeOK
<1>5. /\ DOMAIN pages' = 1..(Len(pages) + 1)
      /\ DOMAIN pages = 1..Len(pages) /\ Len(pages) \in Nat
      /\ \A n \in DOMAIN pages : pages'[n] = pages[n]
      /\ pages'[Len(pages) + 1] = page
  BY <1>1, <1>4
<1>6. \A i : Given(i) => Given(i)'
  BY <1>3, <1>5 DEF Given
<1>7. \A i : KeyOf(i) \in page => Given(i)'
  BY <1>3, <1>5 DEF Given
(* Below what has been given: the key of the cursor, or no page yet. *)
<1>8. ASSUME NEW n \in DOMAIN pages, NEW x \in pages[n], NEW y \in page
      PROVE  Precedes(x, y)
  <2>1. at = "next" /\ cursor \in Key /\ Passed(x) /\ x \in Key /\ y \in Key
    BY <1>2, <1>4, <1>5 DEF Inv, TypeOK
  <2>2. After(cursor, y)
    BY DEF Remaining
  <2>3. Precedes(cursor, y)
    BY <2>1, <2>2, AfterIsPrecedes
  <2> QED
    BY <2>1, <2>3, PrecedesTransitive DEF Passed
(* A row left alone that the client wants has been given, or remains. *)
<1>9. ASSUME NEW i \in same, Wanted(i)
      PROVE  Given(i) \/ KeyOf(i) \in Remaining
  <2>1. i \in DOMAIN items /\ KeyOf(i) \in Key
    BY KeysAreTyped DEF TypeOK
  <2>2. CASE at = "first"
    <3>1. cursor = NoCursor
      BY <2>2 DEF TypeOK
    <3> QED
      BY <1>9, <2>1, <3>1, AfterNoCursor DEF Remaining
  <2>3. CASE at = "next"
    <3>1. cursor \in Key
      BY <2>3 DEF TypeOK
    <3>2. CASE Passed(KeyOf(i))
      BY <1>9, <2>3, <3>2 DEF Inv
    <3>3. CASE ~Passed(KeyOf(i))
      <4>1. Precedes(cursor, KeyOf(i))
        BY <2>1, <3>1, <3>3, PrecedesTotal DEF Passed
      <4>2. After(cursor, KeyOf(i))
        BY <2>1, <3>1, <4>1, AfterIsPrecedes
      <4> QED
        BY <1>9, <2>1, <4>2 DEF Remaining
    <3> QED
      BY <3>2, <3>3
  <2> QED
    BY <1>2, <2>2, <2>3 DEF TypeOK
<1>10. \A m, n \in DOMAIN pages' : m < n =>
          \A x \in pages'[m], y \in pages'[n] : Precedes(x, y)
  <2> SUFFICES ASSUME NEW m \in DOMAIN pages', NEW n \in DOMAIN pages', m < n,
                      NEW x \in pages'[m], NEW y \in pages'[n]
               PROVE  Precedes(x, y)
    OBVIOUS
  <2>1. m \in DOMAIN pages /\ x \in pages[m]
    BY <1>5
  <2>2. CASE n \in DOMAIN pages
    BY <1>5, <2>1, <2>2 DEF Inv, ReadOnce
  <2>3. CASE n = Len(pages) + 1
    BY <1>5, <1>8, <2>1, <2>3
  <2> QED
    BY <1>5, <2>2, <2>3
<1>11. CASE at' = "done" /\ page = Remaining
  <2>1. \A i \in same' : Wanted(i)' => Given(i)'
    BY <1>2, <1>3, <1>6, <1>7, <1>9, <1>11
  <2> QED
    BY <1>10, <1>11, <2>1 DEF Inv, ReadOnce, Given
<1>12. CASE /\ at' = "next"
            /\ cursor' \in page
            /\ \A x \in page : x = cursor' \/ Precedes(x, cursor')
            /\ \A x \in Remaining \ page : Precedes(cursor', x)
  <2>1. ASSUME NEW n \in DOMAIN pages', NEW x \in pages'[n]
        PROVE  Passed(x)'
    <3>1. CASE n \in DOMAIN pages
      BY <1>5, <1>8, <1>12, <2>1, <3>1 DEF Passed
    <3>2. CASE n = Len(pages) + 1
      BY <1>5, <1>12, <2>1, <3>2 DEF Passed
    <3> QED
      BY <1>5, <3>1, <3>2
  <2>2. ASSUME NEW i \in same', Wanted(i)', Passed(KeyOf(i))'
        PROVE  Given(i)'
    <3>1. i \in same /\ Wanted(i) /\ (KeyOf(i) = cursor' \/ Precedes(KeyOf(i), cursor'))
      BY <1>2, <1>3, <2>2 DEF Passed
    <3>2. CASE Given(i)
      BY <1>6, <3>2
    <3>3. CASE KeyOf(i) \in Remaining
      <4>1. KeyOf(i) \in Key /\ cursor' \in Key
        BY <1>4, <1>12, <3>3, RemainingFinite
      <4>2. ~Precedes(cursor', KeyOf(i))
        BY <3>1, <4>1, PrecedesAsymmetric
      <4>3. KeyOf(i) \in page
        BY <1>12, <3>3, <4>2
      <4> QED
        BY <1>7, <4>3
    <3> QED
      BY <1>9, <3>1, <3>2, <3>3
  <2> QED
    BY <1>10, <1>12, <2>1, <2>2 DEF Inv, ReadOnce
<1> QED
  BY <1>1, <1>11, <1>12

(* Whatever the collector does between the pages, nothing is given twice      *)
(* under one date and nothing that was left alone is skipped.  The invariant  *)
(* behind it is Inv: the cursor parts what has been given from what remains.  *)
THEOREM EverythingReadOnce == Spec => []ReadOnce
<1>1. Init => Inv
  BY DEF Init, Inv, ReadOnce
<1>2. TypeOK /\ TypeOK' /\ Inv /\ [Next]_vars => Inv'
  <2> SUFFICES ASSUME TypeOK, TypeOK', Inv, [Next]_vars
               PROVE  Inv'
    OBVIOUS
  <2>1. CASE GetPage
    BY <2>1, PageKeepsInv
  <2>2. ASSUME NEW new, Change(new)
        PROVE  Inv'
    <3>1. same' \subseteq same
      BY <2>2 DEF Change
    <3>2. \A i \in same' : i \in DOMAIN items' /\ items'[i] = items[i]
      BY <2>2 DEF Change
    <3>3. UNCHANGED client
      BY <2>2 DEF Change
    <3> QED
      BY <3>1, <3>2, <3>3, Kept
  <2>3. ASSUME NEW i \in Ids, NEW item \in Item, Insert(i, item)
        PROVE  Inv'
    BY <2>2, <2>3 DEF Insert
  <2>4. ASSUME NEW i \in DOMAIN items, NEW date \in Dates \cup {NoDate}, Redate(i, date)
        PROVE  Inv'
    BY <2>2, <2>4 DEF Redate
  <2>5. ASSUME NEW p \in Publishers, DropFeed(p)
        PROVE  Inv'
    BY <2>2, <2>5 DEF DropFeed
  <2>6. CASE UNCHANGED vars
    <3>1. /\ UNCHANGED client
          /\ same' = same
          /\ items' = items
      BY <2>6 DEF vars, table
    <3>2. \A i \in same' : i \in DOMAIN items' /\ items'[i] = items[i]
      BY <3>1 DEF TypeOK
    <3> QED
      BY <3>1, <3>2, Kept
  <2> QED
    BY <2>1, <2>3, <2>4, <2>5, <2>6 DEF Next
<1>3. Inv => ReadOnce
  BY DEF Inv
<1> QED
  BY <1>1, <1>2, <1>3, TypeCorrect, PTL DEF Spec
=============================================================================
