------------------------------ MODULE NewsPages ------------------------------
(***************************************************************************)
(* GET /news/latest/page (src/news/routes.py): a client follows next_cursor  *)
(* from page to page while the collector, a program of its own, changes the  *)
(* table under it.  Each page is one query; nothing else connects them than  *)
(* the cursor, the id and date of the last item of the page before.           *)
(*                                                                           *)
(* A page is a set: the order inside it is that of Precedes.  A publication   *)
(* date is a number or NoDate (NULL).                                        *)
(***************************************************************************)
EXTENDS Integers, Sequences, FiniteSets

CONSTANTS
    Ids,        \* news_items.id: given out in order, visible in any order
    Publishers, \* news_feeds.publisher, one feed each
    Dates,      \* publication dates
    NoDate,     \* no date
    NoFilter,   \* every publisher
    NoCursor,   \* the first page, or no next one
    Sizes,      \* page sizes
    MaxChanges  \* how often the collector changes the table (a bound)

Key == [id : Ids, date : Dates \cup {NoDate}]

ASSUME NewsAssumption ==
    /\ Ids \subseteq Nat /\ IsFiniteSet(Ids)
    /\ Dates \subseteq Int /\ NoDate \notin Dates
    /\ NoFilter \notin Publishers
    /\ NoCursor \notin Key
    /\ Sizes \subseteq Nat \ {0}
    /\ MaxChanges \in Nat

VARIABLES
    items,   \* items[i]: publisher and date, for the rows there are
    used,    \* ids that have been given out
    filter,  \* the client's publisher, or NoFilter
    size,    \* its page_size
    cursor,  \* the cursor of the next request
    pages,   \* the keys of the items of each page received
    at,      \* "first", "next" or "done"
    same,    \* rows there from the first request on and not changed (history)
    changes  \* changes so far

table == <<items, used>>
client == <<filter, size, cursor, pages, at>>
vars == <<table, client, same, changes>>

Item == [publisher : Publishers, date : Dates \cup {NoDate}]

TypeOK ==
    /\ used \subseteq Ids
    /\ DOMAIN items \subseteq used
    /\ \A i \in DOMAIN items : items[i] \in Item
    /\ filter \in Publishers \cup {NoFilter}
    /\ size \in Sizes
    /\ cursor \in Key \cup {NoCursor}
    /\ pages \in Seq(SUBSET Key)
    /\ \A n \in DOMAIN pages : Cardinality(pages[n]) <= size
    /\ at \in {"first", "next", "done"}
    /\ cursor = NoCursor <=> at # "next"
    /\ same \subseteq DOMAIN items
    /\ changes \in 0..MaxChanges

Init ==
    /\ used \in SUBSET Ids
    /\ items \in [used -> Item]
    /\ filter \in Publishers \cup {NoFilter}
    /\ size \in Sizes
    /\ cursor = NoCursor
    /\ pages = <<>>
    /\ at = "first"
    /\ same = used
    /\ changes = 0

(***************************************************************************)
(* Faulty variants of the definitions below.                                 *)
(***************************************************************************)

(* Items without a date are forgotten once a page ends at a dated one. *)
After_noNulls(c, x) ==
    \/ c = NoCursor
    \/ /\ c.date # NoDate /\ x.date # NoDate
       /\ x.date < c.date \/ (x.date = c.date /\ x.id < c.id)
    \/ c.date = NoDate /\ x.date = NoDate /\ x.id < c.id

(* The row fetched to learn whether there are more is given out as well. *)
PageOf_all(rows, page) == page = rows

(***************************************************************************)
(* The query.  ORDER BY pub_date DESC NULLS LAST, id DESC, and the rows that  *)
(* come after the cursor in that order.                                      *)
(***************************************************************************)
KeyOf(i) == [id |-> i, date |-> items[i].date]

Wanted(i) == filter = NoFilter \/ items[i].publisher = filter

Precedes(x, y) ==
    \/ x.date # NoDate /\ y.date = NoDate
    \/ x.date # NoDate /\ y.date # NoDate /\ x.date > y.date
    \/ x.date = y.date /\ x.id > y.id

After(c, x) ==
    \/ c = NoCursor
    \/ /\ c.date # NoDate
       /\ \/ x.date # NoDate /\ x.date < c.date
          \/ x.date = c.date /\ x.id < c.id
          \/ x.date = NoDate
    \/ c.date = NoDate /\ x.date = NoDate /\ x.id < c.id

Remaining == {KeyOf(i) : i \in {j \in DOMAIN items : Wanted(j) /\ After(cursor, KeyOf(j))}}

(* T is what LIMIT n leaves of S. *)
IsFirst(T, S, n) ==
    /\ T \subseteq S
    /\ Cardinality(T) <= n
    /\ Cardinality(T) < n => T = S
    /\ \A x \in T : \A y \in S \ T : Precedes(x, y)

IsLast(x, T) == x \in T /\ \A y \in T : y = x \/ Precedes(y, x)

(***************************************************************************)
(* The client asks for a page: page_size + 1 rows are fetched, page_size are  *)
(* given, and the last of those is the cursor when the extra row was there.   *)
(* get_latest_news is the first request alone.                               *)
(***************************************************************************)
PageOf(rows, page) == IsFirst(page, rows, size)

GetPage ==
    /\ at # "done"
    /\ \E rows \in SUBSET Remaining :
          /\ IsFirst(rows, Remaining, size + 1)
          /\ \E page \in SUBSET rows :
                /\ PageOf(rows, page)
                /\ pages' = Append(pages, page)
                /\ IF Cardinality(rows) > size
                   THEN /\ \E x \in page : IsLast(x, page) /\ cursor' = x
                        /\ at' = "next"
                   ELSE /\ cursor' = NoCursor
                        /\ at' = "done"
    /\ UNCHANGED <<table, filter, size, same, changes>>

(***************************************************************************)
(* The collector (external): a new item, with any date; an item it finds      *)
(* again, with a date corrected by its feed; a feed that goes with its items  *)
(* (ON DELETE CASCADE).                                                      *)
(***************************************************************************)
Change(new) ==
    /\ changes < MaxChanges
    /\ changes' = changes + 1
    /\ items' = new
    /\ same' = {i \in same : i \in DOMAIN new /\ new[i] = items[i]}
    /\ UNCHANGED client

Insert(i, item) ==
    /\ i \notin used
    /\ used' = used \cup {i}
    /\ Change([j \in DOMAIN items \cup {i} |-> IF j = i THEN item ELSE items[j]])

Redate(i, date) ==
    /\ items[i].date # date
    /\ Change([items EXCEPT ![i].date = date])
    /\ UNCHANGED used

DropFeed(p) ==
    /\ \E i \in DOMAIN items : items[i].publisher = p
    /\ Change([i \in {j \in DOMAIN items : items[j].publisher # p} |-> items[i]])
    /\ UNCHANGED used

Next ==
    \/ GetPage
    \/ \E i \in Ids, item \in Item : Insert(i, item)
    \/ \E i \in DOMAIN items, date \in Dates \cup {NoDate} : Redate(i, date)
    \/ \E p \in Publishers : DropFeed(p)

Spec == Init /\ [][Next]_vars

(***************************************************************************)
(* Properties.                                                               *)
(***************************************************************************)

(* Whatever the collector does between the pages, a later page continues      *)
(* below every earlier one, so that no item is given twice under one date,    *)
(* and when there is no next cursor every item of the filter that was there   *)
(* from the start and was left alone has been given, ties and missing dates   *)
(* included ("offset 방식과 달리 ... 안정적으로 이어서 조회", get_latest_news_page).     *)
ReadOnce ==
    /\ \A m, n \in DOMAIN pages : m < n =>
          \A x \in pages[m], y \in pages[n] : Precedes(x, y)
    /\ at = "done" => \A i \in same : Wanted(i) =>
          \E n \in DOMAIN pages : KeyOf(i) \in pages[n]
=============================================================================
