----------------------------- MODULE CursorPaging -----------------------------
(***************************************************************************)
(* Cursor pagination: src/src/shared/utils/cursor-pagination.ts as the     *)
(* list endpoints and SearchService use it.  A client walks through a      *)
(* result page by page while rows are created and removed.                 *)
(*                                                                         *)
(* A row is the place of its id (in a search: of its sortKey "type:id") in *)
(* the order of ids, since that order is all that the code asks of it.     *)
(* "<" of PostgreSQL on uuid, "<" and localeCompare of JavaScript on these *)
(* keys agree: keys of one type differ only in lower-case hex digits, and  *)
(* category < city < monument in each of the orders.                       *)
(*                                                                         *)
(* A list is a walk over one table.  A search walks over all of them: it   *)
(* reads each table by a query of its own, merges, sorts and cuts the rows *)
(* that do not lie behind the cursor.                                      *)
(*                                                                         *)
(* A definition preceded by a form of it that is named after a mistake     *)
(* (BehindOrAt before Behind) is mutated to it in PROJECT.json; nothing    *)
(* else uses it.                                                           *)
(***************************************************************************)
EXTENDS Naturals, FiniteSets

CONSTANTS
    Rows,       \* rows that can be created, in the order of their ids
    Tables,     \* the tables that a search reads
    TableOf,    \* the table of each row
    Asked,      \* values of the query parameter limit that clients send
    MaxLimit,   \* MAX_PAGE_LIMIT
    MaxClock    \* bound on the clock

ASSUME PagingAssumption ==
    /\ Rows \subseteq Nat /\ IsFiniteSet(Rows)
    /\ TableOf \in [Rows -> Tables]
    /\ Asked \subseteq Nat
    /\ MaxLimit \in Nat \ {0}
    /\ MaxClock \in Nat

VARIABLES
    row,        \* per row: has it been created, and removed again
    createdAt,  \* per row: its column createdAt, in milliseconds
    clock,
    scope,      \* the tables that the walk is about
    cursor,     \* the cursor that the client holds, <<>> before the first page
    more,       \* has_next of the last page it was given
    limit,      \* of the request under way: its limit, 0 if there is none,
    unread,     \*   the tables still to be read,
    hits,       \*   and the rows behind the cursor that were found
    (* History variables: read by properties only. *)
    times,      \* per row: how often the walk has returned it, up to 2
    steady,     \* rows of the result that were there throughout the walk
    disturbed   \* a row was removed during the walk

request == <<limit, unread, hits>>
hist == <<times, steady, disturbed>>
vars == <<row, createdAt, clock, scope, cursor, more, request, hist>>

Time == 0..MaxClock
Cursor == [createdAt: Time, id: Rows]

TypeOK ==
    /\ row \in [Rows -> {"none", "present", "removed"}]
    /\ createdAt \in [Rows -> Time]
    /\ clock \in Time
    /\ scope \in SUBSET Tables
    /\ cursor \in Cursor \cup {<<>>}
    /\ more \in BOOLEAN
    /\ limit \in 0..MaxLimit
    /\ unread \in SUBSET Tables
    /\ hits \in SUBSET Rows
    /\ times \in [Rows -> 0..2]
    /\ steady \in SUBSET Rows
    /\ disturbed \in BOOLEAN

Init ==
    /\ row = [r \in Rows |-> "none"]
    /\ createdAt = [r \in Rows |-> 0]
    /\ clock = 0
    /\ scope = {}
    /\ cursor = <<>>
    /\ more = FALSE
    /\ limit = 0 /\ unread = {} /\ hits = {}
    /\ times = [r \in Rows |-> 0]
    /\ steady = {}
    /\ disturbed = FALSE

-----------------------------------------------------------------------------
(* The code's operators. *)

ResolveLimit(asked) ==
    IF asked < 1 THEN 1 ELSE IF asked > MaxLimit THEN MaxLimit ELSE asked

(* The order of a result: newest first, ties by descending id. *)
Before(x, y) ==
    \/ createdAt[x] > createdAt[y]
    \/ createdAt[x] = createdAt[y] /\ x > y

BehindOrAt(r) ==
    cursor # <<>> =>
        \/ createdAt[r] < cursor.createdAt
        \/ createdAt[r] = cursor.createdAt /\ r <= cursor.id
BehindInTime(r) ==
    cursor # <<>> => createdAt[r] < cursor.createdAt

(* What a cursor filters: rows that come after the one it names. *)
Behind(r) ==
    cursor # <<>> =>
        \/ createdAt[r] < cursor.createdAt
        \/ createdAt[r] = cursor.createdAt /\ r < cursor.id

(* The first n rows of those found. *)
Ahead(x) == {y \in hits : Before(y, x)}
First(n) == {x \in hits : Cardinality(Ahead(x)) < n}
IsLast(x, page) == x \in page /\ \A y \in page : y = x \/ Before(y, x)

HasNextWhenFull == Cardinality(hits) >= limit

(* One row more than the limit is fetched, to see whether there is a next page. *)
HasNext == Cardinality(hits) > limit

-----------------------------------------------------------------------------
(* A page request: the tables of the walk are read one by one, then the page  *)
(* is cut and answered.                                                       *)

Open(tables) ==
    /\ limit = 0
    /\ scope' = tables
    /\ cursor' = <<>>
    /\ more' = TRUE
    /\ times' = [r \in Rows |-> 0]
    /\ steady' = {r \in Rows : row[r] = "present" /\ TableOf[r] \in tables}
    /\ disturbed' = FALSE
    /\ UNCHANGED <<row, createdAt, clock, request>>

OpenList == \E t \in Tables : Open({t})
OpenSearch == Open(Tables)

Request(asked) ==
    /\ limit = 0 /\ more
    /\ limit' = ResolveLimit(asked)
    /\ unread' = scope
    /\ hits' = {}
    /\ UNCHANGED <<row, createdAt, clock, scope, cursor, more, hist>>

Read(t) ==
    /\ limit > 0 /\ t \in unread
    /\ unread' = unread \ {t}
    /\ hits' = hits \cup {r \in Rows : row[r] = "present" /\ TableOf[r] = t /\ Behind(r)}
    /\ UNCHANGED <<row, createdAt, clock, scope, cursor, more, limit, hist>>

Done == limit' = 0 /\ unread' = {} /\ hits' = {}

Answer ==
    /\ limit > 0 /\ unread = {}
    /\ times' = [r \in Rows |->
                    IF r \in First(limit) /\ times[r] < 2 THEN times[r] + 1 ELSE times[r]]
    /\ more' = HasNext
    /\ \/ /\ HasNext
          /\ \E last \in Rows :
                /\ IsLast(last, First(limit))
                /\ cursor' = [createdAt |-> createdAt[last], id |-> last]
       \/ ~HasNext /\ UNCHANGED cursor
    /\ Done
    /\ UNCHANGED <<row, createdAt, clock, scope, steady, disturbed>>

(* A query rejects, or the answer is lost: the client may ask again. *)
Fail ==
    /\ limit > 0
    /\ Done
    /\ UNCHANGED <<row, createdAt, clock, scope, cursor, more, hist>>

-----------------------------------------------------------------------------
(* Meanwhile: a row gets the time at which its insert began, and is seen when *)
(* it is committed, which may be a tick later.                                *)
Create(r) ==
    /\ row[r] = "none"
    /\ row' = [row EXCEPT ![r] = "present"]
    /\ \E t \in Time :
          /\ t = clock \/ t + 1 = clock
          /\ createdAt' = [createdAt EXCEPT ![r] = t]
    /\ UNCHANGED <<clock, scope, cursor, more, request, hist>>

Remove(r) ==
    /\ row[r] = "present"
    /\ row' = [row EXCEPT ![r] = "removed"]
    /\ steady' = steady \ {r}
    /\ disturbed' = TRUE
    /\ UNCHANGED <<createdAt, clock, scope, cursor, more, request, times>>

(* Content that was taken off and is published again keeps its id and time. *)
Publish(r) ==
    /\ row[r] = "removed"
    /\ row' = [row EXCEPT ![r] = "present"]
    /\ UNCHANGED <<createdAt, clock, scope, cursor, more, request, hist>>

Tick ==
    /\ clock < MaxClock
    /\ clock' = clock + 1
    /\ UNCHANGED <<row, createdAt, scope, cursor, more, request, hist>>

Next ==
    \/ OpenList \/ OpenSearch
    \/ \E asked \in Asked : Request(asked)
    \/ \E t \in Tables : Read(t)
    \/ Answer \/ Fail
    \/ \E r \in Rows : Create(r) \/ Remove(r) \/ Publish(r)
    \/ Tick

Spec == Init /\ [][Next]_vars

-----------------------------------------------------------------------------
(* A walk never shows a row twice, whatever is created, removed or asked for  *)
(* again in between and however the limits of its pages differ.               *)
NoRepeats == \A r \in Rows : times[r] <= 1

(* A walk that has been told "no next page" has shown every row that was      *)
(* there all the time.                                                        *)
NoSkips == (~more /\ limit = 0) => \A r \in steady : times[r] = 1

(* has_next is honest: behind a cursor there is at least one row, unless rows *)
(* were removed.                                                              *)
NoEmptyPage ==
    (limit > 0 /\ unread = {} /\ cursor # <<>> /\ ~disturbed) => hits # {}

-----------------------------------------------------------------------------
(* The inductive invariant of the walk. *)

(* What was not created was not found, counted or returned. *)
Created ==
    \A r \in Rows :
        /\ row[r] = "none" => times[r] = 0 /\ r \notin hits
        /\ r \in steady => row[r] = "present" /\ TableOf[r] \in scope

(* While the walk goes on, nothing behind the cursor has been shown, and all  *)
(* steady rows that are not behind it have.                                   *)
Frontier ==
    more => \A r \in Rows :
        /\ Behind(r) => times[r] = 0
        /\ r \in steady /\ ~Behind(r) => times[r] = 1

(* A request has found rows behind the cursor, all steady ones among them as  *)
(* far as the tables were read.                                               *)
Found ==
    /\ limit > 0 => more
    /\ hits # {} => limit > 0
    /\ \A r \in hits : Behind(r)
    /\ limit > 0 => \A r \in steady : TableOf[r] \notin unread /\ Behind(r) => r \in hits

IInv == TypeOK /\ Created /\ Frontier /\ Found /\ NoRepeats /\ NoSkips

(* A row that bears out the last has_next: it is still to be found, or was.   *)
Promised ==
    \E r \in Rows :
        /\ row[r] = "present" /\ TableOf[r] \in scope /\ Behind(r)
        /\ limit > 0 => TableOf[r] \in unread \/ r \in hits

Honest ==
    /\ unread \subseteq scope
    /\ limit = 0 => unread = {}
    /\ ~disturbed =>
          /\ \A r \in hits : row[r] = "present" /\ TableOf[r] \in scope
          /\ more /\ cursor # <<>> => Promised

HInv == IInv /\ Honest
=============================================================================
