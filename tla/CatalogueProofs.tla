--------------------------- MODULE CatalogueProofs ---------------------------
(***************************************************************************)
(* The walks of CursorPaging, which never repeat and never skip a row, and  *)
(* the other reads of Catalogue: for every number of rows and tables, every *)
(* ranking of the names, every limit, every clock and every set of          *)
(* favourites.                                                              *)
(*                                                                          *)
(* Beside the walks nothing but a request's own state changes, so what is   *)
(* shown of the walks first holds beside them too.  The answers rest on     *)
(* three invariants: Watched (the histories frame what the queries see),    *)
(* NamesAreCut (a row there throughout is found, still to be read, or cut   *)
(* by name) and StubAdvances (the tables before the pending one are done).  *)
(***************************************************************************)
EXTENDS Catalogue, FiniteSetTheorems, TLAPS

-----------------------------------------------------------------------------
(* The order of results and the pages cut from it. *)

LEMMA Typed ==
    ASSUME TypeOK, NEW r \in Rows
    PROVE  /\ r \in Nat
           /\ createdAt[r] \in Nat
           /\ cursor # <<>> => cursor.createdAt \in Nat /\ cursor.id \in Nat
<1>1. Rows \subseteq Nat /\ Time \subseteq Nat
  BY PagingAssumption DEF Time
<1>2. createdAt[r] \in Time /\ cursor \in Cursor \cup {<<>>}
  BY DEF TypeOK
<1>3. cursor # <<>> => cursor.createdAt \in Time /\ cursor.id \in Rows
  BY <1>2 DEF Cursor
<1> QED BY <1>1, <1>2, <1>3

(* Before is a strict total order on the rows. *)
LEMMA BeforeIsTotal ==
    ASSUME TypeOK, NEW x \in Rows, NEW y \in Rows
    PROVE  /\ x = y \/ Before(x, y) \/ Before(y, x)
           /\ ~(Before(x, y) /\ Before(y, x))
           /\ ~Before(x, x)
BY Typed, SMT DEF Before

LEMMA BeforeIsTransitive ==
    ASSUME TypeOK, NEW x \in Rows, NEW y \in Rows, NEW z \in Rows,
           Before(x, y), Before(y, z)
    PROVE  Before(x, z)
BY Typed, SMT DEF Before

(* What comes after a row behind the cursor is behind the cursor. *)
LEMMA BehindIsClosed ==
    ASSUME TypeOK, NEW x \in Rows, NEW y \in Rows, Behind(x), Before(x, y)
    PROVE  Behind(y)
BY Typed, SMT DEF Before, Behind

LEMMA HitsAreFinite ==
    ASSUME TypeOK
    PROVE  /\ IsFiniteSet(hits) /\ Cardinality(hits) \in Nat
           /\ \A x : IsFiniteSet(Ahead(x)) /\ Cardinality(Ahead(x)) \in Nat
<1>1. hits \subseteq Rows /\ IsFiniteSet(Rows)
  BY PagingAssumption DEF TypeOK
<1>2. IsFiniteSet(hits) /\ Cardinality(hits) \in Nat
  BY <1>1, FS_Subset, FS_CardinalityType
<1>3. ASSUME NEW x PROVE IsFiniteSet(Ahead(x)) /\ Cardinality(Ahead(x)) \in Nat
  <2>1. Ahead(x) \subseteq hits
    BY DEF Ahead
  <2> QED BY <2>1, <1>2, FS_Subset, FS_CardinalityType
<1> QED BY <1>2, <1>3

(* A page is a prefix of the result: it holds what comes before a row of it. *)
LEMMA PageIsPrefix ==
    ASSUME TypeOK, NEW n \in Nat, NEW x \in First(n), NEW y \in hits, Before(y, x)
    PROVE  y \in First(n)
<1>1. x \in Rows /\ y \in Rows /\ hits \subseteq Rows
  BY DEF TypeOK, First
<1>2. Ahead(y) \subseteq Ahead(x)
  BY <1>1, BeforeIsTransitive DEF Ahead
<1>3. Cardinality(Ahead(y)) <= Cardinality(Ahead(x))
  BY <1>2, HitsAreFinite, FS_Subset
<1>4. Cardinality(Ahead(x)) < n
  BY DEF First
<1> QED BY <1>3, <1>4, HitsAreFinite DEF First

(* A result that fits the page is the page. *)
LEMMA LastPageIsAll ==
    ASSUME TypeOK, NEW n \in Nat, Cardinality(hits) <= n
    PROVE  First(n) = hits
<1>1. SUFFICES ASSUME NEW x \in hits PROVE Cardinality(Ahead(x)) < n
  BY DEF First
<1>2. x \in Rows
  BY DEF TypeOK
<1>3. Ahead(x) \subseteq hits \ {x}
  BY <1>2, BeforeIsTotal DEF Ahead
<1>4. /\ IsFiniteSet(hits \ {x})
      /\ Cardinality(hits \ {x}) = Cardinality(hits) - 1
  BY HitsAreFinite, FS_RemoveElement
<1>5. Cardinality(Ahead(x)) <= Cardinality(hits \ {x})
  BY <1>3, <1>4, FS_Subset
<1> QED BY <1>4, <1>5, HitsAreFinite

-----------------------------------------------------------------------------
(* The answer: everything up to the new cursor has been shown, nothing behind *)
(* it has.                                                                    *)

LEMMA AnswerTimes ==
    ASSUME IInv, Answer, NEW r \in Rows
    PROVE  /\ r \in First(limit) => times[r] = 0 /\ times'[r] = 1
           /\ r \notin First(limit) => times'[r] = times[r]
<1>1. r \in First(limit) => Behind(r) /\ more
  BY DEF First, IInv, Found, Answer
<1>2. r \in First(limit) => times[r] = 0
  BY <1>1 DEF IInv, Frontier
<1> QED BY <1>2 DEF Answer, IInv, TypeOK

LEMMA AnswerMoves ==
    ASSUME IInv, Answer, NEW last \in Rows, IsLast(last, First(limit)),
           cursor' = [createdAt |-> createdAt[last], id |-> last], NEW r \in Rows
    PROVE  /\ Behind(r)' <=> Before(last, r)
           /\ Behind(last)
<1>1. createdAt' = createdAt
  BY DEF Answer
<1>2. cursor' # <<>>
  OBVIOUS
<1>3. Behind(last)
  BY DEF IInv, Found, IsLast, First
<1> QED BY <1>1, <1>2, <1>3, Typed DEF Behind, Before, IInv

LEMMA AnswerFrontier ==
    ASSUME IInv, Answer PROVE Frontier'
<1> SUFFICES ASSUME more', NEW r \in Rows
             PROVE  /\ Behind(r)' => times'[r] = 0
                    /\ r \in steady /\ ~Behind(r)' => times'[r] = 1
  BY DEF Frontier, Answer
<1>1. TypeOK /\ more /\ limit \in Nat /\ hits \subseteq Rows
  BY DEF IInv, TypeOK, Found, Answer
<1>2. PICK last \in Rows : /\ IsLast(last, First(limit))
                           /\ cursor' = [createdAt |-> createdAt[last], id |-> last]
  BY DEF Answer
<1>3. (Behind(r)' <=> Before(last, r)) /\ Behind(last)
  BY <1>2, AnswerMoves
<1>4. CASE Before(last, r)
  <2>1. Behind(r)
    BY <1>1, <1>3, <1>4, BehindIsClosed
  <2>2. r \notin First(limit)
    BY <1>1, <1>2, <1>4, BeforeIsTotal DEF IsLast
  <2> QED BY <1>1, <1>3, <1>4, <2>1, <2>2, AnswerTimes DEF IInv, Frontier
<1>5. CASE ~Before(last, r)
  <2>1. SUFFICES ASSUME r \in steady PROVE times'[r] = 1
    BY <1>3, <1>5
  <2>2. CASE Behind(r)
    <3>1. r \in hits
      BY <2>1, <2>2 DEF IInv, Found, Answer
    <3>2. r = last \/ Before(r, last)
      BY <1>1, <1>5, BeforeIsTotal
    <3>3. r \in First(limit)
      BY <1>1, <1>2, <3>1, <3>2, PageIsPrefix DEF IsLast
    <3> QED BY <3>3, AnswerTimes
  <2>3. CASE ~Behind(r)
    <3>1. times[r] = 1
      BY <1>1, <2>1, <2>3 DEF IInv, Frontier
    <3>2. r \notin First(limit)
      BY <2>3 DEF IInv, Found, First
    <3> QED BY <3>1, <3>2, AnswerTimes
  <2> QED BY <2>2, <2>3
<1> QED BY <1>4, <1>5

LEMMA AnswerNoSkips ==
    ASSUME IInv, Answer PROVE NoSkips'
<1> SUFFICES ASSUME ~more', NEW r \in steady PROVE times'[r] = 1
  BY DEF NoSkips, Answer
<1>1. TypeOK /\ more /\ limit \in Nat /\ r \in Rows
  BY DEF IInv, TypeOK, Found, Answer
<1>2. First(limit) = hits
  <2>1. ~HasNext
    BY DEF Answer
  <2>2. Cardinality(hits) <= limit
    BY <1>1, <2>1, HitsAreFinite DEF HasNext
  <2> QED BY <1>1, <2>2, LastPageIsAll
<1>3. CASE Behind(r)
  <2>1. r \in hits
    BY <1>3 DEF IInv, Found, Answer
  <2> QED BY <1>1, <1>2, <2>1, AnswerTimes
<1>4. CASE ~Behind(r)
  <2>1. times[r] = 1 /\ r \notin hits
    BY <1>1, <1>4 DEF IInv, Frontier, Found
  <2> QED BY <1>1, <1>2, <2>1, AnswerTimes
<1> QED BY <1>3, <1>4

LEMMA AnswerStep ==
    ASSUME IInv, Answer PROVE IInv'
<1>1. TypeOK'
  <2>1. cursor' \in Cursor \cup {<<>>}
    BY DEF IInv, TypeOK, Answer, Cursor
  <2>2. times' \in [Rows -> 0..2]
    BY DEF IInv, TypeOK, Answer
  <2>3. more' \in BOOLEAN
    BY DEF Answer, HasNext
  <2> QED BY <2>1, <2>2, <2>3, PagingAssumption DEF IInv, TypeOK, Answer, Done
<1>2. Created'
  <2> SUFFICES ASSUME NEW r \in Rows
               PROVE  /\ row[r] = "none" => times'[r] = 0
                      /\ r \in steady => row[r] = "present" /\ TableOf[r] \in scope
    BY DEF Created, Answer, Done
  <2>1. row[r] = "none" => times[r] = 0 /\ r \notin First(limit)
    BY DEF IInv, Created, First
  <2> QED BY <2>1, AnswerTimes DEF IInv, Created
<1>3. Found'
  BY DEF Found, Answer, Done
<1>4. NoRepeats'
  BY AnswerTimes DEF NoRepeats, IInv
<1> QED BY <1>1, <1>2, <1>3, <1>4, AnswerFrontier, AnswerNoSkips DEF IInv

-----------------------------------------------------------------------------
(* The other steps. *)

LEMMA LimitIsResolved ==
    ASSUME NEW asked \in Nat PROVE ResolveLimit(asked) \in 1..MaxLimit
BY PagingAssumption DEF ResolveLimit

(* Steps that leave the rows alone. *)
LEMMA WalkStep ==
    ASSUME IInv,
           \/ OpenList \/ OpenSearch
           \/ \E asked \in Asked : Request(asked)
           \/ \E t \in Tables : Read(t)
           \/ Fail \/ Tick \/ UNCHANGED vars
    PROVE  IInv'
<1> USE DEF IInv
<1>1. ASSUME NEW tables \in SUBSET Tables, Open(tables) PROVE IInv'
  <2>1. hits = {} /\ limit = 0 /\ UNCHANGED <<hits, limit, unread, row, createdAt, clock>>
    BY <1>1 DEF Open, Found, request
  <2>2. more' /\ \A r \in Rows : times'[r] = 0 /\ Behind(r)'
    BY <1>1 DEF Open, Behind
  <2>3. TypeOK'
    <3>1. times' \in [Rows -> 0..2] /\ steady' \in SUBSET Rows
      BY <1>1 DEF Open
    <3> QED BY <1>1, <2>1, <3>1 DEF Open, TypeOK
  <2>4. Created' /\ NoRepeats' /\ NoSkips'
    <3>1. \A r \in steady' : row[r] = "present" /\ TableOf[r] \in scope'
      BY <1>1 DEF Open
    <3> QED BY <2>1, <2>2, <3>1 DEF Created, NoRepeats, NoSkips
  <2>5. Frontier'
    BY <2>2 DEF Frontier
  <2>6. Found'
    BY <2>1 DEF Found
  <2> QED BY <2>3, <2>4, <2>5, <2>6
<1>2. ASSUME NEW asked \in Asked, Request(asked) PROVE IInv'
  <2>1. limit' \in 1..MaxLimit
    BY <1>2, LimitIsResolved, PagingAssumption DEF Request
  <2>2. TypeOK'
    BY <1>2, <2>1 DEF Request, TypeOK, hist
  <2>3. \A r \in steady : r \in Rows /\ TableOf[r] \in unread'
    BY <1>2 DEF Request, TypeOK, Created
  <2>4. Found'
    BY <1>2, <2>1, <2>3 DEF Request, Found, hist
  <2>5. Created' /\ Frontier' /\ NoRepeats' /\ NoSkips'
    BY <1>2, <2>1 DEF Request, Created, Frontier, NoRepeats, NoSkips, Behind, hist
  <2> QED BY <2>2, <2>4, <2>5
<1>3. ASSUME NEW t \in Tables, Read(t) PROVE IInv'
  <2>1. TypeOK'
    BY <1>3 DEF Read, TypeOK, hist
  <2>2. Created' /\ Frontier' /\ NoRepeats' /\ NoSkips'
    BY <1>3 DEF Read, TypeOK, Created, Frontier, NoRepeats, NoSkips, Behind, hist
  <2>3. Found'
    <3>1. \A r \in Rows : Behind(r)' <=> Behind(r)
      BY <1>3 DEF Read, Behind
    <3>2. (limit > 0 => more)' /\ (hits # {} => limit > 0)'
      BY <1>3 DEF Read, Found
    <3>3. \A r \in hits' : Behind(r)'
      BY <1>3, <3>1 DEF Read, Found, TypeOK
    <3>4. ASSUME NEW r \in steady, TableOf[r] \notin unread', Behind(r) PROVE r \in hits'
      <4>1. r \in Rows /\ row[r] = "present"
        BY DEF TypeOK, Created
      <4>2. CASE TableOf[r] = t
        BY <1>3, <3>4, <4>1, <4>2 DEF Read
      <4>3. CASE TableOf[r] # t
        BY <1>3, <3>4, <4>1, <4>3 DEF Read, Found
      <4> QED BY <4>2, <4>3
    <3> QED BY <1>3, <3>1, <3>2, <3>3, <3>4 DEF Read, Found, TypeOK, hist
  <2> QED BY <2>1, <2>2, <2>3
<1>4. CASE Fail
  BY <1>4, PagingAssumption
  DEF Fail, Done, TypeOK, Created, Frontier, Found, NoRepeats, NoSkips, Behind, hist
<1>5. CASE Tick
  BY <1>5, PagingAssumption
  DEF Tick, TypeOK, Time, Created, Frontier, Found, NoRepeats, NoSkips, Behind, hist, request
<1>6. CASE UNCHANGED vars
  BY <1>6
  DEF vars, TypeOK, Created, Frontier, Found, NoRepeats, NoSkips, Behind, hist, request
<1> QED BY <1>1, <1>2, <1>3, <1>4, <1>5, <1>6 DEF OpenList, OpenSearch

LEMMA CreateStep ==
    ASSUME IInv, NEW r \in Rows, Create(r) PROVE IInv'
<1>1. TypeOK'
  BY DEF IInv, TypeOK, Create, Time, hist, request
<1>2. /\ times[r] = 0 /\ r \notin hits /\ r \notin steady
      /\ UNCHANGED <<clock, scope, cursor, more, limit, unread, hits, times, steady>>
  BY DEF IInv, Created, Create, hist, request
<1>3. \A x \in Rows \ {r} : row'[x] = row[x] /\ createdAt'[x] = createdAt[x]
  BY DEF Create, IInv, TypeOK
<1>4. \A x \in Rows \ {r} : Behind(x)' <=> Behind(x)
  BY <1>2, <1>3 DEF Behind
<1>5. Created'
  BY <1>2, <1>3, <1>1 DEF IInv, Created, TypeOK, Create
<1>6. Frontier'
  BY <1>2, <1>4 DEF IInv, Frontier
<1>7. Found'
  BY <1>2, <1>4 DEF IInv, Found, TypeOK
<1> QED BY <1>1, <1>2, <1>5, <1>6, <1>7 DEF IInv, NoRepeats, NoSkips

(* Removing and publishing again change no place in the order. *)
LEMMA VisibilityStep ==
    ASSUME IInv, NEW r \in Rows, Remove(r) \/ Publish(r) PROVE IInv'
<1>1. TypeOK'
  BY DEF IInv, TypeOK, Remove, Publish, hist, request
<1>2. /\ UNCHANGED <<createdAt, cursor, more, limit, unread, hits, scope, times>>
      /\ steady' \subseteq steady
  BY DEF Remove, Publish, hist, request
<1>3. \A x \in Rows : Behind(x)' <=> Behind(x)
  BY <1>2 DEF Behind
<1>4. Created'
  BY <1>2 DEF IInv, Created, TypeOK, Remove, Publish, hist
<1>5. Frontier' /\ Found'
  BY <1>2, <1>3 DEF IInv, Frontier, Found, TypeOK
<1> QED BY <1>1, <1>2, <1>4, <1>5 DEF IInv, NoRepeats, NoSkips

-----------------------------------------------------------------------------
LEMMA InvInit == Init => IInv
<1> SUFFICES ASSUME Init PROVE IInv
  OBVIOUS
<1>1. 0 \in Time /\ 0 \in 0..MaxLimit /\ 0 \in 0..2
  BY PagingAssumption DEF Time
<1>2. TypeOK
  BY <1>1 DEF Init, TypeOK
<1>3. Created /\ Frontier /\ Found /\ NoRepeats /\ NoSkips
  BY DEF Init, Created, Frontier, Found, NoRepeats, NoSkips
<1> QED BY <1>2, <1>3 DEF IInv

LEMMA InvStep == IInv /\ [Next]_vars => IInv'
<1> SUFFICES ASSUME IInv, [Next]_vars PROVE IInv'
  OBVIOUS
<1>1. CASE Answer
  BY <1>1, AnswerStep
<1>2. CASE \E r \in Rows : Create(r) \/ Remove(r) \/ Publish(r)
  BY <1>2, CreateStep, VisibilityStep
<1>3. CASE ~Answer /\ ~\E r \in Rows : Create(r) \/ Remove(r) \/ Publish(r)
  BY <1>3, WalkStep DEF Next
<1> QED BY <1>1, <1>2, <1>3

(* The inductive invariant holds: between two pages the cursor separates what *)
(* was shown from what was not, whatever is created, removed, published again *)
(* or asked for twice in the meantime.                                        *)
THEOREM Invariance == Spec => []IInv
BY InvInit, InvStep, PTL DEF Spec

(* No walk returns a row twice. *)
THEOREM NothingIsRepeated == Spec => []NoRepeats
<1>1. IInv => NoRepeats
  BY DEF IInv
<1> QED BY <1>1, Invariance, PTL

(* A finished walk has returned every row that was there throughout. *)
THEOREM NothingIsSkipped == Spec => []NoSkips
<1>1. IInv => NoSkips
  BY DEF IInv
<1> QED BY <1>1, Invariance, PTL

(* Type correctness. *)
THEOREM TypeCorrect == Spec => []TypeOK
<1>1. IInv => TypeOK
  BY DEF IInv
<1> QED BY <1>1, Invariance, PTL

-----------------------------------------------------------------------------
(* has_next: a page that is cut leaves a row behind its cursor.               *)

LEMMA CutLeavesARow ==
    ASSUME IInv, Answer, NEW last \in Rows, IsLast(last, First(limit)), HasNext
    PROVE  \E x \in hits : Before(last, x)
<1>1. TypeOK /\ limit \in Nat /\ hits \subseteq Rows /\ last \in hits
  BY DEF IInv, TypeOK, IsLast, First
<1>2. SUFFICES ASSUME \A x \in hits : ~Before(last, x) PROVE FALSE
  OBVIOUS
<1>3. Ahead(last) = hits \ {last}
  BY <1>1, <1>2, BeforeIsTotal DEF Ahead
<1>4. Cardinality(hits \ {last}) = Cardinality(hits) - 1
  BY <1>1, HitsAreFinite, FS_RemoveElement
<1>5. Cardinality(Ahead(last)) < limit
  BY DEF IsLast, First
<1> QED BY <1>1, <1>3, <1>4, <1>5, HitsAreFinite DEF HasNext

LEMMA AnswerHonest ==
    ASSUME IInv, Honest, Answer PROVE Honest'
<1> SUFFICES ASSUME ~disturbed, HasNext PROVE Promised'
  BY DEF Honest, Answer, Done
<1>1. PICK last \in Rows : /\ IsLast(last, First(limit))
                           /\ cursor' = [createdAt |-> createdAt[last], id |-> last]
  BY DEF Answer
<1>2. PICK x \in hits : Before(last, x)
  BY <1>1, CutLeavesARow
<1>3. x \in Rows /\ row[x] = "present" /\ TableOf[x] \in scope
  BY DEF IInv, TypeOK, Honest
<1>4. Behind(x)'
  BY <1>1, <1>2, <1>3, AnswerMoves
<1> QED BY <1>3, <1>4 DEF Promised, Answer, Done

LEMMA HonestStep ==
    ASSUME IInv, Honest, [Next]_vars PROVE Honest'
<1>1. ASSUME NEW tables \in SUBSET Tables, Open(tables) PROVE Honest'
  BY <1>1 DEF Open, Honest, IInv, Found, request
<1>2. ASSUME NEW asked \in Asked, Request(asked) PROVE Honest'
  <2>1. \A r \in Rows : Behind(r)' <=> Behind(r)
    BY <1>2 DEF Request, Behind
  <2>2. Promised => Promised'
    BY <1>2, <2>1 DEF Request, Promised
  <2>3. limit' # 0
    BY <1>2, LimitIsResolved, PagingAssumption DEF Request
  <2> QED BY <1>2, <2>2, <2>3 DEF Request, Honest, hist
<1>3. ASSUME NEW t \in Tables, Read(t) PROVE Honest'
  <2>1. \A r \in Rows : Behind(r)' <=> Behind(r)
    BY <1>3 DEF Read, Behind
  <2>2. Promised => Promised'
    BY <1>3, <2>1 DEF Read, Promised
  <2> QED BY <1>3, <2>2 DEF Read, Honest, hist
<1>4. CASE Answer
  BY <1>4, AnswerHonest
<1>5. CASE Fail \/ Tick \/ UNCHANGED vars
  <2>1. \A r \in Rows : Behind(r)' <=> Behind(r)
    BY <1>5 DEF Fail, Tick, vars, Behind
  <2>2. Promised => Promised'
    BY <1>5, <2>1 DEF Fail, Tick, vars, request, hist, Done, Promised
  <2> QED BY <1>5, <2>2 DEF Fail, Tick, vars, request, hist, Done, Honest
<1>6. ASSUME NEW r \in Rows, Create(r) PROVE Honest'
  <2>1. \A x \in Rows \ {r} : /\ row'[x] = row[x]
                             /\ Behind(x)' <=> Behind(x)
    BY <1>6 DEF IInv, TypeOK, Create, Behind
  <2>2. r \notin hits /\ row[r] # "present" /\ hits \subseteq Rows
    BY <1>6 DEF IInv, TypeOK, Created, Create
  <2>3. Promised => Promised'
    BY <1>6, <2>1, <2>2 DEF Create, Promised, request
  <2> QED BY <1>6, <2>1, <2>2, <2>3 DEF Create, Honest, request, hist
<1>7. ASSUME NEW r \in Rows, Remove(r) PROVE Honest'
  BY <1>7 DEF Remove, Honest, request
<1>8. ASSUME NEW r \in Rows, Publish(r) PROVE Honest'
  <2>1. \A x \in Rows : /\ row[x] = "present" => row'[x] = "present"
                        /\ Behind(x)' <=> Behind(x)
    BY <1>8 DEF IInv, TypeOK, Publish, Behind
  <2>2. Promised => Promised'
    BY <1>8, <2>1 DEF Publish, Promised, request
  <2> QED BY <1>8, <2>1, <2>2 DEF Publish, Honest, request, hist, IInv, TypeOK
<1> QED BY <1>1, <1>2, <1>3, <1>4, <1>5, <1>6, <1>7, <1>8 DEF Next, OpenList, OpenSearch

(* The last has_next is borne out by a row, as long as nothing was removed.   *)
THEOREM Honesty == Spec => []HInv
<1>1. Init => Honest
  BY DEF Init, Honest
<1>2. IInv /\ Honest /\ [Next]_vars => Honest'
  BY HonestStep
<1> QED BY <1>1, <1>2, Invariance, PTL DEF Spec, HInv

(* The client that follows has_next is not given an empty page.               *)
THEOREM NoPageIsEmpty == Spec => []NoEmptyPage
<1>1. HInv => NoEmptyPage
  BY DEF HInv, IInv, Found, Honest, Promised, NoEmptyPage
<1> QED BY <1>1, Honesty, PTL

-----------------------------------------------------------------------------
(* How many rows of a finite result come first: the number of rows before a    *)
(* row numbers the result from 0, without a gap.                               *)

AheadIn(A, x) == {y \in A : Before(y, x)}

LEMMA RankIsInjective ==
    ASSUME TypeOK, NEW A \in SUBSET Rows, IsFiniteSet(A)
    PROVE  /\ \A x \in A : Cardinality(AheadIn(A, x)) \in 0..Cardinality(A) - 1
           /\ \A x, y \in A : Cardinality(AheadIn(A, x)) = Cardinality(AheadIn(A, y)) => x = y
<1>1. Cardinality(A) \in Nat
  BY FS_CardinalityType
<1>2. ASSUME NEW x \in A PROVE Cardinality(AheadIn(A, x)) \in 0..Cardinality(A) - 1
  <2>1. AheadIn(A, x) \subseteq A \ {x}
    BY BeforeIsTotal DEF AheadIn
  <2>2. IsFiniteSet(A \ {x}) /\ Cardinality(A \ {x}) = Cardinality(A) - 1
    BY FS_RemoveElement
  <2>3. /\ IsFiniteSet(AheadIn(A, x))
        /\ Cardinality(AheadIn(A, x)) <= Cardinality(A \ {x})
    BY <2>1, <2>2, FS_Subset
  <2>4. Cardinality(AheadIn(A, x)) \in Nat
    BY <2>3, FS_CardinalityType
  <2>5. QED
    BY <1>1, <2>2, <2>3, <2>4
<1>3. ASSUME NEW x \in A, NEW y \in A, Before(x, y)
      PROVE  Cardinality(AheadIn(A, x)) # Cardinality(AheadIn(A, y))
  <2>1. AheadIn(A, x) \subseteq AheadIn(A, y) /\ x \in AheadIn(A, y) /\ x \notin AheadIn(A, x)
    BY <1>3, BeforeIsTotal, BeforeIsTransitive DEF AheadIn
  <2>2. IsFiniteSet(AheadIn(A, y))
    BY FS_Subset DEF AheadIn
  <2>3. QED
    BY <2>1, <2>2, FS_Subset
<1>4. ASSUME NEW x \in A, NEW y \in A,
             Cardinality(AheadIn(A, x)) = Cardinality(AheadIn(A, y))
      PROVE  x = y
  BY <1>3, <1>4, BeforeIsTotal
<1>5. QED
  BY <1>2, <1>4

LEMMA FirstNaturals ==
    ASSUME NEW k \in Nat
    PROVE  IsFiniteSet(0..k - 1) /\ Cardinality(0..k - 1) = k
BY FS_Interval

LEMMA PrefixIsFull ==
    ASSUME TypeOK, NEW A \in SUBSET Rows, IsFiniteSet(A), NEW n \in Nat, n <= Cardinality(A)
    PROVE  Cardinality({x \in A : Cardinality(AheadIn(A, x)) < n}) = n
<1> DEFINE rank == [x \in A |-> Cardinality(AheadIn(A, x))]
           P == {x \in A : Cardinality(AheadIn(A, x)) < n}
           top == [x \in P |-> rank[x]]
<1>1. Cardinality(A) \in Nat
  BY FS_CardinalityType
<1>2. rank \in Injection(A, 0..Cardinality(A) - 1)
  BY RankIsInjective DEF Injection, IsInjective
<1>3. /\ IsFiniteSet(0..Cardinality(A) - 1)
      /\ Cardinality(0..Cardinality(A) - 1) = Cardinality(A)
  BY <1>1, FirstNaturals
<1>4. rank \in Surjection(A, 0..Cardinality(A) - 1)
  BY <1>2, <1>3, FS_Injection
<1>5. IsFiniteSet(0..n - 1) /\ Cardinality(0..n - 1) = n
  BY FirstNaturals
<1>6. top \in Injection(P, 0..n - 1)
  <2>1. \A x \in A : rank[x] \in 0..Cardinality(A) - 1
    BY RankIsInjective
  <2>2. \A x \in P : top[x] \in 0..n - 1
    BY <1>1, <2>1
  <2>3. QED
    BY <2>2, RankIsInjective DEF Injection, IsInjective
<1>7. top \in Surjection(P, 0..n - 1)
  <2>1. ASSUME NEW k \in 0..n - 1 PROVE \E x \in P : top[x] = k
    <3>0. k \in 0..Cardinality(A) - 1 /\ k < n
      BY <1>1
    <3>1. PICK x \in A : rank[x] = k
      <4> HIDE DEF rank
      <4>1. QED
        BY <1>4, <3>0 DEF Surjection
    <3>2. x \in P
      BY <3>0, <3>1
    <3>3. QED
      BY <3>1, <3>2
  <2>2. QED
    BY <1>6, <2>1 DEF Injection, Surjection
<1>8. QED
  BY <1>5, <1>6, <1>7, FS_Injection

-----------------------------------------------------------------------------
(* The inductive invariant. *)

(* Each request makes queries of its own kinds. *)
QueryKinds(kind) ==
    CASE kind = "suggestions" -> {"prefix"}
      [] kind = "detail" -> {"published"}
      [] kind = "children" -> {"published", "children"}
      [] kind = "recommendations" -> {"favorites", "newest"}
      [] OTHER -> {}
QueriesFit == pending \subseteq Tables \X QueryKinds(task)

(* What a query can see was published during the request, and what was there   *)
(* throughout, it sees; a monument's children are read after the monument.     *)
Watched ==
    /\ task = "none" => found = {} /\ published = {}
    /\ task # "none" => Present \subseteq published
    /\ lasting \subseteq Present
    /\ AnswersWerePublished
    /\ \A t \in Tables : <<t, "children">> \in pending => wanted \in published

(* A full cut of names is before r in its table. *)
CutByName(r) ==
    \E S \in SUBSET ((published \cap Of(TableOf[r])) \ {r}) :
        Cardinality(S) = MaxSuggestions /\ \A s \in S : NameRank[s] <= NameRank[r]

NamesAreCut ==
    task = "suggestions" =>
        /\ wanted \in Nat
        /\ \A r \in lasting : <<TableOf[r], "prefix">> \in pending \/ r \in found \/ CutByName(r)

(* The stub has something of table t, if t had a row throughout. *)
Served(t) == lasting \cap Of(t) # {} => found \cap Of(t) # {}

(* It is at table i: those before it are served, and one query at most is      *)
(* pending.                                                                    *)
AtTable(i) ==
    /\ \A j \in DOMAIN Order : j < i => Served(Order[j])
    /\ \/ i \notin DOMAIN Order /\ pending = {}
       \/ i \in DOMAIN Order /\ \E q \in {"favorites", "newest"} : pending = {<<Order[i], q>>}

StubAdvances == task = "recommendations" => \E i \in 1..Len(Order) + 1 : AtTable(i)

CatalogueInv == IInv /\ CatalogueTypeOK /\ QueriesFit /\ Watched /\ NamesAreCut /\ StubAdvances

LEMMA OrderFacts ==
    /\ Len(Order) \in Nat /\ DOMAIN Order = 1..Len(Order)
    /\ \A i \in DOMAIN Order : Order[i] \in Tables
BY CatalogueAssumption

LEMMA RowFacts ==
    /\ \A r \in Rows : TableOf[r] \in Tables /\ r \in Of(TableOf[r])
    /\ \A t : Of(t) \subseteq Rows
BY PagingAssumption DEF Of

LEMMA CatalogueInitInv == CatalogueInit => CatalogueInv
<1> SUFFICES ASSUME CatalogueInit PROVE CatalogueInv
  OBVIOUS
<1>1. IInv
  BY InvInit DEF CatalogueInit
<1>2. CatalogueTypeOK
  BY <1>1 DEF CatalogueInit, CatalogueTypeOK, IInv
<1>3. QED
  BY <1>1, <1>2 DEF CatalogueInit, CatalogueInv, QueriesFit, Watched, AnswersWerePublished, NamesAreCut,
              StubAdvances

(* The table to be read first, or next. *)
LEMMA PickFromIsAtTable ==
    ASSUME NEW i \in 1..Len(Order) + 1, NEW favs
    PROVE  /\ PickFrom(i, favs) \subseteq Tables \X {"favorites", "newest"}
           /\ \/ i \notin DOMAIN Order /\ PickFrom(i, favs) = {}
              \/ /\ i \in DOMAIN Order
                 /\ \E q \in {"favorites", "newest"} : PickFrom(i, favs) = {<<Order[i], q>>}
<1>1. CASE i > Len(Order)
  BY <1>1, OrderFacts DEF PickFrom
<1>2. CASE ~(i > Len(Order))
  <2>1. i \in DOMAIN Order /\ Order[i] \in Tables
    BY <1>2, OrderFacts
  <2>2. QED
    BY <1>2, <2>1 DEF PickFrom
<1>3. QED
  BY <1>1, <1>2

LEMMA SameWalks ==
    ASSUME IInv, UNCHANGED vars
    PROVE  IInv' /\ TypeOK' /\ Present' = Present /\ Present \subseteq Rows
<1>1. IInv'
  BY InvStep
<1>2. QED
  BY <1>1 DEF IInv, vars, Present

LEMMA BeginInv ==
    ASSUME CatalogueInv,
           NEW kind \in {"suggestions", "detail", "children", "recommendations"},
           NEW target \in Nat \cup Rows \cup {None}, NEW favs \in SUBSET Rows,
           NEW queries \in SUBSET (Tables \X QueryKinds(kind)),
           Begin(kind, target, favs, queries),
           \A t \in Tables : <<t, "children">> \notin queries,
           kind = "suggestions" => target \in Nat /\ queries = Tables \X {"prefix"},
           kind = "recommendations" => queries = PickFrom(1, favs)
    PROVE  CatalogueInv'
<1>1. IInv' /\ TypeOK' /\ Present' = Present /\ Present \subseteq Rows
  BY SameWalks DEF Begin, CatalogueInv
<1>2. queries \subseteq Tables \X {"prefix", "published", "children", "favorites", "newest"}
  BY DEF QueryKinds
<1>3. CatalogueTypeOK'
  BY <1>1, <1>2 DEF Begin, CatalogueTypeOK
<1>4. QueriesFit'
  BY DEF Begin, QueriesFit
<1>5. Watched'
  BY <1>1 DEF Begin, Watched, AnswersWerePublished
<1>6. NamesAreCut'
  <2>1. ASSUME kind = "suggestions", NEW r \in lasting' PROVE <<TableOf[r], "prefix">> \in pending'
    BY <1>1, <2>1, RowFacts DEF Begin
  <2>2. QED
    BY <2>1 DEF Begin, NamesAreCut
<1>7. StubAdvances'
  <2> SUFFICES ASSUME kind = "recommendations" PROVE \E i \in 1..Len(Order) + 1 : AtTable(i)'
    BY DEF Begin, StubAdvances
  <2>1. 1 \in 1..Len(Order) + 1 /\ \A j \in DOMAIN Order : ~(j < 1)
    BY OrderFacts
  <2>2. pending' = PickFrom(1, favs)
    BY DEF Begin
  <2>3. AtTable(1)'
    BY <2>1, <2>2, PickFromIsAtTable DEF AtTable
  <2>4. QED
    BY <2>1, <2>3
<1>8. QED
  BY <1>1, <1>3, <1>4, <1>5, <1>6, <1>7 DEF CatalogueInv

(* What a query of the request returns is added to what was found. *)
LEMMA ReturnsInv ==
    ASSUME CatalogueInv, NEW query, NEW S \in SUBSET Rows,
           NEW next \in SUBSET (Tables \X QueryKinds(task)), Returns(query, S, next),
           S \subseteq published,
           \A t \in Tables : <<t, "children">> \in next => wanted \in published,
           task = "suggestions" =>
               \A r \in lasting :
                   <<TableOf[r], "prefix">> \in pending => \/ <<TableOf[r], "prefix">> \in pending'
                                                          \/ r \in S \/ CutByName(r),
           StubAdvances'
    PROVE  CatalogueInv'
<1>1. IInv' /\ TypeOK' /\ Present' = Present /\ Present \subseteq Rows
  BY SameWalks DEF Returns, CatalogueInv
<1>2. pending' \subseteq Tables \X QueryKinds(task)
  BY DEF Returns, CatalogueInv, QueriesFit
<1>3. QueryKinds(task) \subseteq {"prefix", "published", "children", "favorites", "newest"}
  BY DEF QueryKinds
<1>4. CatalogueTypeOK'
  BY <1>1, <1>2, <1>3 DEF Returns, CatalogueInv, CatalogueTypeOK
<1>5. QueriesFit'
  BY <1>2 DEF Returns, QueriesFit
<1>6. task # "none"
  <2>1. query \in Tables \X QueryKinds(task)
    BY DEF Returns, CatalogueInv, QueriesFit
  <2>2. QueryKinds("none") = {}
    BY DEF QueryKinds
  <2>3. QED
    BY <2>1, <2>2
<1>7. Watched'
  BY <1>1, <1>6 DEF Returns, CatalogueInv, Watched, AnswersWerePublished
<1>8. NamesAreCut'
  <2> SUFFICES ASSUME task = "suggestions", NEW r \in lasting
               PROVE  <<TableOf[r], "prefix">> \in pending' \/ r \in found' \/ CutByName(r)
    BY DEF Returns, NamesAreCut, CatalogueInv, CutByName
  <2>1. <<TableOf[r], "prefix">> \in pending \/ r \in found \/ CutByName(r)
    BY DEF CatalogueInv, NamesAreCut
  <2>2. QED
    BY <2>1 DEF Returns
<1>9. QED
  BY <1>1, <1>4, <1>5, <1>7, <1>8 DEF CatalogueInv

LEMMA FinishInv ==
    ASSUME CatalogueInv, Finish
    PROVE  CatalogueInv'
<1>1. IInv' /\ TypeOK' /\ Present' = Present /\ Present \subseteq Rows
  BY SameWalks DEF Finish, CatalogueInv
<1>2. CatalogueTypeOK'
  BY <1>1 DEF Finish, CatalogueTypeOK
<1>3. QED
  BY <1>1, <1>2 DEF Finish, CatalogueInv, QueriesFit, Watched, AnswersWerePublished, NamesAreCut,
                    StubAdvances

LEMMA MeanwhileInv ==
    ASSUME CatalogueInv, Meanwhile
    PROVE  CatalogueInv'
<1>1. IInv' /\ TypeOK'
  BY InvStep DEF Meanwhile, CatalogueInv, IInv
<1>2. Present' \subseteq Rows
  BY DEF Present
<1>3. CatalogueTypeOK'
  BY <1>1, <1>2 DEF Meanwhile, lookup, CatalogueInv, CatalogueTypeOK
<1>4. QueriesFit'
  BY DEF Meanwhile, lookup, CatalogueInv, QueriesFit
<1>5. lasting' \subseteq lasting /\ (task # "none" => published \subseteq published')
  BY DEF Meanwhile
<1>6. Watched'
  BY <1>5 DEF Meanwhile, lookup, CatalogueInv, Watched, AnswersWerePublished, QueriesFit, QueryKinds
<1>7. NamesAreCut'
  <2> SUFFICES ASSUME task = "suggestions", NEW r \in lasting'
               PROVE  <<TableOf[r], "prefix">> \in pending \/ r \in found \/ CutByName(r)'
    BY DEF Meanwhile, lookup, CatalogueInv, NamesAreCut
  <2>1. <<TableOf[r], "prefix">> \in pending \/ r \in found \/ CutByName(r)
    BY <1>5 DEF CatalogueInv, NamesAreCut
  <2>2. CutByName(r) => CutByName(r)'
    BY <1>5 DEF CutByName
  <2>3. QED
    BY <2>1, <2>2
<1>8. StubAdvances'
  <2> SUFFICES ASSUME task = "recommendations" PROVE \E i \in 1..Len(Order) + 1 : AtTable(i)'
    BY DEF Meanwhile, lookup, StubAdvances
  <2>1. PICK i \in 1..Len(Order) + 1 : AtTable(i)
    BY DEF CatalogueInv, StubAdvances
  <2>2. \A t : Served(t) => Served(t)'
    BY <1>5 DEF Meanwhile, lookup, Served
  <2>3. AtTable(i)'
    BY <2>1, <2>2 DEF AtTable, Meanwhile, lookup
  <2>4. QED
    BY <2>3
<1>9. QED
  BY <1>1, <1>3, <1>4, <1>6, <1>7, <1>8 DEF CatalogueInv

LEMMA RequestsInv ==
    ASSUME CatalogueInv,
           \/ \E n \in Asked : Suggestions(n)
           \/ \E r \in Rows : GetDetail(r)
           \/ \E m \in Of("monument") : GetChildren(m)
           \/ \E favs \in Favorites : GetRecommendations(favs)
    PROVE  CatalogueInv'
<1>1. ASSUME NEW n \in Asked, Suggestions(n) PROVE CatalogueInv'
  <2>1. Clamp(n) \in Nat
    BY PagingAssumption, CatalogueAssumption DEF Clamp
  <2>2. Tables \X {"prefix"} \in SUBSET (Tables \X QueryKinds("suggestions"))
    BY DEF QueryKinds
  <2>3. QED
    BY <1>1, <2>1, <2>2, BeginInv DEF Suggestions
<1>2. ASSUME NEW r \in Rows, GetDetail(r) PROVE CatalogueInv'
  <2>1. {<<TableOf[r], "published">>} \in SUBSET (Tables \X QueryKinds("detail"))
    BY RowFacts DEF QueryKinds
  <2>2. QED
    BY <1>2, <2>1, BeginInv DEF GetDetail
<1>3. ASSUME NEW m \in Of("monument"), GetChildren(m) PROVE CatalogueInv'
  <2>1. {<<"monument", "published">>} \in SUBSET (Tables \X QueryKinds("children"))
    BY CatalogueAssumption DEF QueryKinds
  <2>2. QED
    BY <1>3, <2>1, RowFacts, BeginInv DEF GetChildren
<1>4. ASSUME NEW favs \in Favorites, GetRecommendations(favs) PROVE CatalogueInv'
  <2>1. 1 \in 1..Len(Order) + 1
    BY OrderFacts
  <2>2. PickFrom(1, favs) \subseteq Tables \X {"favorites", "newest"}
    BY <2>1, PickFromIsAtTable
  <2>3. PickFrom(1, favs) \in SUBSET (Tables \X QueryKinds("recommendations"))
    BY <2>2 DEF QueryKinds
  <2>4. \A t \in Tables : <<t, "children">> \notin PickFrom(1, favs)
    BY <2>2
  <2>5. favs \in SUBSET Rows
    BY CatalogueAssumption
  <2>6. QED
    BY <1>4, <2>3, <2>4, <2>5, BeginInv DEF GetRecommendations
<1>5. QED
  BY <1>1, <1>2, <1>3, <1>4

(* Which request a pending query belongs to. *)
LEMMA QueryTask ==
    ASSUME CatalogueInv, NEW t, NEW q, <<t, q>> \in pending
    PROVE  /\ task # "none" /\ t \in Tables /\ q \in QueryKinds(task)
           /\ q = "prefix" => task = "suggestions"
           /\ q \in {"favorites", "newest"} => task = "recommendations"
           /\ q = "children" => task = "children"
BY DEF CatalogueInv, QueriesFit, QueryKinds

LEMMA PrefixInv ==
    ASSUME CatalogueInv, NEW t \in Tables, CollectPrefixMatches(t)
    PROVE  CatalogueInv'
<1>1. task = "suggestions"
  BY DEF CollectPrefixMatches
<1>2. PICK S \in Selections(Present \cap Of(t), Take, NameRank) : Returns(<<t, "prefix">>, S, {})
  BY DEF CollectPrefixMatches
<1>3. /\ S \subseteq Present \cap Of(t)
      /\ S = Present \cap Of(t) \/ Cardinality(S) = MaxSuggestions
      /\ \A x \in S, y \in (Present \cap Of(t)) \ S : NameRank[x] <= NameRank[y]
  BY <1>2 DEF Selections, Take
<1>4. Present \subseteq published /\ lasting \subseteq Present /\ Present \subseteq Rows
  BY <1>1 DEF CatalogueInv, Watched, Present
<1>5. ASSUME NEW r \in lasting, <<TableOf[r], "prefix">> \in pending
      PROVE  <<TableOf[r], "prefix">> \in pending' \/ r \in S \/ CutByName(r)
  <2>1. CASE TableOf[r] # t
    BY <1>2, <1>5, <2>1 DEF Returns
  <2>2. CASE TableOf[r] = t /\ r \notin S
    <3>1. r \in (Present \cap Of(t)) \ S
      BY <1>4, <2>2 DEF Of
    <3>2. S \in SUBSET ((published \cap Of(TableOf[r])) \ {r})
      BY <1>3, <1>4, <2>2
    <3>3. Cardinality(S) = MaxSuggestions /\ \A x \in S : NameRank[x] <= NameRank[r]
      BY <1>3, <3>1
    <3>4. QED
      BY <3>2, <3>3 DEF CutByName
  <2>3. QED
    BY <2>1, <2>2
<1>6. StubAdvances'
  BY <1>1, <1>2 DEF Returns, StubAdvances
<1>7. S \in SUBSET Rows /\ S \subseteq published
  BY <1>3, <1>4
<1>8. QED
  BY <1>1, <1>2, <1>5, <1>6, <1>7, ReturnsInv

LEMMA DetailInv ==
    ASSUME CatalogueInv, NEW t \in Tables, FindPublished(t) \/ FindChildren(t)
    PROVE  CatalogueInv'
<1>1. CASE FindPublished(t)
  <2>1. wanted \in Present /\ task \in {"detail", "children"}
    BY <1>1 DEF FindPublished, IsPublished
  <2>2. wanted \in Rows /\ wanted \in published /\ task # "suggestions"
    BY <2>1 DEF CatalogueInv, Watched, Present
  <2>3. CASE task = "detail" /\ Returns(<<t, "published">>, {wanted}, {})
    <3>1. StubAdvances'
      BY <2>3 DEF Returns, StubAdvances
    <3>2. QED
      BY <2>2, <2>3, <3>1, ReturnsInv
  <2>4. CASE task = "children" /\ Returns(<<t, "published">>, {}, {<<t, "children">>})
    <3>1. StubAdvances'
      BY <2>4 DEF Returns, StubAdvances
    <3>2. {<<t, "children">>} \in SUBSET (Tables \X QueryKinds(task))
      BY <2>4 DEF QueryKinds
    <3>3. QED
      BY <2>2, <2>4, <3>1, <3>2, ReturnsInv
  <2>5. QED
    BY <1>1, <2>3, <2>4 DEF FindPublished
<1>2. CASE FindChildren(t)
  <2>1. Returns(<<t, "children">>, {wanted}, {}) /\ <<t, "children">> \in pending
    BY <1>2 DEF FindChildren, Returns
  <2>2. task = "children"
    BY <2>1, QueryTask
  <2>3. wanted \in published /\ published \subseteq Rows
    BY <2>1 DEF CatalogueInv, Watched, CatalogueTypeOK
  <2>4. StubAdvances'
    BY <2>1, <2>2 DEF Returns, StubAdvances
  <2>5. {wanted} \in SUBSET Rows
    BY <2>3
  <2>6. QED
    BY <2>1, <2>2, <2>3, <2>4, <2>5, ReturnsInv
<1>3. QED
  BY <1>1, <1>2

(* The stub is at the table whose query is pending. *)
LEMMA AtPending ==
    ASSUME CatalogueInv, NEW i \in DOMAIN Order, NEW q \in {"favorites", "newest"},
           <<Order[i], q>> \in pending
    PROVE  task = "recommendations" /\ AtTable(i) /\ pending = {<<Order[i], q>>}
<1>1. task = "recommendations"
  BY QueryTask
<1>2. PICK k \in 1..Len(Order) + 1 : AtTable(k)
  BY <1>1 DEF CatalogueInv, StubAdvances
<1>3. k \in DOMAIN Order /\ \E x \in {"favorites", "newest"} : pending = {<<Order[k], x>>}
  BY <1>2 DEF AtTable
<1>4. pending = {<<Order[i], q>>} /\ Order[k] = Order[i]
  BY <1>3
<1>5. k = i
  BY <1>3, <1>4, CatalogueAssumption
<1>6. QED
  BY <1>1, <1>2, <1>4, <1>5

(* It goes on to the next table when this one is served, or asks again. *)
LEMMA StubMoves ==
    ASSUME CatalogueInv, NEW i \in DOMAIN Order, NEW q \in {"favorites", "newest"},
           NEW S \in SUBSET Rows, S \subseteq published, NEW next,
           Returns(<<Order[i], q>>, S, next),
           \/ next = PickFrom(i + 1, favorites) /\ (lasting \cap Of(Order[i]) # {} => S \cap Of(Order[i]) # {})
           \/ q # "newest" /\ next = WithoutFavorites(i)
    PROVE  CatalogueInv'
<1>1. <<Order[i], q>> \in pending
  BY DEF Returns
<1>2. task = "recommendations" /\ AtTable(i) /\ pending = {<<Order[i], q>>}
  BY <1>1, AtPending
<1>3. pending' = next
  BY <1>2 DEF Returns
<1>4. \A t : Served(t) => Served(t)'
  BY DEF Returns, Served
<1>5. i \in 1..Len(Order) + 1 /\ i + 1 \in 1..Len(Order) + 1 /\ i \in Nat
  BY OrderFacts
<1>6. CASE /\ next = PickFrom(i + 1, favorites)
           /\ lasting \cap Of(Order[i]) # {} => S \cap Of(Order[i]) # {}
  <2>1. Served(Order[i])'
    BY <1>6 DEF Returns, Served
  <2>2. \A j \in DOMAIN Order : j < i + 1 => j < i \/ j = i
    BY <1>5, OrderFacts
  <2>3. \A j \in DOMAIN Order : j < i + 1 => Served(Order[j])'
    BY <1>2, <1>4, <2>1, <2>2 DEF AtTable
  <2>4. AtTable(i + 1)'
    BY <1>3, <1>5, <1>6, <2>3, PickFromIsAtTable DEF AtTable
  <2>5. StubAdvances'
    BY <1>5, <2>4 DEF StubAdvances
  <2>6. next \subseteq Tables \X {"favorites", "newest"}
    BY <1>5, <1>6, PickFromIsAtTable
  <2>7. next \in SUBSET (Tables \X QueryKinds(task))
    BY <1>2, <2>6 DEF QueryKinds
  <2>8. \A t \in Tables : <<t, "children">> \notin next
    BY <2>6
  <2>9. QED
    BY <1>2, <2>5, <2>7, <2>8, ReturnsInv
<1>7. CASE next = WithoutFavorites(i)
  <2>1. AtTable(i)'
    BY <1>2, <1>3, <1>4, <1>7 DEF AtTable, WithoutFavorites
  <2>2. StubAdvances'
    BY <1>5, <2>1 DEF StubAdvances
  <2>3. next \in SUBSET (Tables \X QueryKinds(task))
    BY <1>2, <1>7, OrderFacts DEF QueryKinds, WithoutFavorites
  <2>4. \A t \in Tables : <<t, "children">> \notin next
    BY <1>7 DEF WithoutFavorites
  <2>5. QED
    BY <1>2, <2>2, <2>3, <2>4, ReturnsInv
<1>8. QED
  BY <1>6, <1>7

(* A query of at least one row returns one if there is one. *)
LEMMA SelectionFinds ==
    ASSUME NEW A, NEW n \in Nat \ {0}, NEW rank, NEW T \in Selections(A, n, rank)
    PROVE  T \subseteq A /\ (A # {} => T # {})
<1>1. T \subseteq A /\ (T = A \/ Cardinality(T) = n)
  BY DEF Selections
<1>2. Cardinality({}) = 0
  BY FS_EmptySet
<1>3. QED
  BY <1>1, <1>2

LEMMA StubInv ==
    ASSUME CatalogueInv, NEW i \in DOMAIN Order, PickFavorites(i) \/ PickNewest(i)
    PROVE  CatalogueInv'
<1> DEFINE t == Order[i]
<1>0. t \in Tables /\ Picks[t] \in Nat \ {0}
  BY OrderFacts, CatalogueAssumption
<1>1. CASE PickFavorites(i)
  <2>1. PICK S \in Selections(favorites \cap Of(t) \cap Present, Picks[t], [x \in Rows |-> 0]) :
            Returns(<<t, "favorites">>, S, IF S = {} THEN WithoutFavorites(i)
                                                    ELSE PickFrom(i + 1, favorites))
    BY <1>1 DEF PickFavorites
  <2>2. S \subseteq favorites \cap Of(t) \cap Present
    BY <1>0, <2>1, SelectionFinds
  <2>3. <<t, "favorites">> \in pending
    BY <2>1 DEF Returns
  <2>4. task # "none"
    BY <2>3, QueryTask
  <2>5. S \in SUBSET Rows /\ S \subseteq published /\ S \cap Of(t) = S
    BY <2>2, <2>4 DEF CatalogueInv, Watched, Present
  <2>6. CASE S = {}
    BY <2>1, <2>5, <2>6, StubMoves
  <2>7. CASE S # {}
    BY <2>1, <2>5, <2>7, StubMoves
  <2>8. QED
    BY <2>6, <2>7
<1>2. CASE PickNewest(i)
  <2> DEFINE age == [x \in Rows |-> MaxClock - createdAt[x]]
  <2>1. PICK S \in Selections(Present \cap Of(t), Picks[t], age) :
            Returns(<<t, "newest">>, S, PickFrom(i + 1, favorites))
    BY <1>2 DEF PickNewest
  <2>2. S \subseteq Present \cap Of(t) /\ (Present \cap Of(t) # {} => S # {})
    <3> HIDE DEF age
    <3>1. QED
      BY <1>0, <2>1, SelectionFinds
  <2>3. <<t, "newest">> \in pending
    BY <2>1 DEF Returns
  <2>4. task # "none"
    BY <2>3, QueryTask
  <2>5. S \in SUBSET Rows /\ S \subseteq published
    BY <2>2, <2>4 DEF CatalogueInv, Watched, Present
  <2>6. lasting \cap Of(t) # {} => S \cap Of(t) # {}
    BY <2>2 DEF CatalogueInv, Watched
  <2>7. QED
    BY <2>1, <2>5, <2>6, StubMoves
<1>3. QED
  BY <1>1, <1>2

LEMMA CatalogueStep == CatalogueInv /\ [CatalogueNext]_catalogueVars => CatalogueInv'
<1> SUFFICES ASSUME CatalogueInv, [CatalogueNext]_catalogueVars PROVE CatalogueInv'
  OBVIOUS
<1>1. CASE \E t \in Tables : CollectPrefixMatches(t) \/ FindPublished(t) \/ FindChildren(t)
  BY <1>1, PrefixInv, DetailInv
<1>2. CASE \E i \in DOMAIN Order : PickFavorites(i) \/ PickNewest(i)
  BY <1>2, StubInv
<1>3. CASE UNCHANGED catalogueVars
  <2>1. IInv' /\ TypeOK' /\ Present' = Present
    BY <1>3, SameWalks DEF CatalogueInv, catalogueVars
  <2>2. UNCHANGED <<lookup, published, lasting>>
    BY <1>3 DEF catalogueVars
  <2>3. CatalogueTypeOK' /\ QueriesFit' /\ Watched' /\ NamesAreCut'
    BY <2>1, <2>2 DEF lookup, CatalogueInv, CatalogueTypeOK, QueriesFit, Watched, AnswersWerePublished,
                      NamesAreCut, CutByName
  <2>4. StubAdvances'
    BY <2>2 DEF lookup, CatalogueInv, StubAdvances, AtTable, Served
  <2>5. QED
    BY <2>1, <2>3, <2>4 DEF CatalogueInv
<1>4. QED
  BY <1>1, <1>2, <1>3, RequestsInv, FinishInv, MeanwhileInv DEF CatalogueNext

(* A merged result that is cut at n: what it leaves out is older than all it   *)
(* keeps, and it keeps n.                                                      *)
LEMMA CutKeepsTheNewest ==
    ASSUME TypeOK, NEW A \in SUBSET Rows, NEW n \in Nat, NEW r \in A,
           ~(Cardinality(AheadIn(A, r)) < n)
    PROVE  /\ Cardinality({x \in A : Cardinality(AheadIn(A, x)) < n}) = n
           /\ \A s \in A : Cardinality(AheadIn(A, s)) < n => Before(s, r)
<1>1. IsFiniteSet(A)
  BY PagingAssumption, FS_Subset
<1>2. Cardinality(A) \in Nat /\ \A x \in A : Cardinality(AheadIn(A, x)) \in 0..Cardinality(A) - 1
  BY <1>1, RankIsInjective, FS_CardinalityType
<1>3. n <= Cardinality(A)
  BY <1>2
<1>4. Cardinality({x \in A : Cardinality(AheadIn(A, x)) < n}) = n
  BY <1>1, <1>3, PrefixIsFull
<1>5. ASSUME NEW s \in A, Cardinality(AheadIn(A, s)) < n, ~Before(s, r) PROVE FALSE
  <2>1. Before(r, s)
    BY <1>5, BeforeIsTotal
  <2>2. AheadIn(A, r) \subseteq AheadIn(A, s) /\ IsFiniteSet(AheadIn(A, s))
    BY <1>1, <2>1, BeforeIsTransitive, FS_Subset DEF AheadIn
  <2>3. Cardinality(AheadIn(A, r)) <= Cardinality(AheadIn(A, s))
    BY <2>2, FS_Subset
  <2>4. QED
    BY <1>2, <1>5, <2>3
<1>6. QED
  BY <1>4, <1>5

-----------------------------------------------------------------------------
(* The inductive invariant of the single reads. *)
THEOREM CatalogueInvariance == CatalogueSpec => []CatalogueInv
BY CatalogueInitInv, CatalogueStep, PTL DEF CatalogueSpec

(* Every variable of the reads keeps its type, whatever is published and taken *)
(* off meanwhile.                                                              *)
THEOREM CatalogueTypes == CatalogueSpec => []CatalogueTypeOK
<1>1. CatalogueInv => CatalogueTypeOK
  BY DEF CatalogueInv
<1>2. QED
  BY <1>1, CatalogueInvariance, PTL

(* Whatever a detail page, a list of a monument's children, a suggestion or a   *)
(* recommendation of the stub is about to answer with was published at some    *)
(* moment of the request.                                                      *)
THEOREM AnswersArePublished == CatalogueSpec => []AnswersWerePublished
<1>1. CatalogueInv => AnswersWerePublished
  BY DEF CatalogueInv, Watched
<1>2. QED
  BY <1>1, CatalogueInvariance, PTL

(* Suggestions leave out a row that was there throughout only for newer ones   *)
(* that fill them, or because its table's cut of names is full before it.      *)
THEOREM SuggestionsAreComplete == CatalogueSpec => []SuggestionsMissOnlyCutRows
<1>1. CatalogueInv => SuggestionsMissOnlyCutRows
  <2> SUFFICES ASSUME CatalogueInv, task = "suggestions", pending = {},
                      NEW r \in lasting, r \notin Suggested, ~CutByName(r)
               PROVE  Cardinality(Suggested) = wanted /\ \A s \in Suggested : Before(s, r)
    BY DEF SuggestionsMissOnlyCutRows, Answering, CutByName
  <2>1. wanted \in Nat /\ r \in found
    BY DEF CatalogueInv, NamesAreCut
  <2>2. TypeOK /\ found \in SUBSET Rows
    BY DEF CatalogueInv, CatalogueTypeOK
  <2>3. Suggested = {x \in found : Cardinality(AheadIn(found, x)) < wanted}
    BY DEF Suggested, AheadIn
  <2>4. ~(Cardinality(AheadIn(found, r)) < wanted)
    BY <2>1, <2>3
  <2>5. QED
    BY <2>1, <2>2, <2>3, <2>4, CutKeepsTheNewest
<1>2. QED
  BY <1>1, CatalogueInvariance, PTL

(* The stub recommends something of each table that had a published row         *)
(* throughout, also when favourites are taken off between its two queries.     *)
THEOREM StubAlwaysFinds == CatalogueSpec => []StubFindsSomething
<1>1. CatalogueInv => StubFindsSomething
  <2> SUFFICES ASSUME CatalogueInv, task = "recommendations", pending = {}, NEW t \in Tables
               PROVE  Served(t)
    BY DEF StubFindsSomething, Answering, Served
  <2>1. PICK i \in 1..Len(Order) + 1 : AtTable(i)
    BY DEF CatalogueInv, StubAdvances
  <2>2. i \notin DOMAIN Order
    BY <2>1 DEF AtTable
  <2>3. PICK j \in DOMAIN Order : Order[j] = t
    BY CatalogueAssumption
  <2>4. j < i
    BY <2>2, <2>3, OrderFacts
  <2>5. QED
    BY <2>1, <2>3, <2>4 DEF AtTable
<1>2. QED
  BY <1>1, CatalogueInvariance, PTL

(* The walks are walks of CursorPaging also with these reads beside them: what *)
(* is proved of them there holds of the whole catalogue.                       *)
THEOREM CatalogueImplementsWalks == CatalogueSpec => Spec
<1>1. CatalogueInit => Init
  BY DEF CatalogueInit
<1>2. [CatalogueNext]_catalogueVars => [Next]_vars
  BY DEF CatalogueNext, catalogueVars, Meanwhile, Finish, Suggestions, GetDetail, GetChildren,
         GetRecommendations, Begin, CollectPrefixMatches, FindPublished, FindChildren,
         PickFavorites, PickNewest, Returns
<1>3. QED
  BY <1>1, <1>2, PTL DEF CatalogueSpec, Spec
=============================================================================
