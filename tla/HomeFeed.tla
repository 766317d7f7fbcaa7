------------------------------- MODULE HomeFeed -------------------------------
(***************************************************************************)
(* GET /v1/home: getHome of src/src/modules/recommendations/               *)
(* recommendations.service.ts.  One request, which reads the catalogue, a  *)
(* snapshot, the profile and the ratings one query at a time, while        *)
(* content is published and taken off, monuments are rated and the user    *)
(* takes the quiz.                                                         *)
(*                                                                         *)
(* A monument is its place in the order of createdAt.  A feed item is the  *)
(* id of what it shows; its texts are left out.  An average is compared as *)
(* the code does, but without the rounding of a division.                  *)
(*                                                                         *)
(* A definition preceded by a form of it that is named after a mistake is  *)
(* mutated to it in PROJECT.json; nothing else uses it.                    *)
(***************************************************************************)
EXTENDS Naturals, FiniteSets, Sequences, SequencesExt

CONSTANTS
    Monuments,  \* a set of naturals: a later createdAt is a larger number
    Cities,
    Personas,
    Suits,      \* per persona: the monuments in its categories
    Raters,     \* users who rate
    Stars,
    Payloads,   \* the items that snapshots in the database may have
    MinItems,   \* MIN_FOR_YOU_ITEMS
    Featured,   \* FEATURED_MONUMENTS_LIMIT
    MaxChanges  \* bound on what changes during the request

Content == Monuments \cup Cities

ASSUME HomeAssumption ==
    /\ Monuments \subseteq Nat /\ IsFiniteSet(Content) /\ IsFiniteSet(Raters)
    /\ Suits \in [Personas -> SUBSET Monuments]
    /\ Stars \subseteq Nat \ {0}
    /\ Payloads \subseteq Seq(Content) /\ <<>> \in Payloads
    /\ MinItems \in Nat \ {0} /\ Featured \in Nat
    /\ MaxChanges \in Nat

VARIABLES
    published,  \* content whose status is published
    profile,    \* the user's persona, "none" before the quiz
    rating,     \* per rater and monument: the stars, 0 if there is no row
    snapshot,   \* items of the newest snapshot, <<>> if none is valid
    changes,
    pc,         \* the query that the request waits for
    featured,   \* locals of the request: featuredMonuments,
    source,     \*   the source of for_you,
    todo,       \*   items of the snapshot that are still to be looked up,
    items,      \*   items of the snapshot that were found,
    feed,       \*   the list that buildFallbackItems has so far,
    persona,    \*   its personality.personalityType,
    wanted,     \*   and the ids that getTopRatedMonuments looks up
    (* History variables: read by properties only. *)
    seen,       \* content that was published at some time of the request
    steady,     \* monuments published at all times of the request
    payload     \* the snapshot as the request read it

world == <<published, profile, rating, snapshot, changes>>
locals == <<featured, source, todo, items, feed, persona, wanted>>
vars == <<world, pc, locals, seen, steady, payload>>

Lists == Seq(Content)

TypeOK ==
    /\ published \subseteq Content
    /\ profile \in Personas \cup {"none"}
    /\ rating \in [Raters -> [Monuments -> Stars \cup {0}]]
    /\ snapshot \in Payloads /\ payload \in Payloads
    /\ changes \in 0..MaxChanges
    /\ pc \in {"featured", "snapshot", "item", "profile", "suited", "ratings",
               "rated", "recent", "done"}
    /\ source \in {"none", "snapshot", "fallback"}
    /\ featured \in Lists /\ todo \in Lists /\ items \in Lists
    /\ feed \in Lists /\ wanted \in Lists
    /\ persona \in Personas \cup {"none"}
    /\ seen \subseteq Content /\ steady \subseteq seen
    /\ Len(wanted) <= MinItems
    /\ pc = "recent" => Len(feed) < MinItems

Init ==
    /\ published \in SUBSET Content
    /\ profile \in Personas \cup {"none"}
    /\ rating \in [Raters -> [Monuments -> Stars \cup {0}]]
    /\ snapshot \in Payloads
    /\ changes = 0
    /\ pc = "featured"
    /\ featured = <<>> /\ source = "none" /\ todo = <<>>
    /\ items = <<>> /\ feed = <<>> /\ persona = "none" /\ wanted = <<>>
    /\ seen = published /\ steady = published \cap Monuments
    /\ payload = <<>>

-----------------------------------------------------------------------------
(* Queries and helpers. *)

Smaller(m, n) == IF m < n THEN m ELSE n
Take(seq, n) == SubSeq(seq, 1, Smaller(Len(seq), n))

(* The k-th smallest number of a set; the members of seq at the places places. *)
Nth(set, k) == CHOOSE i \in set : Cardinality({j \in set : j < i}) = k - 1
Sublist(seq, places) == [k \in 1..Cardinality(places) |-> seq[Nth(places, k)]]

(* findMany with orderBy createdAt desc and take. *)
Newest(set, n) ==
    LET size == Cardinality(set) IN [k \in 1..Smaller(n, size) |-> Nth(set, size + 1 - k)]

(* mergeUnique: the items of seq that target does not have yet, appended. *)
NewPlaces(target, seq) ==
    {i \in DOMAIN seq : seq[i] \notin ToSet(target) /\ \A j \in 1..i - 1 : seq[j] # seq[i]}
MergeUnique(target, seq) == target \o Sublist(seq, NewPlaces(target, seq))

PadWithAll(target, seq) ==
    IF Len(target) >= MinItems THEN target ELSE Take(target \o seq, MinItems)
PadItems(target, seq) ==
    IF Len(target) >= MinItems THEN target ELSE Take(MergeUnique(target, seq), MinItems)

(* scores: the stars that a monument got, counted one by one, and its ratings. *)
Total(m) == Cardinality(UNION {{u} \X (1..rating[u][m]) : u \in Raters})
Count(m) == Cardinality({u \in Raters : rating[u][m] # 0})
Rated == {m \in Monuments : Count(m) > 0}
BetterRatedInSum(x, y) == Total(x) > Total(y)
BetterRated(x, y) == Total(x) * Count(y) > Total(y) * Count(x)

(* The best rated ids, best first; the order of ties is that of the rows. *)
TopRated ==
    LET n == Smaller(Cardinality(Rated), MinItems)
    IN {seq \in TupleOf(Rated, n) :
            /\ IsInjective(seq)
            /\ \A i, k \in 1..n : i < k => ~BetterRated(seq[k], seq[i])
            /\ \A m \in Rated \ ToSet(seq) : \A i \in 1..n : ~BetterRated(m, seq[i])}

-----------------------------------------------------------------------------

Goto(label) == pc' = label

(* What getHome does with the fallback list: answer it, or pad with it. *)
Finish(list) ==
    /\ items' = IF source = "snapshot" THEN PadItems(items, list) ELSE list
    /\ Goto("done")

GetFeatured ==
    /\ pc = "featured"
    /\ featured' = Newest(published \cap Monuments, Featured)
    /\ Goto("snapshot")
    /\ UNCHANGED <<world, source, todo, items, feed, persona, wanted, seen, steady, payload>>

GetValidSnapshot ==
    /\ pc = "snapshot"
    /\ payload' = snapshot
    /\ \/ /\ snapshot # <<>>
          /\ source' = "snapshot" /\ todo' = snapshot
          /\ Goto("item")
       \/ /\ snapshot = <<>>
          /\ source' = "fallback"
          /\ Goto("profile")
          /\ UNCHANGED todo
    /\ UNCHANGED <<world, featured, items, feed, persona, wanted, seen, steady>>

AfterItemUnpadded == IF todo' # <<>> THEN "item" ELSE "done"

(* After the last look-up padItems runs, which may need the fallback list. *)
AfterItem ==
    IF todo' # <<>> THEN "item"
    ELSE IF Len(items') >= MinItems THEN "done"
    ELSE "profile"

EnrichItem ==
    /\ pc = "item"
    /\ todo' = Tail(todo)
    /\ items' = IF Head(todo) \in published THEN Append(items, Head(todo)) ELSE items
    /\ Goto(AfterItem)
    /\ UNCHANGED <<world, featured, source, feed, persona, wanted, seen, steady, payload>>

FindProfile ==
    /\ pc = "profile"
    /\ persona' = profile
    /\ Goto(IF profile # "none" THEN "suited" ELSE "ratings")
    /\ UNCHANGED <<world, featured, source, todo, items, feed, wanted, seen, steady, payload>>

FindSuited ==
    /\ pc = "suited"
    /\ feed' = Newest(published \cap Suits[persona], MinItems)
    /\ \/ Len(feed') < MinItems /\ Goto("ratings") /\ UNCHANGED items
       \/ Len(feed') >= MinItems /\ Finish(feed')
    /\ UNCHANGED <<world, featured, source, todo, persona, wanted, seen, steady, payload>>

FindRatings ==
    /\ pc = "ratings"
    /\ wanted' \in TopRated
    /\ Goto(IF wanted' = <<>> THEN "recent" ELSE "rated")
    /\ UNCHANGED <<world, featured, source, todo, items, feed, persona, seen, steady, payload>>

FindRatedUnfiltered ==
    /\ pc = "rated"
    /\ feed' = MergeUnique(feed, wanted)
    /\ \/ Len(feed') < MinItems /\ Goto("recent") /\ UNCHANGED items
       \/ Len(feed') >= MinItems /\ Finish(feed')
    /\ UNCHANGED <<world, featured, source, todo, persona, wanted, seen, steady, payload>>

(* Only now is the status looked at: what was cut before is not made up for. *)
FindRated ==
    /\ pc = "rated"
    /\ feed' = MergeUnique(feed, Sublist(wanted, {i \in DOMAIN wanted : wanted[i] \in published}))
    /\ \/ Len(feed') < MinItems /\ Goto("recent") /\ UNCHANGED items
       \/ Len(feed') >= MinItems /\ Finish(feed')
    /\ UNCHANGED <<world, featured, source, todo, persona, wanted, seen, steady, payload>>

FindRecent ==
    /\ pc = "recent"
    /\ feed' = MergeUnique(feed, Newest(published \cap Monuments, MinItems))
    /\ Finish(feed')
    /\ UNCHANGED <<world, featured, source, todo, persona, wanted, seen, steady, payload>>

GetHome ==
    \/ GetFeatured \/ GetValidSnapshot \/ EnrichItem
    \/ FindProfile \/ FindSuited \/ FindRatings \/ FindRated \/ FindRecent

-----------------------------------------------------------------------------
(* Meanwhile. *)

Change ==
    /\ pc # "done" /\ changes < MaxChanges
    /\ changes' = changes + 1
    /\ UNCHANGED <<pc, locals, payload>>

SetStatus(c) ==
    /\ Change
    /\ published' = IF c \in published THEN published \ {c} ELSE published \cup {c}
    /\ seen' = seen \cup {c}
    /\ steady' = steady \ {c}
    /\ UNCHANGED <<profile, rating, snapshot>>

UpsertRating(u, m, stars) ==
    /\ Change
    /\ m \in published
    /\ rating' = [rating EXCEPT ![u][m] = stars]
    /\ UNCHANGED <<published, profile, snapshot, seen, steady>>

SubmitQuiz(p) ==
    /\ Change
    /\ profile' = p
    /\ UNCHANGED <<published, rating, snapshot, seen, steady>>

SaveSnapshot(list) ==
    /\ Change
    /\ snapshot' = list
    /\ UNCHANGED <<published, profile, rating, seen, steady>>

Next ==
    \/ GetHome
    \/ \E c \in Content : SetStatus(c)
    \/ \E u \in Raters, m \in Monuments, stars \in Stars : UpsertRating(u, m, stars)
    \/ \E p \in Personas : SubmitQuiz(p)
    \/ \E list \in Payloads \ {<<>>} : SaveSnapshot(list)

Spec == Init /\ [][Next]_vars

-----------------------------------------------------------------------------
(* However content comes and goes while the feed is put together, it has      *)
(* MIN_FOR_YOU_ITEMS items, or as many as there were monuments all the time,  *)
(* if those are fewer.                                                        *)
EnoughItems ==
    pc = "done" =>
        Len(items) >= Smaller(MinItems, Cardinality(steady))

(* The feed repeats nothing but what the snapshot itself repeats.             *)
NoDuplicates ==
    pc = "done" => \A i, k \in DOMAIN items :
        i # k /\ items[i] = items[k] =>
            \E j, l \in DOMAIN payload : j # l /\ payload[j] = items[i] /\ payload[l] = items[i]

(* Nothing is shown that was not published at some time of the request.       *)
OnlyPublished == pc = "done" => ToSet(items) \cup ToSet(featured) \subseteq seen

(* The average in sixtieths of a star: exact for up to six raters.            *)
Average(m) == (60 * Total(m)) \div Count(m)

(* If nothing changes meanwhile and no rated monument is taken off, a feed    *)
(* without a persona begins with the rated monuments in the order of their    *)
(* averages, and has no monument while it lacks a better rated one.           *)
BestRatedFirst ==
    (pc = "done" /\ changes = 0 /\ source = "fallback" /\ profile = "none"
       /\ Rated \subseteq published) =>
        /\ \A i, k \in DOMAIN items :
              i < k /\ items[k] \in Rated =>
                  items[i] \in Rated /\ Average(items[i]) >= Average(items[k])
        /\ \A m \in Rated \ ToSet(items), i \in DOMAIN items :
              items[i] \in Rated /\ Average(items[i]) >= Average(m)
=============================================================================
