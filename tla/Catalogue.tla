------------------------------ MODULE Catalogue ------------------------------
(***************************************************************************)
(* The reads of published content that are no walk: search suggestions     *)
(* (SearchService.suggestions), a city or monument and the children of a   *)
(* monument (MonumentsService.getAwareness, getTimeline, getMedia), and    *)
(* the picks of AiServiceStubClient.  Most are several queries of one      *)
(* request, while rows are published and taken off as in CursorPaging.     *)
(*                                                                         *)
(* The rows are those that match the search term.  A row answered stands   *)
(* for its response object, which the mappers copy column by column from   *)
(* the row that was read.                                                  *)
(***************************************************************************)
EXTENDS CursorPaging, Sequences

CONSTANTS
    NameRank,       \* the place of each row's name_en in alphabetical order
    MaxSuggestions, \* SUGGESTION_MAX_LIMIT
    Order,          \* the tables in the order in which the stub reads them
    Picks,          \* how many rows of a table the stub recommends
    Favorites,      \* bound: the favourites of the users who ask the stub
    None            \* no row

ASSUME CatalogueAssumption ==
    /\ NameRank \in [Rows -> Nat]
    /\ "monument" \in Tables
    /\ MaxSuggestions \in Nat \ {0}
    /\ Order \in Seq(Tables) /\ \A t \in Tables : \E i \in DOMAIN Order : Order[i] = t
    /\ \A i, j \in DOMAIN Order : Order[i] = Order[j] => i = j
    /\ Picks \in [Tables -> Nat \ {0}]
    /\ Favorites \subseteq SUBSET Rows
    /\ None \notin Rows

VARIABLES
    task,       \* the request under way, "none" if there is none
    wanted,     \*   its limit, or the monument it asks for
    favorites,  \*   favorite_monument_ids and favorite_city_ids of the stub's request
    pending,    \*   the queries it still has to make
    found,      \*   and the rows they have returned
    (* History variables: read by properties only. *)
    published,  \* rows that were published at some moment of the request
    lasting     \* rows that were published all the time

lookup == <<task, wanted, favorites, pending, found>>
catalogueVars == <<vars, lookup, published, lasting>>

Present == {r \in Rows : row[r] = "present"}
Of(t) == {r \in Rows : TableOf[r] = t}

CatalogueTypeOK ==
    /\ TypeOK
    /\ task \in {"none", "suggestions", "detail", "children", "recommendations"}
    /\ wanted \in Nat \cup Rows \cup {None}
    /\ favorites \in SUBSET Rows
    /\ pending \in SUBSET (Tables \X {"prefix", "published", "children", "favorites", "newest"})
    /\ found \in SUBSET Rows /\ published \in SUBSET Rows /\ lasting \in SUBSET Rows

CatalogueInit ==
    /\ Init
    /\ task = "none" /\ wanted = None /\ favorites = {} /\ pending = {} /\ found = {}
    /\ published = {} /\ lasting = {}

-----------------------------------------------------------------------------
Begin(kind, target, favs, queries) ==
    /\ task = "none"
    /\ task' = kind /\ wanted' = target /\ favorites' = favs /\ pending' = queries
    /\ found' = {}
    /\ published' = Present /\ lasting' = Present
    /\ UNCHANGED vars

(* A query has returned S; the request goes on with the queries of next. *)
Returns(query, S, next) ==
    /\ query \in pending
    /\ pending' = (pending \ {query}) \cup next
    /\ found' = found \cup S
    /\ UNCHANGED <<vars, task, wanted, favorites, published, lasting>>

(* The answer, a 404, or a query that rejected. *)
Finish ==
    /\ task # "none"
    /\ task' = "none" /\ wanted' = None /\ favorites' = {} /\ pending' = {} /\ found' = {}
    /\ published' = {} /\ lasting' = {}
    /\ UNCHANGED vars

(* What "orderBy ... take: n" may return of S: ties come in any order. *)
Selections(S, n, rank) ==
    {T \in SUBSET S :
        /\ T = S \/ Cardinality(T) = n
        /\ Cardinality(T) <= n
        /\ \A x \in T, y \in S \ T : rank[x] <= rank[y]}

(* suggestions: the limit is clamped, three prefix queries run side by side, *)
(* and what they return is merged newest first and cut.                      *)
Clamp(n) == IF n < 1 THEN 1 ELSE IF n > MaxSuggestions THEN MaxSuggestions ELSE n
Suggestions(asked) == Begin("suggestions", Clamp(asked), {}, Tables \X {"prefix"})

TakeAsAsked == wanted
Take == MaxSuggestions

(* collectPrefixMatches: take: SUGGESTION_MAX_LIMIT, orderBy: nameEn. *)
CollectPrefixMatches(t) ==
    /\ task = "suggestions"
    /\ \E S \in Selections(Present \cap Of(t), Take, NameRank) :
          Returns(<<t, "prefix">>, S, {})

Suggested == {r \in found : Cardinality({x \in found : Before(x, r)}) < wanted}

(* getMonument, getCity; getAwareness, getTimeline and getMedia, which assert  *)
(* that the monument exists and then read its children, without a look at its  *)
(* status.                                                                     *)
GetDetail(r) == Begin("detail", r, {}, {<<TableOf[r], "published">>})
GetChildren(m) == Begin("children", m, {}, {<<"monument", "published">>})

IsPublishedOrNot == wanted \in Rows /\ row[wanted] # "none"
IsPublished == wanted \in Present

FindPublished(t) ==
    /\ IsPublished
    /\ \/ task = "detail" /\ Returns(<<t, "published">>, {wanted}, {})
       \/ task = "children" /\ Returns(<<t, "published">>, {}, {<<t, "children">>})

FindChildren(t) == Returns(<<t, "children">>, {wanted}, {})

(* getRecommendations of the stub, table after table: the favourites that are  *)
(* published, in no order; the newest rows if there are none.                  *)
PickFrom(i, favs) ==
    IF i > Len(Order) THEN {}
    ELSE {<<Order[i], IF favs \cap Of(Order[i]) = {} THEN "newest" ELSE "favorites">>}

GetRecommendations(favs) == Begin("recommendations", None, favs, PickFrom(1, favs))

(* What follows favourites of which none is published. *)
WithoutFavoritesNext(i) == PickFrom(i + 1, favorites)
WithoutFavorites(i) == {<<Order[i], "newest">>}

PickFavorites(i) ==
    \E S \in Selections(favorites \cap Of(Order[i]) \cap Present, Picks[Order[i]], [x \in Rows |-> 0]) :
        Returns(<<Order[i], "favorites">>, S,
                IF S = {} THEN WithoutFavorites(i) ELSE PickFrom(i + 1, favorites))

PickNewest(i) ==
    \E S \in Selections(Present \cap Of(Order[i]), Picks[Order[i]], [x \in Rows |-> MaxClock - createdAt[x]]) :
        Returns(<<Order[i], "newest">>, S, PickFrom(i + 1, favorites))

-----------------------------------------------------------------------------
(* Content changes, and clients walk, as in CursorPaging. *)
Meanwhile ==
    /\ Next
    /\ published' = IF task = "none" THEN {} ELSE published \cup Present'
    /\ lasting' = lasting \cap Present'
    /\ UNCHANGED lookup

CatalogueNext ==
    \/ \E n \in Asked : Suggestions(n)
    \/ \E r \in Rows : GetDetail(r)
    \/ \E m \in Of("monument") : GetChildren(m)
    \/ \E favs \in Favorites : GetRecommendations(favs)
    \/ \E t \in Tables :
          \/ CollectPrefixMatches(t)
          \/ FindPublished(t) \/ FindChildren(t)
    \/ \E i \in DOMAIN Order : PickFavorites(i) \/ PickNewest(i)
    \/ Finish
    \/ Meanwhile

CatalogueSpec == CatalogueInit /\ [][CatalogueNext]_catalogueVars

-----------------------------------------------------------------------------
(* Whatever a request is about to answer with was published while it ran. *)
AnswersWerePublished == found \subseteq published

Answering(kind) == task = kind /\ pending = {}

(* The cut of each query by name hides the newest rows of a large table.  A   *)
(* row that was there throughout is missing from the suggestions only if they  *)
(* are full of newer ones, or if its table had a full cut of names before its. *)
SuggestionsMissOnlyCutRows ==
    Answering("suggestions") => \A r \in lasting \ Suggested :
        \/ Cardinality(Suggested) = wanted /\ \A s \in Suggested : Before(s, r)
        \/ \E S \in SUBSET ((published \cap Of(TableOf[r])) \ {r}) :
              Cardinality(S) = MaxSuggestions /\ \A s \in S : NameRank[s] <= NameRank[r]

(* The stub recommends something of each table that had a row throughout,     *)
(* whatever becomes of the favourites between its two queries.                *)
StubFindsSomething ==
    Answering("recommendations") =>
        \A t \in Tables : lasting \cap Of(t) # {} => found \cap Of(t) # {}
=============================================================================
