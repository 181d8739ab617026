------------------------------- MODULE SearchBox -------------------------------
(***************************************************************************)
(* The local search of the web application (useSearch): what is typed is    *)
(* searched after a pause, what changes the question supersedes the call    *)
(* under way, "Voir plus" adds a page to the answer and "Réessayer" asks    *)
(* again.                                                                  *)
(*                                                                         *)
(* requestId only tells the last call from the others: each call carries    *)
(* current, which the next one takes away.                                  *)
(***************************************************************************)
EXTENDS Naturals

CONSTANTS
    Queries,    \* what may be typed that is long enough to be searched
    TooShort,   \* what may be typed and is not
    Filters,    \* the types a search may be restricted to
    Cities,     \* cities
    LastPage,   \* bound: pages of an answer
    Calls,      \* calls that may be under way together
    Nothing     \* no question

ASSUME SearchAssumption ==
    /\ TooShort \notin Queries
    /\ "all" \notin Filters
    /\ Nothing \notin (Queries \cup {TooShort}) \X Cities \X (Filters \cup {"all"})
    /\ LastPage \in Nat \ {0}

VARIABLES
    typed,      \* query
    debounced,  \* debouncedQuery
    filter,     \* typeFilter
    city,       \* city
    searched,   \* the question the effect last ran for
    page,       \* page
    groups,     \* groups: the question they answer and the pages they hold
    loading,    \* loading
    failed,     \* error is set
    hasSearched,
    call,       \* call[c]: a call of runSearch under way
    skipped     \* history: a page was not got since the question was last asked from page 1

searchVars == <<typed, debounced, filter, city, searched, page, groups, loading,
                failed, hasSearched, call, skipped>>

Typeable  == Queries \cup {TooShort}
AnyFilter == Filters \cup {"all"}
Questions == Queries \X Cities \X AnyFilter
Asked(q, c, t) == <<q, c, t>>
Question  == Asked(debounced, city, filter)

IsReady(q) == q \in Queries

NoGroups == [of |-> Nothing, pages |-> {}]
NoCall   == [of |-> Nothing, page |-> 0, append |-> FALSE, current |-> FALSE]

\* A call that nobody listens to any more.
Superseded(r) == [of |-> r.of, page |-> r.page, append |-> r.append, current |-> FALSE]

Current == {c \in Calls : call[c].current}
Free    == {c \in Calls : call[c] = NoCall}

CallRecord == [of : Questions \cup {Nothing}, page : 0 .. LastPage,
               append : BOOLEAN, current : BOOLEAN]

SearchTypeOK ==
    /\ typed \in Typeable /\ debounced \in Typeable
    /\ filter \in AnyFilter /\ city \in Cities
    /\ searched \in (Typeable \X Cities \X AnyFilter) \cup {Nothing}
    /\ page \in 1 .. LastPage
    /\ groups \in [of : Questions \cup {Nothing}, pages : SUBSET (1 .. LastPage)]
    /\ loading \in BOOLEAN /\ failed \in BOOLEAN /\ hasSearched \in BOOLEAN
    /\ call \in [Calls -> CallRecord]
    /\ skipped \in BOOLEAN

SearchInit ==
    /\ typed \in Typeable
    /\ debounced = typed
    /\ filter \in AnyFilter
    /\ city \in Cities
    /\ searched = Nothing
    /\ page = 1
    /\ groups = NoGroups
    /\ loading = FALSE
    /\ failed = FALSE
    /\ hasSearched = FALSE
    /\ call = [c \in Calls |-> NoCall]
    /\ skipped = FALSE

-----------------------------------------------------------------------------
(* runSearch                                                               *)

\* A question too short shows nothing and leaves the call under way alone.
RunNothing ==
    /\ groups' = NoGroups
    /\ failed' = FALSE
    /\ hasSearched' = FALSE
    /\ UNCHANGED <<loading, call>>

\* Faulty: the call under way is still listened to.
RunBeside(t, n, append) ==
    \E c \in Free :
        /\ call' = [call EXCEPT ![c] = [of |-> Asked(debounced, city, t), page |-> n,
                                        append |-> append, current |-> TRUE]]
        /\ loading' = TRUE
        /\ failed' = FALSE
        /\ hasSearched' = TRUE
        /\ UNCHANGED groups

Run(t, n, append) ==
    \E c \in Free :
        /\ call' = [d \in Calls |->
                        IF d = c THEN [of |-> Asked(debounced, city, t), page |-> n,
                                       append |-> append, current |-> TRUE]
                        ELSE Superseded(call[d])]
        /\ loading' = TRUE
        /\ failed' = FALSE
        /\ hasSearched' = TRUE
        /\ UNCHANGED groups

RunSearch(t, n, append) ==
    IF IsReady(debounced) THEN Run(t, n, append) ELSE RunNothing

\* mergeGroupItems, or the answer in place of what was shown.
Merged(c) ==
    IF call[c].append /\ call[c].of[3] # "all"
    THEN [of |-> call[c].of, pages |-> groups.pages \cup {call[c].page}]
    ELSE [of |-> call[c].of, pages |-> {call[c].page}]

\* Faulty: whichever call answers is shown.
AnyCallAnswers(c) ==
    /\ call[c] # NoCall
    /\ call' = [call EXCEPT ![c] = NoCall]
    /\ groups' = Merged(c)
    /\ page' = call[c].page
    /\ loading' = (loading /\ ~call[c].current)
    /\ UNCHANGED <<typed, debounced, filter, city, searched, failed, hasSearched, skipped>>

SearchAnswers(c) ==
    /\ call[c] # NoCall
    /\ call' = [call EXCEPT ![c] = NoCall]
    /\ IF call[c].current
       THEN /\ groups' = Merged(c)
            /\ page' = call[c].page
            /\ loading' = FALSE
       ELSE UNCHANGED <<groups, page, loading>>
    /\ UNCHANGED <<typed, debounced, filter, city, searched, failed, hasSearched, skipped>>

SearchFails(c) ==
    /\ call[c] # NoCall
    /\ call' = [call EXCEPT ![c] = NoCall]
    /\ IF call[c].current
       THEN /\ failed' = TRUE
            /\ groups' = IF call[c].append THEN groups ELSE NoGroups
            /\ loading' = FALSE
            /\ skipped' = (skipped \/ call[c].append)
       ELSE UNCHANGED <<groups, failed, loading, skipped>>
    /\ UNCHANGED <<typed, debounced, filter, city, searched, page, hasSearched>>

-----------------------------------------------------------------------------
(* The citizen, the timer and the effects                                  *)

\* The effect of a render runs before the next one: what changes the question
\* waits for it.
Rendered == searched = Question

Type(q) ==
    /\ q # typed
    /\ typed' = q
    /\ UNCHANGED <<debounced, filter, city, searched, page, groups, loading, failed,
                   hasSearched, call, skipped>>

\* DEBOUNCE_MS after the last key.
Debounce ==
    /\ Rendered
    /\ debounced # typed
    /\ debounced' = typed
    /\ UNCHANGED <<typed, filter, city, searched, page, groups, loading, failed,
                   hasSearched, call, skipped>>

ChooseFilter(t) ==
    /\ Rendered
    /\ t # filter
    /\ filter' = t
    /\ UNCHANGED <<typed, debounced, city, searched, page, groups, loading, failed,
                   hasSearched, call, skipped>>

\* setCity, or the city of the page changes.
ChooseCity(c) ==
    /\ Rendered
    /\ c # city
    /\ city' = c
    /\ UNCHANGED <<typed, debounced, filter, searched, page, groups, loading, failed,
                   hasSearched, call, skipped>>

\* Faulty: the new question starts at the page of the last one.
SearchEffectSamePage ==
    /\ ~Rendered
    /\ searched' = Question
    /\ RunSearch(filter, page, FALSE)
    /\ skipped' = FALSE
    /\ UNCHANGED <<typed, debounced, filter, city, page>>

\* Faulty: nothing is searched while a call is under way.
SearchEffectOneCall ==
    /\ ~Rendered
    /\ searched' = Question
    /\ page' = 1
    /\ IF loading THEN UNCHANGED <<groups, failed, hasSearched, loading, call>>
       ELSE RunSearch(filter, 1, FALSE)
    /\ skipped' = FALSE
    /\ UNCHANGED <<typed, debounced, filter, city>>

\* The effect of debouncedQuery, typeFilter and city.
SearchEffect ==
    /\ ~Rendered
    /\ searched' = Question
    /\ page' = 1
    /\ RunSearch(filter, 1, FALSE)
    /\ skipped' = FALSE
    /\ UNCHANGED <<typed, debounced, filter, city>>

\* loadMoreForGroup: a group of the answer has more, and its button is enabled
\* while nothing loads.  After a page that failed, the next one is asked for.
LoadMoreForGroup(t) ==
    /\ Rendered /\ ~loading
    /\ IsReady(debounced) /\ groups.of # Nothing
    /\ filter \in {t, "all"}
    /\ LET n == IF filter = t THEN page + 1 ELSE 2 IN
        /\ n <= LastPage
        /\ page' = n
        /\ Run(t, n, TRUE)
        /\ skipped' = (skipped \/ failed)
    /\ filter' = t
    /\ UNCHANGED <<typed, debounced, city, searched>>

\* retry: the button of the error.
Retry ==
    /\ Rendered /\ failed
    /\ RunSearch(filter, page, FALSE)
    /\ skipped' = (skipped \/ page # 1)
    /\ UNCHANGED <<typed, debounced, filter, city, searched, page>>

SearchNext ==
    \/ \E q \in Typeable : Type(q)
    \/ Debounce
    \/ \E t \in AnyFilter : ChooseFilter(t)
    \/ \E c \in Cities : ChooseCity(c)
    \/ SearchEffect
    \/ \E t \in Filters : LoadMoreForGroup(t)
    \/ Retry
    \/ \E c \in Calls : SearchAnswers(c) \/ SearchFails(c)

\* The timer fires, an effect runs, and a call ends one way or the other.
SearchFairness ==
    /\ WF_searchVars(Debounce)
    /\ WF_searchVars(SearchEffect)
    /\ \A c \in Calls : WF_searchVars(SearchAnswers(c) \/ SearchFails(c))

SearchSpec == SearchInit /\ [][SearchNext]_searchVars /\ SearchFairness

-----------------------------------------------------------------------------
(* Properties                                                              *)

\* What is shown answers the question: once the effect has run for it and
\* nothing loads, no answer to an earlier question is on the page, and the page
\* is empty only if the call failed.
ResultsAnswerQuestion ==
    Rendered /\ ~loading /\ IsReady(debounced)
        => groups.of \in {Nothing, Question} /\ (groups.of = Nothing => failed)

\* The page says "loading" exactly while the call it listens to is under way.
LoadingIsACall ==
    /\ loading <=> Current # {}
    /\ \A c, d \in Current : c = d

\* The pages shown follow one another from the first one to the last one asked
\* for, unless one was not got.
PagesFollow ==
    Rendered /\ ~loading /\ IsReady(debounced) /\ ~failed /\ ~skipped
        => groups.pages = 1 .. page

\* A citizen who stops changing the question sees its answer, or that it failed,
\* again and again whatever else they press.
RestIsAnswered ==
    <>[][UNCHANGED <<typed, city, filter>>]_searchVars
        => []<>(IsReady(typed) => groups.of = Asked(typed, city, filter) \/ failed)
=============================================================================
