------------------------------ MODULE SearchProofs ------------------------------
(***************************************************************************)
(* Proofs about SearchBox, for any questions, pages and number of calls.   *)
(***************************************************************************)
EXTENDS SearchBox, TLAPS

\* The effect has run for a question that is searched.
Searching == Rendered /\ IsReady(debounced)

\* Only the last call is listened to, while the page says "loading".
ListenInv ==
    /\ loading <=> Current # {}
    /\ \A c, d \in Current : c = d
    /\ \A c \in Current : call[c].page # 0

\* The last call asks the question, and completes only an answer to it.
AskInv ==
    Searching => \A c \in Current :
        /\ call[c].of = Question
        /\ call[c].append => groups.of \in {Nothing, Question}

\* What the page shows when nothing loads.
ShowInv ==
    Searching /\ ~loading =>
        /\ groups.of \in {Nothing, Question}
        /\ groups.of = Nothing => failed

\* The last call brings the page that follows those shown.
PageInv ==
    Searching /\ ~skipped =>
        /\ \A c \in Current :
            /\ call[c].page = page
            /\ call[c].append => /\ groups.pages = 1 .. (page - 1)
                                 /\ call[c].of[3] # "all"
            /\ ~call[c].append => page = 1
        /\ ~loading /\ ~failed => groups.pages = 1 .. page

SearchInv == SearchTypeOK /\ ListenInv /\ AskInv /\ ShowInv /\ PageInv


USE SearchAssumption

LEMMA SearchInitInv == SearchInit => SearchInv
  <1> SUFFICES ASSUME SearchInit PROVE SearchInv
    OBVIOUS
  <1>1. SearchTypeOK
    <2>1. NoCall \in CallRecord
      BY DEF NoCall, CallRecord
    <2>2. NoGroups \in [of : Questions \cup {Nothing}, pages : SUBSET (1 .. LastPage)]
      BY DEF NoGroups
    <2>3. 1 \in 1 .. LastPage
      OBVIOUS
    <2> QED BY <2>1, <2>2, <2>3 DEF SearchInit, SearchTypeOK
  <1>2. Current = {}
    BY DEF SearchInit, Current, NoCall
  <1>3. ~Rendered
    BY DEF SearchInit, Rendered, Question, Asked, Typeable, AnyFilter
  <1> QED BY <1>1, <1>2, <1>3
          DEF SearchInit, SearchInv, ListenInv, AskInv, ShowInv, PageInv, Searching

\* The question of a state that is rendered and ready.
LEMMA Asks ==
    ASSUME SearchTypeOK
    PROVE  /\ Question \in Typeable \X Cities \X AnyFilter
           /\ Question[3] = filter
           /\ IsReady(debounced) => Question \in Questions
           /\ Question # Nothing
  BY DEF SearchTypeOK, Question, Asked, Questions, Typeable, IsReady, AnyFilter

\* A call of runSearch, in a step that leaves the question to come with t.
LEMMA RunKeeps ==
    ASSUME SearchInv, NEW t \in AnyFilter, NEW n \in 1 .. LastPage, NEW append \in BOOLEAN,
           IsReady(debounced), Run(t, n, append)
    PROVE  /\ call' \in [Calls -> CallRecord]
           /\ ListenInv'
           /\ \A c \in Current' : /\ call'[c].of = Asked(debounced, city, t)
                                  /\ call'[c].page = n /\ call'[c].append = append
           /\ loading' = TRUE /\ failed' = FALSE /\ hasSearched' = TRUE /\ groups' = groups
  <1>1. PICK c \in Free :
            call' = [d \in Calls |->
                        IF d = c THEN [of |-> Asked(debounced, city, t), page |-> n,
                                       append |-> append, current |-> TRUE]
                        ELSE Superseded(call[d])]
    BY DEF Run
  <1>2. Asked(debounced, city, t) \in Questions
    BY DEF SearchInv, SearchTypeOK, Asked, Questions, IsReady
  <1>3. c \in Calls
    BY DEF Free
  <1>4. \A d \in Calls : Superseded(call[d]) \in CallRecord
    BY DEF SearchInv, SearchTypeOK, CallRecord, Superseded
  <1>5. [of |-> Asked(debounced, city, t), page |-> n,
         append |-> append, current |-> TRUE] \in CallRecord
    BY <1>2 DEF CallRecord
  <1>6. call' \in [Calls -> CallRecord]
    BY <1>1, <1>4, <1>5
  <1>7. Current' = {c}
    BY <1>1, <1>3 DEF Current, Superseded
  <1>8. /\ call'[c].of = Asked(debounced, city, t) /\ call'[c].page = n
        /\ call'[c].append = append
    BY <1>1, <1>3
  <1>9. loading' = TRUE /\ failed' = FALSE /\ hasSearched' = TRUE /\ groups' = groups
    BY DEF Run
  <1>10. ListenInv'
    BY <1>7, <1>8, <1>9 DEF ListenInv
  <1> QED BY <1>6, <1>7, <1>8, <1>9, <1>10

\* The search started by the effect or by the button of an error.
LEMMA SearchedAgain ==
    ASSUME SearchInv, page' \in 1 .. LastPage, RunSearch(filter, page', FALSE),
           UNCHANGED <<typed, debounced, filter, city>>,
           searched' \in (Typeable \X Cities \X AnyFilter), skipped' \in BOOLEAN,
           page' = 1 \/ skipped'
    PROVE  SearchInv'
  <1>1. filter \in AnyFilter
    BY DEF SearchInv, SearchTypeOK
  <1>2. CASE ~IsReady(debounced)
    <2>1. RunNothing
      BY <1>2 DEF RunSearch
    <2>2. SearchTypeOK'
      BY <2>1 DEF RunNothing, SearchInv, SearchTypeOK, NoGroups
    <2>3. ListenInv' /\ ~Searching'
      BY <1>2, <2>1 DEF RunNothing, SearchInv, ListenInv, Current, Searching
    <2> QED BY <2>2, <2>3 DEF SearchInv, AskInv, ShowInv, PageInv
  <1>3. CASE IsReady(debounced)
    <2>1. Run(filter, page', FALSE)
      BY <1>3 DEF RunSearch
    <2>2. /\ call' \in [Calls -> CallRecord] /\ ListenInv'
          /\ \A c \in Current' : /\ call'[c].of = Asked(debounced, city, filter)
                                 /\ call'[c].page = page' /\ call'[c].append = FALSE
          /\ loading' = TRUE /\ failed' = FALSE /\ hasSearched' = TRUE /\ groups' = groups
      BY <1>1, <1>3, <2>1, RunKeeps
    <2>3. SearchTypeOK'
      BY <2>2 DEF SearchInv, SearchTypeOK
    <2>4. AskInv'
      BY <2>2 DEF AskInv, Question, Asked
    <2>5. ShowInv' /\ PageInv'
      BY <2>2 DEF ShowInv, PageInv
    <2> QED BY <2>2, <2>3, <2>4, <2>5 DEF SearchInv
  <1> QED BY <1>2, <1>3

LEMMA EffectKeeps == ASSUME SearchInv, SearchEffect PROVE SearchInv'
  <1>1. Question \in Typeable \X Cities \X AnyFilter
    BY Asks DEF SearchInv
  <1>2. 1 \in 1 .. LastPage
    OBVIOUS
  <1> QED BY <1>1, <1>2, SearchedAgain DEF SearchEffect

LEMMA RetryKeeps == ASSUME SearchInv, Retry PROVE SearchInv'
  <1>1. page' \in 1 .. LastPage /\ skipped' \in BOOLEAN /\ page' = page
    BY DEF Retry, SearchInv, SearchTypeOK
  <1>2. searched' \in Typeable \X Cities \X AnyFilter
    BY Asks DEF Retry, Rendered, SearchInv
  <1>3. RunSearch(filter, page', FALSE)
    BY <1>1 DEF Retry
  <1>4. page' = 1 \/ skipped'
    BY <1>1 DEF Retry
  <1> QED BY <1>1, <1>2, <1>3, <1>4, SearchedAgain DEF Retry

LEMMA MoreKeeps ==
    ASSUME SearchInv, NEW t \in Filters, LoadMoreForGroup(t)
    PROVE  SearchInv'
  <1> DEFINE n == IF filter = t THEN page + 1 ELSE 2
  <1>1. /\ n \in 1 .. LastPage /\ page' = n /\ Run(t, n, TRUE) /\ filter' = t
        /\ skipped' = (skipped \/ failed) /\ IsReady(debounced) /\ Rendered /\ ~loading
        /\ UNCHANGED <<typed, debounced, city, searched>>
    <2>1. /\ n <= LastPage /\ page' = n /\ Run(t, n, TRUE) /\ filter' = t
          /\ skipped' = (skipped \/ failed) /\ IsReady(debounced) /\ Rendered /\ ~loading
          /\ UNCHANGED <<typed, debounced, city, searched>>
      BY DEF LoadMoreForGroup
    <2>2. n \in Nat /\ n >= 1
      BY DEF SearchInv, SearchTypeOK
    <2>3. n \in 1 .. LastPage
      BY <2>1, <2>2
    <2> QED BY <2>1, <2>3
  <1>2. t \in AnyFilter /\ t # "all"
    BY DEF AnyFilter
  <1> HIDE DEF n
  <1>3. /\ call' \in [Calls -> CallRecord] /\ ListenInv'
        /\ \A c \in Current' : /\ call'[c].of = Asked(debounced, city, t)
                               /\ call'[c].page = n /\ call'[c].append = TRUE
        /\ loading' = TRUE /\ failed' = FALSE /\ hasSearched' = TRUE /\ groups' = groups
    BY <1>1, <1>2, RunKeeps
  <1>4. SearchTypeOK'
    BY <1>1, <1>2, <1>3 DEF SearchInv, SearchTypeOK
  <1>5. ASSUME Searching' PROVE filter = t
    BY <1>1, <1>5 DEF Searching, Rendered, Question, Asked
  <1>6. Searching
    BY <1>1 DEF Searching
  <1>7. AskInv'
    <2> SUFFICES ASSUME Searching', NEW c \in Current'
                 PROVE  call'[c].of = Question' /\ groups' .of \in {Nothing, Question'}
      BY DEF AskInv
    <2>1. Question' = Question /\ Question' = Asked(debounced, city, t)
      BY <1>1, <1>5 DEF Question
    <2>2. groups.of \in {Nothing, Question}
      BY <1>1, <1>6 DEF SearchInv, ShowInv
    <2> QED BY <1>3, <2>1, <2>2
  <1>8. PageInv'
    <2> SUFFICES ASSUME Searching', ~skipped', NEW c \in Current'
                 PROVE  /\ call'[c].page = page' /\ groups' .pages = 1 .. (page' - 1)
                        /\ call'[c].of[3] # "all" /\ call'[c].append
      BY <1>3 DEF PageInv
    <2>1. n = page + 1 /\ page \in Nat
      BY <1>5 DEF n, SearchInv, SearchTypeOK
    <2>2. groups.pages = 1 .. page
      BY <1>1, <1>6 DEF SearchInv, PageInv
    <2>3. page = page' - 1
      BY <1>1, <2>1
    <2>4. call'[c].of[3] = t
      BY <1>3 DEF Asked
    <2> QED BY <1>1, <1>2, <1>3, <2>2, <2>3, <2>4
  <1>9. ShowInv'
    BY <1>3 DEF ShowInv
  <1> QED BY <1>3, <1>4, <1>7, <1>8, <1>9 DEF SearchInv

\* The end of a call that nobody listens to.
LEMMA UnheardKeeps ==
    ASSUME SearchInv, NEW c \in Calls, ~call[c].current,
           call' = [call EXCEPT ![c] = NoCall],
           UNCHANGED <<typed, debounced, filter, city, searched, page, groups, loading,
                       failed, hasSearched, skipped>>
    PROVE  SearchInv'
  <1>1. call' \in [Calls -> CallRecord]
    BY DEF SearchInv, SearchTypeOK, CallRecord, NoCall
  <1>2. Current' = Current /\ \A d \in Current : call'[d] = call[d]
    BY DEF Current, NoCall, SearchInv, SearchTypeOK
  <1>3. SearchTypeOK'
    BY <1>1 DEF SearchInv, SearchTypeOK
  <1> QED BY <1>2, <1>3 DEF SearchInv, ListenInv, AskInv, ShowInv, PageInv, Searching,
          Rendered, Question, Asked

\* The end of the call that the page waits for.
LEMMA HeardEnds ==
    ASSUME SearchInv, NEW c \in Calls, call[c].current,
           call' = [call EXCEPT ![c] = NoCall], loading' = FALSE
    PROVE  /\ call' \in [Calls -> CallRecord]
           /\ Current' = {} /\ ListenInv'
           /\ c \in Current
           /\ call[c] \in CallRecord
  <1>1. c \in Current /\ Current \subseteq {c}
    BY DEF SearchInv, ListenInv, Current
  <1>2. Current' = {}
    BY <1>1 DEF Current, NoCall, SearchInv, SearchTypeOK
  <1> QED BY <1>1, <1>2 DEF SearchInv, SearchTypeOK, CallRecord, NoCall, ListenInv

LEMMA AnswerKeeps ==
    ASSUME SearchInv, NEW c \in Calls, SearchAnswers(c)
    PROVE  SearchInv'
  <1>1. CASE ~call[c].current
    BY <1>1, UnheardKeeps DEF SearchAnswers
  <1>2. CASE call[c].current
    <2>1. /\ call' = [call EXCEPT ![c] = NoCall] /\ loading' = FALSE
          /\ groups' = Merged(c) /\ page' = call[c].page
          /\ UNCHANGED <<typed, debounced, filter, city, searched, failed, hasSearched, skipped>>
      BY <1>2 DEF SearchAnswers
    <2>2. /\ call' \in [Calls -> CallRecord] /\ Current' = {} /\ ListenInv'
          /\ c \in Current /\ call[c] \in CallRecord
      BY <1>2, <2>1, HeardEnds
    <2>3. call[c].page \in 1 .. LastPage
      BY <2>2 DEF SearchInv, ListenInv, CallRecord
    <2>4. Merged(c) \in [of : Questions \cup {Nothing}, pages : SUBSET (1 .. LastPage)]
      BY <2>2, <2>3 DEF Merged, SearchInv, SearchTypeOK, CallRecord
    <2>5. SearchTypeOK'
      BY <2>1, <2>2, <2>3, <2>4 DEF SearchInv, SearchTypeOK
    <2>6. Searching' <=> Searching
      BY <2>1 DEF Searching, Rendered, Question, Asked
    <2>7. Question' = Question
      BY <2>1 DEF Question, Asked
    <2>8. ASSUME Searching PROVE groups' .of = Question
      BY <2>1, <2>2, <2>8 DEF Merged, SearchInv, AskInv
    <2>9. Question # Nothing
      BY Asks DEF SearchInv
    <2>10. ShowInv'
      BY <2>6, <2>7, <2>8, <2>9 DEF ShowInv
    <2>11. ASSUME Searching, ~skipped PROVE groups' .pages = 1 .. page'
      <3>1. call[c].page = page /\ page' = page /\ page \in Nat \ {0}
        BY <2>1, <2>2, <2>3, <2>11 DEF SearchInv, PageInv
      <3>2. CASE call[c].append
        <4>1. groups.pages = 1 .. (page - 1) /\ call[c].of[3] # "all"
          BY <2>2, <2>11, <3>2 DEF SearchInv, PageInv
        <4>2. groups' .pages = (1 .. (page - 1)) \cup {page}
          BY <2>1, <3>1, <3>2, <4>1 DEF Merged
        <4> QED BY <3>1, <4>2
      <3>3. CASE ~call[c].append
        <4>1. page = 1
          BY <2>2, <2>11, <3>3 DEF SearchInv, PageInv
        <4>2. groups' .pages = {page}
          BY <2>1, <3>1, <3>3 DEF Merged
        <4> QED BY <3>1, <4>1, <4>2
      <3> QED BY <3>2, <3>3
    <2>12. PageInv'
      BY <2>1, <2>2, <2>6, <2>11 DEF PageInv
    <2>13. AskInv'
      BY <2>2 DEF AskInv
    <2> QED BY <2>2, <2>5, <2>10, <2>12, <2>13 DEF SearchInv
  <1> QED BY <1>1, <1>2

LEMMA FailKeeps ==
    ASSUME SearchInv, NEW c \in Calls, SearchFails(c)
    PROVE  SearchInv'
  <1>1. CASE ~call[c].current
    BY <1>1, UnheardKeeps DEF SearchFails
  <1>2. CASE call[c].current
    <2>1. /\ call' = [call EXCEPT ![c] = NoCall] /\ loading' = FALSE /\ failed' = TRUE
          /\ groups' = IF call[c].append THEN groups ELSE NoGroups
          /\ skipped' = (skipped \/ call[c].append)
          /\ UNCHANGED <<typed, debounced, filter, city, searched, page, hasSearched>>
      BY <1>2 DEF SearchFails
    <2>2. /\ call' \in [Calls -> CallRecord] /\ Current' = {} /\ ListenInv'
          /\ c \in Current /\ call[c] \in CallRecord
      BY <1>2, <2>1, HeardEnds
    <2>3. SearchTypeOK'
      BY <2>1, <2>2 DEF SearchInv, SearchTypeOK, NoGroups, CallRecord
    <2>4. Searching' <=> Searching
      BY <2>1 DEF Searching, Rendered, Question, Asked
    <2>5. Question' = Question
      BY <2>1 DEF Question, Asked
    <2>6. ShowInv'
      BY <2>1, <2>2, <2>4, <2>5 DEF ShowInv, SearchInv, AskInv, NoGroups
    <2>7. AskInv' /\ PageInv'
      BY <2>1, <2>2 DEF AskInv, PageInv
    <2> QED BY <2>2, <2>3, <2>6, <2>7 DEF SearchInv
  <1> QED BY <1>1, <1>2

\* What the citizen changes makes the page wait for the effect.
LEMMA ChangeKeeps ==
    ASSUME SearchInv,
           (\E q \in Typeable : Type(q)) \/ Debounce
             \/ (\E t \in AnyFilter : ChooseFilter(t)) \/ (\E c \in Cities : ChooseCity(c))
    PROVE  SearchInv'
  <1>1. /\ UNCHANGED <<searched, page, groups, loading, failed, hasSearched, call, skipped>>
        /\ typed' \in Typeable /\ debounced' \in Typeable
        /\ filter' \in AnyFilter /\ city' \in Cities
    BY DEF SearchInv, SearchTypeOK, Type, Debounce, ChooseFilter, ChooseCity
  <1>2. SearchTypeOK' /\ ListenInv'
    BY <1>1 DEF SearchInv, SearchTypeOK, ListenInv, Current
  <1>3. CASE UNCHANGED <<debounced, filter, city>>
    BY <1>1, <1>2, <1>3 DEF SearchInv, AskInv, ShowInv, PageInv, Searching, Rendered,
                          Question, Asked, Current
  <1>4. CASE ~UNCHANGED <<debounced, filter, city>>
    <2>1. Rendered
      BY <1>4 DEF Type, Debounce, ChooseFilter, ChooseCity
    <2>2. ~Rendered'
      BY <1>1, <1>4, <2>1 DEF Rendered, Question, Asked
    <2> QED BY <1>2, <2>2 DEF SearchInv, AskInv, ShowInv, PageInv, Searching
  <1> QED BY <1>3, <1>4

LEMMA SearchStepInv == SearchInv /\ [SearchNext]_searchVars => SearchInv'
  <1> SUFFICES ASSUME SearchInv, [SearchNext]_searchVars PROVE SearchInv'
    OBVIOUS
  <1>1. CASE UNCHANGED searchVars
    BY <1>1 DEF searchVars, SearchInv, SearchTypeOK, ListenInv, AskInv, ShowInv, PageInv,
                Searching, Rendered, Question, Asked, Current
  <1>2. CASE \/ (\E q \in Typeable : Type(q)) \/ Debounce
             \/ (\E t \in AnyFilter : ChooseFilter(t)) \/ (\E c \in Cities : ChooseCity(c))
    BY <1>2, ChangeKeeps
  <1>3. CASE SearchEffect \/ Retry
    BY <1>3, EffectKeeps, RetryKeeps
  <1>4. CASE \E t \in Filters : LoadMoreForGroup(t)
    BY <1>4, MoreKeeps
  <1>5. CASE \E c \in Calls : SearchAnswers(c) \/ SearchFails(c)
    BY <1>5, AnswerKeeps, FailKeeps
  <1> QED BY <1>1, <1>2, <1>3, <1>4, <1>5 DEF SearchNext

LEMMA SearchAlways == SearchSpec => []SearchInv
  BY SearchInitInv, SearchStepInv, PTL DEF SearchSpec

----------------------------------------------------------------------------
(* Theorems                                                                *)

\* The state of useSearch is well typed; no page beyond the last is asked for.
THEOREM SearchTypeCorrect == SearchSpec => []SearchTypeOK
  BY SearchAlways, PTL DEF SearchInv

\* Once the effect has run and nothing loads, what is shown answers the
\* question, and nothing is shown only when the call failed.
THEOREM AnswersTheQuestion == SearchSpec => []ResultsAnswerQuestion
  <1>1. SearchInv => ResultsAnswerQuestion
    BY DEF SearchInv, ShowInv, Searching, ResultsAnswerQuestion
  <1> QED BY <1>1, SearchAlways, PTL

\* The page loads exactly while the one call it listens to is under way.
THEOREM LoadsWhileCalling == SearchSpec => []LoadingIsACall
  <1>1. SearchInv => LoadingIsACall
    BY DEF SearchInv, ListenInv, LoadingIsACall
  <1> QED BY <1>1, SearchAlways, PTL

\* "Voir plus" leaves no page out, as long as each one was got.
THEOREM NoPageLeftOut == SearchSpec => []PagesFollow
  <1>1. SearchInv => PagesFollow
    BY DEF SearchInv, PageInv, Searching, PagesFollow
  <1> QED BY <1>1, SearchAlways, PTL

=============================================================================
