--------------------------- MODULE Recommendations ---------------------------
(***************************************************************************)
(* The recommended jobs of the dashboard (frontend: NewDashboardPage and   *)
(* the recommendation half of useDashboardJobs): filters, the preferences  *)
(* they start from, the search that starts half a second after the last    *)
(* change, and two kinds of request, which answer in any order.  The       *)
(* effects React runs after a change belong to the action that makes it.   *)
(* What a search finds is its request; page size is left out.  A saved     *)
(* profile loads the user again, which takes the whole page away           *)
(* (ProtectedRoute): that is another instance, which begins with RInit.    *)
(***************************************************************************)
EXTENDS Naturals, FiniteSets

CONSTANTS Models,       \* filterType: work models, one of them is AnyModel ("Todos")
          AnyModel,
          Texts,        \* what else is typed or chosen: query, level, place, order
          Families,     \* values of selectedFamilies
          Pages,
          MaxRequests,  \* bound on the requests
          None

RecommendationsAssumption ==
    AnyModel \in Models /\ 1 \in Pages /\ MaxRequests \in Nat \ {0} /\ None \notin Families

VARIABLES
    view,       \* filters and section
    prefs,      \* isLoadingUserData, and the model preferred
    saving,     \* model in the preferences being saved, or None
    chosen,     \* hasUserSelectedModelFilter
    first,      \* isFirstSearchRun
    timer,      \* the delayed search is due
    last,       \* recommendationRequestIdRef
    tasks,      \* requests not yet answered
    shown,      \* the request whose answer the table shows
    refreshing  \* isRefreshingJobs

rvars == <<view, prefs, saving, chosen, first, timer, last, tasks, shown, refreshing>>

Sections == {"vagas", "perfil"}
FilterSets == [model : Models, text : Texts, families : Families]
View == [filters : FilterSets, section : Sections]
Ask == [filters : FilterSets, page : Pages] \cup {None}
Task == [id : 0..MaxRequests, kind : {"load", "refresh"}, ask : Ask]

RTypeOK ==
    /\ view \in View /\ prefs \in [loading : BOOLEAN, model : Models]
    /\ saving \in Models \cup {None}
    /\ <<chosen, first, timer, refreshing>> \in BOOLEAN \X BOOLEAN \X BOOLEAN \X BOOLEAN
    /\ last \in 0..MaxRequests /\ tasks \subseteq Task /\ shown \in Task

-----------------------------------------------------------------------------
\* initialRecommendationSearch: preferred model and families, once preferences are known.
Plain == CHOOSE t \in Texts : TRUE
Initial(v, p) ==
    IF p.loading THEN None
    ELSE [filters |-> [v.filters EXCEPT !.model = p.model, !.text = Plain], page |-> 1]

Load(id, ask) == [id |-> id, kind |-> "load", ask |-> ask]

\* A render with new filters, section or preferences, and its effects: preferences just
\* known choose the model unless the user has; loadJobs runs when its search changed; the
\* delayed search is put off, and is due only in the section of jobs after its first visit.
Commit(v, p, c) ==
    LET w == IF p # prefs /\ ~p.loading /\ ~c THEN [v EXCEPT !.filters.model = p.model] ELSE v
        loads == Initial(w, p) # Initial(view, prefs)
    IN  /\ last < MaxRequests
        /\ view' = w /\ prefs' = p /\ chosen' = c
        /\ timer' = IF w = view THEN timer ELSE w.section = "vagas" /\ ~first
        /\ first' = (first /\ (w = view \/ w.section # "vagas"))
        /\ last' = IF loads THEN last + 1 ELSE last
        /\ tasks' = IF loads THEN tasks \cup {Load(last + 1, Initial(w, p))} ELSE tasks
        /\ UNCHANGED <<shown, refreshing>>

\* Mutant: the search is built from the preferences.
RefreshPreferred(page) ==
    /\ last < MaxRequests /\ last' = last + 1
    /\ tasks' = tasks \cup {[id |-> last + 1, kind |-> "refresh",
                             ask |-> [filters |-> [view.filters EXCEPT !.model = prefs.model], page |-> page]]}
    /\ refreshing' = TRUE
    /\ UNCHANGED <<view, prefs, saving, chosen, first, shown>>

\* refreshRecommendations with buildRecommendationSearch.
Refresh(page) ==
    /\ last < MaxRequests /\ last' = last + 1
    /\ tasks' = tasks \cup {[id |-> last + 1, kind |-> "refresh",
                             ask |-> [filters |-> view.filters, page |-> page]]}
    /\ refreshing' = TRUE
    /\ UNCHANGED <<view, prefs, saving, chosen, first, shown>>

-----------------------------------------------------------------------------
\* The filter handlers, in the section of jobs.
ChangeModel(m) ==
    /\ view.section = "vagas" /\ Commit([view EXCEPT !.filters.model = m], prefs, TRUE)
    /\ UNCHANGED saving
ChangeFilter(t, f) ==
    /\ view.section = "vagas"
    /\ Commit([view EXCEPT !.filters.text = t, !.filters.families = f], prefs, chosen)
    /\ UNCHANGED saving
Navigate(s) == s # view.section /\ Commit([view EXCEPT !.section = s], prefs, chosen) /\ UNCHANGED saving

SearchIsDue == timer /\ Refresh(1) /\ timer' = FALSE
SearchJobs == view.section = "vagas" /\ ~refreshing /\ Refresh(1) /\ UNCHANGED timer
ChangePage(n) == view.section = "vagas" /\ shown.id # 0 /\ Refresh(n) /\ UNCHANGED timer

\* Preferences are saved from the profile; the answer may find the user elsewhere.
SavePreferences(m) ==
    /\ view.section = "perfil" /\ saving = None /\ saving' = m
    /\ UNCHANGED <<view, prefs, chosen, first, timer, last, tasks, shown, refreshing>>
PreferencesSaved ==
    /\ saving # None /\ saving' = None
    /\ \/ Commit([view EXCEPT !.filters.model = saving], [prefs EXCEPT !.model = saving], FALSE)
       \/ UNCHANGED <<view, prefs, chosen, first, timer, last, tasks, shown, refreshing>>

\* Profile and preferences arrive, or fail and are the default ones.
UserDataLoaded(m) == prefs.loading /\ Commit(view, [loading |-> FALSE, model |-> m], chosen) /\ UNCHANGED saving

\* An answer or an error; only that of the latest request has an effect.
Accepted(t) == t.id = last
Answer(t) ==
    /\ tasks' = tasks \ {t}
    /\ shown' \in IF Accepted(t) /\ t.ask # None THEN {t, shown} ELSE {shown}
    /\ refreshing' = (refreshing /\ ~(t.kind = "refresh" /\ Accepted(t)))
    /\ UNCHANGED <<view, prefs, saving, chosen, first, timer, last>>

-----------------------------------------------------------------------------
RInit ==
    /\ \E f \in FilterSets, s \in Sections :
          /\ f.model = AnyModel
          /\ view = [filters |-> f, section |-> s] /\ first = (s # "vagas")
    /\ prefs = [loading |-> TRUE, model |-> AnyModel]
    /\ saving = None /\ chosen = FALSE /\ timer = FALSE
    /\ last = 1 /\ tasks = {Load(1, None)} /\ shown = Load(0, None) /\ refreshing = FALSE

RNext ==
    \/ \E m \in Models : ChangeModel(m) \/ SavePreferences(m) \/ UserDataLoaded(m)
    \/ \E t \in Texts, f \in Families : ChangeFilter(t, f)
    \/ \E s \in Sections : Navigate(s)
    \/ \E n \in Pages : ChangePage(n)
    \/ SearchIsDue \/ SearchJobs \/ PreferencesSaved
    \/ \E t \in tasks : Answer(t)

RSpec == RInit /\ [][RNext]_rvars

-----------------------------------------------------------------------------
\* Of all requests, of both kinds, only the latest one changes what is shown, and what is
\* shown is never replaced by the answer to an earlier one ("Contador compartilhado").
ShownNeverGoesBack == [][shown' # shown => shown'.id = last /\ shown.id < last]_rvars

\* When the latest request is a search and it is shown, the user looks at jobs and no
\* search is due, then the filters of that search are those on the screen.
SearchedAsChosen ==
    shown.id = last /\ shown.kind = "refresh" /\ view.section = "vagas" /\ ~timer
      => shown.ask.filters = view.filters
=============================================================================
