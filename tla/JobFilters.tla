------------------------------ MODULE JobFilters ------------------------------
(***************************************************************************)
(* The filters over the recommended jobs (frontend: JobFilter and the      *)
(* effects of NewDashboardPage that keep them in the link), the request    *)
(* they become (dashboardJobsApi) and what the backend reads of it         *)
(* (jobSearchQuery and familyQuery parsers).  A render and the effects it  *)
(* runs are one step; the user may act between two of them, because a new  *)
(* link is rendered later.  When searches run, and in which order they are *)
(* answered, is in Recommendations; keywords are left out.                 *)
(***************************************************************************)
EXTENDS Naturals, FiniteSets

CONSTANTS Places,      \* continents and countries of the two menus
          Families,    \* the professional areas the backend publishes
          Strangers,   \* what a link may hold that no menu offers
          Jobs,
          MaxEdits,    \* bound on the user's steps
          None

JobFiltersAssumption ==
    /\ {"Todos", "default"} \cap (Places \cup Strangers) = {} /\ Families \cap Strangers = {}
    /\ IsFiniteSet(Families) /\ None \notin Jobs /\ MaxEdits \in Nat

VARIABLES
    screen,   \* the filters in the state of the page
    url,      \* the parameters of the link
    due,      \* a render, with its effects, is to come
    opened,   \* selectedJobId
    heard,    \* what the backend made of the last search with these filters, or None
    edits

fvars == <<screen, url, due, opened, heard, edits>>

Levels == {"Estagio/Trainee", "Junior", "Pleno", "Senior"}
Types == {"Remoto", "Hibrido", "Presencial"}
Orders == {"default", "desc", "asc"}

\* The menu of the work model: one type, or two of them (jobModelFilterOptions).
TypesOf(model) ==
    CASE model = "Todos" -> {} [] model = "RemotoHibrido" -> {"Remoto", "Hibrido"}
      [] model = "RemotoPresencial" -> {"Remoto", "Presencial"}
      [] model = "HibridoPresencial" -> {"Hibrido", "Presencial"} [] OTHER -> {model}
ModelChoices == Types \cup {"Todos", "RemotoHibrido", "RemotoPresencial", "HibridoPresencial"}

Filter == [level : Levels \cup Strangers \cup {"Todos"}, continent : Places \cup {"Todos"},
           country : Places \cup {"Todos"}, order : Orders, families : SUBSET (Families \cup Strangers)]
NoFilter == [level |-> "Todos", continent |-> "Todos", country |-> "Todos", order |-> "default", families |-> {}]
Screen == [filter : Filter, model : ModelChoices]
Link == [filter : Filter, job : Jobs \cup {None}]

FTypeOK ==
    /\ screen \in Screen /\ url \in Link /\ due \in BOOLEAN
    /\ opened \in Jobs \cup {None} /\ edits \in 0..MaxEdits

-----------------------------------------------------------------------------
\* A filter is the set of its values, none at its default.
Value(v) == {v} \ {"Todos", "default"}

\* Mutant: the mode of the areas is left to the backend.
AskedWithoutMode(s) ==
    LET f == s.filter
    IN  [level |-> Value(f.level), continent |-> Value(f.continent), country |-> Value(f.country),
         location |-> Value(f.country), matchSort |-> Value(f.order), type |-> TypesOf(s.model),
         model |-> TypesOf(s.model), family |-> f.families, familyMode |-> {}]

\* buildRecommendationSearch.
Asked(s) ==
    LET f == s.filter
    IN  [level |-> Value(f.level), continent |-> Value(f.continent), country |-> Value(f.country),
         location |-> Value(f.country), matchSort |-> Value(f.order), type |-> TypesOf(s.model),
         model |-> TypesOf(s.model), family |-> f.families,
         familyMode |-> IF f.families = {} THEN {} ELSE {"primary"}]

\* buildFilterParams: filters without a value become no parameter at all.
Sent(asked) == [k \in {n \in DOMAIN asked : asked[n] # {}} |-> asked[k]]

\* queryValues: a parameter that is missing has no values.
Values(p, k) == IF k \in DOMAIN p THEN p[k] ELSE {}

\* parseFamilyQuery refuses areas that are not published; there can be no more than those.
FamiliesRefused(p) ==
    LET areas == Values(p, "family")
    IN  ~(areas \subseteq Families) \/ Cardinality(areas) > Cardinality(Families)

\* parseJobSearchQuery: the model goes before the type; filterJobs looks for the country, or
\* else the location, and knows one name for the level of trainees.
Read(p) ==
    [refused |-> FamiliesRefused(p),
     level |-> {IF l = "Estagio/Trainee" THEN "Estagio" ELSE l : l \in Values(p, "level")},
     continent |-> Values(p, "continent"),
     place |-> IF Values(p, "country") # {} THEN Values(p, "country") ELSE Values(p, "location"),
     types |-> IF Values(p, "model") # {} THEN Values(p, "model") ELSE Values(p, "type"),
     families |-> Values(p, "family"),
     related |-> Values(p, "family") # {} /\ Values(p, "familyMode") # {"primary"},
     order |-> Values(p, "matchSort") \cap {"asc", "desc"}]

-----------------------------------------------------------------------------
\* The first effect writes the filters into the link, the second one opens the job of the
\* link and takes it out again, from the parameters of the same render: it undoes the first.
Synced == [url EXCEPT !.filter = screen.filter]
WithoutJob == [url EXCEPT !.job = None]

\* Mutant: the effect that keeps the link does not look at the link again.
EffectsOnce ==
    /\ due
    /\ url' = IF url.job # None THEN WithoutJob ELSE Synced
    /\ opened' = IF url.job # None THEN url.job ELSE opened
    /\ due' = FALSE
    /\ UNCHANGED <<screen, heard, edits>>

Effects ==
    /\ due
    /\ url' = IF url.job # None THEN WithoutJob ELSE Synced
    /\ opened' = IF url.job # None THEN url.job ELSE opened
    /\ due' = (url' # url)
    /\ UNCHANGED <<screen, heard, edits>>

Edit == edits < MaxEdits /\ edits' = edits + 1
Choose(s) ==
    /\ Edit /\ s # screen /\ screen' = s /\ due' = TRUE /\ heard' = None
    /\ UNCHANGED <<url, opened>>

\* The menus: those of the areas are the published ones, before they are loaded too.  What
\* only a link holds can be left, not chosen.
ChooseLevel(l) == Choose([screen EXCEPT !.filter.level = l])
ChoosePlace(c, k) == Choose([screen EXCEPT !.filter.continent = c, !.filter.country = k])
ChooseOrder(o) == Choose([screen EXCEPT !.filter.order = o])
ChooseModel(m) == Choose([screen EXCEPT !.model = m])

ToggleFamily(a) ==
    Choose([screen EXCEPT !.filter.families = IF a \in @ THEN @ \ {a} ELSE @ \cup {a}])
ClearFamilies == screen.filter.families # {} /\ Choose([screen EXCEPT !.filter.families = {}])

\* A notice and the links of the sidebar go to a section without parameters but the job's.
Navigate(j) ==
    /\ Edit /\ url' = [filter |-> NoFilter, job |-> j] /\ due' = TRUE
    /\ UNCHANGED <<screen, opened, heard>>
CloseJob == opened # None /\ opened' = None /\ UNCHANGED <<screen, url, due, heard, edits>>

Search == heard' = Read(Sent(Asked(screen))) /\ UNCHANGED <<screen, url, due, opened, edits>>

\* A new instance of the page, when the user is loaded again or the browser asks for it.
Mounted(link) == [filter |-> link.filter, model |-> "Todos"]
Reload ==
    /\ Edit /\ screen' = Mounted(url) /\ due' = TRUE /\ opened' = None /\ heard' = None
    /\ UNCHANGED url

FInit ==
    /\ url \in Link /\ screen = Mounted(url) /\ due = TRUE
    /\ opened = None /\ heard = None /\ edits = 0

FNext ==
    \/ Effects \/ ClearFamilies \/ CloseJob \/ Search \/ Reload
    \/ \E l \in Levels \cup {"Todos"} : ChooseLevel(l)
    \/ \E c, k \in Places \cup {"Todos"} : ChoosePlace(c, k)
    \/ \E o \in Orders : ChooseOrder(o)
    \/ \E m \in ModelChoices : ChooseModel(m)
    \/ \E a \in Families : ToggleFamily(a)
    \/ \E j \in Jobs \cup {None} : Navigate(j)

FSpec == FInit /\ [][FNext]_fvars

-----------------------------------------------------------------------------
\* What the backend reads of a search is what the filters say: one menu has one meaning at
\* the end, however many parameters it becomes, and an area means the main one of a job.
AskedIsRead ==
    LET f == screen.filter
    IN  heard # None /\ ~heard.refused =>
            /\ heard.types = TypesOf(screen.model) /\ heard.families = f.families /\ ~heard.related
            /\ heard.place = {f.country} \ {"Todos"} /\ heard.continent = {f.continent} \ {"Todos"}
            /\ f.level \in Levels => heard.level \subseteq {"Estagio", "Junior", "Pleno", "Senior"} /\ heard.level # {}
            /\ heard.order = {f.order} \ {"default"}

\* No search made of what the menus offer is refused.
OfferedIsAccepted == heard # None /\ heard.refused => screen.filter.families \cap Strangers # {}

\* Once the effects are done the link stands for the filters, without the job it opened: a
\* page loaded from it has the same filters and opens no job again.
LinkIsScreen == ~due => Mounted(url).filter = screen.filter /\ url.job = None
=============================================================================
