------------------------------ MODULE JobListing ------------------------------
(***************************************************************************)
(* The table of the recommended jobs (frontend: JobTable, JobRow, the      *)
(* mapping of dashboardJobsApi, the scores of NewDashboardPage): how an    *)
(* advertisement the backend found is read and shown, how the rows are     *)
(* sorted and paged, and what is left of a job once it is saved.  A text   *)
(* is the set of the words that matter.  A search is one step here: those  *)
(* that race are in Recommendations, saved jobs that change in TrackedJobs.*)
(***************************************************************************)
EXTENDS Integers, FiniteSets, Sequences, Listings

CONSTANTS Ad,         \* advertisement -> [title, place, rest, url, posted, source, additive, fits]
          Profiles,   \* technologies of the user
          Vocabulary, \* the words of a profile that count for a job of an additive family
          Limits,     \* rows of a page
          PagerSize,  \* numbers in the pager
          MaxEvents,  \* bound on the searches and on the changes of the catalog
          None

JobListingAssumption ==
    /\ \A a \in DOMAIN Ad : /\ Ad[a].posted \in Nat \cup {-1} /\ Ad[a].source \in Nat
                           /\ {Ad[a].url, Ad[a].additive} \subseteq BOOLEAN /\ Ad[a].fits \subseteq {"profile", "preferences"}
    /\ {PagerSize, MaxEvents} \cup Limits \subseteq Nat /\ 0 \notin Limits /\ PagerSize > 0

VARIABLES
    catalog,  \* the advertisements a search goes through, in its order
    profile,  \* technologyExperiences, all of one year
    list,     \* the answer shown: cards and pagination
    sort,     \* the column the table is sorted by, or None
    rows,     \* trackedJobs
    events

lvars == <<catalog, profile, list, sort, rows, events>>

Ads == DOMAIN Ad
Types == {"Remoto", "Hibrido", "Presencial"}
Levels == <<"Estagio", "Junior", "Pleno", "Senior">>
Columns == {"source", "level", "posted"}
Turned(direction) == IF direction = "asc" THEN "desc" ELSE "asc"

\* What a search could read of the user.
Readings == {{}, {"profile"}, {"profile", "preferences"}}

Unasked == [cards |-> <<>>, page |-> 1, limit |-> Greatest(Limits), total |-> 0, pages |-> 1,
            types |-> {}, order |-> "default", read |-> {}]

LTypeOK ==
    /\ Entries(catalog) \subseteq Ads /\ profile \in Profiles /\ events \in 0..MaxEvents
    /\ list.page \in 1..Cardinality(Ads) /\ list.limit \in Limits /\ list.total \in 0..Cardinality(Ads)
    /\ list.read \in Readings /\ \A c \in Entries(list.cards) : c.ad \in Ads /\ c.type \in Types /\ c.score \in 0..99
    /\ sort # None => sort.column \in Columns /\ sort.direction \in {"asc", "desc"}
    /\ \A r \in Entries(rows) : r.level \in Entries(Levels) /\ r.score \in 0..99

-----------------------------------------------------------------------------
\* The backend looks for the type in a text without punctuation, the page in the text as it
\* is; both look for a remote job after a hybrid one, and take the rest for jobs at a place.
TypeBy(text, remote) ==
    CASE "hybrid" \in text -> "Hibrido"
      [] "hybrid" \notin text /\ text \cap remote # {} -> "Remoto"
      [] OTHER -> "Presencial"
FullText(ad) == ad.title \cup ad.place \cup ad.rest
TypeFound(ad) == TypeBy(FullText(ad), {"remote", "home office", "home-office"})
TypeRead(text) == TypeBy(text, {"remote", "home office"})

\* inferLevel: of a title alone.
LevelOf(title) ==
    CASE title \cap {"intern", "trainee"} # {} -> "Estagio"
      [] title \cap {"senior", "lead"} # {} /\ title \cap {"intern", "trainee"} = {} -> "Senior"
      [] "junior" \in title /\ title \cap {"intern", "trainee", "senior", "lead"} = {} -> "Junior"
      [] OTHER -> "Pleno"

\* scoreJobWithTechnologies, of the page and, but for the additive families, of the backend.
\* Without technologies it leaves a job as it is.
Rounded(n, d) == (2 * n + d) \div (2 * d)
ScoreOf(text, techs) ==
    LET n == Cardinality(techs \cap text)
    IN  CASE techs = {} -> 0
          [] techs # {} /\ n = 0 -> 45
          [] OTHER -> Least({99, 55 + Rounded(35 * n, Cardinality(techs)) + Least({4 * n, 9})})

\* scoreProfessionalJob: a search goes by what it could read.  A job of an additive
\* family counts the words of its vocabulary it shares with the profile, 9 for a year's, the
\* level of the profile and a preference; without any of that it has no score.
Technologies(read) == IF "profile" \in read THEN profile ELSE {}
Evidence(ad, read) ==
    7 * Cardinality(ad.fits \cap read)
    + Least({30, 9 * Cardinality(Technologies(read) \cap Vocabulary \cap FullText(ad))})
BackendScore(ad, read) ==
    CASE ad.additive /\ Evidence(ad, read) = 0 -> 0
      [] ad.additive /\ Evidence(ad, read) > 0 -> Least({99, 55 + Evidence(ad, read)})
      [] OTHER -> ScoreOf(FullText(ad), Technologies(read))

\* fallbackJobLink: a job without a link gets one of what it says and its place in the answer.
Link(a, index) == IF Ad[a].url THEN <<a>> ELSE <<a, index>>

\* Mutant: a score is made up for what has none.
ScoredAnyway(a, read) ==
    LET given == BackendScore(Ad[a], read)
    IN  IF given > 0 THEN given ELSE Greatest({70, ScoreOf(FullText(Ad[a]), profile)})

\* toRecommendedJob, and the score the page gives by itself to a job that came without one.
Scored(a, read) ==
    LET given == BackendScore(Ad[a], read)
    IN  IF given > 0 THEN given ELSE ScoreOf(FullText(Ad[a]), profile)
Card(a, index, read) ==
    [ad |-> a, link |-> Link(a, index), type |-> TypeRead(FullText(Ad[a])), level |-> LevelOf(Ad[a].title),
     posted |-> Ad[a].posted, source |-> Ad[a].source, score |-> Scored(a, read)]

\* savedJobPayload and toDashboardSavedJob: only title, place, source and link are kept.  The
\* score is of the profile or, without one, made of the characters of the title (70 to 95).
SavedJob(c) ==
    [link |-> c.link, title |-> Ad[c.ad].title, place |-> Ad[c.ad].place, source |-> c.source,
     type |-> TypeRead(Ad[c.ad].title \cup Ad[c.ad].place), level |-> LevelOf(Ad[c.ad].title),
     score |-> IF profile = {} THEN 70 ELSE ScoreOf(Ad[c.ad].title \cup Ad[c.ad].place, profile)]

-----------------------------------------------------------------------------
\* filterJobs and sortJobsByMatch, as far as the order and the type go.
Before(x, y, order) == IF order = "desc" THEN x > y ELSE x < y
Ordered(s, key(_), order) ==
    LET keyed == {[key |-> key(s[i]), at |-> i] : i \in DOMAIN s}
        ahead == {p \in keyed \X keyed : \/ Before(p[1].key, p[2].key, order)
                                         \/ p[1].key = p[2].key /\ p[1].at < p[2].at}
        places == InOrder(keyed, ahead)
    IN  [k \in DOMAIN s |-> s[places[k].at]]
Found(types) == SelectSeq(catalog, LAMBDA a : types = {} \/ TypeFound(Ad[a]) \in types)
Candidates(types, order, read) ==
    IF order = "default" THEN Found(types)
    ELSE Ordered(Found(types), LAMBDA a : BackendScore(Ad[a], read), order)

\* Mutant: the jobs of an answer are not compared with the tracked ones.
AllOf(cards) == cards

\* The page asked, less the jobs already tracked: those stay in the counts.
SavedLinks == {r.link : r \in Entries(rows)}
Untracked(cards) == SelectSeq(cards, LAMBDA c : c.link \notin SavedLinks)

Event == events < MaxEvents /\ events' = events + 1

Refresh(page, limit, types, order, read) ==
    LET from == (page - 1) * limit
    IN  /\ Event
        /\ \E all \in {Candidates(types, order, read)} : \E answer \in {SubSeq(all, from + 1, Least({from + limit, Len(all)}))} :
              list' = [cards |-> Untracked([i \in DOMAIN answer |-> Card(answer[i], i, read)]),
                       page |-> page, limit |-> limit, total |-> Len(all), pages |-> (Len(all) + limit - 1) \div limit,
                       types |-> types, order |-> order, read |-> read]
        /\ UNCHANGED <<catalog, profile, sort, rows>>

SearchJobs(types, order) == \E read \in Readings : Refresh(1, list.limit, types, order, read)

\* The pager is there while the table has rows: at most PagerSize numbers around the current page.
Drawn == list.cards # <<>>
Current == Least({list.page, list.pages})
FirstNumber == Least({Greatest({Current - PagerSize \div 2, 1}), Greatest({list.pages - PagerSize + 1, 1})})
Numbers == {FirstNumber + i : i \in 0..Least({PagerSize, list.pages}) - 1}
Footer == [first |-> (Current - 1) * list.limit + 1,
           last |-> Least({(Current - 1) * list.limit + Len(list.cards), list.total})]

ChangePage(page) ==
    /\ Drawn /\ page \in Numbers \cup {Greatest({1, Current - 1}), Least({list.pages, Current + 1})}
    /\ \E read \in Readings : Refresh(page, list.limit, list.types, list.order, read)
ChangePageSize(limit) ==
    /\ Drawn /\ \E read \in Readings : Refresh(1, limit, list.types, list.order, read)

-----------------------------------------------------------------------------
\* The columns: a source or a date that is not known goes last, whatever the direction.
Key(c, column) ==
    CASE column = "source" -> IF c.source = 0 THEN -1 ELSE c.source
      [] column = "level" -> CHOOSE i \in DOMAIN Levels : Levels[i] = c.level
      [] OTHER -> c.posted
Unknown == -1
KnownKey(c, column) == Key(c, column) # Unknown
\* Mutant: what is not known is the least.
RowsByKey ==
    IF sort = None THEN list.cards
    ELSE LET key(c) == Key(c, sort.column) IN Ordered(list.cards, key, sort.direction)

Rows ==
    IF sort = None THEN list.cards
    ELSE LET key(c) == Key(c, sort.column)
         IN  Ordered(SelectSeq(list.cards, LAMBDA c : KnownKey(c, sort.column)), key, sort.direction)
             \o SelectSeq(list.cards, LAMBDA c : ~KnownKey(c, sort.column))

\* Dates begin with the latest.
ToggleSort(column) ==
    /\ Drawn
    /\ sort' = [column |-> column,
                direction |-> IF sort # None /\ sort.column = column THEN Turned(sort.direction)
                              ELSE IF column = "posted" THEN "desc" ELSE "asc"]
    /\ UNCHANGED <<catalog, profile, list, rows, events>>

\* A job saved leaves the table for the tracked ones.
Save(c) ==
    /\ c \in Entries(list.cards)
    /\ list' = [list EXCEPT !.cards = SelectSeq(@, LAMBDA d : d # c)]
    /\ rows' = <<SavedJob(c)>> \o SelectSeq(rows, LAMBDA r : r.link # c.link)
    /\ UNCHANGED <<catalog, profile, sort, events>>

\* The catalog gains and loses advertisements meanwhile.
Arrive(a) ==
    /\ Event /\ a \notin Entries(catalog) /\ catalog' = <<a>> \o catalog
    /\ UNCHANGED <<profile, list, sort, rows>>
Expire(a) ==
    /\ Event /\ a \in Entries(catalog) /\ catalog' = SelectSeq(catalog, LAMBDA b : b # a)
    /\ UNCHANGED <<profile, list, sort, rows>>

LInit ==
    /\ catalog = InSomeOrder(Ads) /\ profile \in Profiles /\ list = Unasked /\ sort = None /\ rows = <<>>
    /\ events = 0

LNext ==
    \/ \E types \in {{}, {"Remoto"}, {"Hibrido", "Presencial"}}, order \in {"default", "desc"} : SearchJobs(types, order)
    \/ \E page \in 1..Cardinality(Ads) : ChangePage(page)
    \/ \E limit \in Limits : ChangePageSize(limit)
    \/ \E column \in Columns : ToggleSort(column)
    \/ \E c \in Entries(list.cards) : Save(c)
    \/ \E a \in Ads : Arrive(a) \/ Expire(a)

LSpec == LInit /\ [][LNext]_lvars

-----------------------------------------------------------------------------
\* The table says of a job what the search found: its type, but where only a punctuated
\* phrase says it.  In a list by match no job is above one with a higher score but where the
\* lower row has a score of the page alone: the backend gave it none and ranked it last.
\* A score is of the technologies of the user, or of what else of the user a family counts.
ShownAsFound ==
    LET c == list.cards
        given(i) == BackendScore(Ad[c[i].ad], list.read)
    IN  /\ \A i \in DOMAIN c : list.types # {} /\ "home-office" \notin FullText(Ad[c[i].ad]) => c[i].type \in list.types
        /\ list.order = "desc" => \A i, j \in DOMAIN c : i < j => c[i].score >= c[j].score \/ given(j) = 0
        /\ \A i \in DOMAIN c :
            c[i].score > 0 /\ profile = {} => Ad[c[i].ad].additive /\ Ad[c[i].ad].fits \cap list.read # {}

\* Sorting loses no row and doubles none; known values are in order, unknown ones last, and
\* equal ones as they were answered.
SortKeepsRows ==
    LET shown == Rows
        at == [c \in Entries(list.cards) |-> CHOOSE i \in DOMAIN list.cards : list.cards[i] = c]
        value == [i \in DOMAIN shown |-> Key(shown[i], sort.column)]
    IN  /\ Len(shown) = Len(list.cards) /\ Entries(shown) = Entries(list.cards)
        /\ sort # None => \A i, j \in DOMAIN shown : i < j =>
              /\ value[j] # Unknown => value[i] # Unknown /\ ~Before(value[j], value[i], sort.direction)
              /\ value[i] = value[j] => at[shown[i]] < at[shown[j]]

\* The pager of a table with rows has the current page among its numbers, which have no gap
\* and are as many as there can be, and its footer counts the rows above it.
PagerIsComplete ==
    Drawn => /\ list.page \in Numbers /\ Numbers \subseteq 1..list.pages
             /\ Cardinality(Numbers) = Least({PagerSize, list.pages})
             /\ Footer.last - Footer.first + 1 = Len(list.cards) /\ Footer.last <= list.total

\* A job saved by its own link is no longer recommended, and keeps its level and its place
\* whatever else is forgotten of it.
SavedIsKnown ==
    \A r \in Entries(rows) : Len(r.link) = 1 =>
        /\ \A c \in Entries(list.cards) : c.link # r.link
        /\ r.level = LevelOf(Ad[r.link[1]].title) /\ r.place = Ad[r.link[1]].place
=============================================================================
