----------------------------- MODULE MCFrontends -----------------------------
(* The pages of the two frontends side by side, each on a small instance:   *)
(* `part` says which one a behaviour is of, and the others stand still.     *)
EXTENDS Integers, Sequences, TLC

CONSTANTS None,
          Users, Watching, MaxGen,                             \* AdminPanel
          Models, AnyModel, Texts, Families, Pages, MaxRequests, \* Recommendations
          Links, Statuses, MaxTasks,                           \* TrackedJobs
          Digits, MaxForeign,                                  \* SignInPages: the telephone
          Actions, Limit, MaxRows, MaxLoads,                   \* AuditTrail
          Places, Items, Techs, Folded, Sample, MaxEdits, MaxSaves, \* ProfileDesk
          Fields, MaxAttempts,                                 \* SignInPages
          Posts, MaxAsks, MaxOpens,                            \* JobDialog
          MaxVisits, MaxTicks, Sources, Providers, MaxJobs,    \* ScraperConsole
          Ranges, DefaultRange, Samples, Top, NaN,             \* MetricPanels
          MaxChanges, MaxPoints,                               \* SystemStatus
          Areas, Strangers,                                    \* JobFilters
          Ad, Profiles, Vocabulary, PageSizes, PagerSize, MaxEvents,       \* JobListing
          Ids, First, Roles, NewRole, Filters, Searches, FetchLimit, PerPage, MaxElse, \* UserDirectory
          Overviews, ListMost, StackMost                       \* PanelNotices

VARIABLES part,
    cookie, session, loaded, auth, hidden, resource, flights, running, button,
    view, prefs, saving, chosen, first, timer, last, tasks, shown, refreshing,
    rows, sent, list, cache, offered, menu, works, begun,
    field, typed,
    trail, writing, filter, offset, loads, asked, listed, loading, error,
    row, skills, page, due, calls, edits, started, synced, overlapped,
    jar, tab, onway, attempts, steady,
    kept, past, remarks, desk, story, notes, asks, queries, confirmed, quiet,
    processor, outcome, console, requests, triggers, told, audited,
    configured, groups, total,
    graphs, card, polls, polled,
    services, changes, kind, board, chart, probes, probed, heard,
    screen, url, rendering, opened, parsed, choices,
    catalog, knows, table, sort, mine, events,
    people, walk, directory, look, modal, change, elses, saves, calm, apart,
    bell, opening, replies, stack, timers, raised, closed

panel == <<cookie, session, loaded, auth, hidden, resource, flights, running, button>>
search == <<view, prefs, saving, chosen, first, timer, last, tasks, shown, refreshing>>
tracked == <<rows, sent, list, cache, offered, menu, works, begun>>
register == <<field, typed>>
audit == <<trail, writing, filter, offset, loads, asked, listed, loading, error>>
profile == <<row, skills, page, due, calls, edits, started, synced, overlapped>>
signin == <<jar, tab, onway, attempts, steady>>
dialog == <<kept, past, remarks, desk, story, notes, asks, queries, confirmed, quiet>>
scrapers == <<processor, outcome, console, requests, triggers, told, audited>>
inventory == <<configured, groups, total>>
metrics == <<graphs, card, polls, polled>>
status == <<services, changes, kind, board, chart, probes, probed, heard>>
filters == <<screen, url, rendering, opened, parsed, choices>>
listing == <<catalog, knows, table, sort, mine, events>>
users == <<people, walk, directory, look, modal, change, elses, saves, calm, apart>>
notices == <<bell, opening, replies, stack, timers, raised, closed>>

MCFolded == "react" :> "react" @@ "React" :> "react"

\* No source, one provider in two spellings, two in two orders, one nobody knows.
Name(n) == [name |-> n, qualified |-> FALSE]
Qualified(n) == [name |-> n, qualified |-> TRUE]
MCSources ==
    {<<>>, <<Name("gupy")>>, <<Qualified("gupy")>>, <<Qualified("gupy"), Name("lever")>>,
     <<Name("lever"), Name("gupy")>>, <<Name("gupy"), Qualified("gupy")>>, <<Name("acme")>>}

\* Nothing, a sample without a value, series by other peaks and in another order, three
\* of one name.
At(t, v) == [at |-> t, value |-> v]
Series(l, vs) == [label |-> l, values |-> vs]
MCSamples ==
    {<<>>, <<Series("a", <<At(0, 1), At(1, NaN), At(2, 2)>>)>>,
     <<Series("a", <<At(0, 1), At(3, 1)>>), Series("b", <<At(0, 2)>>)>>,
     <<Series("b", <<At(0, 2)>>), Series("a", <<At(0, 1), At(1, NaN)>>)>>,
     <<Series("a", <<At(1, NaN)>>), Series("a", <<At(1, 1)>>), Series("a", <<At(1, 2)>>)>>}

\* One whose only sign of the model is punctuated, without link and date, one without source,
\* two of one source and level; of the two of an additive family one shares a word of the
\* vocabulary with the profile and fits its level and a preference, the other a word of no account.
Adv(title, rest, linked, posted, source) ==
    [title |-> title, place |-> {}, rest |-> rest, url |-> linked, posted |-> posted, source |-> source,
     additive |-> FALSE, fits |-> {}]
MCAd == "a" :> Adv({"senior", "go"}, {"remote"}, TRUE, 2, 1)
     @@ "b" :> [Adv({"intern"}, {"home-office", "figma"}, FALSE, -1, 2) EXCEPT !.additive = TRUE, !.fits = {"profile", "preferences"}]
     @@ "c" :> Adv({"senior"}, {"hybrid", "remote"}, TRUE, 1, 0)
     @@ "d" :> [Adv({"junior"}, {"go"}, TRUE, 1, 1) EXCEPT !.additive = TRUE]

\* A mobile number with 55 and no plus, a landline with +55, an area code with a zero,
\* a mobile number of the area code 55, a number of another country.
Pasted == {[plus |-> FALSE, digits |-> <<5, 5, 1, 1, 9, 0, 0, 0, 0, 1, 2, 3, 4>>],
           [plus |-> TRUE, digits |-> <<5, 5, 1, 1, 3, 0, 0, 0, 0, 1, 2, 3>>],
           [plus |-> TRUE, digits |-> <<5, 5, 1, 0, 3, 0, 0, 0, 0, 1, 2, 3>>],
           [plus |-> FALSE, digits |-> <<5, 5, 9, 9, 1, 2, 3, 4, 5, 6, 7>>],
           [plus |-> TRUE, digits |-> <<1, 2, 1, 2, 5, 5, 5, 0, 1, 0, 0>>]}

Panel == INSTANCE AdminPanel WITH Pages <- Watching
Search == INSTANCE Recommendations
Tracked == INSTANCE TrackedJobs WITH tasks <- works
Audit == INSTANCE AuditTrail WITH sent <- asked, list <- listed
Profile == INSTANCE ProfileDesk WITH timer <- due, tasks <- calls, begun <- started, MaxTasks <- MaxSaves
SignIn == INSTANCE SignInPages WITH calls <- onway
Dialog == INSTANCE JobDialog WITH rows <- kept, asked <- queries
Console == INSTANCE ScraperConsole WITH page <- console, asked <- triggers, MaxRequests <- MaxAsks
Metrics == INSTANCE MetricPanels WITH panel <- graphs, MaxPolls <- MaxAsks
FilterMenus == INSTANCE JobFilters WITH Families <- Areas, Jobs <- {"j1"}, due <- rendering, heard <- parsed, edits <- choices
Listing == INSTANCE JobListing WITH Limits <- PageSizes, profile <- knows, list <- table, rows <- mine
Directory == INSTANCE UserDirectory WITH table <- people, list <- directory, view <- look, saving <- change, MaxSaves <- MaxElse
Bell == INSTANCE PanelNotices WITH MaxRaised <- MaxRequests
Status == INSTANCE SystemStatus WITH MaxPolls <- MaxRequests, desk <- board, requests <- probes, asked <- probed

ASSUME MCAssumption ==
    /\ Panel!AdminPanelAssumption /\ Search!RecommendationsAssumption /\ Tracked!TrackedJobsAssumption
    /\ Audit!AuditTrailAssumption /\ Profile!ProfileDeskAssumption
    /\ SignIn!SignInPagesAssumption /\ Dialog!JobDialogAssumption
    /\ Console!ScraperConsoleAssumption
    /\ Metrics!MetricPanelsAssumption /\ Status!SystemStatusAssumption
    /\ FilterMenus!JobFiltersAssumption /\ Listing!JobListingAssumption
    /\ Directory!UserDirectoryAssumption /\ Bell!PanelNoticesAssumption

-----------------------------------------------------------------------------
PanelRest == Panel!Init /\ cookie = None
SearchRest == Search!RInit /\ view = [filters |-> [model |-> AnyModel, text |-> "", families |-> {}], section |-> "vagas"]
TrackedRest == Tracked!TInit /\ rows = [l \in Links |-> None]
\* Two jobs are alike at first: of what differs only by which is which one stands for both.
SavedInOrder == rows["j2"] # None => rows["j1"] # None
OnePost == CHOOSE p \in Posts : TRUE
KeptInOrder ==
    \A p \in Posts : /\ kept[p] # None => kept[OnePost] # None
                    /\ desk.listed[p] # None => desk.listed[OnePost] # None
AuditRest == Audit!AInit /\ trail = <<>>

ProfileRest == Profile!DInit /\ row = None /\ skills = Profile!Nobody
SignInRest == SignIn!SInit /\ jar = SignIn!Empty
DialogRest == Dialog!JInit /\ kept = [p \in Posts |-> None]

ConsoleRest == Console!CInit /\ ~processor.running
InventoryRest == Console!IInit /\ configured = None
StatusRest == Status!SInit /\ kind = "health" /\ services.processor = "ok"

\* Links: one without filters, and one that no menu made.
MCLinks == {FilterMenus!NoFilter, [FilterMenus!NoFilter EXCEPT !.level = "xyz", !.families = {"data", "xyz"}]}
FiltersRest == FilterMenus!FInit /\ url = [filter |-> FilterMenus!NoFilter, job |-> None]
ListingRest == Listing!LInit /\ knows = {}

\* The bell: nothing to report, everything at once, and an empty overview.
MCOverviews == {[services |-> <<"ok", "ok">>, scrapers |-> <<"ok">>],
                [services |-> <<"down", "degraded">>, scrapers |-> <<"running">>],
                [services |-> <<>>, scrapers |-> <<>>]}
MCSearches == {Ids}

Parts == {"panel", "search", "tracked", "register", "audit", "profile", "signin", "dialog",
          "scrapers", "inventory", "metrics", "status", "filters", "listing", "users", "bell"}

MCInit ==
    /\ part \in Parts
    /\ IF part = "panel" THEN Panel!Init ELSE PanelRest
    /\ IF part = "search" THEN Search!RInit ELSE SearchRest
    /\ IF part = "tracked" THEN Tracked!TInit /\ SavedInOrder ELSE TrackedRest
    /\ SignIn!FInit
    /\ IF part = "audit" THEN Audit!AInit ELSE AuditRest
    /\ IF part = "profile" THEN Profile!DInit ELSE ProfileRest
    /\ IF part = "signin" THEN SignIn!SInit ELSE SignInRest
    /\ IF part = "dialog" THEN Dialog!JInit /\ KeptInOrder ELSE DialogRest
    /\ IF part = "scrapers" THEN Console!CInit ELSE ConsoleRest
    /\ IF part = "inventory" THEN Console!IInit ELSE InventoryRest
    /\ Metrics!MInit
    /\ IF part = "status" THEN Status!SInit ELSE StatusRest
    /\ IF part = "filters" THEN FilterMenus!FInit /\ url.filter \in MCLinks ELSE FiltersRest
    /\ IF part = "listing" THEN Listing!LInit ELSE ListingRest
    /\ Directory!UInit
    /\ Bell!NInit

MCNext ==
    /\ part' = part
    /\ IF part = "panel" THEN Panel!Next ELSE UNCHANGED panel
    /\ IF part = "search" THEN Search!RNext ELSE UNCHANGED search
    /\ IF part = "tracked" THEN Tracked!TNext ELSE UNCHANGED tracked
    /\ IF part = "register" THEN SignIn!FNext ELSE UNCHANGED register
    /\ IF part = "audit" THEN Audit!ANext ELSE UNCHANGED audit
    /\ IF part = "profile" THEN Profile!DNext ELSE UNCHANGED profile
    /\ IF part = "signin" THEN SignIn!SNext ELSE UNCHANGED signin
    /\ IF part = "dialog" THEN Dialog!JNext ELSE UNCHANGED dialog
    /\ IF part = "scrapers" THEN Console!CNext ELSE UNCHANGED scrapers
    /\ IF part = "inventory" THEN Console!JobsCount ELSE UNCHANGED inventory
    /\ IF part = "metrics" THEN Metrics!MNext ELSE UNCHANGED metrics
    /\ IF part = "status" THEN Status!SNext ELSE UNCHANGED status
    /\ IF part = "filters" THEN FilterMenus!FNext ELSE UNCHANGED filters
    /\ IF part = "listing" THEN Listing!LNext ELSE UNCHANGED listing
    /\ IF part = "users" THEN Directory!UNext ELSE UNCHANGED users
    /\ IF part = "bell" THEN Bell!NNext ELSE UNCHANGED notices

MCSpec == MCInit /\ [][MCNext]_<<part, panel, search, tracked, register, audit, profile, signin, dialog,
                             scrapers, inventory, metrics, status, filters, listing, users, notices>>

-----------------------------------------------------------------------------
\* The state of every page keeps its shape.
TypesHold ==
    /\ part = "panel" => Panel!TypeOK
    /\ part = "search" => Search!RTypeOK
    /\ part = "tracked" => Tracked!TTypeOK
    /\ part = "register" => SignIn!FTypeOK
    /\ part = "audit" => Audit!ATypeOK
    /\ part = "profile" => Profile!DTypeOK
    /\ part = "signin" => SignIn!STypeOK
    /\ part = "dialog" => Dialog!JTypeOK
    /\ part = "scrapers" => Console!CTypeOK
    /\ part = "inventory" => Console!ITypeOK
    /\ part = "metrics" => Metrics!MTypeOK
    /\ part = "status" => Status!STypeOK
    /\ part = "filters" => FilterMenus!FTypeOK
    /\ part = "listing" => Listing!LTypeOK
    /\ part = "users" => Directory!UTypeOK
    /\ part = "bell" => Bell!NTypeOK

\* AdminPanel: what is presented as current was read for who is signed in and watching.
\* SignInPages: whoever comes back signed in reaches the dashboard, as the session's user,
\* and no form stays disabled with nothing to wait for.  JobDialog: a history shown is the
\* shown job's, with every change the detail was told of.  ScraperConsole: what the page and
\* the audit trail say of a trigger is what became of it, and what it waits for comes.
\* MetricPanels: the series are of the range that is chosen.  SystemStatus: what is not marked
\* as old was answered last.  PanelNotices: the bell lists what this opening of it asked for.
ReadingIsHonest ==
    /\ part = "panel" => Panel!ReadingIsHonest
    /\ part = "signin" => SignIn!ComesHome /\ SignIn!FormIsFreed
    /\ part = "dialog" => Dialog!HistoryIsCurrent
    /\ part = "scrapers" => Console!ToldIsTrue /\ Console!StartIsFreed
    /\ part = "metrics" => Metrics!SeriesOfRange
    /\ part = "status" => Status!StatusIsHonest
    /\ part = "bell" => Bell!BellIsCurrent

\* Recommendations: the filters of the search shown are those on the screen, and only the
\* latest request changes what is shown.  MetricPanels: who was refused the series asks for
\* them no more.
SearchedAsChosen == [](part = "search" => Search!SearchedAsChosen) /\ Search!ShownNeverGoesBack /\ Metrics!RefusedAsksNoMore

\* TrackedJobs: a local notice is never beside another that reads the same.  PanelNotices:
\* one that is raised is over the page until its time is up, newest first.
NoticeOnce ==
    /\ part = "tracked" => Tracked!NoticeOnce
    /\ part = "bell" => Bell!RaisedIsShown

\* SignInPages: a Brazilian number that is typed is the one that is sent.  ProfileDesk: what
\* the page shows after a save is what loading it again would show.  SignInPages: what a
\* user asked of a provider, to sign in or to link, is what the answer does.  JobDialog:
\* notes changed one at a time are shown as they are stored.  JobFilters: once the effects
\* are done the link holds the filters.  JobListing: a saved job keeps its level and its
\* place, and is no longer recommended.  UserDirectory: a changed user is shown as stored.
EnteredIsKept ==
    /\ part = "register" => SignIn!TypedIsSent
    /\ part = "profile" => Profile!ReloadShowsTheSame /\ Profile!YearsSurvive
    /\ part = "signin" => SignIn!IntentKept
    /\ part = "dialog" => Dialog!NotesAreStored
    /\ part = "filters" => FilterMenus!LinkIsScreen
    /\ part = "listing" => Listing!SavedIsKnown
    /\ part = "users" => Directory!RowIsStored

\* AuditTrail: the list shown is the one the filters and the page number ask for.
\* JobFilters: what the backend reads of a search is what its menus say, and it refuses none
\* of what they offer.  JobListing: the table says of a job what the search found, its rows
\* are those of the answer, in the order of the column, and its pager leads to all pages.
\* UserDirectory: the list has every user once, and a page of it is empty only when nobody
\* passes the filters.  ScraperConsole: every job of the catalog is counted in one row, the
\* one of its sources.  MetricPanels: "N/D" stands for a panel without a number.
\* SystemStatus: the chart is of the readings shown.
ListIsAsked ==
    /\ part = "audit" => Audit!ListIsAsked
    /\ part = "filters" => FilterMenus!AskedIsRead /\ FilterMenus!OfferedIsAccepted
    /\ part = "listing" => Listing!ShownAsFound /\ Listing!SortKeepsRows /\ Listing!PagerIsComplete
    /\ part = "users" => Directory!EveryoneIsListed /\ Directory!PageIsShown
    /\ part = "inventory" => Console!CountedOnce /\ Console!RowIsOfProvider
    /\ part = "metrics" => Metrics!ChartIsHonest
    /\ part = "status" => Status!ChartIsOfReadings
=============================================================================
