------------------------------ MODULE MCBackend ------------------------------
(* The components of the backend, and two of the processor, side by side:   *)
(* `part` says which one a behaviour is of, and the others stand still.     *)
(* Accounts: one person with two identities and a second e-mail.            *)
(* PagedSearch: four jobs and one profile. LegacyIndex: two jobs, two sets.  *)
EXTENDS Accounts, TLC

CONSTANTS google, github, ana, bia, stem, old,
          Links, Statuses,                                      \* SavedJobs
          Staff, Levels, Rules, MaxAsked,                       \* AdminDesk
          Jobs, Matching, Tagged, Preferred, Limit, Batch, MaxWindows, MaxPage, MaxVersion,
          Docs, Sets, Namespace,                                \* LegacyIndex
          Keys, Allowed, Window, MaxClock,                      \* RequestPath: the limits
          Places, Words, Skills, Preferences, RawFamilies, Modes, Years, MaxWords, MaxSkills, \* JobMatching
          People, Typed, NormalOf, Texts, SeedEmail, SeedText, MaxDeploys, MaxWrites, \* UserPii
          Chosen,                                               \* RequestPath
          Newcomers, Attempts, MaxStalled, MaxFaults,           \* MailDelivery
          Marks,                                                \* KeywordKeys
          Searchers, Searches, Ttl, Cadence, MaxTime, MaxErrors \* OnDemandSearch

VARIABLES part,
    jobs, events, notes, notices, locked, begun, call,
    override, account, badge, sheet, row, order, asked, touched,
    version, docs, members, score, ask, at, using, ranked, ids, cursor, page, total, lost, windows, seen, before, stable, orphans, left,
    active, keys, rebuild, clear, seed,
    shared, clock, counter, try, opened,
    ad, user, known,
    rows, creds, demo, job, serving, written, deploys, writes,
    chosen, answer,
    server, valkey, hasKey, welcome, mails, holding, faults,
    entry, configured, index, used,
    visit, flight, holder, answers, gate, pulled, now, errors

saved == <<jobs, events, notes, notices, locked, begun, call>>
desk == <<override, account, badge, sheet, row, order, asked, touched>>
paged == <<version, docs, members, score, ask, at, using, ranked, ids, cursor, page, total, lost, windows, seen, before, stable, orphans, left>>
legacy == <<active, keys, rebuild, clear, seed>>
limits == <<shared, clock, counter, try, opened>>
matching == <<ad, user, known>>
pii == <<rows, creds, demo, job, serving, written, deploys, writes>>
served == <<chosen, answer>>
mailing == <<server, valkey, hasKey, welcome, mails, holding, faults>>
words == <<entry, configured, index, used>>
demand == <<visit, flight, holder, answers, gate, pulled, now, errors>>

MCProviderOf == google :> "google" @@ github :> "github"
MCEmailOf == google :> ana @@ github :> ana
MCLoginOf == google :> None @@ github :> stem
MCStemOf == ana :> stem @@ bia :> stem

DefaultLevel == [k \in Rules |-> IF k = "users.block" THEN 2 ELSE 3]
Scores == {<<60, 45, 60, 90>>}
SourceOf == "s1" :> "n1" @@ "s2" :> "n2"
SeedKeys == <<"d1", "s1", "d2", "s2">>

MCSkills == {<<"node", "js">>, <<"nodejs">>, <<"html">>}
MCPreferences == {[location |-> "canada", remoteOnly |-> FALSE, jobTypes |-> {"hibrido"}, keywords |-> {<<"html">>}],
                  [location |-> None, remoteOnly |-> TRUE, jobTypes |-> {}, keywords |-> {}]}
MCNormalOf == "ana" :> "ana" @@ "Ana" :> "ana" @@ "bia" :> "bia" @@ "demo" :> "demo"

MCKeywords == {<<"nodejs">>, <<"node", ".", "js">>, <<"ux", "/", "ui">>, <<"react", "node", "js">>, <<"/">>, <<"ui", ".">>}
MCAds == {[text |-> <<"react", "nodejs">>, technologies |-> {}],
          [text |-> <<"node", "js", "ux">>, technologies |-> {}],
          [text |-> <<"ux", "ui">>, technologies |-> {<<"node", ".", "js">>}]}

Saved == INSTANCE SavedJobs WITH locks <- locked, req <- call
Desk == INSTANCE AdminDesk WITH req <- order
Paged == INSTANCE PagedSearch
Legacy == INSTANCE LegacyIndex
Matched == INSTANCE JobMatching
Pii == INSTANCE UserPii
Path == INSTANCE RequestPath WITH Tries <- Requests, override <- chosen
Post == INSTANCE MailDelivery WITH Requests <- Newcomers
Demand == INSTANCE OnDemandSearch WITH ask <- visit, asked <- pulled, faults <- errors, MaxFaults <- MaxErrors
Indexed == INSTANCE KeywordKeys WITH Keywords <- MCKeywords, Ads <- MCAds, ad <- entry

ASSUME MCAssumption ==
    /\ Saved!SavedJobsAssumption /\ Desk!AdminDeskAssumption
    /\ Paged!PagedSearchAssumption /\ Legacy!LegacyIndexAssumption /\ Path!LimitsAssumption
    /\ Matched!JobMatchingAssumption /\ Pii!UserPiiAssumption /\ Path!RequestPathAssumption
    /\ Post!MailDeliveryAssumption /\ Indexed!KeywordKeysAssumption /\ Demand!OnDemandSearchAssumption

-----------------------------------------------------------------------------
AccountsRest ==
    /\ users = {} /\ accounts = {} /\ passwords = {} /\ draft = [r \in Requests |-> None]
    /\ locks = [r \in Requests |-> {}] /\ cookie = [b \in Browsers |-> None]
    /\ welcomed = [u \in Ids |-> 0] /\ req = [r \in Requests |-> Blank]
SavedRest ==
    /\ jobs = {} /\ events = [i \in Saved!Ids |-> <<>>] /\ notes = {} /\ notices = {} /\ begun = 0
    /\ locked = [r \in Requests |-> None] /\ call = [r \in Requests |-> Saved!Blank]
DeskRest == Desk!Init /\ account = [s \in Staff |-> [level |-> Desk!Super, blocked |-> FALSE]]
PagedRest == Paged!PInit /\ version = 0 /\ docs = {} /\ score = <<60, 45, 60, 90>>
LegacyRest == Legacy!LInit /\ keys = {}
LimitsRest == Path!MInit /\ shared = FALSE
MatchingRest == Matched!JInit /\ ad = [family |-> "dados", mode |-> "", place |-> <<>>, text |-> <<>>]
PiiRest ==
    /\ rows = Pii!Empty /\ creds = Pii!Empty /\ written = Pii!Empty /\ demo = [job |-> 0, event |-> 0]
    /\ job = Pii!Idle /\ serving = FALSE /\ deploys = 0 /\ writes = 0
PathRest == chosen = [k \in Path!RuleNames |-> None] /\ answer = None
PostRest == Post!DInit /\ hasKey = FALSE
IndexedRest == Indexed!KInit /\ entry = [text |-> <<"react", "nodejs">>, technologies |-> {}]
DemandRest == Demand!OInit /\ visit = [s \in Searchers |-> [at |-> "idle", key |-> None, gone |-> FALSE]]

Parts == {"accounts", "saved", "desk", "paged", "legacy", "limits", "matching", "pii", "path", "mail", "keywords", "demand"}

MCInit ==
    /\ part \in Parts
    /\ IF part = "accounts" THEN Init ELSE AccountsRest
    /\ IF part = "saved" THEN Saved!SInit ELSE SavedRest
    /\ IF part = "desk" THEN Desk!Init ELSE DeskRest
    /\ IF part = "paged" THEN Paged!PInit ELSE PagedRest
    /\ IF part = "legacy" THEN Legacy!LInit ELSE LegacyRest
    /\ IF part = "limits" THEN Path!MInit ELSE LimitsRest
    /\ IF part = "matching" THEN Matched!JInit ELSE MatchingRest
    /\ IF part = "pii" THEN Pii!PInit ELSE PiiRest
    /\ IF part = "path" THEN Path!RInit ELSE PathRest
    /\ IF part = "mail" THEN Post!DInit ELSE PostRest
    /\ IF part = "keywords" THEN Indexed!KInit ELSE IndexedRest
    /\ IF part = "demand" THEN Demand!OInit ELSE DemandRest

MCNext ==
    /\ part' = part
    /\ IF part = "accounts" THEN Next ELSE UNCHANGED vars
    /\ IF part = "saved" THEN Saved!SNext ELSE UNCHANGED saved
    /\ IF part = "desk" THEN Desk!Next ELSE UNCHANGED desk
    /\ IF part = "paged" THEN Paged!PNext ELSE UNCHANGED paged
    /\ IF part = "legacy" THEN Legacy!LNext ELSE UNCHANGED legacy
    /\ IF part = "limits" THEN Path!MNext ELSE UNCHANGED limits
    /\ IF part = "matching" THEN Matched!JNext ELSE UNCHANGED matching
    /\ IF part = "pii" THEN Pii!PNext ELSE UNCHANGED pii
    /\ IF part = "path" THEN Path!Serve ELSE UNCHANGED served
    /\ IF part = "mail" THEN Post!DNext ELSE UNCHANGED mailing
    /\ IF part = "keywords" THEN Indexed!KNext ELSE UNCHANGED words
    /\ IF part = "demand" THEN Demand!ONext ELSE UNCHANGED demand

MCSpec == MCInit /\ [][MCNext]_<<part, vars, saved, desk, paged, legacy, limits, matching, pii, served, mailing, words, demand>>

MCSymmetry == Permutations(Requests)

-----------------------------------------------------------------------------
\* The tables and pages of every component keep their shape.
TypesHold ==
    /\ part = "accounts" => TypeOK
    /\ part = "saved" => Saved!STypeOK
    /\ part = "desk" => Desk!TypeOK
    /\ part = "paged" => Paged!PTypeOK
    /\ part = "legacy" => Legacy!LTypeOK
    /\ part = "limits" => Path!MTypeOK
    /\ part = "matching" => Matched!JTypeOK
    /\ part = "pii" => Pii!PTypeOK
    /\ part = "demand" => Demand!OTypeOK
    /\ part = "path" => Path!RTypeOK
    /\ part = "mail" => Post!DTypeOK
    /\ part = "keywords" => Indexed!KTypeOK

\* Accounts and MailDelivery: a new user is welcomed once.  The mail is tried as often as
\* configured, and sent again only for a failure that was counted.
WelcomedOnceOnly ==
    /\ part = "accounts" => WelcomedOnce
    /\ part = "mail" => Post!LeavesForAReason /\ Post!TakenInBounds

\* SavedJobs: concurrent updates of one job leave a history that leads to its status.
HistoryExplainsStatus == part = "saved" => Saved!HistoryExplainsStatus

\* AdminDesk: administrators at work at once do not undo each other's changes.
\* RequestPath: a session is let in as the rules were chosen.
OnlyWhatWasChosen == Desk!OnlyWhatWasChosen /\ [](part = "path" => Path!LetInAsChosen)

\* PagedSearch: a page put together batch by batch is the page of the whole, and the next
\* page repeats no job of the one before, but for orphans that stay in the set of keywords.
PagesContinue == part = "paged" => Paged!PageIsTheSlice /\ Paged!NextPageGoesOn

\* LegacyIndex: a clear never removes a key once an index is published.
ActiveIsSpared == Legacy!ActiveIsSpared

\* RequestPath: no more than max requests of one key pass in one window, and requests are
\* counted under the names of routes, of which there are only so many.  OnDemandSearch:
\* nothing is collected while the answer is kept, and one source is asked once in its cadence.
OnlySoMany ==
    /\ part = "limits" => Path!OnlySoMany
    /\ part = "path" => Path!CountedByTemplate
    /\ part = "demand" => Demand!CollectsOnlyWhatIsMissing /\ Demand!SourceIsSpared

\* JobMatching: evidence never lowers a score, and a job is found where it was placed.
\* KeywordKeys: and under every spelling of its keywords, never under others.
MatchingIsSound ==
    /\ [](part = "matching" => Matched!LocationIsConsistent) /\ Matched!EvidenceOnlyHelps
    /\ [](part = "keywords" => Indexed!FoundUnderEverySpelling /\ Indexed!FoundHasAWord)

\* UserPii: what a backend serves is protected, found and complete; the seed writes once.
ServedIsProtected == part = "pii" => Pii!ServedIsProtected /\ Pii!SeededOnce
=============================================================================
