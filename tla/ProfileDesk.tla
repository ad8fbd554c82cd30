----------------------------- MODULE ProfileDesk -----------------------------
(***************************************************************************)
(* The profile, the preferences and the career checklist of a user as the  *)
(* dashboard edits and saves them (frontend: useUserDashboardData,         *)
(* userDashboardApi, ProfileForm, PreferencesForm, CareerChecklist, the    *)
(* handlers of NewDashboardPage, AuthContext.refreshUser; backend:         *)
(* UsersService).  Whatever the backend does not have is shown with the    *)
(* value of a made-up user (initialUser, initialPreferences).  One page at *)
(* a time; a saved profile loads the user again and with that the page.    *)
(***************************************************************************)
EXTENDS Naturals, Sequences, Listings

CONSTANTS Models,      \* values of jobTypes; AnyModel is none chosen
          AnyModel,
          Places,      \* searchLocation; None is empty, Sample the made-up one
          Items,       \* items of the checklist that may be checked
          Techs,       \* names of technologies
          Folded,      \* name -> its lower case
          Sample, MaxEdits, MaxTasks, None

ProfileDeskAssumption ==
    /\ AnyModel \in Models /\ Sample \in Places /\ None \notin Places \cup Techs
    /\ Folded \in [Techs -> Techs] /\ {MaxEdits, MaxTasks} \subseteq Nat

VARIABLES
    row,        \* user_preferences, or None
    skills,     \* users: technologies, and technologyExperiences
    page,       \* which page this is, what it shows and what it knows
    timer,      \* the save of the checklist that is due, or None
    tasks,      \* calls to the backend
    edits,      \* bound on what the user does
    begun,      \* bound on the calls
    synced,     \* the preferences shown came from the backend and were not edited since (history)
    overlapped  \* a save was begun while another call about preferences was under way (history)

dvars == <<row, skills, page, timer, tasks, edits, begun, synced, overlapped>>

Prefs == [model : Models, place : Places \cup {None}, items : SUBSET Items]
Skill == [name : Techs, years : Nat]
IsProfile(p) == p.techs \in Seq(Techs) /\ p.years \in Seq(Skill)
Initial == [model |-> AnyModel, place |-> Sample, items |-> {}]

DTypeOK ==
    /\ row \in Prefs \cup {None} /\ IsProfile(skills) /\ IsProfile(page.profile)
    /\ page.prefs \in Prefs /\ {page.stored, page.saving, page.storing} \subseteq BOOLEAN
    /\ timer = None \/ timer.what \in Prefs
    /\ \A t \in tasks : t.kind \in {"load", "prefs", "profile"} /\ t.page \in Nat
                       /\ t.reply \in {"none", "ok", "failed"}
    /\ edits \in 0..MaxEdits /\ begun \in 0..MaxTasks /\ {synced, overlapped} \subseteq BOOLEAN

-----------------------------------------------------------------------------
\* toSearchPreferences and toPreferencesPayload: an empty place is stored as none.
Shown(stored) == [stored EXCEPT !.place = IF @ = None THEN Sample ELSE @]

\* toUserProfile: each technology with the years of the last experience of its name, case
\* apart; without any technology those of the made-up user.
SampleTech == CHOOSE n \in Techs : Folded[n] = n
YearsOf(years, name) ==
    LET found == {i \in DOMAIN years : Folded[years[i].name] = Folded[name]}
    IN  IF found = {} THEN 1 ELSE years[CHOOSE i \in found : \A j \in found : j <= i].years
ShownProfile(stored) ==
    LET techs == IF stored.techs = <<>> THEN <<SampleTech>> ELSE stored.techs
    IN  [techs |-> techs,
         years |-> [i \in DOMAIN techs |-> [name |-> techs[i], years |-> YearsOf(stored.years, techs[i])]]]

\* A call: what it does, with what, and from which page.
Begin(kind, how, what) ==
    /\ begun < MaxTasks /\ begun' = begun + 1
    /\ tasks' = tasks \cup {[id |-> begun + 1, page |-> page.id, kind |-> kind, how |-> how, what |-> what,
                             reply |-> "none", read |-> None]}
Here(kind) == {t \in tasks : t.kind = kind /\ t.page = page.id}

\* saveSearchPreferences, by a caller that knew whether there is a row.
Save(prefs, stored) ==
    /\ Begin("prefs", IF stored THEN "update" ELSE "create", prefs)
    /\ page' = [page EXCEPT !.saving = TRUE]
    /\ overlapped' = (overlapped \/ Here("prefs") \cup Here("load") # {})

Nobody == [techs |-> <<>>, years |-> <<>>]
Fresh(id) == [id |-> id, prefs |-> Initial, profile |-> ShownProfile(Nobody), stored |-> TRUE, saving |-> FALSE,
              storing |-> FALSE]

-----------------------------------------------------------------------------
\* The forms, which can be used before the data has arrived.
Edit == edits < MaxEdits /\ edits' = edits + 1

EditPreferences(m, p) ==
    /\ Edit /\ page' = [page EXCEPT !.prefs.model = m, !.prefs.place = p] /\ synced' = FALSE
    /\ UNCHANGED <<row, skills, timer, tasks, begun, overlapped>>

\* Any change of the lists and their items: shown at once, and saved with the other
\* preferences as they are now, 600 ms after the last change.
EditChecklist(i) ==
    /\ Edit /\ synced' = FALSE
    /\ LET prefs == [page.prefs EXCEPT !.items = IF i \in @ THEN @ \ {i} ELSE @ \cup {i}]
       IN  page' = [page EXCEPT !.prefs = prefs] /\ timer' = [what |-> prefs, stored |-> page.stored]
    /\ UNCHANGED <<row, skills, tasks, begun, overlapped>>

SavePreferences ==
    /\ ~page.saving /\ Save(page.prefs, page.stored)
    /\ UNCHANGED <<row, skills, timer, edits, synced>>
ChecklistDue ==
    /\ timer # None /\ Save(timer.what, timer.stored) /\ timer' = None
    /\ UNCHANGED <<row, skills, edits, synced>>

\* addTechnology, removeTechnology, updateTechnologyYears.
EditProfile(techs, years) ==
    /\ Edit /\ page' = [page EXCEPT !.profile = [techs |-> techs, years |-> years]]
    /\ UNCHANGED <<row, skills, timer, tasks, begun, synced, overlapped>>
WithYears(n, y) == [i \in DOMAIN page.profile.years |->
                      IF page.profile.years[i].name = n THEN [name |-> n, years |-> y] ELSE page.profile.years[i]]
HasYears(n) == \E i \in DOMAIN page.profile.years : page.profile.years[i].name = n

AddTechnology(n, y) ==
    EditProfile(IF n \in Entries(page.profile.techs) THEN page.profile.techs ELSE Append(page.profile.techs, n),
                IF HasYears(n) THEN WithYears(n, y) ELSE Append(page.profile.years, [name |-> n, years |-> y]))
RemoveTechnology(n) ==
    n \in Entries(page.profile.techs)
    /\ EditProfile(Only(page.profile.techs, Techs \ {n}),
                   Only(page.profile.years, {s \in Entries(page.profile.years) : s.name # n}))
UpdateYears(n, y) == n \in Entries(page.profile.techs) /\ EditProfile(page.profile.techs, WithYears(n, y))

SaveProfile ==
    /\ ~page.storing /\ Begin("profile", "update", page.profile) /\ page' = [page EXCEPT !.storing = TRUE]
    /\ UNCHANGED <<row, skills, timer, edits, synced, overlapped>>

-----------------------------------------------------------------------------
\* The backend serves a call; the call or its reply may be lost.
Reply(t, reply, read) == tasks' = (tasks \ {t}) \cup {[t EXCEPT !.reply = reply, !.read = read]}

Serve(t) ==
    /\ t.reply = "none"
    /\ \/ /\ t.kind = "load" /\ Reply(t, "ok", [prefs |-> row, profile |-> skills]) /\ UNCHANGED <<row, skills>>
       \/ /\ t.kind = "prefs" /\ (t.how = "create") = (row = None) /\ row' = t.what /\ UNCHANGED skills
          /\ \E r \in {"ok", "failed"} : Reply(t, r, t.what)
       \/ /\ t.kind = "profile" /\ skills' = t.what /\ UNCHANGED row
          /\ \E r \in {"ok", "failed"} : Reply(t, r, t.what)
       \/ Reply(t, "failed", None) /\ UNCHANGED <<row, skills>>
    /\ UNCHANGED <<page, timer, edits, begun, synced, overlapped>>

End(t) == tasks' = tasks \ {t}
Answered(t, kind, reply) == t.kind = kind /\ t.page = page.id /\ t.reply = reply

\* loadUserData: no row means that the next save creates one; a failure is covered up with
\* the made-up preferences, over which nothing is said of a row.
Loaded(t) ==
    /\ Answered(t, "load", "ok") /\ End(t)
    /\ \E profile \in BOOLEAN, prefs \in BOOLEAN :     \* which of its two calls failed
         /\ page' = [page EXCEPT !.profile = IF profile THEN ShownProfile(t.read.profile) ELSE ShownProfile(Nobody),
                                 !.prefs = IF prefs /\ t.read.prefs # None THEN Shown(t.read.prefs) ELSE Initial,
                                 !.stored = IF prefs THEN t.read.prefs # None ELSE @]
         /\ synced' = (prefs /\ t.read.prefs # None)
    /\ UNCHANGED <<row, skills, timer, edits, begun, overlapped>>

\* Mutant: the page goes on with what it sent.
Sent(t) == t.what

\* The answer to a save replaces all that is shown; a failure leaves it.
Returned(t) == Shown(t.read)
PreferencesSaved(t) ==
    /\ Answered(t, "prefs", "ok") /\ End(t)
    /\ page' = [page EXCEPT !.prefs = Returned(t), !.stored = TRUE, !.saving = FALSE] /\ synced' = TRUE
    /\ UNCHANGED <<row, skills, timer, edits, begun, overlapped>>
SaveFailed(t) ==
    /\ \/ Answered(t, "prefs", "failed") /\ page' = [page EXCEPT !.saving = FALSE] /\ synced' = FALSE
       \/ Answered(t, "profile", "failed") /\ page' = [page EXCEPT !.storing = FALSE] /\ UNCHANGED synced
       \/ Answered(t, "load", "failed") /\ page' = [page EXCEPT !.prefs = Initial, !.profile = ShownProfile(Nobody)]
          /\ synced' = FALSE
    /\ End(t) /\ UNCHANGED <<row, skills, timer, edits, begun, overlapped>>

\* A saved profile loads the user again; meanwhile the page is not there, and then another
\* one is, which loads its data.  What was due is not saved, what is under way is not heard.
ProfileSaved(t) ==
    /\ Answered(t, "profile", "ok") /\ begun < MaxTasks /\ begun' = begun + 1
    /\ tasks' = (tasks \ {t}) \cup {[t EXCEPT !.id = begun + 1, !.page = page.id + 1, !.kind = "load", !.reply = "none",
                                              !.what = None, !.how = "read", !.read = None]}
    /\ page' = Fresh(page.id + 1) /\ timer' = None /\ synced' = FALSE /\ overlapped' = (Here("prefs") # {})
    /\ UNCHANGED <<row, skills, edits>>
Unheard(t) == t.page # page.id /\ t.reply # "none" /\ End(t)
              /\ UNCHANGED <<row, skills, page, timer, edits, begun, synced, overlapped>>

-----------------------------------------------------------------------------
DInit ==
    /\ row \in {None, [Initial EXCEPT !.place = None]}
    /\ skills \in {Nobody, [techs |-> <<SampleTech>>, years |-> <<[name |-> SampleTech, years |-> 3]>>]}
    /\ page = Fresh(1) /\ timer = None /\ edits = 0 /\ synced = FALSE /\ overlapped = FALSE
    /\ begun = 1 /\ tasks = {[id |-> 1, page |-> 1, kind |-> "load", how |-> "read", what |-> None,
                              reply |-> "none", read |-> None]}

DNext ==
    \/ \E m \in Models, p \in Places \cup {None} : EditPreferences(m, p)
    \/ \E i \in Items : EditChecklist(i)
    \/ SavePreferences \/ ChecklistDue \/ SaveProfile
    \/ \E n \in Techs : RemoveTechnology(n) \/ \E y \in {1, 3} : AddTechnology(n, y) \/ UpdateYears(n, y)
    \/ \E t \in tasks : Serve(t) \/ Loaded(t) \/ PreferencesSaved(t) \/ SaveFailed(t) \/ ProfileSaved(t) \/ Unheard(t)

DSpec == DInit /\ [][DNext]_dvars

-----------------------------------------------------------------------------
\* When nothing is due or under way and the last answer was good, the page shows what
\* loading it again would show, unless a save was begun with another call under way.
ReloadShowsTheSame == synced /\ timer = None /\ Here("prefs") = {} /\ ~overlapped => page.prefs = Shown(row)

\* The years of a technology survive saving and loading, unless another name differs from
\* its name only by case.
Distinct == \A i, j \in DOMAIN page.profile.techs : Folded[page.profile.techs[i]] = Folded[page.profile.techs[j]] => i = j
YearsSurvive == page.profile.techs # <<>> /\ Distinct => ShownProfile(page.profile) = page.profile
=============================================================================
