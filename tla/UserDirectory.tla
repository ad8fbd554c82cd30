---------------------------- MODULE UserDirectory ----------------------------
(***************************************************************************)
(* The list of users of the administration panel (front_admin: UsersPage,  *)
(* UserEditModal; backend: AdminUsersRepository): it is fetched page by    *)
(* page with LIMIT and OFFSET and without ORDER BY, then filtered and      *)
(* paged by the page itself, and patched with the answers of its own       *)
(* changes.  Others change users meanwhile.  Who may do what, and how the  *)
(* changes of two administrators interfere, is AdminDesk's.                *)
(***************************************************************************)
EXTENDS Integers, FiniteSets, Sequences, Listings

CONSTANTS Ids, First, \* users there may be, those there are at first
          Roles, NewRole, Filters, \* roles, that of a new user, what the two menus offer besides "all"
          Searches,         \* texts, each as the users whose name has it
          FetchLimit, PerPage,
          MaxElse, MaxSaves, None

UserDirectoryAssumption ==
    /\ First \subseteq Ids /\ NewRole \in Roles /\ Filters \subseteq Roles \cup {"active", "blocked"} /\ "all" \notin Roles
    /\ Searches \subseteq SUBSET Ids /\ Ids \in Searches
    /\ {FetchLimit, PerPage} \subseteq Nat \ {0} /\ {MaxElse, MaxSaves} \subseteq Nat

VARIABLES
    table,   \* rows of users, in the order in which they lie in the table
    walk,    \* fetchAllUsers: what it has, its offset, the queries of the page under way
    list,    \* users; None before they are loaded, and after an error
    view,    \* searchTerm, roleFilter, statusFilter, currentPage
    modal,   \* selectedUser with role, isBlocked, isConfirmingDelete; or None
    saving,  \* the change under way, or None
    elses, saves,
    calm,    \* nothing has changed since the fetch began (history)
    apart    \* users who may be stored otherwise than the page was told (history)

uvars == <<table, walk, list, view, modal, saving, elses, saves, calm, apart>>

Row == [id : Ids, role : Roles, blocked : BOOLEAN]
Rows(s) == Entries(s) \subseteq Row

UTypeOK ==
    /\ Rows(table) /\ (list # None => Rows(list)) /\ (walk # None => Rows(walk.got))
    /\ view \in [search : Searches, role : {"all"} \cup Roles, status : {"all", "active", "blocked"}, page : Nat \ {0}]
    /\ modal # None => modal.user \in Row /\ modal.role \in Roles /\ {modal.blocked, modal.confirming} \subseteq BOOLEAN
    /\ saving # None => saving.at \in {"role", "block", "delete", "saved", "deleted", "error"}
    /\ elses \in 0..MaxElse /\ saves \in 0..MaxSaves /\ calm \in BOOLEAN /\ apart \subseteq Ids

-----------------------------------------------------------------------------
Known(u) == \E i \in DOMAIN table : table[i].id = u
RowOf(s, u) == s[CHOOSE i \in DOMAIN s : s[i].id = u]
Without(s, u) == SelectSeq(s, LAMBDA r : r.id # u)

\* PostgreSQL writes the new version of a row where there is room; only a fetch sees where.
Written(s, r) ==
    LET rest == Without(s, r.id)
    IN  {PutIn(rest, k, r) : k \in IF walk = None THEN {Len(rest) + 1} ELSE 1..Len(rest) + 1}

-----------------------------------------------------------------------------
\* findMany: the rows of the page and the count of all are two queries at once.  The total
\* and the limit of the first page are those of the loop.
NoPage == [rows |-> None, count |-> None]
ReadRows ==
    /\ walk # None /\ walk.page.rows = None
    /\ walk' = [walk EXCEPT !.page.rows =
                   SubSeq(table, walk.offset + 1, Least({walk.offset + FetchLimit, Len(table)}))]
    /\ UNCHANGED <<table, list, view, modal, saving, elses, saves, calm, apart>>
ReadCount ==
    /\ walk # None /\ walk.page.count = None
    /\ walk' = [walk EXCEPT !.page.count = Len(table)]
    /\ UNCHANGED <<table, list, view, modal, saving, elses, saves, calm, apart>>

\* Mutant: the loop ends a page early.
GoesOnShort(next, total) == next + 1 < total
GoesOn(next, total) == next < total

\* fetchAllUsers, at the answer of a page.
PageArrives ==
    /\ walk # None /\ walk.page.rows # None /\ walk.page.count # None
    /\ LET total == IF walk.total = None THEN walk.page.count ELSE walk.total
           next == walk.offset + FetchLimit
           got == walk.got \o walk.page.rows
       IN  IF GoesOn(next, total)
           THEN walk' = [got |-> got, offset |-> next, total |-> total, page |-> NoPage] /\ UNCHANGED list
           ELSE walk' = None /\ list' = got
    /\ UNCHANGED <<table, view, modal, saving, elses, saves, calm, apart>>

\* A page that fails is the end of all.
FetchFails ==
    /\ walk # None /\ walk' = None
    /\ UNCHANGED <<table, list, view, modal, saving, elses, saves, calm, apart>>

-----------------------------------------------------------------------------
Matches(r) ==
    /\ r.id \in view.search
    /\ view.role \in {"all", r.role}
    /\ view.status = "all" \/ (view.status = "blocked") = r.blocked
Filtered == SelectSeq(list, Matches)
TotalPages == Greatest({1, (Len(Filtered) + PerPage - 1) \div PerPage})

\* Mutant: the page number is kept when the pages become fewer.
CurrentAsKept == view.page
Current == Least({view.page, TotalPages})
Visible == SubSeq(Filtered, (Current - 1) * PerPage + 1, Least({Current * PerPage, Len(Filtered)}))
Footer == [first |-> IF Filtered = <<>> THEN 0 ELSE (Current - 1) * PerPage + 1,
           last |-> Least({Len(Filtered), Current * PerPage})]

Look(v) == view' = v /\ UNCHANGED <<table, walk, list, modal, saving, elses, saves, calm, apart>>
SearchChange(s) == Look([view EXCEPT !.search = s, !.page = 1])
RoleFilterChange(r) == Look([view EXCEPT !.role = r, !.page = 1])
StatusFilterChange(s) == Look([view EXCEPT !.status = s, !.page = 1])
TurnPage ==
    /\ list # None /\ Filtered # <<>>
    /\ \E p \in {Greatest({1, Current - 1}), Least({TotalPages, Current + 1})} : Look([view EXCEPT !.page = p])

-----------------------------------------------------------------------------
\* UserEditModal.  Its content is new when the user is another one; it can be closed while
\* a change is under way, and another user opened.
EditUser(r) ==
    /\ list # None /\ modal = None /\ r \in Entries(Visible)
    /\ modal' = [user |-> r, role |-> r.role, blocked |-> r.blocked, confirming |-> FALSE]
    /\ UNCHANGED <<table, walk, list, view, saving, elses, saves, calm, apart>>
Edit(m) == modal # None /\ modal' = m /\ UNCHANGED <<table, walk, list, view, saving, elses, saves, calm, apart>>
Close == Edit(None)

Ask(next) ==
    /\ modal # None /\ saving = None /\ saves < MaxSaves /\ saves' = saves + 1
    /\ saving' = [user |-> modal.user, role |-> modal.role, blocked |-> modal.blocked, at |-> next, answer |-> None]
    /\ UNCHANGED <<table, walk, list, view, modal, elses, calm, apart>>
AfterRole(row, blocked) == IF blocked # row.blocked THEN "block" ELSE "saved"

\* handleSaveUser: the role if it is another one, then the block if it is.
Save == Ask(IF modal.role # modal.user.role THEN "role" ELSE AfterRole(modal.user, modal.blocked))

\* handleDeleteUser, at the second click.
Delete ==
    \/ modal # None /\ ~modal.confirming /\ saving = None /\ Edit([modal EXCEPT !.confirming = TRUE])
    \/ modal # None /\ modal.confirming /\ Ask("delete")

\* The request is refused, or served, and then its answer may be lost.
Refused == saving' = [saving EXCEPT !.at = "error"] /\ UNCHANGED <<table, apart>>
Served(row, next) ==
    /\ table' \in Written(table, row)
    /\ \/ saving' = [saving EXCEPT !.at = next, !.answer = row] /\ UNCHANGED apart
       \/ saving' = [saving EXCEPT !.at = "error"] /\ apart' = apart \cup {row.id}
Serve ==
    /\ saving # None
    /\ LET u == saving.user.id IN
       \/ /\ saving.at = "role"
          /\ IF Known(u) /\ RowOf(table, u).role # saving.role
             THEN Served([RowOf(table, u) EXCEPT !.role = saving.role], AfterRole(saving.user, saving.blocked))
             ELSE Refused
       \/ /\ saving.at = "block"
          /\ IF Known(u) /\ RowOf(table, u).blocked # saving.blocked
             THEN Served([RowOf(table, u) EXCEPT !.blocked = saving.blocked], "saved")
             ELSE Refused
       \/ /\ saving.at = "delete"
          /\ IF Known(u) THEN /\ table' = Without(table, u) /\ apart' = apart \cup {u}
                              /\ \E at \in {"deleted", "error"} : saving' = [saving EXCEPT !.at = at]
             ELSE Refused
    /\ calm' = (calm /\ table' = table)
    /\ UNCHANGED <<walk, list, view, modal, elses, saves>>

\* Mutant: the answer to the first request is the one that is shown.
FirstAnswer(s) == IF s.answer = None THEN None ELSE [s.answer EXCEPT !.blocked = s.user.blocked]
LastAnswer(s) == s.answer

\* The answer closes the modal, whoever's it is by now; an error leaves it and the list.
\* What a save did before its error is not shown.
Answered ==
    /\ saving # None /\ saving.at \in {"saved", "deleted", "error"} /\ saving' = None
    /\ modal' = IF saving.at = "error" THEN modal ELSE None
    /\ list' = CASE saving.at = "deleted" -> Without(list, saving.user.id)
                 [] saving.at = "saved" /\ LastAnswer(saving) # None ->
                      [i \in DOMAIN list |-> IF list[i].id = saving.user.id THEN LastAnswer(saving) ELSE list[i]]
                 [] OTHER -> list
    /\ apart' = IF saving.at = "error" /\ saving.answer # None THEN apart \cup {saving.user.id} ELSE apart
    /\ UNCHANGED <<table, walk, view, elses, saves, calm>>

\* Users sign up, sign in, which only moves their rows, are changed and deleted elsewhere.
Elsewhere ==
    /\ elses < MaxElse /\ elses' = elses + 1 /\ calm' = FALSE
    /\ \E u \in Ids :
          /\ apart' = apart \cup {u}
          /\ \/ Known(u) /\ table' = Without(table, u)
             \/ \E r \in IF Known(u)
                       THEN LET row == RowOf(table, u)
                            IN  {row, [row EXCEPT !.blocked = ~@]} \cup {[row EXCEPT !.role = x] : x \in Roles}
                       ELSE {[id |-> u, role |-> NewRole, blocked |-> FALSE] : x \in {u} \ (First \cup apart)} :
                   table' \in Written(table, r)
    /\ UNCHANGED <<walk, list, view, modal, saving, saves>>

UInit ==
    /\ table = [i \in 1..Cardinality(First) |-> [id |-> InSomeOrder(First)[i], role |-> NewRole, blocked |-> FALSE]]
    /\ walk = [got |-> <<>>, offset |-> 0, total |-> None, page |-> NoPage] /\ list = None
    /\ view = [search |-> Ids, role |-> "all", status |-> "all", page |-> 1]
    /\ modal = None /\ saving = None /\ elses = 0 /\ saves = 0 /\ calm = TRUE /\ apart = {}

UNext ==
    \/ ReadRows \/ ReadCount \/ PageArrives \/ FetchFails
    \/ \E s \in Searches : SearchChange(s)
    \/ \E r \in {"all"} \cup (Filters \cap Roles) : RoleFilterChange(r)
    \/ \E s \in {"all"} \cup (Filters \ Roles) : StatusFilterChange(s)
    \/ TurnPage \/ (\E i \in 1..PerPage : list # None /\ i <= Len(Visible) /\ EditUser(Visible[i]))
    \/ (\E r \in Roles : modal # None /\ Edit([modal EXCEPT !.role = r]))
    \/ (modal # None /\ Edit([modal EXCEPT !.blocked = ~@])) \/ Close
    \/ Save \/ Delete \/ Serve \/ Answered \/ Elsewhere

USpec == UInit /\ [][UNext]_uvars

-----------------------------------------------------------------------------
\* The list has every user once when nothing changed while it was fetched, however many
\* pages that took.
EveryoneIsListed == list # None /\ calm /\ saves = 0 => Entries(list) = Entries(table) /\ Len(list) = Len(table)

\* The page shows users whenever some pass the filters, as many as it says it does, and
\* everyone who passes them is on one of its pages.
PageIsShown ==
    list # None =>
      /\ Filtered # <<>> => Visible # <<>> /\ Len(Visible) = Footer.last - Footer.first + 1
      /\ Current \in 1..TotalPages /\ TotalPages * PerPage >= Len(Filtered)

\* A user the page changed is shown as stored, unless somebody else changed the user or a
\* change was answered with an error.
RowIsStored ==
    list # None /\ saving = None => \A r \in Entries(list) : r.id \in apart \/ r \in Entries(table)
=============================================================================
