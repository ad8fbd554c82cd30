------------------------------ MODULE AdminDesk ------------------------------
(***************************************************************************)
(* What administrators change: the rules of who may do what, and the       *)
(* accounts of users; with the pages that do it (front_admin: Permissions- *)
(* Page, UsersPage), the handlers (backend: modules/admin/permissions,     *)
(* modules/admin/users).  Each statement of the database is an action; the *)
(* pages are open at once.  The audit log, which the handlers write        *)
(* without waiting and never read, is left out.                            *)
(***************************************************************************)
EXTENDS Naturals, FiniteSets

CONSTANTS Staff,        \* administrators, who are users too
          Levels,       \* ROLE_LEVEL of the roles in play, the highest is super_admin
          Rules,        \* names "resource.action"
          DefaultLevel, \* rule -> minimum role of permissionMatrix
          MaxAsked,     \* bound on the changes asked for in all
          None

Immutable == {"permissions.manage", "users.change_role", "users.delete"}
Super == 3

AdminDeskAssumption ==
    /\ Immutable \cup {"users.block"} \subseteq Rules
    /\ Levels \subseteq 0..Super /\ Super \in Levels
    /\ DefaultLevel \in [Rules -> Levels]
    /\ MaxAsked \in Nat /\ None \notin Staff \cup Levels

VARIABLES
    override,   \* rule -> level in permission_rules, or None
    account,    \* user -> [level, blocked], or None once deleted
    badge,      \* user -> role in the session cookie
    sheet,      \* PermissionsPage of each: rules, initialRules
    row,        \* UsersPage of each: user -> what it shows, or None
    req,        \* request each has under way
    asked,      \* changes asked for so far (bound)
    touched     \* rules each has chosen a role for since the page read them (history)

vars == <<override, account, badge, sheet, row, req, asked, touched>>

Account == [level : Levels, blocked : BOOLEAN]
Sheet == [Rules -> Levels]
Changes == [Rules -> Levels \cup {None}]
Nothing == [k \in Rules |-> None]

Quiet == [at |-> "free", user |-> None, level |-> None, blocked |-> None, changes |-> Nothing, left |-> {}]

TypeOK ==
    /\ override \in [Rules -> Levels \cup {None}]
    /\ account \in [Staff -> Account \cup {None}]
    /\ badge \in [Staff -> Levels \cup {None}]
    /\ sheet \in [Staff -> [rules : Sheet, initial : Sheet]]
    /\ row \in [Staff -> [Staff -> Account \cup {None}]]
    /\ asked \in 0..MaxAsked /\ touched \in [Staff -> SUBSET Rules]
    /\ \A s \in Staff : /\ req[s].at \in {"free", "check", "upsert", "refused", "findLevel", "level",
                                        "findBlocked", "blocked", "findDelete", "delete"}
                        /\ req[s].changes \in Changes /\ req[s].left \subseteq Rules

-----------------------------------------------------------------------------
\* getEffectiveMatrix; when it cannot be read, the default one.
Effective == [k \in Rules |-> IF override[k] = None THEN DefaultLevel[k] ELSE override[k]]
Matrices == {Effective, DefaultLevel}

\* The router's minimum role, then requirePermission, by the role of the session.
RouterLevel(k) == IF k \in Immutable THEN Super ELSE 2
Allows(m, s, k) == badge[s] # None /\ badge[s] >= RouterLevel(k) /\ badge[s] >= m[k]
May(s, k) == \E m \in Matrices : Allows(m, s, k)
Denied(s, k) == \E m \in Matrices : ~Allows(m, s, k)

Free(s) == req[s].at = "free"
Begin(s, ask) == Free(s) /\ asked < MaxAsked /\ req' = [req EXCEPT ![s] = ask] /\ asked' = asked + 1
Goto(s, at) == req' = [req EXCEPT ![s].at = at]
End(s) == req' = [req EXCEPT ![s] = Quiet]

-----------------------------------------------------------------------------
\* PermissionsPage.

\* The rules are read when the page opens; before, and on error, it shows the defaults.
OpenRules(s) ==
    /\ Free(s)
    /\ LET read == IF May(s, "permissions.manage") THEN Effective ELSE DefaultLevel
       IN  sheet' = [sheet EXCEPT ![s] = [rules |-> read, initial |-> read]]
    /\ touched' = [touched EXCEPT ![s] = {}]
    /\ UNCHANGED <<override, account, badge, row, req, asked>>

\* updateRule, also while a save is under way.
UpdateRule(s, k, l) ==
    /\ badge[s] = Super /\ k \notin Immutable
    /\ sheet' = [sheet EXCEPT ![s].rules[k] = l]
    /\ touched' = [touched EXCEPT ![s] = @ \cup {k}]
    /\ UNCHANGED <<override, account, badge, row, req, asked>>

\* Mutant: every rule on the page is sent.
MutableRules(s) ==
    [k \in Rules |-> IF k \notin Immutable THEN sheet[s].rules[k] ELSE None]

\* changedRules: what differs from what the page read.
ChangedRules(s) ==
    [k \in Rules |-> IF sheet[s].rules[k] # sheet[s].initial[k] THEN sheet[s].rules[k] ELSE None]

SaveRules(s) ==
    /\ badge[s] = Super /\ ChangedRules(s) # Nothing
    /\ Begin(s, [Quiet EXCEPT !.at = "check", !.changes = ChangedRules(s)])
    /\ UNCHANGED <<override, account, badge, sheet, row, touched>>



\* PATCH /admin/permissions/rules: may this role, and is no rule immutable?
CheckRules(s) ==
    /\ req[s].at = "check"
    /\ LET chosen == {k \in Rules : req[s].changes[k] # None}
       IN  \/ /\ May(s, "permissions.manage") /\ chosen \cap Immutable = {}
              /\ req' = [req EXCEPT ![s].at = "upsert", ![s].left = chosen]
           \/ /\ Denied(s, "permissions.manage") \/ chosen \cap Immutable # {}
              /\ End(s)
    /\ UNCHANGED <<override, account, badge, sheet, row, asked, touched>>

\* updateRules: one upsert for each rule, all sent at once, each committed by itself; one
\* that fails has the request refused, and the others stay.
UpsertRule(s, k) ==
    /\ req[s].at \in {"upsert", "refused"} /\ k \in req[s].left
    /\ \/ /\ override' = [override EXCEPT ![k] = req[s].changes[k]]
          /\ req' = [req EXCEPT ![s].left = @ \ {k}]
       \/ /\ req' = [req EXCEPT ![s].left = @ \ {k}, ![s].at = "refused"]
          /\ UNCHANGED override
    /\ UNCHANGED <<account, badge, sheet, row, asked, touched>>

\* getRules and the answer: the page shows the rules as they are now.
RulesSaved(s) ==
    /\ req[s].at = "upsert" /\ req[s].left = {}
    /\ sheet' = [sheet EXCEPT ![s] = [rules |-> Effective, initial |-> Effective]]
    /\ touched' = [touched EXCEPT ![s] = {}]
    /\ End(s)
    /\ UNCHANGED <<override, account, badge, row, asked>>

\* The first failure is answered with 400; upserts still under way go on without the page.
RulesRefused(s) ==
    /\ req[s].at = "refused" /\ req[s].left = {}
    /\ End(s)
    /\ UNCHANGED <<override, account, badge, sheet, row, asked, touched>>

-----------------------------------------------------------------------------
\* UsersPage.

OpenUsers(s) ==
    /\ Free(s)
    /\ row' = [row EXCEPT ![s] = IF badge[s] # None THEN account ELSE [u \in Staff |-> None]]
    /\ UNCHANGED <<override, account, badge, sheet, req, asked, touched>>

\* handleSaveUser: the role first, if it changed, then the blocking, if it changed.
SaveUser(s, u, l, b) ==
    /\ row[s][u] # None
    /\ LET level == IF l # row[s][u].level THEN l ELSE None
           blocked == IF b # row[s][u].blocked THEN b ELSE None
       IN  /\ <<level, blocked>> # <<None, None>>
           /\ Begin(s, [Quiet EXCEPT !.user = u, !.level = level, !.blocked = blocked,
                                     !.at = IF level # None THEN "findLevel" ELSE "findBlocked"])
    /\ UNCHANGED <<override, account, badge, sheet, row, touched>>

AskDelete(s, u) ==
    /\ row[s][u] # None
    /\ Begin(s, [Quiet EXCEPT !.user = u, !.at = "findDelete"])
    /\ UNCHANGED <<override, account, badge, sheet, row, touched>>

Needs(at) == CASE at = "findLevel" -> "users.change_role" [] at = "findBlocked" -> "users.block"
               [] at = "findDelete" -> "users.delete"
Target(s) == account[req[s].user]

\* The user as findById reads it must make the change a change.
FindUser(s) ==
    /\ req[s].at \in {"findLevel", "findBlocked", "findDelete"}
    /\ LET rule == Needs(req[s].at)
           fits == /\ Target(s) # None
                   /\ req[s].at = "findLevel" => Target(s).level # req[s].level
                   /\ req[s].at = "findBlocked" => Target(s).blocked # req[s].blocked
       IN  \/ /\ May(s, rule) /\ fits
              /\ Goto(s, CASE req[s].at = "findLevel" -> "level" [] req[s].at = "findBlocked" -> "blocked"
                             [] OTHER -> "delete")
           \/ /\ Denied(s, rule) \/ ~fits
              /\ End(s)
    /\ UNCHANGED <<override, account, badge, sheet, row, asked, touched>>

\* UPDATE users, whatever the row has become since; then the page goes on to the next
\* change, or shows the row it was given.
Update(s, field, value, next) ==
    IF Target(s) = None THEN End(s) /\ UNCHANGED <<account, row>>
    ELSE LET u == req[s].user
         IN  /\ account' = [account EXCEPT ![u][field] = value]
             /\ IF next = "free" THEN End(s) /\ row' = [row EXCEPT ![s][u] = account'[u]]
                ELSE Goto(s, next) /\ UNCHANGED row

ChangeRole(s) ==
    /\ req[s].at = "level"
    /\ Update(s, "level", req[s].level, IF req[s].blocked = None THEN "free" ELSE "findBlocked")
    /\ UNCHANGED <<override, badge, sheet, asked, touched>>

SetBlocked(s) ==
    /\ req[s].at = "blocked"
    /\ Update(s, "blocked", req[s].blocked, "free")
    /\ UNCHANGED <<override, badge, sheet, asked, touched>>

DeleteUser(s) ==
    /\ req[s].at = "delete"
    /\ IF Target(s) = None THEN UNCHANGED <<account, row>>
       ELSE /\ account' = [account EXCEPT ![req[s].user] = None]
            /\ row' = [row EXCEPT ![s][req[s].user] = None]
    /\ End(s)
    /\ UNCHANGED <<override, badge, sheet, asked, touched>>

\* Signing in again puts the role of the account into the cookie; nothing else does.
SignInAgain(s) ==
    /\ Free(s)
    /\ badge' = [badge EXCEPT ![s] = IF account[s] = None THEN None ELSE account[s].level]
    /\ UNCHANGED <<override, account, sheet, row, req, asked, touched>>

-----------------------------------------------------------------------------
Init ==
    /\ override = Nothing
    /\ account \in [Staff -> [level : Levels, blocked : {FALSE}]]
    /\ badge = [s \in Staff |-> account[s].level]
    /\ sheet = [s \in Staff |-> [rules |-> DefaultLevel, initial |-> DefaultLevel]]
    /\ row = [s \in Staff |-> [u \in Staff |-> None]]
    /\ req = [s \in Staff |-> Quiet] /\ asked = 0
    /\ touched = [s \in Staff |-> {}]

Next == \E s \in Staff :
    \/ OpenRules(s) \/ SaveRules(s) \/ CheckRules(s) \/ RulesSaved(s) \/ RulesRefused(s)
    \/ \E k \in Rules : UpsertRule(s, k) \/ \E l \in Levels : UpdateRule(s, k, l)
    \/ OpenUsers(s) \/ FindUser(s) \/ ChangeRole(s) \/ SetBlocked(s) \/ DeleteUser(s) \/ SignInAgain(s)
    \/ \E u \in Staff : AskDelete(s, u) \/ \E l \in Levels, b \in BOOLEAN : SaveUser(s, u, l, b)

Spec == Init /\ [][Next]_vars

-----------------------------------------------------------------------------
\* Two administrators at work at once do not undo each other's changes: a rule changes
\* only when the administrator who saves has chosen a role for it, and a role or a block
\* of a user only to what the administrator who saves did not already see.
OnlyWhatWasChosen ==
    [][ /\ \A k \in Rules : override'[k] # override[k] =>
             \E s \in Staff : k \in req[s].left /\ k \in touched[s]
        /\ \A u \in Staff : account'[u] # account[u] /\ account'[u] # None =>
             \E s \in Staff : /\ req[s].user = u
                              /\ \A f \in {"level", "blocked"} : account'[u][f] # account[u][f] =>
                                    row[s][u][f] # account'[u][f]
      ]_vars
=============================================================================
