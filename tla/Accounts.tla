------------------------------ MODULE Accounts ------------------------------
(***************************************************************************)
(* Accounts of the backend: sign-in through a provider, registration and   *)
(* login with a password, linking and disconnecting a provider, deletion   *)
(* by an administrator (backend/src/modules/auth, modules/users,           *)
(* modules/admin/users).  Requests run at once; each action is one         *)
(* statement of a PostgreSQL transaction, or the end of a request.         *)
(*                                                                         *)
(* PostgreSQL, at READ COMMITTED: a statement sees what is committed when  *)
(* it starts; an INSERT that meets a uniquely indexed value another        *)
(* transaction has inserted and not committed waits for it; a transaction  *)
(* whose statement failed can only be rolled back.  The statement that     *)
(* ends a transaction is modelled together with its COMMIT, for its effect *)
(* shows only then: what stays uncommitted between two actions is a new    *)
(* row of users (draft) and the row locks of SELECT ... FOR UPDATE (locks).*)
(***************************************************************************)
EXTENDS Naturals, FiniteSets

CONSTANTS Requests,    \* HTTP requests; one creates at most one user
          Browsers,    \* each keeps one session cookie
          Identities,  \* accounts at the providers
          Emails,
          Names,       \* stems of user names
          Suffixes,    \* highest suffix generateUsername tries (20)
          ProviderOf,  \* identity -> provider
          EmailOf,     \* identity -> e-mail of its profile
          LoginOf,     \* identity -> user name in its profile (GitHub), or None
          StemOf,      \* e-mail -> stem made from the display name
          Old,         \* ids of the users there are at first
          None

Providers == {ProviderOf[i] : i \in Identities}

Ops == {"signin", "register", "login", "link", "disconnect", "delete", "me"}

ASSUME AccountsAssumption ==
    /\ ProviderOf \in [Identities -> Providers]
    /\ EmailOf \in [Identities -> Emails]
    /\ LoginOf \in [Identities -> Names \cup {None}]
    /\ StemOf \in [Emails -> Names]
    /\ Suffixes \in Nat
    /\ None \notin Requests \cup Browsers \cup Identities \cup Emails \cup Names \cup Old
    /\ Old \cap Requests = {}

Ids == Old \cup Requests             \* a user's id: the request that made it
UserNames == Names \X (0..Suffixes)

VARIABLES
    users,      \* committed rows of users: [id, email, name]
    accounts,   \* rows of accounts: [user, identity]
    passwords,  \* ids that have a row in credentials
    draft,      \* request -> its uncommitted row of users, or None
    locks,      \* request -> rows of accounts it holds FOR UPDATE
    cookie,     \* browser -> id in its session, or None
    welcomed,   \* id -> welcome e-mails handed to the queue
    req         \* request -> what it asks and how far it is

vars == <<users, accounts, passwords, draft, locks, cookie, welcomed, req>>
tables == <<users, accounts, passwords>>

Row == [id : Ids, email : Emails, name : UserNames]
Account == [user : Ids, identity : Identities]

Request == [op : Ops \cup {None}, at : {"new", "first", "second", "name", "user", "last",
                                        "welcome", "save", "served", "failed"},
            browser : Browsers \cup {None}, identity : Identities \cup {None},
            email : Emails \cup {None}, provider : Providers \cup {None},
            user : Ids \cup {None}, name : UserNames \cup {None}, fresh : BOOLEAN]

Blank == [op |-> None, at |-> "new", browser |-> None, identity |-> None, email |-> None,
          provider |-> None, user |-> None, name |-> None, fresh |-> FALSE]

TypeOK ==
    /\ users \subseteq Row
    /\ accounts \subseteq Account
    /\ passwords \subseteq Ids
    /\ draft \in [Requests -> Row \cup {None}]
    /\ locks \in [Requests -> SUBSET Account]
    /\ cookie \in [Browsers -> Ids \cup {None}]
    /\ welcomed \in [Ids -> Nat]
    /\ req \in [Requests -> Request]

-----------------------------------------------------------------------------
UserIds == {u.id : u \in users}
WithEmail(e) == {u \in users : u.email = e}
Linked(i) == {a \in accounts : a.identity = i}
AccountsOf(u) == {a \in accounts : a.user = u}
ProvidersOf(as) == {ProviderOf[a.identity] : a \in as}

\* The rows a request's own transaction sees.
Visible(r) == users \cup ({draft[r]} \ {None})

Put(r, ask) == req' = [req EXCEPT ![r] = ask]

\* A request that is over forgets what it asked.
Go(r, at) ==
    Put(r, IF at \in {"served", "failed"} THEN [Blank EXCEPT !.op = req[r].op, !.at = at]
           ELSE [req[r] EXCEPT !.at = at])
Fail(r) == /\ Go(r, "failed")
           /\ draft' = [draft EXCEPT ![r] = None]
           /\ locks' = [locks EXCEPT ![r] = {}]
           /\ UNCHANGED <<users, accounts, passwords, cookie, welcomed>>

\* A request arrives with the cookie its browser has at that time.
Arrive(r) ==
    /\ req[r].at = "new"
    /\ \E b \in Browsers :
        LET Ask(o) == [Blank EXCEPT !.op = o, !.at = "first", !.browser = b]
            Begin(ask) == Put(r, ask)
        IN  \/ \E i \in Identities : Begin([Ask("signin") EXCEPT !.identity = i, !.email = EmailOf[i]])
            \/ \E o \in {"register", "login"}, e \in Emails : Begin([Ask(o) EXCEPT !.email = e])
            \/ \E u \in Ids : Begin([Ask("delete") EXCEPT !.user = u])
            \/ /\ cookie[b] # None
               /\ \/ Begin([Ask("me") EXCEPT !.user = cookie[b]])
                  \/ \E i \in Identities : Begin([Ask("link") EXCEPT !.identity = i, !.user = cookie[b]])
                  \/ \E p \in Providers : Begin([Ask("disconnect") EXCEPT !.provider = p, !.user = cookie[b]])
    /\ UNCHANGED <<tables, draft, locks, cookie, welcomed>>

-----------------------------------------------------------------------------
\* AuthController.callback and findOrCreateUser.

Signing(r, at) == req[r].op = "signin" /\ req[r].at = at

FindByProvider(r) ==
    /\ Signing(r, "first")
    /\ IF Linked(req[r].identity) # {}
       THEN \E a \in Linked(req[r].identity) :
              Put(r, [req[r] EXCEPT !.user = a.user, !.at = "save"])
       ELSE Go(r, "second")
    /\ UNCHANGED <<tables, draft, locks, cookie, welcomed>>

\* Mutant: a user found by e-mail counts as new.
FindByEmailAsNew(r) ==
    /\ Signing(r, "second")
    /\ \/ \E u \in WithEmail(req[r].email) :
             Put(r, [req[r] EXCEPT !.user = u.id, !.fresh = TRUE, !.at = "last"])
       \/ WithEmail(req[r].email) = {} /\ Go(r, "name")
    /\ UNCHANGED <<tables, draft, locks, cookie, welcomed>>

FindByEmail(r) ==
    /\ Signing(r, "second")
    /\ \/ \E u \in WithEmail(req[r].email) :
             Put(r, [req[r] EXCEPT !.user = u.id, !.at = "last"])
       \/ WithEmail(req[r].email) = {} /\ Go(r, "name")
    /\ UNCHANGED <<tables, draft, locks, cookie, welcomed>>

\* generateUsername: the first free name of the stem; when none is free, one at random.
FreeNames(r, stem) == {n \in {stem} \X (0..Suffixes) : \A u \in users : u.name # n}

Generated(r, stem) ==
    IF FreeNames(r, stem) = {} THEN {stem} \X (0..Suffixes)
    ELSE {n \in FreeNames(r, stem) : \A k \in FreeNames(r, stem) : n[2] <= k[2]}

\* A profile's own user name is taken as it is.
ChooseName(r) ==
    /\ req[r].op \in {"signin", "register"} /\ req[r].at = "name"
    /\ LET login == IF req[r].op = "signin" THEN LoginOf[req[r].identity] ELSE None
       IN  \E n \in (IF login = None THEN Generated(r, StemOf[req[r].email]) ELSE {<<login, 0>>}) :
              Put(r, [req[r] EXCEPT !.name = n, !.at = "user"])
    /\ UNCHANGED <<tables, draft, locks, cookie, welcomed>>

Clash(u, v) == u.email = v.email \/ u.name = v.name

\* INSERT INTO users under the unique indexes of user name and e-mail.  createUser and
\* createAccount look for code 23505 in the error, which drizzle wraps: every conflict
\* reaches the transaction as an error and rolls it back.
InsertUser(r) ==
    LET row == [id |-> r, email |-> req[r].email, name |-> req[r].name]
    IN  /\ req[r].op \in {"signin", "register"} /\ req[r].at = "user"
        /\ \A q \in Requests \ {r} : draft[q] # None => ~Clash(row, draft[q])
        /\ IF \E u \in users : Clash(row, u) THEN Fail(r)
           ELSE /\ draft' = [draft EXCEPT ![r] = row]
                /\ Put(r, [req[r] EXCEPT !.user = r, !.fresh = TRUE, !.at = "last"])
                /\ UNCHANGED <<tables, locks, cookie, welcomed>>

\* Mutant: a draft that is not there is committed.
CommitDraft(r) == /\ users' = users \cup {draft[r]}
             /\ draft' = [draft EXCEPT ![r] = None]

Commit(r) == /\ users' = Visible(r)
             /\ draft' = [draft EXCEPT ![r] = None]

AccountRow(r) == [user |-> req[r].user, identity |-> req[r].identity]

\* createAccount: the identity is still free and the user still there.
MayInsertAccount(r) == /\ Linked(req[r].identity) = {}
                       /\ \E u \in Visible(r) : u.id = req[r].user

CreateAccount(r) ==
    /\ Signing(r, "last")
    /\ IF MayInsertAccount(r)
       THEN /\ Commit(r)
            /\ accounts' = accounts \cup {AccountRow(r)}
            /\ Go(r, IF req[r].fresh THEN "welcome" ELSE "save")
            /\ UNCHANGED <<passwords, locks, cookie, welcomed>>
       ELSE Fail(r)

\* The welcome e-mail of a new user; a failure to queue it is logged and dropped.
Welcome(r) ==
    /\ req[r].at = "welcome"
    /\ \/ welcomed' = [welcomed EXCEPT ![req[r].user] = @ + 1]
       \/ UNCHANGED welcomed
    /\ Go(r, "save")
    /\ UNCHANGED <<tables, draft, locks, cookie>>

\* The answer carries the session; the browser replaces the cookie it has by then.
SaveSession(r) ==
    /\ req[r].at = "save"
    /\ cookie' = [cookie EXCEPT ![req[r].browser] = req[r].user]
    /\ Go(r, "served")
    /\ UNCHANGED <<tables, draft, locks, welcomed>>

-----------------------------------------------------------------------------
\* CredentialsService.

\* register: neither a credential nor a user has the e-mail; then the password is hashed.
CheckCredential(r) ==
    /\ req[r].op = "register" /\ req[r].at = "first"
    /\ Go(r, IF \E u \in WithEmail(req[r].email) : u.id \in passwords THEN "failed" ELSE "second")
    /\ UNCHANGED <<tables, draft, locks, cookie, welcomed>>

CheckUser(r) ==
    /\ req[r].op = "register" /\ req[r].at = "second"
    /\ Go(r, IF WithEmail(req[r].email) # {} THEN "failed" ELSE "name")
    /\ UNCHANGED <<tables, draft, locks, cookie, welcomed>>

\* The rows of credentials and user_preferences, and the commit of all three.
InsertCredential(r) ==
    /\ req[r].op = "register" /\ req[r].at = "last"
    /\ Commit(r)
    /\ passwords' = passwords \cup {r}
    /\ Go(r, "welcome")
    /\ UNCHANGED <<accounts, locks, cookie, welcomed>>

\* login: the credential of the e-mail, the password, then the user of the credential.
FindCredential(r) ==
    /\ req[r].op = "login" /\ req[r].at = "first"
    /\ \/ \E u \in WithEmail(req[r].email) : /\ u.id \in passwords
                                             /\ Put(r, [req[r] EXCEPT !.user = u.id, !.at = "last"])
       \/ Go(r, "failed")   \* no credential, or another password
    /\ UNCHANGED <<tables, draft, locks, cookie, welcomed>>

FindUser(r) ==
    /\ req[r].op = "login" /\ req[r].at = "last"
    /\ Go(r, IF req[r].user \in UserIds THEN "save" ELSE "failed")
    /\ UNCHANGED <<tables, draft, locks, cookie, welcomed>>

\* me: a session whose user is gone is destroyed.
Me(r) ==
    /\ req[r].op = "me" /\ req[r].at = "first"
    /\ IF req[r].user \in UserIds THEN Go(r, "served") /\ UNCHANGED cookie
       ELSE Go(r, "failed") /\ cookie' = [cookie EXCEPT ![req[r].browser] = None]
    /\ UNCHANGED <<tables, draft, locks, welcomed>>

-----------------------------------------------------------------------------
\* linkProviderToUser, two statements outside a transaction.
FindLinked(r) ==
    /\ req[r].op = "link" /\ req[r].at = "first"
    /\ Go(r, IF Linked(req[r].identity) = {} THEN "last"
             ELSE IF AccountRow(r) \in accounts THEN "served" ELSE "failed")
    /\ UNCHANGED <<tables, draft, locks, cookie, welcomed>>

InsertLink(r) ==
    /\ req[r].op = "link" /\ req[r].at = "last"
    /\ IF MayInsertAccount(r)
       THEN /\ accounts' = accounts \cup {AccountRow(r)}
            /\ Go(r, "served")
            /\ UNCHANGED <<users, passwords, draft, locks, cookie, welcomed>>
       ELSE Fail(r)

\* Mutant: the accounts are read without FOR UPDATE, so nobody holds any.
Unheld(r, rows) == FALSE

\* SELECT ... FOR UPDATE waits for the requests that hold one of the rows.
Held(r, rows) == \E q \in Requests \ {r} : locks[q] \cap rows # {}

\* disconnectProvider: lock the user's accounts, then look for a password.
LockAccounts(r) ==
    /\ req[r].op = "disconnect" /\ req[r].at = "first"
    /\ ~Held(r, AccountsOf(req[r].user))
    /\ locks' = [locks EXCEPT ![r] = AccountsOf(req[r].user)]
    /\ Go(r, "last")
    /\ UNCHANGED <<tables, draft, cookie, welcomed>>

Remaining(r) == ProvidersOf(locks[r]) \ {req[r].provider}

\* The last method of signing in stays; else the provider's accounts are deleted.
Disconnect(r) ==
    /\ req[r].op = "disconnect" /\ req[r].at = "last"
    /\ IF Remaining(r) = {} /\ req[r].user \notin passwords THEN Fail(r)
       ELSE LET mine == {a \in AccountsOf(req[r].user) : ProviderOf[a.identity] = req[r].provider}
            IN  /\ ~Held(r, mine)
                /\ accounts' = accounts \ mine
                /\ locks' = [locks EXCEPT ![r] = {}]
                /\ Go(r, "served")
                /\ UNCHANGED <<users, passwords, draft, cookie, welcomed>>

\* An administrator deletes a user: found first, then deleted with all that refers to it.
FindDeleted(r) ==
    /\ req[r].op = "delete" /\ req[r].at = "first"
    /\ Go(r, IF req[r].user \in UserIds THEN "last" ELSE "failed")
    /\ UNCHANGED <<tables, draft, locks, cookie, welcomed>>

DeleteUser(r) ==
    /\ req[r].op = "delete" /\ req[r].at = "last"
    /\ ~Held(r, AccountsOf(req[r].user))
    /\ IF req[r].user \in UserIds
       THEN /\ users' = {u \in users : u.id # req[r].user}
            /\ accounts' = accounts \ AccountsOf(req[r].user)
            /\ passwords' = passwords \ {req[r].user}
            /\ Go(r, "served")
            /\ UNCHANGED <<draft, locks, cookie, welcomed>>
       ELSE Fail(r)

-----------------------------------------------------------------------------
Init ==
    /\ users \in {s \in SUBSET Row : /\ {u.id : u \in s} = Old
                                     /\ \A u, v \in s : u # v => u.id # v.id /\ ~Clash(u, v)}
    /\ accounts \in {s \in SUBSET [user : Old, identity : Identities] :
                        \A a, b \in s : a.identity = b.identity => a = b}
    /\ passwords \in SUBSET Old
    /\ \A u \in Old : AccountsOf(u) # {} \/ u \in passwords
    /\ draft = [r \in Requests |-> None]
    /\ locks = [r \in Requests |-> {}]
    /\ cookie \in [Browsers -> Old \cup {None}]
    /\ welcomed = [u \in Ids |-> 0]
    /\ req = [r \in Requests |-> Blank]

Step(r) ==
    \/ FindByProvider(r) \/ FindByEmail(r) \/ ChooseName(r) \/ InsertUser(r) \/ CreateAccount(r)
    \/ Welcome(r) \/ SaveSession(r)
    \/ CheckCredential(r) \/ CheckUser(r) \/ InsertCredential(r)
    \/ FindCredential(r) \/ FindUser(r) \/ Me(r)
    \/ FindLinked(r) \/ InsertLink(r)
    \/ LockAccounts(r) \/ Disconnect(r)
    \/ FindDeleted(r) \/ DeleteUser(r)

Next == \E r \in Requests : Arrive(r) \/ Step(r)

Spec == Init /\ [][Next]_vars

-----------------------------------------------------------------------------
\* Whatever requests run at once, a user that exists can sign in: disconnectProvider
\* never takes the last account of a user without a password, and no new user is
\* committed before its account or its password.
EveryUserCanSignIn ==
    \A u \in users : AccountsOf(u.id) # {} \/ u.id \in passwords

\* The welcome e-mail goes out at most once for a user, and only to users that were
\* created by a sign-in or a registration (findOrCreateUser's isNewUser).
WelcomedOnce ==
    \A u \in Ids : welcomed[u] <= (IF u \in Old THEN 0 ELSE 1)

=============================================================================
