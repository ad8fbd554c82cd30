--------------------------- MODULE UserProofs ---------------------------
(***************************************************************************)
(* Proofs about what a user of the backend meets, for any set of requests, *)
(* browsers, identities, links, jobs and profiles.  Accounts: its types,   *)
(* that every user can sign in, and that a new user is welcomed once.      *)
(* SavedJobs: that the history of a saved job explains its status.         *)
(* PagedSearch: that a page put together batch by batch is the page asked  *)
(* for, and that the next page repeats none of its jobs.                   *)
(***************************************************************************)
EXTENDS MCBackend, Sequences, FiniteSetTheorems, TLAPS

\* A request carries what its next statements read.
Asks(q) ==
    /\ q.op \in {"signin", "register", "login"} => q.email \in Emails
    /\ q.op \in {"signin", "link"} => q.identity \in Identities
    /\ q.op = "link" \/ (q.op = "signin" /\ q.at = "last") => q.user \in Ids
    /\ q.at = "user" => q.name \in UserNames
KnowsWhatItNeeds(r) == req[r].at \notin {"new", "served", "failed"} => Asks(req[r])

\* Only a request about to commit has an uncommitted user, its own.
DraftIsOwn(r) ==
    draft[r] # None => /\ draft[r].id = r /\ req[r].user = r /\ req[r].at = "last"
                       /\ req[r].op \in {"signin", "register"}

\* A registration commits what it inserted.
RegistersOwn(r) == req[r].op = "register" /\ req[r].at = "last" => req[r].user = r /\ req[r].fresh

\* A request that calls its user new has made it, and has not welcomed it before.
FreshIsOwn(r) ==
    /\ req[r].fresh => req[r].user = r /\ req[r].at \in {"last", "welcome", "save"}
    /\ req[r].at = "welcome" => req[r].fresh
    /\ welcomed[r] # 0 => welcomed[r] = 1 /\ req[r].at \in {"save", "served"}

OwnInv(r) == KnowsWhatItNeeds(r) /\ DraftIsOwn(r) /\ RegistersOwn(r) /\ FreshIsOwn(r)

\* The rows a disconnection has locked are still there, and its user's.
LocksStand(r) ==
    /\ locks[r] \subseteq accounts
    /\ locks[r] # {} => req[r].op = "disconnect" /\ req[r].at = "last"
    /\ \A a \in locks[r] : a.user = req[r].user

OldAreNotWelcomed == \A u \in Old : welcomed[u] = 0

IInv ==
    /\ TypeOK
    /\ \A r \in Requests : OwnInv(r) /\ LocksStand(r)
    /\ OldAreNotWelcomed
    /\ EveryUserCanSignIn

-----------------------------------------------------------------------------
\* A request that moves on keeps its shape, and leaves the others alone.
LEMMA PutTypes ==
    ASSUME TypeOK, NEW r \in Requests, NEW query \in Request, Put(r, query)
    PROVE  /\ req' \in [Requests -> Request] /\ req'[r] = query
           /\ \A q \in Requests \ {r} : req'[q] = req[q]
BY DEF TypeOK, Put

\* One that is over has nothing left of what it asked.
LEMMA GoTypes ==
    ASSUME TypeOK, NEW r \in Requests,
           NEW stage \in {"first", "second", "name", "user", "last", "welcome", "save", "served", "failed"},
           Go(r, stage)
    PROVE  /\ req' \in [Requests -> Request]
           /\ \A q \in Requests \ {r} : req'[q] = req[q]
           /\ req'[r].at = stage /\ req'[r].op = req[r].op
           /\ stage \in {"served", "failed"} => req'[r].fresh = FALSE
           /\ stage \notin {"served", "failed"} => /\ req'[r].user = req[r].user /\ req'[r].fresh = req[r].fresh
                                              /\ req'[r].email = req[r].email
                                              /\ req'[r].identity = req[r].identity
<1>1. CASE stage \in {"served", "failed"}
  <2> DEFINE over == [Blank EXCEPT !.op = req[r].op, !.at = stage]
  <2>1. over \in Request
    BY <1>1 DEF TypeOK, Request, Blank
  <2>2. over.fresh = FALSE /\ over.op = req[r].op /\ over.at = stage
    BY DEF Blank
  <2>3. Put(r, over)
    BY <1>1 DEF Go
  <2> HIDE DEF over
  <2> QED
    BY <2>1, <2>2, <2>3, <1>1, PutTypes
<1>2. CASE stage \notin {"served", "failed"}
  <2> DEFINE next == [req[r] EXCEPT !.at = stage]
  <2>1. /\ next \in Request /\ next.at = stage /\ next.op = req[r].op
        /\ next.user = req[r].user /\ next.fresh = req[r].fresh
        /\ next.email = req[r].email /\ next.identity = req[r].identity
    BY DEF TypeOK, Request
  <2>2. Put(r, next)
    BY <1>2 DEF Go
  <2> HIDE DEF next
  <2> QED
    BY <2>1, <2>2, <1>2, PutTypes
<1> QED
  BY <1>1, <1>2

\* A request that has found its user.
LEMMA TakesUser ==
    ASSUME TypeOK, NEW r \in Requests, NEW u \in Ids, NEW stage \in {"last", "save"},
           Put(r, [req[r] EXCEPT !.user = u, !.at = stage])
    PROVE  /\ req' \in [Requests -> Request]
           /\ \A q \in Requests \ {r} : req'[q] = req[q]
           /\ req'[r].op = req[r].op /\ req'[r].email = req[r].email /\ req'[r].identity = req[r].identity
           /\ req'[r].at = stage /\ req'[r].user = u /\ req'[r].fresh = req[r].fresh
<1> DEFINE query == [req[r] EXCEPT !.user = u, !.at = stage]
<1>1. req[r] \in Request
  BY DEF TypeOK
<1>2. /\ query \in Request
      /\ query.op = req[r].op /\ query.email = req[r].email /\ query.identity = req[r].identity
      /\ query.at = stage /\ query.user = u /\ query.fresh = req[r].fresh
  BY <1>1 DEF Request
<1>3. Put(r, query)
  OBVIOUS
<1> HIDE DEF query
<1> QED
  BY <1>2, <1>3, PutTypes

\* One that has chosen a name.
LEMMA TakesName ==
    ASSUME TypeOK, NEW r \in Requests, NEW n \in UserNames,
           Put(r, [req[r] EXCEPT !.name = n, !.at = "user"])
    PROVE  /\ req' \in [Requests -> Request]
           /\ \A q \in Requests \ {r} : req'[q] = req[q]
           /\ req'[r].op = req[r].op /\ req'[r].email = req[r].email /\ req'[r].identity = req[r].identity
           /\ req'[r].at = "user" /\ req'[r].name = n /\ req'[r].user = req[r].user /\ req'[r].fresh = req[r].fresh
<1> DEFINE query == [req[r] EXCEPT !.name = n, !.at = "user"]
<1>1. req[r] \in Request
  BY DEF TypeOK
<1>2. /\ query \in Request
      /\ query.op = req[r].op /\ query.email = req[r].email /\ query.identity = req[r].identity
      /\ query.at = "user" /\ query.name = n /\ query.user = req[r].user /\ query.fresh = req[r].fresh
  BY <1>1 DEF Request
<1>3. Put(r, query)
  OBVIOUS
<1> HIDE DEF query
<1> QED
  BY <1>2, <1>3, PutTypes

\* One that has made its user.
LEMMA TakesOwn ==
    ASSUME TypeOK, NEW r \in Requests, r \in Ids,
           Put(r, [req[r] EXCEPT !.user = r, !.fresh = TRUE, !.at = "last"])
    PROVE  /\ req' \in [Requests -> Request]
           /\ \A q \in Requests \ {r} : req'[q] = req[q]
           /\ req'[r].op = req[r].op /\ req'[r].email = req[r].email /\ req'[r].identity = req[r].identity
           /\ req'[r].at = "last" /\ req'[r].user = r /\ req'[r].fresh
<1> DEFINE query == [req[r] EXCEPT !.user = r, !.fresh = TRUE, !.at = "last"]
<1>1. req[r] \in Request
  BY DEF TypeOK
<1>2. /\ query \in Request
      /\ query.op = req[r].op /\ query.email = req[r].email /\ query.identity = req[r].identity
      /\ query.at = "last" /\ query.user = r /\ query.fresh
  BY <1>1 DEF Request
<1>3. Put(r, query)
  OBVIOUS
<1> HIDE DEF query
<1> QED
  BY <1>2, <1>3, PutTypes

LEMMA InitInvariant == Init => IInv
<1> SUFFICES ASSUME Init PROVE IInv
  OBVIOUS
<1> USE DEF Init
<1>1. TypeOK
  BY DEF TypeOK, Blank, Request, Ids, Account, Row
<1>2. ASSUME NEW r \in Requests PROVE OwnInv(r) /\ LocksStand(r)
  BY DEF OwnInv, KnowsWhatItNeeds, DraftIsOwn, RegistersOwn, FreshIsOwn, LocksStand, Blank, Ids
<1>3. OldAreNotWelcomed
  BY DEF OldAreNotWelcomed, Ids
<1>4. EveryUserCanSignIn
  BY DEF EveryUserCanSignIn
<1> QED
  BY <1>1, <1>2, <1>3, <1>4 DEF IInv

-----------------------------------------------------------------------------
\* A request arrives as one that has made nothing yet.
LEMMA ArriveTypes ==
    ASSUME TypeOK, NEW r \in Requests, Arrive(r)
    PROVE  /\ TypeOK' /\ req'[r].at = "first" /\ req'[r].fresh = FALSE /\ Asks(req'[r])
           /\ \A q \in Requests \ {r} : req'[q] = req[q]
<1> DEFINE Ask(b, o) == [Blank EXCEPT !.op = o, !.at = "first", !.browser = b]
<1> DEFINE Fine(x) == x \in Request /\ x.at = "first" /\ x.fresh = FALSE /\ Asks(x)
<1> DEFINE Goal == /\ req' \in [Requests -> Request] /\ req'[r].at = "first" /\ req'[r].fresh = FALSE /\ Asks(req'[r])
                   /\ \A q \in Requests \ {r} : req'[q] = req[q]
<1>10. SUFFICES Goal
  BY DEF Arrive, TypeOK, tables
<1>1. ASSUME NEW query, Fine(query), Put(r, query) PROVE Goal
  BY SMTT(60), <1>1, PutTypes
<1>2. PICK b \in Browsers :
        \/ \E i \in Identities : Put(r, [Ask(b, "signin") EXCEPT !.identity = i, !.email = EmailOf[i]])
        \/ \E o \in {"register", "login"}, e \in Emails : Put(r, [Ask(b, o) EXCEPT !.email = e])
        \/ \E u \in Ids : Put(r, [Ask(b, "delete") EXCEPT !.user = u])
        \/ Put(r, [Ask(b, "me") EXCEPT !.user = cookie[b]])
        \/ cookie[b] # None /\ \E i \in Identities : Put(r, [Ask(b, "link") EXCEPT !.identity = i, !.user = cookie[b]])
        \/ \E p \in Providers : Put(r, [Ask(b, "disconnect") EXCEPT !.provider = p, !.user = cookie[b]])
  BY DEF Arrive
<1>3. cookie[b] \in Ids \cup {None}
  BY DEF TypeOK
<1>4. CASE \E i \in Identities : Put(r, [Ask(b, "signin") EXCEPT !.identity = i, !.email = EmailOf[i]])
  <2>1. PICK i \in Identities : Put(r, [Ask(b, "signin") EXCEPT !.identity = i, !.email = EmailOf[i]])
    BY <1>4
  <2> DEFINE query == [Ask(b, "signin") EXCEPT !.identity = i, !.email = EmailOf[i]]
  <2>2. Fine(query)
    BY <1>3, AccountsAssumption DEF Request, Blank, Ops, Asks
  <2>3. Put(r, query)
    BY <2>1
  <2> HIDE DEF query, Fine, Goal
  <2> QED
    BY <1>1, <2>2, <2>3
<1>5. CASE \E o \in {"register", "login"}, e \in Emails : Put(r, [Ask(b, o) EXCEPT !.email = e])
  <2>1. PICK o \in {"register", "login"}, e \in Emails : Put(r, [Ask(b, o) EXCEPT !.email = e])
    BY <1>5
  <2> DEFINE query == [Ask(b, o) EXCEPT !.email = e]
  <2>2. Fine(query)
    BY <1>3 DEF Request, Blank, Ops, Asks
  <2>3. Put(r, query)
    BY <2>1
  <2> HIDE DEF query, Fine, Goal
  <2> QED
    BY <1>1, <2>2, <2>3
<1>6. CASE \E u \in Ids : Put(r, [Ask(b, "delete") EXCEPT !.user = u])
  <2>1. PICK u \in Ids : Put(r, [Ask(b, "delete") EXCEPT !.user = u])
    BY <1>6
  <2> DEFINE query == [Ask(b, "delete") EXCEPT !.user = u]
  <2>2. Fine(query)
    BY <1>3 DEF Request, Blank, Ops, Asks
  <2>3. Put(r, query)
    BY <2>1
  <2> HIDE DEF query, Fine, Goal
  <2> QED
    BY <1>1, <2>2, <2>3
<1>7. CASE Put(r, [Ask(b, "me") EXCEPT !.user = cookie[b]])
  <2>1. Put(r, [Ask(b, "me") EXCEPT !.user = cookie[b]])
    BY <1>7
  <2> DEFINE query == [Ask(b, "me") EXCEPT !.user = cookie[b]]
  <2>2. Fine(query)
    BY <1>3 DEF Request, Blank, Ops, Asks
  <2>3. Put(r, query)
    BY <2>1
  <2> HIDE DEF query, Fine, Goal
  <2> QED
    BY <1>1, <2>2, <2>3
<1>8. CASE cookie[b] # None /\ \E i \in Identities : Put(r, [Ask(b, "link") EXCEPT !.identity = i, !.user = cookie[b]])
  <2>0. cookie[b] \in Ids
    BY <1>3, <1>8
  <2>1. PICK i \in Identities : Put(r, [Ask(b, "link") EXCEPT !.identity = i, !.user = cookie[b]])
    BY <1>8
  <2> DEFINE query == [Ask(b, "link") EXCEPT !.identity = i, !.user = cookie[b]]
  <2>2. Fine(query)
    BY <2>0 DEF Request, Blank, Ops, Asks
  <2>3. Put(r, query)
    BY <2>1
  <2> HIDE DEF query, Fine, Goal
  <2> QED
    BY <1>1, <2>2, <2>3
<1>9. CASE \E p \in Providers : Put(r, [Ask(b, "disconnect") EXCEPT !.provider = p, !.user = cookie[b]])
  <2>1. PICK p \in Providers : Put(r, [Ask(b, "disconnect") EXCEPT !.provider = p, !.user = cookie[b]])
    BY <1>9
  <2> DEFINE query == [Ask(b, "disconnect") EXCEPT !.provider = p, !.user = cookie[b]]
  <2>2. Fine(query)
    BY <1>3 DEF Request, Blank, Ops, Asks
  <2>3. Put(r, query)
    BY <2>1
  <2> HIDE DEF query, Fine, Goal
  <2> QED
    BY <1>1, <2>2, <2>3
<1> HIDE DEF Ask, Fine, Goal
<1> QED
  BY <1>2, <1>4, <1>5, <1>6, <1>7, <1>8, <1>9

\* generateUsername finds a name, or takes one at random.
LEMMA NameIsChosen ==
    ASSUME TypeOK, NEW r \in Requests, KnowsWhatItNeeds(r), ChooseName(r)
    PROVE  \E n \in UserNames : Put(r, [req[r] EXCEPT !.name = n, !.at = "user"])
<1>1. Asks(req[r])
  BY DEF KnowsWhatItNeeds, ChooseName
<1>2. ASSUME NEW root \in Names PROVE Generated(r, root) \subseteq UserNames
  BY DEF Generated, FreeNames, UserNames
<1>3. StemOf[req[r].email] \in Names
  BY <1>1, AccountsAssumption DEF Asks, ChooseName
<1> DEFINE login == IF req[r].op = "signin" THEN LoginOf[req[r].identity] ELSE None
<1>4. login # None => login \in Names
  BY <1>1, AccountsAssumption DEF Asks
<1>5. (IF login = None THEN Generated(r, StemOf[req[r].email]) ELSE {<<login, 0>>}) \subseteq UserNames
  BY <1>2, <1>3, <1>4, AccountsAssumption DEF UserNames
<1>6. \E n \in (IF login = None THEN Generated(r, StemOf[req[r].email]) ELSE {<<login, 0>>}) :
        Put(r, [req[r] EXCEPT !.name = n, !.at = "user"])
  BY DEF ChooseName
<1> QED
  BY <1>5, <1>6

\* Every statement keeps the types; a commit needs the draft it commits.
LEMMA StepTypes ==
    ASSUME IInv, NEW r \in Requests, Step(r) PROVE TypeOK'
<1> USE DEF IInv
<1>1. CASE FindByProvider(r)
  <2>1. \A a \in accounts : a.user \in Ids
    BY SMTT(40) DEF TypeOK, Account
  <2> QED
    BY <1>1, <2>1, TakesUser, GoTypes DEF FindByProvider, TypeOK, tables, Linked
<1>2. CASE FindByEmail(r) \/ FindCredential(r)
  <2>1. \A u \in users : u.id \in Ids
    BY DEF TypeOK, Row
  <2> QED
    BY <1>2, <2>1, TakesUser, GoTypes DEF FindByEmail, FindCredential, TypeOK, tables, WithEmail
<1>3. CASE ChooseName(r)
  BY <1>3, NameIsChosen, TakesName DEF ChooseName, OwnInv, TypeOK, tables
<1>4. CASE Welcome(r)
  <2>1. req' \in [Requests -> Request]
    BY <1>4, GoTypes DEF Welcome
  <2>2. welcomed' \in [Ids -> Nat]
    BY <1>4 DEF Welcome, TypeOK
  <2> QED
    BY <1>4, <2>1, <2>2 DEF Welcome, TypeOK, tables
<1>5. CASE SaveSession(r)
  <2>1. req' \in [Requests -> Request]
    BY <1>5, GoTypes DEF SaveSession
  <2>2. req[r].user \in Ids \cup {None}
    BY DEF TypeOK, Request
  <2> QED
    BY <1>5, <2>1, <2>2 DEF SaveSession, TypeOK, tables
<1>6. CASE CheckCredential(r) \/ CheckUser(r) \/ FindUser(r) \/ Me(r) \/ FindLinked(r) \/ FindDeleted(r)
  BY <1>6, GoTypes DEF CheckCredential, CheckUser, FindUser, Me, FindLinked, FindDeleted, TypeOK, tables
<1>7. CASE LockAccounts(r) \/ Disconnect(r) \/ DeleteUser(r)
  BY <1>7, GoTypes DEF LockAccounts, Disconnect, DeleteUser, Fail, TypeOK, tables, AccountsOf
<1>8. CASE InsertUser(r)
  <2>1. Asks(req[r]) /\ r \in Ids
    BY <1>8 DEF OwnInv, KnowsWhatItNeeds, InsertUser, Ids
  <2> DEFINE line == [id |-> r, email |-> req[r].email, name |-> req[r].name]
  <2>2. line \in Row
    BY <1>8, <2>1 DEF Asks, Row, InsertUser
  <2>3. CASE Fail(r)
    BY <2>3, GoTypes DEF Fail, TypeOK, tables
  <2>4. CASE /\ draft' = [draft EXCEPT ![r] = line] /\ UNCHANGED <<tables, locks, cookie, welcomed>>
             /\ Put(r, [req[r] EXCEPT !.user = r, !.fresh = TRUE, !.at = "last"])
    <3>1. req' \in [Requests -> Request]
      BY <2>1, <2>4, TakesOwn
    <3> QED
      BY <2>2, <2>4, <3>1 DEF TypeOK, tables
  <2> QED
    BY <1>8, <2>3, <2>4 DEF InsertUser
<1>9. CASE CreateAccount(r) \/ InsertLink(r)
  <2>1. AccountRow(r) \in Account
    BY <1>9 DEF OwnInv, KnowsWhatItNeeds, Asks, CreateAccount, Signing, InsertLink, AccountRow, Account
  <2>2. Visible(r) \subseteq Row
    BY DEF Visible, TypeOK
  <2> QED
    BY <1>9, <2>1, <2>2, GoTypes DEF CreateAccount, InsertLink, Commit, Fail, TypeOK
<1>10. CASE InsertCredential(r)
  <2>1. Visible(r) \subseteq Row /\ r \in Ids
    BY DEF Visible, TypeOK, Ids
  <2> QED
    BY <1>10, <2>1, GoTypes DEF InsertCredential, Commit, TypeOK
<1> QED
  BY SMTT(60), <1>1, <1>2, <1>3, <1>4, <1>5, <1>6, <1>7, <1>8, <1>9, <1>10 DEF Step

\* What a statement leaves of the other requests: all of it; the welcome goes to the
\* user the request has made.
LEMMA OthersStay ==
    ASSUME IInv, NEW r \in Requests, Step(r), NEW q \in Requests \ {r}
    PROVE  req'[q] = req[q] /\ draft'[q] = draft[q] /\ locks'[q] = locks[q] /\ welcomed'[q] = welcomed[q]
<1> USE DEF IInv
<1>1. CASE FindByProvider(r)
  <2>1. \A a \in accounts : a.user \in Ids
    BY DEF TypeOK, Account
  <2> QED
    BY <1>1, <2>1, TakesUser, GoTypes DEF FindByProvider, Linked
<1>2. CASE FindByEmail(r) \/ FindCredential(r)
  <2>1. \A u \in users : u.id \in Ids
    BY DEF TypeOK, Row
  <2> QED
    BY <1>2, <2>1, TakesUser, GoTypes DEF FindByEmail, FindCredential, WithEmail
<1>3. CASE ChooseName(r)
  BY <1>3, NameIsChosen, TakesName DEF ChooseName, OwnInv
<1>4. CASE Welcome(r)
  <2>1. req[r].user = r
    BY <1>4 DEF Welcome, OwnInv, FreshIsOwn
  <2> QED
    BY <1>4, <2>1, GoTypes DEF Welcome, TypeOK, Ids
<1>5. CASE SaveSession(r) \/ CheckCredential(r) \/ CheckUser(r) \/ FindUser(r) \/ Me(r) \/ FindLinked(r) \/ FindDeleted(r)
  BY <1>5, GoTypes DEF SaveSession, CheckCredential, CheckUser, FindUser, Me, FindLinked, FindDeleted
<1>6. CASE LockAccounts(r) \/ Disconnect(r) \/ DeleteUser(r)
  BY <1>6, GoTypes DEF LockAccounts, Disconnect, DeleteUser, Fail, TypeOK
<1>7. CASE InsertUser(r)
  <2> DEFINE line == [id |-> r, email |-> req[r].email, name |-> req[r].name]
  <2>1. CASE Fail(r)
    BY <2>1, GoTypes DEF Fail, TypeOK
  <2>2. CASE /\ draft' = [draft EXCEPT ![r] = line] /\ UNCHANGED <<tables, locks, cookie, welcomed>>
             /\ Put(r, [req[r] EXCEPT !.user = r, !.fresh = TRUE, !.at = "last"])
    BY <2>2, TakesOwn DEF TypeOK, Ids
  <2> QED
    BY <1>7, <2>1, <2>2 DEF InsertUser
<1>8. CASE CreateAccount(r) \/ InsertLink(r) \/ InsertCredential(r)
  BY <1>8, GoTypes DEF CreateAccount, InsertLink, InsertCredential, Commit, Fail, TypeOK
<1> QED
  BY SMTT(60), <1>1, <1>2, <1>3, <1>4, <1>5, <1>6, <1>7, <1>8 DEF Step

\* A request that is over is sound.
LEMMA OverIsSound ==
    ASSUME TypeOK, NEW r \in Requests, OwnInv(r), NEW stage \in {"served", "failed"}, Go(r, stage),
           draft'[r] = None, welcomed'[r] = welcomed[r], welcomed[r] # 0 => stage = "served"
    PROVE  OwnInv(r)'
<1>1. req'[r].at = stage /\ req'[r].fresh = FALSE
  BY GoTypes
<1> QED
  BY <1>1 DEF OwnInv, KnowsWhatItNeeds, DraftIsOwn, RegistersOwn, FreshIsOwn

\* One that goes on is sound, where it has made its user or has none to make.
LEMMA OnIsSound ==
    ASSUME TypeOK, NEW r \in Requests, OwnInv(r), req[r].at \notin {"new", "served", "failed"},
           NEW stage \in {"second", "name", "last", "welcome", "save"}, Go(r, stage),
           draft'[r] = None, welcomed'[r] = welcomed[r], welcomed[r] # 0 => stage = "save",
           stage = "last" => req[r].op \notin {"signin", "register"},
           stage = "welcome" => req[r].fresh,
           req[r].fresh => stage \in {"last", "welcome", "save"}
    PROVE  OwnInv(r)'
<1>1. /\ req'[r].at = stage /\ req'[r].op = req[r].op /\ req'[r].user = req[r].user /\ req'[r].fresh = req[r].fresh
      /\ req'[r].email = req[r].email /\ req'[r].identity = req[r].identity
  BY GoTypes
<1>2. Asks(req[r])
  BY DEF OwnInv, KnowsWhatItNeeds
<1>3. KnowsWhatItNeeds(r)'
  BY <1>1, <1>2 DEF KnowsWhatItNeeds, Asks
<1>4. FreshIsOwn(r)'
  BY <1>1 DEF OwnInv, FreshIsOwn
<1> QED
  BY <1>1, <1>3, <1>4 DEF OwnInv, DraftIsOwn, RegistersOwn

\* One that has found its user is sound, if it had not made one.
LEMMA TakenIsSound ==
    ASSUME TypeOK, NEW r \in Requests, OwnInv(r), NEW u \in Ids, NEW stage \in {"last", "save"},
           Put(r, [req[r] EXCEPT !.user = u, !.at = stage]), req[r].at \in {"first", "second"},
           req[r].op \in {"signin", "login"}, draft' = draft, welcomed' = welcomed
    PROVE  OwnInv(r)'
<1>1. /\ req'[r].at = stage /\ req'[r].op = req[r].op /\ req'[r].user = u /\ req'[r].fresh = req[r].fresh
      /\ req'[r].email = req[r].email /\ req'[r].identity = req[r].identity
  BY TakesUser
<1>2. Asks(req[r])
  BY DEF OwnInv, KnowsWhatItNeeds
<1>3. KnowsWhatItNeeds(r)'
  BY <1>1, <1>2 DEF KnowsWhatItNeeds, Asks
<1>4. FreshIsOwn(r)'
  BY <1>1 DEF OwnInv, FreshIsOwn
<1> QED
  BY SMTT(60), <1>1, <1>3, <1>4 DEF OwnInv, DraftIsOwn, RegistersOwn

\* The request that takes the step keeps what it knows.
LEMMA OwnStep ==
    ASSUME IInv, NEW r \in Requests, Step(r) PROVE OwnInv(r)'
<1> USE DEF IInv
<1>a. TypeOK /\ OwnInv(r) /\ r \in Ids
  BY DEF Ids
<1>b. /\ req[r].at # "last" => draft[r] = None
      /\ req[r].op \notin {"signin", "register"} => draft[r] = None
      /\ req[r].at \notin {"save", "served"} => welcomed[r] = 0
      /\ req[r].at \notin {"last", "welcome", "save"} => ~req[r].fresh
  BY <1>a DEF OwnInv, DraftIsOwn, FreshIsOwn
<1>1. CASE FindByProvider(r)
  <2>1. \A a \in accounts : a.user \in Ids
    BY DEF TypeOK, Account
  <2>2. Go(r, "second") => OwnInv(r)'
    BY <1>1, <1>a, <1>b, OnIsSound DEF FindByProvider, Signing
  <2>3. ASSUME NEW a \in accounts, Put(r, [req[r] EXCEPT !.user = a.user, !.at = "save"]) PROVE OwnInv(r)'
    BY <1>1, <1>a, <2>1, <2>3, TakenIsSound DEF FindByProvider, Signing
  <2> QED
    BY <1>1, <2>2, <2>3 DEF FindByProvider, Linked
<1>2. CASE FindByEmail(r) \/ FindCredential(r)
  <2>1. \A u \in users : u.id \in Ids
    BY DEF TypeOK, Row
  <2>2. CASE Go(r, "name") /\ FindByEmail(r)
    BY <2>2, <1>a, <1>b, OnIsSound DEF FindByEmail, Signing
  <2>3. CASE Go(r, "failed") /\ FindCredential(r)
    BY <2>3, <1>a, <1>b, OverIsSound DEF FindCredential
  <2>4. ASSUME NEW u \in users, Put(r, [req[r] EXCEPT !.user = u.id, !.at = "last"]) PROVE OwnInv(r)'
    BY <1>2, <1>a, <2>1, <2>4, TakenIsSound DEF FindByEmail, Signing, FindCredential
  <2> QED
    BY <1>2, <2>2, <2>3, <2>4 DEF FindByEmail, FindCredential, WithEmail
<1>3. CASE ChooseName(r)
  <2>1. PICK n \in UserNames : Put(r, [req[r] EXCEPT !.name = n, !.at = "user"])
    BY <1>3, <1>a, NameIsChosen DEF OwnInv
  <2>2. /\ req'[r].at = "user" /\ req'[r].op = req[r].op /\ req'[r].user = req[r].user /\ req'[r].fresh = req[r].fresh
        /\ req'[r].email = req[r].email /\ req'[r].identity = req[r].identity /\ req'[r].name = n
    BY <2>1, TakesName
  <2> QED
    BY <1>3, <1>a, <1>b, <2>2 DEF ChooseName, OwnInv, KnowsWhatItNeeds, Asks, DraftIsOwn, RegistersOwn, FreshIsOwn
<1>4. CASE Welcome(r)
  <2>1. req[r].user = r /\ welcomed[r] = 0
    BY <1>4, <1>a DEF Welcome, OwnInv, FreshIsOwn
  <2>2. welcomed'[r] \in {0, 1}
    BY <1>4, <1>a, <2>1 DEF Welcome, TypeOK
  <2>3. /\ req'[r].at = "save" /\ req'[r].op = req[r].op /\ req'[r].user = req[r].user /\ req'[r].fresh = req[r].fresh
        /\ req'[r].email = req[r].email /\ req'[r].identity = req[r].identity
    BY <1>4, GoTypes DEF Welcome
  <2> QED
    BY <1>4, <1>a, <1>b, <2>1, <2>2, <2>3 DEF Welcome, OwnInv, KnowsWhatItNeeds, Asks, DraftIsOwn, RegistersOwn, FreshIsOwn
<1>5. CASE SaveSession(r)
  BY <1>5, <1>a, <1>b, OverIsSound DEF SaveSession
<1>6. CASE CheckCredential(r) \/ CheckUser(r)
  <2>1. CASE Go(r, "failed")
    BY <1>6, <2>1, <1>a, <1>b, OverIsSound DEF CheckCredential, CheckUser
  <2>2. CASE Go(r, "second") \/ Go(r, "name")
    BY <1>6, <2>2, <1>a, <1>b, OnIsSound DEF CheckCredential, CheckUser
  <2> QED
    BY <1>6, <2>1, <2>2 DEF CheckCredential, CheckUser
<1>7. CASE FindUser(r)
  <2>1. CASE Go(r, "failed")
    BY <1>7, <2>1, <1>a, <1>b, OverIsSound DEF FindUser
  <2>2. CASE Go(r, "save")
    BY <1>7, <2>2, <1>a, <1>b, OnIsSound DEF FindUser
  <2> QED
    BY <1>7, <2>1, <2>2 DEF FindUser
<1>8. CASE Me(r)
  BY <1>8, <1>a, <1>b, OverIsSound DEF Me
<1>9. CASE FindLinked(r) \/ FindDeleted(r)
  <2>1. CASE Go(r, "failed") \/ Go(r, "served")
    BY <1>9, <2>1, <1>a, <1>b, OverIsSound DEF FindLinked, FindDeleted
  <2>2. CASE Go(r, "last")
    BY <1>9, <2>2, <1>a, <1>b, OnIsSound DEF FindLinked, FindDeleted
  <2> QED
    BY <1>9, <2>1, <2>2 DEF FindLinked, FindDeleted
<1>10. CASE LockAccounts(r)
  BY <1>10, <1>a, <1>b, OnIsSound DEF LockAccounts
<1>11. CASE Disconnect(r) \/ DeleteUser(r) \/ InsertLink(r)
  <2>1. draft'[r] = None /\ welcomed' = welcomed
    BY <1>11, <1>a, <1>b DEF Disconnect, DeleteUser, InsertLink, Fail, TypeOK
  <2>2. Go(r, "served") \/ Go(r, "failed")
    BY <1>11 DEF Disconnect, DeleteUser, InsertLink, Fail
  <2> QED
    BY <1>11, <1>a, <1>b, <2>1, <2>2, OverIsSound DEF Disconnect, DeleteUser, InsertLink
<1>12. CASE InsertUser(r)
  <2> DEFINE line == [id |-> r, email |-> req[r].email, name |-> req[r].name]
  <2>1. CASE Fail(r)
    <3>1. draft'[r] = None /\ welcomed' = welcomed /\ Go(r, "failed")
      BY <2>1, <1>a DEF Fail, TypeOK
    <3> QED
      BY <1>12, <3>1, <1>a, <1>b, OverIsSound DEF InsertUser
  <2>2. CASE /\ draft' = [draft EXCEPT ![r] = line] /\ UNCHANGED <<tables, locks, cookie, welcomed>>
             /\ Put(r, [req[r] EXCEPT !.user = r, !.fresh = TRUE, !.at = "last"])
    <3>1. draft'[r] = line /\ line.id = r /\ welcomed' = welcomed
      BY <2>2, <1>a DEF TypeOK
    <3>2. /\ req'[r].op = req[r].op /\ req'[r].at = "last" /\ req'[r].user = r /\ req'[r].fresh
          /\ req'[r].email = req[r].email /\ req'[r].identity = req[r].identity
      BY <2>2, <1>a, TakesOwn
    <3> HIDE DEF line
    <3> QED
      BY <1>12, <1>a, <1>b, <3>1, <3>2
         DEF InsertUser, OwnInv, KnowsWhatItNeeds, Asks, DraftIsOwn, RegistersOwn, FreshIsOwn
  <2> QED
    BY <1>12, <2>1, <2>2 DEF InsertUser
<1>13. CASE CreateAccount(r) \/ InsertCredential(r)
  <2>1. draft'[r] = None /\ welcomed' = welcomed
    BY <1>13, <1>a DEF CreateAccount, InsertCredential, Commit, Fail, TypeOK
  <2>2. CASE Go(r, "failed")
    BY <1>13, <1>a, <1>b, <2>1, <2>2, OverIsSound DEF CreateAccount, Signing, InsertCredential
  <2>3. CASE Go(r, "save") /\ ~req[r].fresh
    BY <1>13, <1>a, <1>b, <2>1, <2>3, OnIsSound DEF CreateAccount, Signing, InsertCredential
  <2>4. CASE Go(r, "welcome") /\ req[r].fresh
    BY <1>13, <1>a, <1>b, <2>1, <2>4, OnIsSound DEF CreateAccount, Signing, InsertCredential
  <2>5. InsertCredential(r) => req[r].fresh
    BY <1>a DEF InsertCredential, OwnInv, RegistersOwn
  <2>6. req[r].fresh \in BOOLEAN
    BY DEF TypeOK, Request
  <2> QED
    BY <1>13, <2>2, <2>3, <2>4, <2>5, <2>6 DEF CreateAccount, InsertCredential, Fail
<1> QED
  BY <1>1, <1>2, <1>3, <1>4, <1>5, <1>6, <1>7, <1>8, <1>9, <1>10, <1>11, <1>12, <1>13 DEF Step

\* What the steps take away: accounts only when a provider is disconnected or a user
\* deleted, passwords and users only when a user is deleted.
LEMMA RowsStay ==
    ASSUME NEW r \in Requests, Step(r)
    PROVE  /\ ~Disconnect(r) /\ ~DeleteUser(r) => accounts \subseteq accounts'
           /\ ~DeleteUser(r) => passwords \subseteq passwords' /\ users \subseteq users'
           /\ ~LockAccounts(r) => locks'[r] \in {locks[r], {}} \/ locks \notin [Requests -> SUBSET Account]
           /\ ~CreateAccount(r) /\ ~InsertCredential(r) => users' \subseteq users
<1>1. CASE CreateAccount(r) \/ InsertCredential(r) \/ InsertLink(r) \/ InsertUser(r)
  BY <1>1 DEF CreateAccount, InsertCredential, InsertLink, InsertUser, Commit, Visible, Fail, tables
<1>2. CASE Disconnect(r) \/ DeleteUser(r) \/ LockAccounts(r)
  BY <1>2 DEF Disconnect, DeleteUser, LockAccounts, Fail, tables
<1>3. CASE FindByProvider(r) \/ FindByEmail(r) \/ ChooseName(r) \/ Welcome(r) \/ SaveSession(r) \/ CheckCredential(r)
           \/ CheckUser(r) \/ FindCredential(r) \/ FindUser(r) \/ Me(r) \/ FindLinked(r) \/ FindDeleted(r)
  BY <1>3 DEF FindByProvider, FindByEmail, ChooseName, Welcome, SaveSession, CheckCredential,
              CheckUser, FindCredential, FindUser, Me, FindLinked, FindDeleted, tables
<1> QED
  BY <1>1, <1>2, <1>3 DEF Step

\* A row somebody holds is not deleted.
LEMMA LocksStep ==
    ASSUME IInv, NEW r \in Requests, Step(r), NEW q \in Requests PROVE LocksStand(q)'
<1> USE DEF IInv
<1>1. CASE q # r
  <2>1. req'[q] = req[q] /\ locks'[q] = locks[q]
    BY <1>1, OthersStay
  <2>2. locks[q] \subseteq accounts
    BY DEF LocksStand
  <2>3. CASE Disconnect(r)
    <3> DEFINE mine == {a \in AccountsOf(req[r].user) : ProviderOf[a.identity] = req[r].provider}
    <3>1. accounts' = accounts \/ (accounts' = accounts \ mine /\ ~Held(r, mine))
      BY <2>3 DEF Disconnect, Fail
    <3>2. ~Held(r, mine) => locks[q] \cap mine = {}
      BY <1>1 DEF Held
    <3> HIDE DEF mine
    <3> QED
      BY <2>1, <2>2, <3>1, <3>2 DEF LocksStand
  <2>4. CASE DeleteUser(r)
    <3>1. accounts' = accounts \/ accounts' = accounts \ AccountsOf(req[r].user)
      BY <2>4 DEF DeleteUser, Fail
    <3>2. locks[q] \cap AccountsOf(req[r].user) = {}
      BY <1>1, <2>4 DEF DeleteUser, Held
    <3> QED
      BY <2>1, <2>2, <3>1, <3>2 DEF LocksStand
  <2>5. CASE ~Disconnect(r) /\ ~DeleteUser(r)
    BY <2>1, <2>2, <2>5, RowsStay DEF LocksStand
  <2> QED
    BY <2>3, <2>4, <2>5
<1>2. CASE q = r /\ LockAccounts(r)
  <2>1. /\ req'[r].at = "last" /\ req'[r].op = req[r].op /\ req'[r].user = req[r].user
        /\ locks'[r] = AccountsOf(req[r].user) /\ accounts' = accounts
    BY <1>2, GoTypes DEF LockAccounts, TypeOK, tables
  <2> QED
    BY <1>2, <2>1 DEF LockAccounts, LocksStand, AccountsOf
<1>3. CASE q = r /\ ~LockAccounts(r)
  <2>1. locks'[r] \in {locks[r], {}}
    BY <1>3, RowsStay DEF TypeOK
  <2>2. CASE Disconnect(r)
    BY <1>3, <2>2 DEF Disconnect, Fail, TypeOK, LocksStand
  <2>3. CASE ~Disconnect(r)
    <3>1. ~(req[r].op = "disconnect" /\ req[r].at = "last")
      BY <1>3, <2>3 DEF Step, FindByProvider, FindByEmail, Signing, ChooseName, Welcome, SaveSession, CheckCredential,
            CheckUser, FindCredential, FindUser, Me, FindLinked, FindDeleted, InsertLink, InsertUser, CreateAccount,
            InsertCredential, DeleteUser
    <3>2. locks[r] = {}
      BY <3>1 DEF LocksStand
    <3> QED
      BY <1>3, <2>1, <3>2 DEF LocksStand
  <2> QED
    BY <2>2, <2>3
<1> QED
  BY <1>1, <1>2, <1>3

\* Whoever disconnects a provider leaves the user an account it holds, or a password;
\* whoever commits a user commits a way to sign in.
LEMMA SignInStep ==
    ASSUME IInv, NEW r \in Requests, Step(r) PROVE EveryUserCanSignIn'
<1> SUFFICES ASSUME NEW u \in users' PROVE {a \in accounts' : a.user = u.id} # {} \/ u.id \in passwords'
  BY DEF EveryUserCanSignIn, AccountsOf
<1> USE DEF IInv
<1>1. u \in users => {a \in accounts : a.user = u.id} # {} \/ u.id \in passwords
  BY DEF EveryUserCanSignIn, AccountsOf
<1>2. CASE Disconnect(r)
  <2> DEFINE mine == {a \in AccountsOf(req[r].user) : ProviderOf[a.identity] = req[r].provider}
  <2>1. CASE Fail(r)
    BY <1>1, <2>1 DEF Fail
  <2>2. CASE /\ accounts' = accounts \ mine /\ passwords' = passwords /\ users' = users
             /\ Remaining(r) # {} \/ req[r].user \in passwords
    <3>1. CASE u.id # req[r].user
      BY <1>1, <2>2, <3>1 DEF AccountsOf
    <3>2. CASE u.id = req[r].user /\ Remaining(r) # {}
      <4>1. PICK a \in locks[r] : ProviderOf[a.identity] # req[r].provider
        BY <3>2 DEF Remaining, ProvidersOf
      <4>2. a \in accounts /\ a.user = req[r].user
        BY <4>1 DEF LocksStand
      <4> QED
        BY <2>2, <3>2, <4>1, <4>2 DEF AccountsOf
    <3>3. CASE u.id = req[r].user /\ req[r].user \in passwords
      BY <2>2, <3>3
    <3> QED
      BY <2>2, <3>1, <3>2, <3>3
  <2> QED
    BY <1>2, <2>1, <2>2 DEF Disconnect
<1>3. CASE DeleteUser(r)
  BY <1>1, <1>3 DEF DeleteUser, Fail, AccountsOf
<1>4. CASE CreateAccount(r) \/ InsertCredential(r)
  <2>1. accounts \subseteq accounts' /\ passwords \subseteq passwords'
    BY <1>4 DEF CreateAccount, InsertCredential, Fail
  <2>2. u \in users \/ (u = draft[r] /\ draft[r] # None /\ ~Fail(r))
    BY <1>4 DEF CreateAccount, InsertCredential, Commit, Visible, Fail
  <2>3. draft[r] # None => draft[r].id = r /\ req[r].user = r
    BY DEF OwnInv, DraftIsOwn
  <2>4. CreateAccount(r) /\ ~Fail(r) => AccountRow(r) \in accounts'
    BY DEF CreateAccount
  <2>5. AccountRow(r).user = req[r].user
    BY DEF AccountRow
  <2>6. InsertCredential(r) => r \in passwords'
    BY DEF InsertCredential
  <2> QED
    BY <1>1, <1>4, <2>1, <2>2, <2>3, <2>4, <2>5, <2>6
<1>5. CASE ~Disconnect(r) /\ ~DeleteUser(r) /\ ~CreateAccount(r) /\ ~InsertCredential(r)
  BY <1>1, <1>5, RowsStay
<1> QED
  BY <1>2, <1>3, <1>4, <1>5

\* Nobody welcomes a user there was before.
LEMMA OldStep ==
    ASSUME IInv, NEW r \in Requests, Step(r) PROVE OldAreNotWelcomed'
<1>1. CASE Welcome(r)
  <2>1. req[r].user = r /\ r \notin Old
    BY <1>1, AccountsAssumption DEF Welcome, IInv, OwnInv, FreshIsOwn
  <2> QED
    BY <1>1, <2>1 DEF Welcome, IInv, OldAreNotWelcomed, TypeOK, Ids
<1>2. CASE ~Welcome(r)
  <2>1. welcomed' = welcomed
    BY <1>2 DEF Step, FindByProvider, FindByEmail, ChooseName, SaveSession, CheckCredential,
         CheckUser, FindCredential, FindUser, Me, FindLinked, FindDeleted, InsertLink, InsertUser, CreateAccount,
         InsertCredential, DeleteUser, Disconnect, LockAccounts, Fail
  <2> QED
    BY <2>1 DEF IInv, OldAreNotWelcomed
<1> QED
  BY <1>1, <1>2

LEMMA ArriveStep ==
    ASSUME IInv, NEW r \in Requests, Arrive(r) PROVE IInv'
<1> USE DEF IInv
<1>1. /\ TypeOK' /\ req'[r].at = "first" /\ req'[r].fresh = FALSE /\ Asks(req'[r])
      /\ \A q \in Requests \ {r} : req'[q] = req[q]
  BY ArriveTypes
<1>2. UNCHANGED <<users, accounts, passwords, draft, locks, cookie, welcomed>> /\ req[r].at = "new"
  BY DEF Arrive, tables
<1>3. ASSUME NEW q \in Requests PROVE OwnInv(q)' /\ LocksStand(q)'
  <2>1. OwnInv(q) /\ LocksStand(q)
    OBVIOUS
  <2> QED
    BY <1>1, <1>2, <2>1 DEF OwnInv, KnowsWhatItNeeds, DraftIsOwn, RegistersOwn, FreshIsOwn, LocksStand
<1> QED
  BY <1>1, <1>2, <1>3 DEF OldAreNotWelcomed, EveryUserCanSignIn, AccountsOf

LEMMA NextInvariant == IInv /\ [Next]_vars => IInv'
<1> SUFFICES ASSUME IInv, [Next]_vars PROVE IInv'
  OBVIOUS
<1>1. ASSUME NEW r \in Requests, Step(r) PROVE IInv'
  <2>1. ASSUME NEW q \in Requests PROVE OwnInv(q)'
    <3>1. CASE q = r
      BY <1>1, <3>1, OwnStep
    <3>2. CASE q # r
      <4>1. req'[q] = req[q] /\ draft'[q] = draft[q] /\ welcomed'[q] = welcomed[q]
        BY <1>1, <3>2, OthersStay
      <4>2. OwnInv(q)
        BY DEF IInv
      <4> QED
        BY <4>1, <4>2 DEF OwnInv, KnowsWhatItNeeds, DraftIsOwn, RegistersOwn, FreshIsOwn
    <3> QED
      BY <3>1, <3>2
  <2>2. TypeOK' /\ OldAreNotWelcomed' /\ EveryUserCanSignIn'
    BY <1>1, StepTypes, OldStep, SignInStep
  <2>3. \A q \in Requests : LocksStand(q)'
    BY <1>1, LocksStep
  <2> QED
    BY <2>1, <2>2, <2>3 DEF IInv
<1>2. CASE UNCHANGED vars
  BY <1>2 DEF vars, IInv, TypeOK, OwnInv, KnowsWhatItNeeds, DraftIsOwn, RegistersOwn, FreshIsOwn, LocksStand,
              OldAreNotWelcomed, EveryUserCanSignIn, AccountsOf
<1> QED
  BY <1>1, <1>2, ArriveStep DEF Next

-----------------------------------------------------------------------------
LEMMA Invariant == Spec => []IInv
BY InitInvariant, NextInvariant, PTL DEF Spec

\* The tables of users, accounts and credentials and the requests keep their shape.
THEOREM TypeCorrect == Spec => []TypeOK
<1>1. IInv => TypeOK
  BY DEF IInv
<1> QED
  BY <1>1, Invariant, PTL

\* Whatever requests run at once, every user keeps an account or a password: the checks
\* of disconnectProvider are made on rows it has locked, and no user is committed before
\* a way to sign in.
THEOREM EveryoneCanSignIn == Spec => []EveryUserCanSignIn
<1>1. IInv => EveryUserCanSignIn
  BY DEF IInv
<1> QED
  BY <1>1, Invariant, PTL

LEMMA InvariantWelcomes == IInv => WelcomedOnce
<1> SUFFICES ASSUME IInv, NEW u \in Ids PROVE welcomed[u] <= (IF u \in Old THEN 0 ELSE 1)
  BY DEF WelcomedOnce
<1>1. CASE u \in Old
  BY <1>1 DEF IInv, OldAreNotWelcomed
<1>2. CASE u \notin Old
  <2>1. u \in Requests
    BY <1>2 DEF Ids
  <2> QED
    BY <1>2, <2>1 DEF IInv, OwnInv, FreshIsOwn
<1> QED
  BY <1>1, <1>2

\* A user is welcomed at most once, and nobody who was there before.
THEOREM NewUsersAreWelcomedOnce == Spec => []WelcomedOnce
BY InvariantWelcomes, Invariant, PTL

-----------------------------------------------------------------------------
(* SavedJobs *)

Calls == [op : Saved!Ops \cup {None}, at : {"new", "first", "second", "third", "served", "failed"},
          job : Saved!Ids \cup {None}, link : Links \cup {None}, status : Statuses \cup {None},
          begin : Nat, from : Statuses \cup {None}]

\* A request carries what its next statements read.
Carries(c) == c.at \in {"first", "second", "third"} =>
    /\ c.op = "create" => c.link \in Links /\ c.status \in {"saved", "applied"}
    /\ c.op \in {"update", "delete", "note", "dropNote"} => c.job \in Saved!Ids
    /\ c.op = "match" => c.link \in Links

\* An update that has locked its row knows its status.
Updating(r) == call[r].op = "update" /\ call[r].at = "third"
LockTells(r) ==
    /\ Updating(r) => /\ locked[r] = call[r].job
                      /\ \E j \in jobs : j.id = call[r].job
                      /\ \A j \in jobs : j.id = call[r].job => j.status = call[r].from
    /\ ~Updating(r) => locked[r] = None

\* A row carries the name of a request that has inserted it.
IsInserted(i) == i \in Requests => call[i].at \in {"third", "served", "failed"}

SavedInv ==
    /\ Saved!STypeOK
    /\ \A r \in Requests : Carries(call[r]) /\ LockTells(r)
    /\ \A q, r \in Requests : locked[q] # None /\ locked[q] = locked[r] => q = r
    /\ \A i, j \in jobs : i.id = j.id => i = j
    /\ \A j \in jobs : IsInserted(j.id)
    /\ \A i \in Saved!Ids : events[i] # <<>> => \E j \in jobs : j.id = i
    /\ Saved!HistoryExplainsStatus

LEMMA SavedConstants ==
    /\ {"saved", "applied"} \subseteq Statuses
    /\ None \notin Saved!Ids /\ None \notin Links /\ None \notin Statuses
    /\ Requests \subseteq Saved!Ids
BY MCAssumption DEF Saved!SavedJobsAssumption, Saved!Ids

LEMMA BlankIsACall == Saved!Blank \in Calls /\ \A place \in {"served", "failed"} : [Saved!Blank EXCEPT !.at = place] \in Calls
BY DEF Calls, Saved!Blank

LEMMA SavedStart == ASSUME Saved!SInit PROVE SavedInv
<1> USE SavedConstants DEF Saved!SInit
<1>0. PICK l \in Links : jobs = {[id |-> i, link |-> l, first |-> "saved", status |-> "saved"] : i \in Old}
  OBVIOUS
<1>1. /\ jobs \subseteq [id : Saved!Ids, link : Links, first : Statuses, status : Statuses]
      /\ \A j \in jobs : j.id \in Old /\ j.first = "saved" /\ j.status = "saved" /\ j.link = l
  BY <1>0 DEF Saved!Ids
<1>2. Saved!STypeOK
  BY <1>1, BlankIsACall DEF Saved!STypeOK, Calls
<1>3. \A r \in Requests : Carries(call[r]) /\ LockTells(r)
  BY DEF Carries, LockTells, Updating, Saved!Blank
<1>4. \A i, j \in jobs : i.id = j.id => i = j
  BY <1>0
<1>5. \A j \in jobs : IsInserted(j.id)
  BY <1>1, MCAssumption DEF IsInserted, Saved!SavedJobsAssumption
<1>6. Saved!HistoryExplainsStatus
  BY <1>1 DEF Saved!HistoryExplainsStatus, Saved!Explains, Saved!Ids
<1> QED
  BY <1>2, <1>3, <1>4, <1>5, <1>6 DEF SavedInv

\* A request that holds no row goes on, and the rows and their history stay as they are.
LEMMA SavedGoesOn ==
    ASSUME SavedInv, NEW r \in Requests, NEW c \in Calls, Carries(c), ~Updating(r),
           c.at = "third" => c.op # "update", call[r].at \in {"third", "served", "failed"} => c.at \in {"third", "served", "failed"},
           call' = [call EXCEPT ![r] = c], jobs' = jobs, events' = events, locked' = locked,
           notes' \subseteq [id : Requests, job : Saved!Ids],
           notices' \subseteq [id : Requests, kind : Saved!Kinds, about : Saved!Ids \cup Links, read : BOOLEAN],
           begun' \in Nat
    PROVE  SavedInv'
<1>1. call \in [Requests -> Calls]
  BY DEF SavedInv, Saved!STypeOK, Calls
<1>2. call' \in [Requests -> Calls] /\ call'[r] = c /\ \A q \in Requests \ {r} : call'[q] = call[q]
  BY <1>1
<1>3. Saved!STypeOK'
  BY <1>2 DEF SavedInv, Saved!STypeOK, Calls
<1>4. ASSUME NEW q \in Requests PROVE Carries(call'[q]) /\ LockTells(q)'
  <2>1. CASE q = r
    BY <1>2, <2>1 DEF SavedInv, LockTells, Updating
  <2>2. CASE q # r
    BY <1>2, <2>2 DEF SavedInv, LockTells, Updating
  <2> QED
    BY <2>1, <2>2
<1>5. ASSUME NEW j \in jobs PROVE IsInserted(j.id)'
  BY <1>2 DEF SavedInv, IsInserted
<1>6. Saved!HistoryExplainsStatus'
  BY DEF SavedInv, Saved!HistoryExplainsStatus, Saved!Explains
<1> QED
  BY <1>3, <1>4, <1>5, <1>6 DEF SavedInv

LEMMA ServedIsACall ==
    ASSUME NEW place \in {"served", "failed"}
    PROVE  [Saved!Blank EXCEPT !.at = place] \in Calls /\ Carries([Saved!Blank EXCEPT !.at = place])
           /\ [Saved!Blank EXCEPT !.at = place].at = place
BY BlankIsACall DEF Carries, Calls, Saved!Blank

LEMMA SavedCalls == SavedInv => call \in [Requests -> Calls]
BY DEF SavedInv, Saved!STypeOK, Calls

\* The end of a request that holds no row.
LEMMA SavedEnds ==
    ASSUME SavedInv, NEW r \in Requests, NEW place \in {"served", "failed"}, ~Updating(r), Saved!Go(r, place),
           jobs' = jobs, events' = events, locked' = locked,
           notes' \subseteq [id : Requests, job : Saved!Ids],
           notices' \subseteq [id : Requests, kind : Saved!Kinds, about : Saved!Ids \cup Links, read : BOOLEAN],
           begun' = begun
    PROVE  SavedInv'
<1> DEFINE c == [Saved!Blank EXCEPT !.at = place]
<1>1. c \in Calls /\ Carries(c) /\ c.at \in {"served", "failed"}
  BY ServedIsACall
<1>2. call' = [call EXCEPT ![r] = c]
  BY DEF Saved!Go
<1>3. begun' \in Nat
  BY DEF SavedInv, Saved!STypeOK
<1> HIDE DEF c
<1> QED
  BY <1>1, <1>2, <1>3, SavedGoesOn

\* Or of its first part.
LEMMA SavedContinues ==
    ASSUME SavedInv, NEW r \in Requests, call[r].at = "first", Saved!Go(r, "second"),
           UNCHANGED <<jobs, events, notes, notices, locked, begun>>
    PROVE  SavedInv'
<1> DEFINE c == [call[r] EXCEPT !.at = "second"]
<1>1. c \in Calls /\ Carries(c) /\ c.at = "second"
  BY SavedCalls DEF SavedInv, Calls, Carries
<1>2. call' = [call EXCEPT ![r] = c] /\ ~Updating(r)
  BY DEF Saved!Go, Updating
<1>3. begun' \in Nat /\ notes' \subseteq [id : Requests, job : Saved!Ids]
      /\ notices' \subseteq [id : Requests, kind : Saved!Kinds, about : Saved!Ids \cup Links, read : BOOLEAN]
  BY DEF SavedInv, Saved!STypeOK
<1> HIDE DEF c
<1> QED
  BY <1>1, <1>2, <1>3, SavedGoesOn

LEMMA SavedAsks ==
    ASSUME SavedInv, NEW r \in Requests, NEW c \in Calls, Carries(c), c.at = "first", call[r].at = "new",
           call' = [call EXCEPT ![r] = c], UNCHANGED <<jobs, events, notes, notices, locked, begun>>
    PROVE  SavedInv'
<1>1. ~Updating(r)
  BY DEF Updating
<1>2. begun' \in Nat /\ notes' \subseteq [id : Requests, job : Saved!Ids]
      /\ notices' \subseteq [id : Requests, kind : Saved!Kinds, about : Saved!Ids \cup Links, read : BOOLEAN]
  BY DEF SavedInv, Saved!STypeOK
<1> QED
  BY <1>1, <1>2, SavedGoesOn

LEMMA SavedAsk == ASSUME SavedInv, NEW r \in Requests, Saved!Ask(r) PROVE SavedInv'
<1>0. call[r].at = "new" /\ UNCHANGED <<jobs, events, notes, notices, locked, begun>>
  BY DEF Saved!Ask
<1>1. ASSUME NEW l \in Links, NEW s \in {"saved", "applied"},
             call' = [call EXCEPT ![r] = [[Saved!Blank EXCEPT !.op = "create", !.link = l, !.status = s] EXCEPT !.at = "first"]]
      PROVE  SavedInv'
  <2> DEFINE c == [[Saved!Blank EXCEPT !.op = "create", !.link = l, !.status = s] EXCEPT !.at = "first"]
  <2>1. c \in Calls /\ Carries(c) /\ c.at = "first"
    BY BlankIsACall, SavedConstants DEF Calls, Carries, Saved!Ops
  <2> HIDE DEF c
  <2> QED
    BY <1>0, <1>1, <2>1, SavedAsks DEF c
<1>2. ASSUME NEW i \in Saved!Ids, NEW s \in Statuses \cup {None},
             call' = [call EXCEPT ![r] = [[Saved!Blank EXCEPT !.op = "update", !.job = i, !.status = s] EXCEPT !.at = "first"]]
      PROVE  SavedInv'
  <2> DEFINE c == [[Saved!Blank EXCEPT !.op = "update", !.job = i, !.status = s] EXCEPT !.at = "first"]
  <2>1. c \in Calls /\ Carries(c) /\ c.at = "first"
    BY BlankIsACall DEF Calls, Carries, Saved!Ops
  <2> HIDE DEF c
  <2> QED
    BY <1>0, <1>2, <2>1, SavedAsks DEF c
<1>3. ASSUME NEW i \in Saved!Ids, NEW o \in {"delete", "note", "dropNote"},
             call' = [call EXCEPT ![r] = [[Saved!Blank EXCEPT !.op = o, !.job = i] EXCEPT !.at = "first"]]
      PROVE  SavedInv'
  <2> DEFINE c == [[Saved!Blank EXCEPT !.op = o, !.job = i] EXCEPT !.at = "first"]
  <2>1. c \in Calls /\ Carries(c) /\ c.at = "first"
    BY BlankIsACall DEF Calls, Carries, Saved!Ops
  <2> HIDE DEF c
  <2> QED
    BY <1>0, <1>3, <2>1, SavedAsks DEF c
<1>4. ASSUME NEW o \in {"read", "clear"},
             call' = [call EXCEPT ![r] = [[Saved!Blank EXCEPT !.op = o] EXCEPT !.at = "first"]]
      PROVE  SavedInv'
  <2> DEFINE c == [[Saved!Blank EXCEPT !.op = o] EXCEPT !.at = "first"]
  <2>1. c \in Calls /\ Carries(c) /\ c.at = "first"
    BY BlankIsACall DEF Calls, Carries, Saved!Ops
  <2> HIDE DEF c
  <2> QED
    BY <1>0, <1>4, <2>1, SavedAsks DEF c
<1>5. ASSUME NEW l \in Links,
             call' = [call EXCEPT ![r] = [[Saved!Blank EXCEPT !.op = "match", !.link = l] EXCEPT !.at = "first"]]
      PROVE  SavedInv'
  <2> DEFINE c == [[Saved!Blank EXCEPT !.op = "match", !.link = l] EXCEPT !.at = "first"]
  <2>1. c \in Calls /\ Carries(c) /\ c.at = "first"
    BY BlankIsACall DEF Calls, Carries, Saved!Ops
  <2> HIDE DEF c
  <2> QED
    BY <1>0, <1>5, <2>1, SavedAsks DEF c
<1> QED
  BY <1>1, <1>2, <1>3, <1>4, <1>5 DEF Saved!Ask

LEMMA InsertSavedStep == ASSUME SavedInv, NEW r \in Requests, Saved!InsertSaved(r) PROVE SavedInv'
<1> DEFINE fresh == [id |-> r, link |-> call[r].link, first |-> call[r].status, status |-> call[r].status]
           c == [call[r] EXCEPT !.at = "third"]
<1>1. /\ call[r].op = "create" /\ call[r].at = "second" /\ jobs' = jobs \cup {fresh}
      /\ call' = [call EXCEPT ![r] = c] /\ UNCHANGED <<events, notes, notices, locked, begun>>
  BY DEF Saved!InsertSaved, Saved!At, Saved!Go
<1>2. c \in Calls /\ Carries(c) /\ c.at = "third" /\ c.op = "create" /\ call[r].link \in Links /\ call[r].status \in Statuses
  BY <1>1, SavedCalls, SavedConstants DEF SavedInv, Calls, Carries
<1>13. fresh \in [id : Saved!Ids, link : Links, first : Statuses, status : Statuses]
  <2>1. PICK l \in Links : l = call[r].link
    BY <1>2
  <2>2. PICK s \in Statuses : s = call[r].status
    BY <1>2
  <2>3. [id |-> r, link |-> l, first |-> s, status |-> s] \in [id : Saved!Ids, link : Links, first : Statuses, status : Statuses]
    BY SavedConstants
  <2> QED
    BY ONLY <2>1, <2>2, <2>3
<1>14. fresh.id = r /\ fresh.first = fresh.status
  OBVIOUS
<1> HIDE DEF fresh
<1>3. PICK new : new = fresh /\ new \in [id : Saved!Ids, link : Links, first : Statuses, status : Statuses]
       /\ new.id = r /\ new.first = new.status
  BY ONLY <1>13, <1>14
<1>4. call' \in [Requests -> Calls] /\ call'[r] = c /\ \A q \in Requests \ {r} : call'[q] = call[q]
  BY <1>1, <1>2, SavedCalls
<1>5. jobs' = jobs \cup {new} /\ new.id = r /\ new.first = new.status
  BY <1>1, <1>3
<1> HIDE DEF c
<1>6. Saved!STypeOK'
  BY <1>1, <1>3, <1>4, <1>5 DEF SavedInv, Saved!STypeOK, Calls
<1>7. ASSUME NEW j \in jobs PROVE j.id # r
  BY <1>1 DEF SavedInv, IsInserted
<1>8. events[r] = <<>>
  BY <1>7, SavedConstants DEF SavedInv
<1>9. ASSUME NEW q \in Requests PROVE Carries(call'[q]) /\ LockTells(q)'
  <2>1. CASE q = r
    BY <1>1, <1>2, <1>4, <2>1 DEF SavedInv, LockTells, Updating
  <2>2. CASE q # r
    <3>1. call'[q] = call[q] /\ locked' = locked
      BY <1>1, <1>4, <2>2
    <3>2. Updating(q) => call[q].job # r
      BY <1>7 DEF SavedInv, LockTells
    <3> QED
      BY <1>5, <3>1, <3>2 DEF SavedInv, LockTells, Updating
  <2> QED
    BY <2>1, <2>2
<1>10. \A j \in jobs' : IsInserted(j.id)'
  BY <1>2, <1>4, <1>5 DEF SavedInv, IsInserted
<1>11. \A i, j \in jobs' : i.id = j.id => i = j
  BY <1>5, <1>7 DEF SavedInv
<1>12. Saved!HistoryExplainsStatus'
  <2>1. Saved!Explains(events[new.id], new)
    BY <1>5, <1>8 DEF Saved!Explains
  <2> QED
    BY <1>1, <1>5, <2>1 DEF SavedInv, Saved!HistoryExplainsStatus
<1> QED
  BY <1>1, <1>5, <1>6, <1>9, <1>10, <1>11, <1>12 DEF SavedInv

LEMMA NoticeIsTyped ==
    ASSUME SavedInv, NEW r \in Requests, NEW kind \in Saved!Kinds, NEW about \in Saved!Ids \cup Links,
           notices' = Saved!Notice(r, kind, about)
    PROVE  notices' \subseteq [id : Requests, kind : Saved!Kinds, about : Saved!Ids \cup Links, read : BOOLEAN]
<1>1. [id |-> r, kind |-> kind, about |-> about, read |-> FALSE]
         \in [id : Requests, kind : Saved!Kinds, about : Saved!Ids \cup Links, read : BOOLEAN]
  OBVIOUS
<1>2. notices \subseteq [id : Requests, kind : Saved!Kinds, about : Saved!Ids \cup Links, read : BOOLEAN]
  BY DEF SavedInv, Saved!STypeOK
<1> QED
  BY ONLY <1>1, <1>2, notices' = Saved!Notice(r, kind, about) DEF Saved!Notice

\* An update that finds its row holds it and knows its status.
LEMMA ReadSavedStep == ASSUME SavedInv, NEW r \in Requests, Saved!LockSaved(r) PROVE SavedInv'
<1>1. /\ call[r].op = "update" /\ call[r].at = "second" /\ Saved!ReadSaved(r) /\ ~Saved!Locked(r, call[r].job)
      /\ UNCHANGED <<jobs, events, notes, notices, begun>>
  BY DEF Saved!LockSaved, Saved!ReadSaved, Saved!At
<1>2. notes' \subseteq [id : Requests, job : Saved!Ids] /\ ~Updating(r)
      /\ notices' \subseteq [id : Requests, kind : Saved!Kinds, about : Saved!Ids \cup Links, read : BOOLEAN]
  BY <1>1 DEF SavedInv, Saved!STypeOK, Updating
<1>3. CASE Saved!With(call[r].job) = {}
  <2>1. Saved!Go(r, "failed") /\ UNCHANGED locked
    BY <1>1, <1>3 DEF Saved!ReadSaved
  <2> QED
    BY <1>1, <1>2, <2>1, SavedEnds
<1>4. CASE Saved!With(call[r].job) # {}
  <2>1. PICK j \in jobs : /\ j.id = call[r].job
                          /\ call' = [call EXCEPT ![r].at = "third", ![r].from = j.status]
                          /\ locked' = [locked EXCEPT ![r] = j.id]
    BY <1>1, <1>4 DEF Saved!ReadSaved, Saved!With
  <2>2. j.id \in Saved!Ids /\ j.status \in Statuses
    BY DEF SavedInv, Saved!STypeOK
  <2> DEFINE c == [call[r] EXCEPT !.at = "third", !.from = j.status]
  <2>3. c \in Calls /\ Carries(c) /\ c.at = "third" /\ c.op = "update" /\ c.job = j.id /\ c.from = j.status
    BY <1>1, <2>1, <2>2, SavedCalls DEF SavedInv, Calls, Carries
  <2>4. call' \in [Requests -> Calls] /\ call'[r] = c /\ \A q \in Requests \ {r} : call'[q] = call[q]
    BY <2>1, <2>3, SavedCalls
  <2>5. locked' \in [Requests -> Saved!Ids \cup {None}] /\ locked'[r] = j.id /\ \A q \in Requests \ {r} : locked'[q] = locked[q]
    BY <2>1, <2>2 DEF SavedInv, Saved!STypeOK
  <2> HIDE DEF c
  <2>6. Saved!STypeOK'
    BY <1>1, <2>4, <2>5 DEF SavedInv, Saved!STypeOK, Calls
  <2>7. ASSUME NEW q \in Requests PROVE Carries(call'[q]) /\ LockTells(q)'
    <3>1. CASE q = r
      <4>1. \A i \in jobs : i.id = j.id => i = j
        BY DEF SavedInv
      <4> QED
        BY <1>1, <2>1, <2>3, <2>4, <2>5, <3>1, <4>1 DEF LockTells, Updating
    <3>2. CASE q # r
      BY <1>1, <2>4, <2>5, <3>2 DEF SavedInv, LockTells, Updating
    <3> QED
      BY <3>1, <3>2
  <2>8. \A q, s \in Requests : locked'[q] # None /\ locked'[q] = locked'[s] => q = s
    BY <1>1, <2>1, <2>5 DEF SavedInv, Saved!Locked
  <2>9. \A i \in jobs' : IsInserted(i.id)'
    BY <1>1, <2>3, <2>4 DEF SavedInv, IsInserted
  <2>10. Saved!HistoryExplainsStatus'
    BY <1>1 DEF SavedInv, Saved!HistoryExplainsStatus, Saved!Explains
  <2> QED
    BY <1>1, <2>6, <2>7, <2>8, <2>9, <2>10 DEF SavedInv
<1> QED
  BY <1>3, <1>4

\* An entry more, from the status the row had.
LEMMA ExplainsMore ==
    ASSUME NEW E, NEW h \in Seq(E), NEW e \in E, NEW j, NEW k, Saved!Explains(h, j),
           e.from = j.status, k.first = j.first, k.status = e.to
    PROVE  Saved!Explains(Append(h, e), k)
<1>1. /\ Len(Append(h, e)) = Len(h) + 1 /\ Len(h) \in Nat
      /\ \A n \in 1..Len(h) : Append(h, e)[n] = h[n]
      /\ Append(h, e)[Len(h) + 1] = e
  OBVIOUS
<1>2. Append(h, e) # <<>> /\ (h = <<>> <=> Len(h) = 0)
  OBVIOUS
<1> DEFINE g == Append(h, e)
<1> HIDE DEF g
<1>3. ASSUME NEW n \in 1..Len(g) PROVE g[n].from = IF n = 1 THEN k.first ELSE g[n - 1].to
  <2>1. CASE n <= Len(h)
    BY <1>1, <2>1 DEF g, Saved!Explains
  <2>2. CASE n = Len(h) + 1
    BY <1>1, <1>2, <2>2 DEF g, Saved!Explains
  <2> QED
    BY <1>1, <2>1, <2>2 DEF g
<1>4. k.status = IF g = <<>> THEN k.first ELSE g[Len(g)].to
  BY <1>1, <1>2 DEF g
<1> QED
  BY <1>3, <1>4 DEF g, Saved!Explains

LEMMA UpdateSavedStep == ASSUME SavedInv, NEW r \in Requests, Saved!UpdateSaved(r) PROVE SavedInv'
<1> DEFINE c == [Saved!Blank EXCEPT !.at = "served"]
<1>1. /\ Updating(r) /\ call' = [call EXCEPT ![r] = c]
      /\ locked' = [locked EXCEPT ![r] = None] /\ UNCHANGED <<notes, begun>>
  BY DEF Saved!UpdateSaved, Saved!At, Saved!Go, Updating
<1>2. c \in Calls /\ Carries(c) /\ c.at = "served"
  BY ServedIsACall
<1> HIDE DEF c
<1>3. call' \in [Requests -> Calls] /\ call'[r] = c /\ \A q \in Requests \ {r} : call'[q] = call[q]
  BY <1>1, <1>2, SavedCalls
<1>4. locked' \in [Requests -> Saved!Ids \cup {None}] /\ locked'[r] = None /\ \A q \in Requests \ {r} : locked'[q] = locked[q]
  BY <1>1 DEF SavedInv, Saved!STypeOK
<1>5. PICK j \in jobs :
         /\ j.id = call[r].job
         /\ IF Saved!StatusChanged(r)
            THEN /\ jobs' = (jobs \ {j}) \cup {[j EXCEPT !.status = call[r].status]}
                 /\ events' = [events EXCEPT ![j.id] =
                         Append(@, [from |-> call[r].from, to |-> call[r].status, at |-> call[r].begin])]
                 /\ notices' = Saved!Notice(r, IF call[r].status = "applied" THEN "job_applied"
                                         ELSE "job_status_changed", j.id)
            ELSE UNCHANGED <<jobs, events, notices>>
  BY DEF Saved!UpdateSaved, Saved!With
<1>6. /\ j.status = call[r].from /\ locked[r] = j.id /\ j.id \in Saved!Ids /\ j.status \in Statuses
      /\ j \in [id : Saved!Ids, link : Links, first : Statuses, status : Statuses]
  BY <1>1, <1>5 DEF SavedInv, LockTells, Saved!STypeOK
<1>7. \A q \in Requests \ {r} : Updating(q) => call[q].job # j.id
  BY <1>6, SavedConstants DEF SavedInv, LockTells
<1>8. \A q, s \in Requests : locked'[q] # None /\ locked'[q] = locked'[s] => q = s
  BY <1>4 DEF SavedInv
<1>9. \A i \in Saved!Ids : IsInserted(i) => IsInserted(i)'
  BY <1>2, <1>3 DEF IsInserted
<1>10. CASE ~Saved!StatusChanged(r)
  <2>1. UNCHANGED <<jobs, events, notices>>
    BY <1>5, <1>10
  <2>2. Saved!STypeOK'
    BY <1>1, <1>3, <1>4, <2>1 DEF SavedInv, Saved!STypeOK, Calls
  <2>3. ASSUME NEW q \in Requests PROVE Carries(call'[q]) /\ LockTells(q)'
    BY <1>2, <1>3, <1>4, <2>1 DEF SavedInv, LockTells, Updating
  <2>4. \A i \in jobs' : IsInserted(i.id)'
    BY <1>9, <2>1 DEF SavedInv, Saved!STypeOK
  <2>5. Saved!HistoryExplainsStatus'
    BY <2>1 DEF SavedInv, Saved!HistoryExplainsStatus, Saved!Explains
  <2> QED
    BY <1>8, <2>1, <2>2, <2>3, <2>4, <2>5 DEF SavedInv
<1>11. CASE Saved!StatusChanged(r)
  <2>1. PICK new, e : /\ new = [j EXCEPT !.status = call[r].status]
                     /\ e = [from |-> call[r].from, to |-> call[r].status, at |-> call[r].begin]
    OBVIOUS
  <2>2. /\ jobs' = (jobs \ {j}) \cup {new} /\ events' = [events EXCEPT ![j.id] = Append(@, e)]
        /\ notices' = Saved!Notice(r, IF call[r].status = "applied" THEN "job_applied" ELSE "job_status_changed", j.id)
    BY <1>5, <1>11, <2>1
  <2>3. call[r].status \in Statuses /\ call[r].from \in Statuses /\ call[r].begin \in Nat
    BY <1>6, <1>11, SavedCalls DEF Calls, Saved!StatusChanged
  <2>4. /\ new \in [id : Saved!Ids, link : Links, first : Statuses, status : Statuses]
        /\ new.id = j.id /\ new.first = j.first /\ new.status = call[r].status
    BY <1>6, <2>1, <2>3
  <2>5. e \in [from : Statuses, to : Statuses, at : Nat] /\ e.from = j.status /\ e.to = call[r].status
    BY <1>6, <2>1, <2>3
  <2>6. events[j.id] \in Seq([from : Statuses, to : Statuses, at : Nat]) /\ Saved!Explains(events[j.id], j)
    BY <1>6 DEF SavedInv, Saved!STypeOK, Saved!HistoryExplainsStatus
  <2>7. PICK h : h = Append(events[j.id], e)
    OBVIOUS
  <2>8. h \in Seq([from : Statuses, to : Statuses, at : Nat]) /\ Saved!Explains(h, new)
    <3>1. PICK E : E = [from : Statuses, to : Statuses, at : Nat]
      OBVIOUS
    <3>2. PICK before0 : before0 = events[j.id]
      OBVIOUS
    <3>3. before0 \in Seq(E) /\ e \in E /\ Saved!Explains(before0, j)
      BY <2>5, <2>6, <3>1, <3>2
    <3>4. Append(before0, e) \in Seq(E)
      BY ONLY <3>3
    <3>5. e.from = j.status /\ new.first = j.first /\ new.status = e.to
      BY <2>4, <2>5
    <3>6. Saved!Explains(Append(before0, e), new)
      BY ONLY <3>3, <3>5, ExplainsMore
    <3> QED
      BY <2>7, <3>1, <3>2, <3>4, <3>6
  <2>9. events' = [events EXCEPT ![j.id] = h]
    BY <2>2, <2>7
  <2>10. events' \in [Saved!Ids -> Seq([from : Statuses, to : Statuses, at : Nat])] /\ events'[j.id] = h
         /\ \A i \in Saved!Ids \ {j.id} : events'[i] = events[i]
    BY <1>6, <2>8, <2>9 DEF SavedInv, Saved!STypeOK
  <2>11. notices' \subseteq [id : Requests, kind : Saved!Kinds, about : Saved!Ids \cup Links, read : BOOLEAN]
    <3>1. PICK kind \in Saved!Kinds : notices' = Saved!Notice(r, kind, j.id)
      BY <2>2 DEF Saved!Kinds
    <3> QED
      BY <1>6, <3>1, NoticeIsTyped
  <2>12. Saved!STypeOK'
    BY <1>1, <1>3, <1>4, <2>2, <2>4, <2>10, <2>11 DEF SavedInv, Saved!STypeOK, Calls
  <2>13. ASSUME NEW q \in Requests PROVE Carries(call'[q]) /\ LockTells(q)'
    <3>1. CASE q = r
      BY <1>2, <1>3, <1>4, <3>1 DEF LockTells, Updating
    <3>2. CASE q # r
      <4>1. call'[q] = call[q] /\ locked'[q] = locked[q] /\ (Updating(q) => call[q].job # j.id)
        BY <1>3, <1>4, <1>7, <3>2
      <4>2. \A i : i.id # j.id => (i \in jobs <=> i \in jobs')
        BY <2>2, <2>4
      <4> QED
        BY <4>1, <4>2 DEF SavedInv, LockTells, Updating
    <3> QED
      BY <3>1, <3>2
  <2>14. \A i \in jobs' : IsInserted(i.id)'
    BY <1>6, <1>9, <2>2, <2>4 DEF SavedInv, Saved!STypeOK
  <2>15. \A i, k \in jobs' : i.id = k.id => i = k
    BY <2>2, <2>4 DEF SavedInv
  <2>16. \A i \in Saved!Ids : events'[i] # <<>> => \E k \in jobs' : k.id = i
    BY <2>2, <2>4, <2>10 DEF SavedInv
  <2>17. Saved!HistoryExplainsStatus'
    <3>1. ASSUME NEW k \in jobs' PROVE Saved!Explains(events'[k.id], k)
      <4>1. CASE k = new
        BY <2>4, <2>8, <2>10, <4>1
      <4>2. CASE k # new
        <5>1. k \in jobs /\ k.id # j.id /\ k.id \in Saved!Ids
          BY <2>2, <4>2 DEF SavedInv, Saved!STypeOK
        <5> QED
          BY <2>10, <5>1 DEF SavedInv, Saved!HistoryExplainsStatus
      <4> QED
        BY <4>1, <4>2
    <3> QED
      BY <3>1 DEF Saved!HistoryExplainsStatus, Saved!Explains
  <2> QED
    BY <1>8, <2>12, <2>13, <2>14, <2>15, <2>16, <2>17 DEF SavedInv
<1> QED
  BY <1>10, <1>11

LEMMA DeleteSavedStep == ASSUME SavedInv, NEW r \in Requests, Saved!DeleteSaved(r) PROVE SavedInv'
<1>1. PICK id \in Saved!Ids, c \in Calls :
         /\ id = call[r].job /\ c.at \in {"served", "failed"} /\ Carries(c) /\ call' = [call EXCEPT ![r] = c]
  <2>1. PICK place \in {"served", "failed"} : Saved!Go(r, place)
    BY DEF Saved!DeleteSaved
  <2>2. call[r].job \in Saved!Ids
    BY DEF SavedInv, Carries, Saved!DeleteSaved, Saved!At
  <2>3. call' = [call EXCEPT ![r] = [Saved!Blank EXCEPT !.at = place]]
    BY <2>1 DEF Saved!Go
  <2> QED
    BY <2>2, <2>3, ServedIsACall
<1>2. /\ ~Updating(r) /\ ~Saved!Locked(r, id) /\ jobs' = {j \in jobs : j.id # id}
      /\ events' = [events EXCEPT ![id] = <<>>] /\ notes' \subseteq notes /\ UNCHANGED <<notices, locked, begun>>
  BY <1>1 DEF Saved!DeleteSaved, Saved!At, Saved!With, Updating
<1>3. call' \in [Requests -> Calls] /\ call'[r] = c /\ \A q \in Requests \ {r} : call'[q] = call[q]
  BY <1>1, SavedCalls
<1>4. events' \in [Saved!Ids -> Seq([from : Statuses, to : Statuses, at : Nat])] /\ events'[id] = <<>>
      /\ \A i \in Saved!Ids \ {id} : events'[i] = events[i]
  <2>1. <<>> \in Seq([from : Statuses, to : Statuses, at : Nat])
    OBVIOUS
  <2>2. events \in [Saved!Ids -> Seq([from : Statuses, to : Statuses, at : Nat])]
    BY DEF SavedInv, Saved!STypeOK
  <2> QED
    BY ONLY <1>2, <2>1, <2>2
<1>5. Saved!STypeOK'
  BY <1>2, <1>3, <1>4 DEF SavedInv, Saved!STypeOK, Calls
<1>6. ASSUME NEW q \in Requests PROVE Carries(call'[q]) /\ LockTells(q)'
  <2>1. CASE q = r
    BY <1>1, <1>2, <1>3, <2>1 DEF SavedInv, LockTells, Updating
  <2>2. CASE q # r
    <3>1. call'[q] = call[q] /\ (Updating(q) => call[q].job # id)
      BY <1>2, <1>3, <2>2 DEF SavedInv, LockTells, Saved!Locked
    <3> QED
      BY <1>2, <3>1 DEF SavedInv, LockTells, Updating
  <2> QED
    BY <2>1, <2>2
<1>7. \A i \in jobs' : IsInserted(i.id)'
  BY <1>1, <1>2, <1>3 DEF SavedInv, IsInserted
<1>8. Saved!HistoryExplainsStatus'
  <2>1. ASSUME NEW j \in jobs' PROVE Saved!Explains(events'[j.id], j)
    BY <1>2, <1>4 DEF SavedInv, Saved!STypeOK, Saved!HistoryExplainsStatus
  <2> QED
    BY <2>1 DEF Saved!HistoryExplainsStatus, Saved!Explains
<1> QED
  BY <1>2, <1>4, <1>5, <1>6, <1>7, <1>8 DEF SavedInv

LEMMA SavedStep == ASSUME SavedInv, Saved!SNext PROVE SavedInv'
<1>1. PICK r \in Requests : Saved!Ask(r) \/ Saved!Serve(r)
  BY DEF Saved!SNext
<1> USE DEF Saved!At, Updating
<1>2. begun' = begun => begun' \in Nat
  BY DEF SavedInv, Saved!STypeOK
<1>3. /\ notes \subseteq [id : Requests, job : Saved!Ids]
      /\ notices \subseteq [id : Requests, kind : Saved!Kinds, about : Saved!Ids \cup Links, read : BOOLEAN]
  BY DEF SavedInv, Saved!STypeOK
<1>4. CASE Saved!FindSaved(r)
  <2>1. CASE Saved!Go(r, "failed")
    BY <1>3, <1>4, <2>1, SavedEnds DEF Saved!FindSaved
  <2>2. CASE Saved!Go(r, "second")
    BY <1>4, <2>2, SavedContinues DEF Saved!FindSaved
  <2> QED
    BY <1>4, <2>1, <2>2 DEF Saved!FindSaved
<1>5. CASE Saved!NotifySaved(r)
  <2>1. CASE Saved!Go(r, "failed") /\ UNCHANGED notices
    BY <1>3, <1>5, <2>1, SavedEnds DEF Saved!NotifySaved
  <2>2. CASE /\ Saved!Go(r, "served")
             /\ notices' = Saved!Notice(r, IF call[r].status = "applied" THEN "job_applied" ELSE "job_saved", r)
    <3>1. PICK kind \in Saved!Kinds : notices' = Saved!Notice(r, kind, r)
      BY <2>2 DEF Saved!Kinds
    <3>2. notices' \subseteq [id : Requests, kind : Saved!Kinds, about : Saved!Ids \cup Links, read : BOOLEAN]
      BY <3>1, NoticeIsTyped, SavedConstants
    <3> QED
      BY <1>3, <1>5, <2>2, <3>2, SavedEnds DEF Saved!NotifySaved
  <2> QED
    BY <1>5, <2>1, <2>2 DEF Saved!NotifySaved
<1>6. CASE Saved!BeginUpdate(r)
  <2> DEFINE c == [call[r] EXCEPT !.begin = begun + 1, !.at = "second"]
  <2>1. c \in Calls /\ Carries(c) /\ c.at = "second" /\ begun' \in Nat
    <3>1. begun \in Nat /\ call[r] \in Calls /\ Carries(call[r]) /\ call[r].at = "first" /\ begun' = begun + 1
      BY <1>6, SavedCalls DEF SavedInv, Saved!STypeOK, Saved!BeginUpdate
    <3>2. begun' \in Nat
      BY ONLY <3>1
    <3>3. PICK old0, k : old0 = call[r] /\ k = begun + 1
      OBVIOUS
    <3>4. old0 \in Calls /\ Carries(old0) /\ old0.at = "first" /\ k \in Nat
      BY ONLY <3>1, <3>3
    <3>5. [old0 EXCEPT !.begin = k, !.at = "second"] \in Calls /\ [old0 EXCEPT !.begin = k, !.at = "second"].at = "second"
      BY ONLY <3>4 DEF Calls
    <3>6. Carries([old0 EXCEPT !.begin = k, !.at = "second"])
      BY ONLY <3>4 DEF Calls, Carries
    <3> QED
      BY ONLY <3>2, <3>3, <3>5, <3>6
  <2>2. call' = [call EXCEPT ![r] = c]
    BY <1>6 DEF Saved!BeginUpdate
  <2> HIDE DEF c
  <2> QED
    BY <1>3, <1>6, <2>1, <2>2, SavedGoesOn DEF Saved!BeginUpdate
<1>7. CASE Saved!EnsureJobOwner(r)
  <2>1. CASE Saved!Go(r, "failed")
    BY <1>3, <1>7, <2>1, SavedEnds DEF Saved!EnsureJobOwner
  <2>2. CASE Saved!Go(r, "second")
    BY <1>7, <2>2, SavedContinues DEF Saved!EnsureJobOwner
  <2> QED
    BY <1>7, <2>1, <2>2 DEF Saved!EnsureJobOwner
<1>8. CASE Saved!InsertNote(r)
  <2>1. CASE Saved!Go(r, "failed") /\ UNCHANGED notes
    BY <1>3, <1>8, <2>1, SavedEnds DEF Saved!InsertNote
  <2>2. CASE Saved!Go(r, "served") /\ notes' = notes \cup {[id |-> r, job |-> call[r].job]}
    <3>1. call[r].job \in Saved!Ids
      BY <1>8 DEF SavedInv, Carries, Saved!InsertNote
    <3>2. notes' \subseteq [id : Requests, job : Saved!Ids]
      BY <1>3, <2>2, <3>1
    <3> QED
      BY <1>3, <1>8, <2>2, <3>2, SavedEnds DEF Saved!InsertNote
  <2> QED
    BY <1>8, <2>1, <2>2 DEF Saved!InsertNote
<1>9. CASE Saved!DeleteNote(r)
  <2>1. (Saved!Go(r, "served") \/ Saved!Go(r, "failed")) /\ notes' \subseteq notes
    BY <1>9 DEF Saved!DeleteNote
  <2> QED
    BY <1>3, <1>9, <2>1, SavedEnds DEF Saved!DeleteNote
<1>10. CASE Saved!MarkRead(r)
  <2>1. PICK some \in {notices} \cup {{n} : n \in notices} :
           notices' = (notices \ some) \cup {[n EXCEPT !.read = TRUE] : n \in some}
    BY <1>10 DEF Saved!MarkRead
  <2>2. ASSUME NEW n \in notices
        PROVE  [n EXCEPT !.read = TRUE] \in [id : Requests, kind : Saved!Kinds, about : Saved!Ids \cup Links, read : BOOLEAN]
    BY <1>3
  <2>3. notices' \subseteq [id : Requests, kind : Saved!Kinds, about : Saved!Ids \cup Links, read : BOOLEAN]
    BY <1>3, <2>1, <2>2
  <2> QED
    BY <1>3, <1>10, <2>3, SavedEnds DEF Saved!MarkRead
<1>11. CASE Saved!Clear(r)
  BY <1>3, <1>11, SavedEnds DEF Saved!Clear
<1>12. CASE Saved!FindMatch(r)
  <2>1. CASE Saved!Go(r, "served")
    BY <1>3, <1>12, <2>1, SavedEnds DEF Saved!FindMatch
  <2>2. CASE Saved!Go(r, "second")
    BY <1>12, <2>2, SavedContinues DEF Saved!FindMatch
  <2> QED
    BY <1>12, <2>1, <2>2 DEF Saved!FindMatch
<1>13. CASE Saved!InsertMatch(r)
  <2>1. call[r].link \in Links
    BY <1>13 DEF SavedInv, Carries, Saved!InsertMatch
  <2>2. notices' \subseteq [id : Requests, kind : Saved!Kinds, about : Saved!Ids \cup Links, read : BOOLEAN]
    BY <1>13, <2>1, NoticeIsTyped DEF Saved!InsertMatch, Saved!Kinds
  <2> QED
    BY <1>3, <1>13, <2>2, SavedEnds DEF Saved!InsertMatch
<1> QED
  BY <1>1, <1>4, <1>5, <1>6, <1>7, <1>8, <1>9, <1>10, <1>11, <1>12, <1>13, SavedAsk, InsertSavedStep, ReadSavedStep,
     UpdateSavedStep, DeleteSavedStep DEF Saved!Serve

LEMMA SavedStays == SavedInv /\ UNCHANGED saved => SavedInv'
<1> SUFFICES ASSUME SavedInv, UNCHANGED <<jobs, events, notes, notices, locked, begun, call>> PROVE SavedInv'
  BY DEF saved
<1>1. Saved!STypeOK'
  BY DEF SavedInv, Saved!STypeOK
<1>2. \A r \in Requests : (Carries(call[r]) /\ LockTells(r))'
  BY DEF SavedInv, LockTells, Updating
<1>3. \A j \in jobs' : IsInserted(j.id)'
  BY DEF SavedInv, IsInserted
<1>4. Saved!HistoryExplainsStatus'
  BY DEF SavedInv, Saved!HistoryExplainsStatus, Saved!Explains
<1> QED
  BY <1>1, <1>2, <1>3, <1>4 DEF SavedInv

-----------------------------------------------------------------------------
(* Orders and the sequences that follow them *)

\* A set of pairs that ranks the members of U.
Strict(R, U) ==
    /\ \A x \in U : <<x, x>> \notin R
    /\ \A x, y \in U : x # y => <<x, y>> \in R \/ <<y, x>> \in R
    /\ \A x, y, z \in U : <<x, y>> \in R /\ <<y, z>> \in R => <<x, z>> \in R

Ahead(S, R, x) == {y \in S : <<y, x>> \in R}
Rank(S, R, x) == Cardinality(Ahead(S, R, x))
Follows(s, R) == \A i, j \in DOMAIN s : i < j => <<s[i], s[j]>> \in R
Members(s) == {s[i] : i \in DOMAIN s}
Between(s, first, last) == {s[i] : i \in {k \in DOMAIN s : first <= k /\ k <= last}}

LEMMA SameCount == ASSUME NEW S PROVE Paged!Cardinality(S) = Cardinality(S)
BY Zenon DEF Paged!Cardinality, Cardinality

LEMMA RankIsANumber ==
    ASSUME NEW U, NEW R, NEW S, IsFiniteSet(S), NEW x
    PROVE  Rank(S, R, x) \in Nat /\ IsFiniteSet(Ahead(S, R, x)) /\ Rank(S, R, x) <= Cardinality(S)
<1>1. Ahead(S, R, x) \subseteq S
  BY DEF Ahead
<1> QED
  BY <1>1, FS_Subset, FS_CardinalityType DEF Rank

\* Who is ahead has the lower rank, and the rank of a member is below the number of members.
LEMMA RankGrows ==
    ASSUME NEW U, NEW R, Strict(R, U), NEW S, S \subseteq U, IsFiniteSet(S),
           NEW x \in S, NEW y \in U, <<x, y>> \in R
    PROVE  Rank(S, R, x) < Rank(S, R, y)
<1>1. Ahead(S, R, x) \subseteq Ahead(S, R, y) /\ x \in Ahead(S, R, y) /\ x \notin Ahead(S, R, x)
  BY DEF Strict, Ahead
<1>2. IsFiniteSet(Ahead(S, R, y)) /\ Rank(S, R, x) \in Nat /\ Rank(S, R, y) \in Nat
  BY RankIsANumber
<1> QED
  BY ONLY <1>1, <1>2, FS_Subset DEF Rank

LEMMA RankInside ==
    ASSUME NEW U, NEW R, Strict(R, U), NEW S, S \subseteq U, IsFiniteSet(S), NEW x \in S
    PROVE  Rank(S, R, x) \in 0..Cardinality(S) - 1
<1>1. Ahead(S, R, x) \subseteq S /\ x \notin Ahead(S, R, x)
  BY DEF Ahead, Strict
<1>2. Rank(S, R, x) \in Nat /\ Cardinality(S) \in Nat
  BY RankIsANumber, FS_CardinalityType
<1>3. Cardinality(Ahead(S, R, x)) < Cardinality(S)
  BY <1>1, <1>2, FS_Subset, FS_CardinalityType
<1> QED
  BY ONLY <1>2, <1>3 DEF Rank

LEMMA RankTells ==
    ASSUME NEW U, NEW R, Strict(R, U), NEW S, S \subseteq U, IsFiniteSet(S), NEW x \in S, NEW y \in S
    PROVE  /\ Rank(S, R, x) = Rank(S, R, y) => x = y
           /\ Rank(S, R, x) < Rank(S, R, y) => <<x, y>> \in R
<1>1. x = y \/ <<x, y>> \in R \/ <<y, x>> \in R
  BY DEF Strict
<1>2. <<x, y>> \in R => Rank(S, R, x) < Rank(S, R, y)
  BY RankGrows
<1>3. <<y, x>> \in R => Rank(S, R, y) < Rank(S, R, x)
  BY RankGrows
<1>4. Rank(S, R, x) \in Nat /\ Rank(S, R, y) \in Nat
  BY RankIsANumber
<1> QED
  BY ONLY <1>1, <1>2, <1>3, <1>4

LEMMA RankOfMore ==
    ASSUME NEW R, NEW S, NEW T, S \subseteq T, IsFiniteSet(T), NEW x
    PROVE  Rank(S, R, x) <= Rank(T, R, x)
<1>1. Ahead(S, R, x) \subseteq Ahead(T, R, x)
  BY DEF Ahead
<1>2. IsFiniteSet(Ahead(T, R, x))
  BY RankIsANumber
<1> QED
  BY <1>1, <1>2, FS_Subset DEF Rank

\* Every rank is taken.
LEMMA RankTaken ==
    ASSUME NEW U, NEW R, Strict(R, U), NEW S, S \subseteq U, IsFiniteSet(S), NEW n \in 0..Cardinality(S) - 1
    PROVE  \E x \in S : Rank(S, R, x) = n
<1>1. Cardinality(S) \in Nat
  BY FS_CardinalityType
<1>2. PICK f : f = [x \in S |-> Rank(S, R, x)]
  OBVIOUS
<1>3. f \in [S -> 0..Cardinality(S) - 1]
  BY <1>2, RankInside
<1>4. ASSUME NEW x \in S, NEW y \in S, f[x] = f[y] PROVE x = y
  <2>1. Rank(S, R, x) = Rank(S, R, y)
    BY ONLY <1>2, <1>4
  <2> QED
    BY <2>1, RankTells
<1>5. f \in Injection(S, 0..Cardinality(S) - 1)
  BY <1>3, <1>4 DEF Injection, IsInjective
<1>6. IsFiniteSet(0..Cardinality(S) - 1) /\ Cardinality(0..Cardinality(S) - 1) = Cardinality(S)
  <2>1. PICK a, b : a = 0 /\ b = Cardinality(S) - 1 /\ a \in Int /\ b \in Int
    BY <1>1
  <2>2. IsFiniteSet(a..b) /\ Cardinality(a..b) = IF a > b THEN 0 ELSE b - a + 1
    BY ONLY <2>1, FS_Interval
  <2> QED
    BY <1>1, <2>1, <2>2
<1>7. f \in Surjection(S, 0..Cardinality(S) - 1)
  BY ONLY <1>5, <1>6, FS_Injection
<1> QED
  BY <1>2, <1>7 DEF Surjection

\* InOrder lists the members as they are ranked.
LEMMA InOrderLists ==
    ASSUME NEW U, NEW R, Strict(R, U), NEW S, S \subseteq U, IsFiniteSet(S), NEW s, s = Paged!InOrder(S, R)
    PROVE  /\ s \in Seq(U) /\ Len(s) = Cardinality(S) /\ Follows(s, R) /\ Members(s) = S
           /\ \A k \in DOMAIN s : Rank(S, R, s[k]) = k - 1
<1>1. PICK n \in Nat : n = Cardinality(S)
  BY FS_CardinalityType
<1>9. PICK ranks : ranks = [x \in S |-> Paged!Cardinality({y \in S : <<y, x>> \in R})]
  OBVIOUS
<1>2. DOMAIN s = 1..n /\ \A k \in 1..n : s[k] = CHOOSE x \in S : ranks[x] = k - 1
  BY ONLY <1>1, <1>9, SameCount, s = Paged!InOrder(S, R) DEF Paged!InOrder
<1>3. ASSUME NEW k \in 1..n PROVE s[k] \in S /\ Rank(S, R, s[k]) = k - 1
  <2>1. k - 1 \in 0..Cardinality(S) - 1
    BY <1>1
  <2>2. PICK x \in S : Rank(S, R, x) = k - 1
    BY <2>1, RankTaken
  <2>3. ranks[x] = k - 1
    BY ONLY <1>9, <2>2, SameCount DEF Rank, Ahead
  <2>4. s[k] \in S /\ Paged!Cardinality({y \in S : <<y, s[k]>> \in R}) = k - 1
    <3>1. PICK v : v = s[k]
      OBVIOUS
    <3>2. v = CHOOSE z \in S : ranks[z] = k - 1
      BY <1>2, <3>1
    <3>3. v \in S /\ ranks[v] = k - 1
      BY ONLY <2>3, <3>2, x \in S
    <3> QED
      BY ONLY <1>9, <3>1, <3>3
  <2> QED
    BY ONLY <2>4, SameCount DEF Rank, Ahead
<1>4. s \in [1..n -> U]
  <2>1. \A k \in 1..n : s[k] \in U
    BY <1>3
  <2> QED
    BY ONLY <1>2, <2>1, s = Paged!InOrder(S, R) DEF Paged!InOrder
<1>5. s \in Seq(U) /\ Len(s) = n /\ DOMAIN s = 1..n
  BY ONLY <1>4, n \in Nat
<1>6. Follows(s, R)
  <2>1. ASSUME NEW i \in 1..n, NEW j \in 1..n, i < j PROVE <<s[i], s[j]>> \in R
    <3>1. Rank(S, R, s[i]) < Rank(S, R, s[j])
      BY <1>3, <2>1
    <3>2. s[i] \in S /\ s[j] \in S
      BY <1>3
    <3> QED
      BY ONLY <3>1, <3>2, RankTells, Strict(R, U), S \subseteq U, IsFiniteSet(S)
  <2> QED
    BY <1>5, <2>1 DEF Follows
<1>7. ASSUME NEW x \in S PROVE \E k \in 1..n : s[k] = x
  <2>1. PICK k : k = Rank(S, R, x) + 1
    OBVIOUS
  <2>2. Rank(S, R, x) \in 0..n - 1
    BY <1>1, RankInside
  <2>3. k \in 1..n /\ k - 1 = Rank(S, R, x)
    BY ONLY <2>1, <2>2, n \in Nat
  <2>4. PICK y : y = s[k]
    OBVIOUS
  <2>5. y \in S /\ Rank(S, R, y) = Rank(S, R, x)
    BY <1>3, <2>3, <2>4
  <2>6. y = x
    BY <2>5, RankTells
  <2> QED
    BY <2>3, <2>4, <2>6
<1>8. Members(s) = S
  BY <1>3, <1>5, <1>7 DEF Members
<1> QED
  BY <1>1, <1>3, <1>5, <1>6, <1>8

IsListing(s, U, R, S) == s \in Seq(U) /\ Len(s) = Cardinality(S) /\ Follows(s, R) /\ Members(s) = S

LEMMA InOrderIsListing ==
    ASSUME NEW U, NEW R, Strict(R, U), NEW S, S \subseteq U, IsFiniteSet(S), NEW s, s = Paged!InOrder(S, R)
    PROVE  IsListing(s, U, R, S)
BY InOrderLists DEF IsListing

\* In a sequence that follows the order, the rank is the position.
LEMMA PlaceIsRank ==
    ASSUME NEW U, NEW R, Strict(R, U), NEW s \in Seq(U), Follows(s, R)
    PROVE  /\ IsFiniteSet(Members(s)) /\ Cardinality(Members(s)) = Len(s) /\ Members(s) \subseteq U
           /\ \A i, j \in DOMAIN s : s[i] = s[j] => i = j
           /\ \A i, j \in DOMAIN s : <<s[i], s[j]>> \in R => i < j
           /\ \A k \in DOMAIN s : Rank(Members(s), R, s[k]) = k - 1
<1>1. PICK n \in Nat : n = Len(s) /\ DOMAIN s = 1..n /\ \A k \in 1..n : s[k] \in U
  OBVIOUS
<1>2. ASSUME NEW i \in 1..n, NEW j \in 1..n, s[i] = s[j] PROVE i = j
  <2>1. ~(i < j) /\ ~(j < i)
    BY <1>1, <1>2 DEF Follows, Strict
  <2> QED
    BY ONLY <2>1, i \in 1..n, j \in 1..n
<1>3. ASSUME NEW i \in 1..n, NEW j \in 1..n, <<s[i], s[j]>> \in R PROVE i < j
  <2>1. i # j /\ ~(j < i)
    BY <1>1, <1>3 DEF Follows, Strict
  <2> QED
    BY ONLY <2>1, i \in 1..n, j \in 1..n
<1>4. ASSUME NEW m \in 0..n
      PROVE  IsFiniteSet({s[i] : i \in 1..m}) /\ Cardinality({s[i] : i \in 1..m}) = m
  <2>1. PICK f : f = [i \in 1..m |-> s[i]]
    OBVIOUS
  <2>2. \A i \in 1..m : i \in 1..n
    BY ONLY m \in 0..n, n \in Nat
  <2>3. f \in [1..m -> {s[i] : i \in 1..m}] /\ \A x \in {s[i] : i \in 1..m} : \E i \in 1..m : f[i] = x
    BY ONLY <2>1
  <2>4. \A i, j \in 1..m : f[i] = f[j] => i = j
    BY <1>2, <2>1, <2>2
  <2>5. f \in Bijection(1..m, {s[i] : i \in 1..m})
    BY <2>3, <2>4 DEF Bijection, Injection, Surjection, IsInjective
  <2>6. IsFiniteSet(1..m) /\ Cardinality(1..m) = m
    <3>1. m \in Nat /\ 1 \in Int
      BY ONLY m \in 0..n
    <3>2. IsFiniteSet(1..m) /\ Cardinality(1..m) = IF 1 > m THEN 0 ELSE m - 1 + 1
      BY ONLY <3>1, FS_Interval
    <3> QED
      BY ONLY <3>1, <3>2
  <2> QED
    BY ONLY <2>5, <2>6, FS_Bijection DEF ExistsBijection
<1>5. Members(s) = {s[i] : i \in 1..n}
  BY <1>1 DEF Members
<1>6. n \in 0..n
  BY ONLY n \in Nat
<1>7. ASSUME NEW k \in 1..n PROVE Rank(Members(s), R, s[k]) = k - 1
  <2>1. \A i \in 1..n : <<s[i], s[k]>> \in R <=> i \in 1..k - 1
    BY <1>1, <1>3 DEF Follows
  <2>2. Ahead(Members(s), R, s[k]) = {s[i] : i \in 1..k - 1}
    BY <1>1, <1>5, <2>1 DEF Ahead
  <2>3. k - 1 \in 0..n
    BY ONLY k \in 1..n, n \in Nat
  <2> QED
    BY <1>4, <2>2, <2>3 DEF Rank
<1>8. IsFiniteSet(Members(s)) /\ Cardinality(Members(s)) = n /\ Members(s) \subseteq U
  BY <1>1, <1>4, <1>5, <1>6
<1> QED
  BY <1>1, <1>2, <1>3, <1>7, <1>8

LEMMA ListIsUnique ==
    ASSUME NEW U, NEW R, Strict(R, U), NEW s \in Seq(U), Follows(s, R), NEW S, S = Members(s)
    PROVE  s = Paged!InOrder(S, R)
<1>1. PICK t : t = Paged!InOrder(S, R)
  OBVIOUS
<1>2. S \subseteq U /\ IsFiniteSet(S) /\ Cardinality(S) = Len(s)
  BY PlaceIsRank
<1>3. t \in Seq(U) /\ Len(t) = Cardinality(S) /\ Follows(t, R) /\ Members(t) = S /\ \A k \in DOMAIN t : Rank(S, R, t[k]) = k - 1
  BY <1>1, <1>2, InOrderLists
<1>4. PICK n \in Nat : n = Len(s) /\ n = Len(t) /\ DOMAIN s = 1..n /\ DOMAIN t = 1..n
  BY <1>2, <1>3
<1>5. ASSUME NEW k \in 1..n PROVE s[k] = t[k]
  <2>1. PICK x, y : x = s[k] /\ y = t[k]
    OBVIOUS
  <2>2. x \in S /\ y \in S
    BY <1>3, <1>4, <2>1 DEF Members
  <2>3. Rank(S, R, x) = k - 1
    BY <1>4, <2>1, PlaceIsRank
  <2>4. Rank(S, R, y) = k - 1
    BY <1>3, <1>4, <2>1
  <2>5. Rank(S, R, x) = Rank(S, R, y)
    BY ONLY <2>3, <2>4
  <2>6. x = y
    <3>1. Rank(S, R, x) = Rank(S, R, y) => x = y
      BY ONLY <1>2, <2>2, RankTells, Strict(R, U)
    <3> QED
      BY ONLY <2>5, <3>1
  <2> QED
    BY <2>1, <2>6
<1> QED
  BY <1>1, <1>3, <1>4, <1>5

\* A part of a sequence: its members are those at the places asked for, in the same order.
IsPart(U, s, a, b, p) ==
    /\ p \in Seq(U)
    /\ Members(p) = {s[i] : i \in {k \in DOMAIN s : a <= k /\ k <= b}}
    /\ \A R : Follows(s, R) => Follows(p, R)
    /\ \A k \in DOMAIN p : k + (IF a < 1 THEN 0 ELSE a - 1) \in DOMAIN s /\ p[k] = s[k + (IF a < 1 THEN 0 ELSE a - 1)]
    /\ Len(p) = IF (IF a < 1 THEN 1 ELSE a) > (IF b > Len(s) THEN Len(s) ELSE b) THEN 0
                ELSE (IF b > Len(s) THEN Len(s) ELSE b) - (IF a < 1 THEN 1 ELSE a) + 1

LEMMA PartOfAList ==
    ASSUME NEW U, NEW s \in Seq(U), NEW a \in Int, NEW b \in Int, NEW p, p = Paged!Part(s, a, b)
    PROVE  IsPart(U, s, a, b, p)
<1>1. PICK n \in Nat : n = Len(s) /\ DOMAIN s = 1..n /\ \A k \in 1..n : s[k] \in U
  OBVIOUS
<1>2. PICK m \in Int : m = IF a < 1 THEN 1 ELSE a
  OBVIOUS
<1>3. PICK z \in Int : z = IF b > n THEN n ELSE b
  OBVIOUS
<1>4. p = SubSeq(s, m, z)
  BY <1>1, <1>2, <1>3 DEF Paged!Part
<1>5. m >= 1 /\ z <= n
  BY ONLY <1>2, <1>3, n \in Nat, a \in Int, b \in Int
<1>6. PICK l \in Nat : l = IF m > z THEN 0 ELSE z - m + 1
  <2>1. (IF m > z THEN 0 ELSE z - m + 1) \in Nat
    BY ONLY m \in Int, z \in Int
  <2> QED
    BY ONLY <2>1
<1>7. p = [i \in 1..l |-> s[i + m - 1]]
  BY <1>4, <1>6
<1>8. \A i \in 1..l : i + m - 1 \in 1..n
  BY ONLY <1>5, <1>6, n \in Nat, m \in Int, z \in Int
<1>9. p \in Seq(U) /\ Len(p) = l /\ DOMAIN p = 1..l
  <2>1. \A i \in 1..l : s[i + m - 1] \in U
    BY <1>1, <1>8
  <2>2. p \in [1..l -> U]
    BY ONLY <1>7, <2>1
  <2> QED
    BY ONLY <2>2, l \in Nat
<1>10. ASSUME NEW k \in 1..l PROVE k + (IF a < 1 THEN 0 ELSE a - 1) \in 1..n /\ p[k] = s[k + (IF a < 1 THEN 0 ELSE a - 1)]
  <2>1. k + (IF a < 1 THEN 0 ELSE a - 1) = k + m - 1
    BY ONLY <1>2, a \in Int, k \in 1..l
  <2> QED
    BY <1>7, <1>8, <2>1
<1>11. Members(p) = {s[i] : i \in {k \in 1..n : a <= k /\ k <= b}}
  <2>1. ASSUME NEW k \in 1..l PROVE \E i \in 1..n : a <= i /\ i <= b /\ s[i] = p[k]
    <3>1. PICK i : i = k + m - 1
      OBVIOUS
    <3>2. i \in 1..n /\ a <= i /\ i <= b
      BY ONLY <3>1, <1>2, <1>3, <1>5, <1>6, n \in Nat, a \in Int, b \in Int, k \in 1..l, m \in Int, z \in Int
    <3> QED
      BY <1>7, <3>1, <3>2
  <2>2. ASSUME NEW i \in 1..n, a <= i, i <= b PROVE \E k \in 1..l : p[k] = s[i]
    <3>1. PICK k : k = i - m + 1
      OBVIOUS
    <3>2. k \in 1..l /\ i = k + m - 1
      BY ONLY <2>2, <3>1, <1>2, <1>3, <1>5, <1>6, n \in Nat, a \in Int, b \in Int, m \in Int, z \in Int, l \in Nat
    <3> QED
      BY <1>7, <3>2
  <2>3. Members(p) = {p[k] : k \in 1..l}
    BY ONLY <1>9 DEF Members
  <2>4. Members(p) \subseteq {s[i] : i \in {k \in 1..n : a <= k /\ k <= b}}
    BY ONLY <2>1, <2>3
  <2>5. {s[i] : i \in {k \in 1..n : a <= k /\ k <= b}} \subseteq Members(p)
    BY ONLY <2>2, <2>3
  <2> QED
    BY ONLY <2>4, <2>5
<1>12. ASSUME NEW R, Follows(s, R) PROVE Follows(p, R)
  <2>1. ASSUME NEW i \in 1..l, NEW j \in 1..l, i < j PROVE <<p[i], p[j]>> \in R
    <3>1. PICK x, y : x = i + m - 1 /\ y = j + m - 1
      OBVIOUS
    <3>2. x \in 1..n /\ y \in 1..n
      BY <1>8, <3>1
    <3>3. x < y
      BY ONLY <2>1, <3>1, m \in Int
    <3>4. p[i] = s[x] /\ p[j] = s[y]
      BY <1>7, <3>1
    <3> QED
      BY <1>1, <1>12, <3>2, <3>3, <3>4 DEF Follows
  <2> QED
    BY <1>9, <2>1 DEF Follows
<1> QED
  BY <1>1, <1>2, <1>3, <1>6, <1>9, <1>10, <1>11, <1>12 DEF IsPart

IsJoined(U, s, t, p) ==
    /\ p \in Seq(U) /\ Len(p) = Len(s) + Len(t) /\ Members(p) = Members(s) \cup Members(t)
    /\ \A i \in DOMAIN s : i \in DOMAIN p /\ p[i] = s[i]
    /\ \A i \in DOMAIN t : Len(s) + i \in DOMAIN p /\ p[Len(s) + i] = t[i]
    /\ \A i \in DOMAIN p : IF i <= Len(s) THEN i \in DOMAIN s ELSE i - Len(s) \in DOMAIN t
    /\ \A R : Follows(s, R) /\ Follows(t, R) /\ (\A x \in Members(s), y \in Members(t) : <<x, y>> \in R) => Follows(p, R)

LEMMA Joined ==
    ASSUME NEW U, NEW s \in Seq(U), NEW t \in Seq(U), NEW p, p = s \o t
    PROVE  IsJoined(U, s, t, p)
<1>1. PICK m \in Nat : m = Len(s) /\ DOMAIN s = 1..m /\ \A i \in 1..m : s[i] \in U
  OBVIOUS
<1>2. PICK n \in Nat : n = Len(t) /\ DOMAIN t = 1..n /\ \A i \in 1..n : t[i] \in U
  OBVIOUS
<1>3. p \in Seq(U) /\ Len(p) = m + n /\ DOMAIN p = 1..m + n /\ \A i \in 1..m + n : p[i] = IF i <= m THEN s[i] ELSE t[i - m]
  BY <1>1, <1>2
<1>4. \A i \in 1..m : i \in 1..m + n /\ p[i] = s[i]
  <2>1. \A i \in 1..m : i \in 1..m + n /\ i <= m
    BY ONLY m \in Nat, n \in Nat
  <2> QED
    BY <1>3, <2>1
<1>5. \A i \in 1..n : m + i \in 1..m + n /\ p[m + i] = t[i]
  <2>1. \A i \in 1..n : m + i \in 1..m + n /\ ~(m + i <= m) /\ m + i - m = i
    BY ONLY m \in Nat, n \in Nat
  <2> QED
    BY <1>3, <2>1
<1>6. \A i \in 1..m + n : IF i <= m THEN i \in 1..m ELSE i - m \in 1..n
  BY ONLY m \in Nat, n \in Nat
<1>7. Members(p) = Members(s) \cup Members(t)
  <2>1. Members(p) \subseteq Members(s) \cup Members(t)
    BY <1>1, <1>2, <1>3, <1>6 DEF Members
  <2>2. Members(s) \subseteq Members(p)
    BY <1>1, <1>3, <1>4 DEF Members
  <2>3. ASSUME NEW x \in Members(t) PROVE x \in Members(p)
    <3>1. PICK i \in 1..n : x = t[i]
      BY <1>2 DEF Members
    <3>2. PICK k \in 1..m + n : p[k] = t[i]
      BY ONLY <1>5, i \in 1..n
    <3> QED
      BY <1>3, <3>1, <3>2 DEF Members
  <2> QED
    BY ONLY <2>1, <2>2, <2>3
<1>8. ASSUME NEW R, Follows(s, R), Follows(t, R), \A x \in Members(s), y \in Members(t) : <<x, y>> \in R
      PROVE  Follows(p, R)
  <2>1. ASSUME NEW i \in 1..m + n, NEW j \in 1..m + n, i < j PROVE <<p[i], p[j]>> \in R
    <3>1. CASE j <= m
      <4>1. i \in 1..m /\ j \in 1..m
        BY ONLY <2>1, <3>1, m \in Nat, n \in Nat
      <4> QED
        BY <1>1, <1>4, <1>8, <2>1, <4>1 DEF Follows
    <3>2. CASE i <= m /\ ~(j <= m)
      <4>1. i \in 1..m /\ j - m \in 1..n
        BY ONLY <2>1, <3>2, m \in Nat, n \in Nat
      <4>2. p[i] = s[i] /\ p[j] = t[j - m]
        BY <1>3, <3>2
      <4>3. s[i] \in Members(s) /\ t[j - m] \in Members(t)
        BY <1>1, <1>2, <4>1 DEF Members
      <4> QED
        BY <1>8, <4>2, <4>3
    <3>3. CASE ~(i <= m)
      <4>1. PICK x, y : x = i - m /\ y = j - m
        OBVIOUS
      <4>2. x \in 1..n /\ y \in 1..n /\ x < y /\ ~(j <= m)
        BY ONLY <2>1, <3>3, <4>1, m \in Nat, n \in Nat
      <4>3. p[i] = t[x] /\ p[j] = t[y]
        BY <1>3, <3>3, <4>1, <4>2
      <4> QED
        BY <1>2, <1>8, <4>2, <4>3 DEF Follows
    <3> QED
      BY <3>1, <3>2, <3>3
  <2> QED
    BY <1>3, <2>1 DEF Follows
<1> QED
  BY <1>1, <1>2, <1>3, <1>4, <1>5, <1>6, <1>7, <1>8 DEF IsJoined

\* What is kept of a list keeps its order.
LEMMA LessRanksNumbers == Strict(Paged!Less, Nat)
BY DEF Strict, Paged!Less

LEMMA OnlyOfAList ==
    ASSUME NEW U, NEW s \in Seq(U), NEW S, NEW p, p = Paged!Only(s, S)
    PROVE  /\ p \in Seq(U) /\ Members(p) = Members(s) \cap S /\ Len(p) <= Len(s)
           /\ \A R : Follows(s, R) => Follows(p, R)
<1>1. PICK n \in Nat : n = Len(s) /\ DOMAIN s = 1..n /\ \A i \in 1..n : s[i] \in U
  OBVIOUS
<1>2. PICK K : K = {i \in DOMAIN s : s[i] \in S}
  OBVIOUS
<1>3. PICK kept : kept = Paged!InOrder(K, Paged!Less)
  OBVIOUS
<1>4. K \subseteq Nat /\ IsFiniteSet(K) /\ Cardinality(K) <= n
  <2>1. IsFiniteSet(1..n) /\ Cardinality(1..n) = n
    <3>1. n \in Int /\ 1 \in Int
      OBVIOUS
    <3>2. IsFiniteSet(1..n) /\ Cardinality(1..n) = IF 1 > n THEN 0 ELSE n - 1 + 1
      BY ONLY <3>1, FS_Interval
    <3> QED
      BY ONLY <3>2, n \in Nat
  <2>2. K \subseteq 1..n
    BY <1>1, <1>2
  <2>3. IsFiniteSet(K) /\ Cardinality(K) <= Cardinality(1..n)
    BY ONLY <2>1, <2>2, FS_Subset
  <2>4. K \subseteq Nat
    BY ONLY <2>2, n \in Nat
  <2> QED
    BY ONLY <2>1, <2>3, <2>4
<1>5. kept \in Seq(Nat) /\ Len(kept) = Cardinality(K) /\ Follows(kept, Paged!Less) /\ Members(kept) = K
  <2>1. K \subseteq Nat /\ IsFiniteSet(K)
    BY ONLY <1>4
  <2>2. PICK N, less : N = Nat /\ less = Paged!Less
    OBVIOUS
  <2>3. K \subseteq N /\ Strict(less, N) /\ kept = Paged!InOrder(K, less)
    BY ONLY <1>3, <2>1, <2>2, LessRanksNumbers
  <2>4. IsListing(kept, N, less, K)
    BY ONLY <2>1, <2>3, InOrderIsListing
  <2>5. kept \in Seq(N) /\ Len(kept) = Cardinality(K) /\ Follows(kept, less) /\ Members(kept) = K
    BY ONLY <2>4 DEF IsListing
  <2> QED
    BY ONLY <2>2, <2>5
<1>6. PICK m \in Nat : m = Len(kept) /\ DOMAIN kept = 1..m
  BY <1>5
<1>7. p = [k \in 1..m |-> s[kept[k]]]
  BY <1>2, <1>3, <1>6 DEF Paged!Only, Paged!Ascending
<1>8. \A k \in 1..m : kept[k] \in K /\ kept[k] \in 1..n
  BY <1>1, <1>2, <1>5, <1>6 DEF Members
<1>9. p \in Seq(U) /\ Len(p) = m /\ DOMAIN p = 1..m
  <2>1. \A k \in 1..m : s[kept[k]] \in U
    BY <1>1, <1>8
  <2>2. p \in [1..m -> U]
    BY ONLY <1>7, <2>1
  <2> QED
    BY ONLY <2>2, m \in Nat
<1>10. Members(p) = Members(s) \cap S
  <2>1. \A k \in 1..m : p[k] \in Members(s) \cap S
    BY <1>1, <1>2, <1>7, <1>8 DEF Members
  <2>2. ASSUME NEW i \in 1..n, s[i] \in S PROVE \E k \in 1..m : p[k] = s[i]
    <3>1. i \in Members(kept)
      BY <1>1, <1>2, <1>5, <2>2
    <3>2. PICK k \in 1..m : kept[k] = i
      BY <1>6, <3>1 DEF Members
    <3> QED
      BY <1>7, <3>2
  <2>3. Members(p) = {p[k] : k \in 1..m} /\ Members(s) = {s[i] : i \in 1..n}
    BY ONLY <1>1, <1>9 DEF Members
  <2> QED
    <3>1. Members(p) \subseteq Members(s) \cap S
      BY ONLY <2>1, <2>3
    <3>2. Members(s) \cap S \subseteq Members(p)
      BY ONLY <2>2, <2>3
    <3> QED
      BY ONLY <3>1, <3>2
<1>11. ASSUME NEW R, Follows(s, R) PROVE Follows(p, R)
  <2>1. ASSUME NEW i \in 1..m, NEW j \in 1..m, i < j PROVE <<p[i], p[j]>> \in R
    <3>1. PICK x, y : x = kept[i] /\ y = kept[j]
      OBVIOUS
    <3>2. <<x, y>> \in Paged!Less
      BY <1>5, <1>6, <2>1, <3>1 DEF Follows
    <3>3. x < y /\ x \in 1..n /\ y \in 1..n
      BY <1>8, <3>1, <3>2 DEF Paged!Less
    <3>4. p[i] = s[x] /\ p[j] = s[y]
      BY <1>7, <3>1
    <3> QED
      BY <1>1, <1>11, <3>3, <3>4 DEF Follows
  <2> QED
    BY <1>9, <2>1 DEF Follows
<1> QED
  BY <1>1, <1>4, <1>5, <1>6, <1>9, <1>10, <1>11

-----------------------------------------------------------------------------
(* The first of an order, kept while more come *)

Top(S, R, c) == {x \in S : Rank(S, R, x) < c}

LEMMA RankInTheTop ==
    ASSUME NEW U, NEW R, Strict(R, U), NEW S, S \subseteq U, IsFiniteSet(S), NEW c \in Int, NEW x \in Top(S, R, c)
    PROVE  Rank(Top(S, R, c), R, x) = Rank(S, R, x)
<1>1. x \in S /\ Rank(S, R, x) < c
  BY DEF Top
<1>2. ASSUME NEW y \in Ahead(S, R, x) PROVE y \in Top(S, R, c)
  <2>1. y \in S /\ <<y, x>> \in R
    BY DEF Ahead
  <2>2. Rank(S, R, y) < Rank(S, R, x)
    BY <1>1, <2>1, RankGrows
  <2>3. Rank(S, R, y) \in Nat /\ Rank(S, R, x) \in Nat
    BY RankIsANumber
  <2>4. Rank(S, R, y) < c
    BY ONLY <1>1, <2>2, <2>3, c \in Int
  <2> QED
    BY <2>1, <2>4 DEF Top
<1>3. Ahead(Top(S, R, c), R, x) = Ahead(S, R, x)
  BY <1>2 DEF Ahead, Top
<1> QED
  BY <1>3 DEF Rank

\* An order with so many members has so many first ones.
LEMMA TopIsFull ==
    ASSUME NEW U, NEW R, Strict(R, U), NEW S, S \subseteq U, IsFiniteSet(S), NEW c \in Nat, c <= Cardinality(S)
    PROVE  IsFiniteSet(Top(S, R, c)) /\ c <= Cardinality(Top(S, R, c))
<1>1. PICK T : T = Top(S, R, c)
  OBVIOUS
<1>2. T \subseteq S /\ IsFiniteSet(T) /\ Cardinality(S) \in Nat
  <2>1. T \subseteq S
    BY <1>1 DEF Top
  <2> QED
    BY <2>1, FS_Subset, FS_CardinalityType
<1>3. PICK f : f = [x \in T |-> Rank(S, R, x)]
  OBVIOUS
<1>4. \A x \in T : Rank(S, R, x) \in Nat /\ Rank(S, R, x) < c
  BY <1>1, RankIsANumber DEF Top
<1>5. f \in [T -> 0..c - 1]
  <2>1. \A x \in T : Rank(S, R, x) \in 0..c - 1
    BY ONLY <1>4, c \in Nat
  <2> QED
    BY ONLY <1>3, <2>1
<1>6. ASSUME NEW n \in 0..c - 1 PROVE \E x \in T : f[x] = n
  <2>1. n \in 0..Cardinality(S) - 1
    BY ONLY <1>2, c \in Nat, c <= Cardinality(S), n \in 0..c - 1
  <2>2. PICK x \in S : Rank(S, R, x) = n
    BY <2>1, RankTaken
  <2>3. n < c
    BY ONLY n \in 0..c - 1, c \in Nat
  <2>4. x \in T
    BY <1>1, <2>2, <2>3 DEF Top
  <2> QED
    BY <1>3, <2>2, <2>4
<1>7. f \in Surjection(T, 0..c - 1)
  BY <1>5, <1>6 DEF Surjection
<1>8. Cardinality(0..c - 1) <= Cardinality(T)
  BY ONLY <1>2, <1>7, FS_Surjection
<1>9. Cardinality(0..c - 1) = c
  <2>1. PICK a, b : a = 0 /\ b = c - 1 /\ a \in Int /\ b \in Int
    OBVIOUS
  <2>2. Cardinality(a..b) = IF a > b THEN 0 ELSE b - a + 1
    BY ONLY <2>1, FS_Interval
  <2> QED
    BY ONLY <2>1, <2>2, c \in Nat
<1> QED
  BY <1>1, <1>2, <1>8, <1>9

\* Whoever is not among the first c before more come is not among them after.
LEMMA TopOfMore ==
    ASSUME NEW U, NEW R, Strict(R, U), NEW S, S \subseteq U, IsFiniteSet(S), NEW M, M \subseteq U, IsFiniteSet(M), NEW c \in Nat
    PROVE  Top(Top(S, R, c) \cup M, R, c) = Top(S \cup M, R, c)
<1>1. PICK T : T = Top(S, R, c)
  OBVIOUS
<1>2. PICK A, B : A = T \cup M /\ B = S \cup M
  OBVIOUS
<1>3. T \subseteq S /\ A \subseteq B /\ B \subseteq U /\ S \subseteq B /\ T \subseteq A /\ M \subseteq A
  <2>1. T \subseteq S
    BY <1>1 DEF Top
  <2> QED
    BY <1>2, <2>1
<1>4. IsFiniteSet(T) /\ IsFiniteSet(A) /\ IsFiniteSet(B)
  <2>1. IsFiniteSet(B)
    BY <1>2, FS_Union
  <2> QED
    BY <1>3, <2>1, FS_Subset
<1>5. \A x : /\ Rank(A, R, x) \in Nat /\ Rank(B, R, x) \in Nat /\ Rank(S, R, x) \in Nat
             /\ Rank(A, R, x) <= Rank(B, R, x) /\ Rank(S, R, x) <= Rank(B, R, x)
  BY <1>3, <1>4, RankIsANumber, RankOfMore
<1>6. ASSUME NEW x \in B, Rank(B, R, x) < c PROVE x \in A /\ Rank(A, R, x) < c
  <2>1. Rank(A, R, x) < c /\ Rank(S, R, x) < c
    BY ONLY <1>5, <1>6, c \in Nat
  <2> QED
    BY <1>1, <1>2, <2>1 DEF Top
<1>7. ASSUME NEW x \in A, Rank(A, R, x) < c PROVE x \in B /\ Rank(B, R, x) < c
  <2>1. ASSUME NEW y \in S, y \notin T, <<y, x>> \in R PROVE FALSE
    <3>1. ~(Rank(S, R, y) < c)
      BY <1>1, <2>1 DEF Top
    <3>2. ASSUME NEW z \in T PROVE z \in Ahead(A, R, x)
      <4>1. z \in S /\ Rank(S, R, z) < c
        BY <1>1 DEF Top
      <4>2. Rank(S, R, z) < Rank(S, R, y)
        BY ONLY <1>5, <3>1, <4>1, c \in Nat
      <4>3. <<z, y>> \in R
        BY <4>1, <4>2, RankTells
      <4>4. <<z, x>> \in R
        BY <1>3, <2>1, <4>1, <4>3 DEF Strict
      <4> QED
        BY <1>3, <4>4 DEF Ahead
    <3>3. c <= Cardinality(S)
      <4>1. Rank(S, R, y) \in 0..Cardinality(S) - 1 /\ Cardinality(S) \in Nat
        BY RankInside, FS_CardinalityType
      <4> QED
        BY ONLY <1>5, <3>1, <4>1, c \in Nat
    <3>4. c <= Cardinality(T)
      BY <1>1, <3>3, TopIsFull
    <3>5. T \subseteq Ahead(A, R, x) /\ IsFiniteSet(Ahead(A, R, x))
      BY <1>4, <3>2, RankIsANumber
    <3>6. Cardinality(T) <= Rank(A, R, x)
      BY ONLY <3>5, FS_Subset DEF Rank
    <3>7. Cardinality(T) \in Nat
      BY <1>4, FS_CardinalityType
    <3> QED
      BY ONLY <1>5, <1>7, <3>4, <3>6, <3>7, c \in Nat
  <2>2. Ahead(B, R, x) \subseteq Ahead(A, R, x)
    BY <1>2, <2>1 DEF Ahead
  <2>3. Ahead(A, R, x) \subseteq Ahead(B, R, x)
    BY <1>3 DEF Ahead
  <2>4. Rank(B, R, x) = Rank(A, R, x)
    BY <2>2, <2>3 DEF Rank
  <2> QED
    BY <1>3, <1>7, <2>4
<1>8. Top(A, R, c) = Top(B, R, c)
  BY <1>6, <1>7, <1>3 DEF Top
<1> QED
  BY <1>1, <1>2, <1>8

\* A part of a sequence that follows the order is what has the ranks asked for.
Ranked(S, R, a, b) == {x \in S : a <= Rank(S, R, x) /\ Rank(S, R, x) < b}

LEMMA PartIsRanked ==
    ASSUME NEW U, NEW R, Strict(R, U), NEW s \in Seq(U), Follows(s, R), NEW a \in Int, NEW b \in Int,
           NEW p, p = Paged!Part(s, a + 1, b)
    PROVE  Members(p) = Ranked(Members(s), R, a, b)
<1>1. PICK S : S = Members(s)
  OBVIOUS
<1>2. PICK n \in Nat : n = Len(s) /\ DOMAIN s = 1..n
  OBVIOUS
<1>3. \A k \in 1..n : s[k] \in S /\ Rank(S, R, s[k]) = k - 1
  <2>1. \A k \in 1..n : s[k] \in S
    BY ONLY <1>1, <1>2 DEF Members
  <2>2. \A k \in DOMAIN s : Rank(Members(s), R, s[k]) = k - 1
    BY PlaceIsRank
  <2> QED
    BY ONLY <1>1, <1>2, <2>1, <2>2
<1>4. \A x \in S : \E k \in 1..n : x = s[k]
  BY <1>1, <1>2 DEF Members
<1>5. Members(p) = {s[i] : i \in {k \in 1..n : a + 1 <= k /\ k <= b}}
  <2>1. PICK d \in Int : d = a + 1
    OBVIOUS
  <2>2. p = Paged!Part(s, d, b)
    BY <2>1
  <2>3. IsPart(U, s, d, b, p)
    BY <2>2, PartOfAList, Zenon
  <2> QED
    BY <1>2, <2>1, <2>3 DEF IsPart
<1>6. \A k \in 1..n : (a + 1 <= k /\ k <= b) <=> (a <= k - 1 /\ k - 1 < b)
  BY ONLY a \in Int, b \in Int, n \in Nat
<1>7. \A k \in 1..n : (a + 1 <= k /\ k <= b) <=> (a <= Rank(S, R, s[k]) /\ Rank(S, R, s[k]) < b)
  BY ONLY <1>3, <1>6
<1>8. Members(p) \subseteq {x \in S : a <= Rank(S, R, x) /\ Rank(S, R, x) < b}
  BY ONLY <1>3, <1>5, <1>7
<1>9. {x \in S : a <= Rank(S, R, x) /\ Rank(S, R, x) < b} \subseteq Members(p)
  BY ONLY <1>4, <1>5, <1>7
<1> QED
  BY <1>1, <1>8, <1>9 DEF Ranked

-----------------------------------------------------------------------------
\* Reading on in what is listed: what was read, and what of it counts.
IsReadOn(U, R, s, c, r, S, m, q, z) ==
    /\ r \in Seq(U) /\ Len(r) \in Nat /\ c + Len(r) \in 0..Len(s)
    /\ Between(s, 1, c + Len(r)) = Between(s, 1, c) \cup Members(r)
    /\ m \in Seq(U) /\ Follows(m, R) /\ Members(m) = Members(r) \cap S
    /\ z \in Seq(U) /\ Follows(z, R) /\ Members(z) = Members(q) \cup Members(m)
    /\ Len(z) = Len(q) + Len(m) /\ Members(z) \subseteq Between(s, 1, c + Len(r))

LEMMA ReadOn ==
    ASSUME NEW U, NEW R, Strict(R, U), NEW s \in Seq(U), Follows(s, R), NEW c \in 0..Len(s), NEW b \in Nat,
           NEW r, r = Paged!Part(s, c + 1, c + b), NEW S, NEW m, m = Paged!Only(r, S),
           NEW q \in Seq(U), Follows(q, R), Members(q) \subseteq Between(s, 1, c), NEW z, z = q \o m
    PROVE  IsReadOn(U, R, s, c, r, S, m, q, z)
<1>0. Len(s) \in Nat /\ DOMAIN s = 1..Len(s)
  OBVIOUS
<1>1. PICK n, e : n = Len(s) /\ e = Len(r) /\ n \in Nat /\ DOMAIN s = 1..n
  BY ONLY <1>0
<1>2. c + 1 \in Int /\ c + b \in Int /\ c \in Nat /\ c <= n
  BY <1>1
<1>20. IsPart(U, s, c + 1, c + b, r)
  BY <1>2, PartOfAList, Zenon
<1>3. /\ r \in Seq(U) /\ Members(r) = {s[i] : i \in {k \in DOMAIN s : c + 1 <= k /\ k <= c + b}}
      /\ Follows(r, R)
      /\ e = IF (IF c + 1 < 1 THEN 1 ELSE c + 1) > (IF c + b > n THEN n ELSE c + b) THEN 0
             ELSE (IF c + b > n THEN n ELSE c + b) - (IF c + 1 < 1 THEN 1 ELSE c + 1) + 1
  BY ONLY <1>1, <1>20, Follows(s, R) DEF IsPart
<1>4. e \in Nat /\ c + e <= n /\ e <= b /\ (c + e = n \/ e = b)
  BY ONLY <1>1, <1>2, <1>3, b \in Nat
<1>5. \A k \in 1..n : (1 <= k /\ k <= c + e) <=> ((1 <= k /\ k <= c) \/ (c + 1 <= k /\ k <= c + b))
  BY ONLY <1>1, <1>2, <1>4, b \in Nat
<1>6. Between(s, 1, c + e) = Between(s, 1, c) \cup Members(r)
  BY <1>1, <1>3, <1>5 DEF Between
<1>7. m \in Seq(U) /\ Follows(m, R) /\ Members(m) = Members(r) \cap S
  BY <1>3, OnlyOfAList
<1>8. \A x \in Members(q), y \in Members(m) : <<x, y>> \in R
  <2>1. ASSUME NEW x \in Members(q), NEW y \in Members(m) PROVE <<x, y>> \in R
    <3>1. PICK i \in DOMAIN s : 1 <= i /\ i <= c /\ x = s[i]
      BY DEF Between
    <3>2. PICK j \in DOMAIN s : c + 1 <= j /\ j <= c + b /\ y = s[j]
      BY <1>3, <1>7
    <3>3. i < j
      BY <1>1, <1>2, <3>1, <3>2
    <3> QED
      BY <3>1, <3>2, <3>3 DEF Follows
  <2> QED
    BY <2>1
<1>9. z = q \o m
  OBVIOUS
<1>21. IsJoined(U, q, m, z)
  BY <1>7, <1>9, Joined, Zenon
<1>10. /\ z \in Seq(U) /\ Len(z) = Len(q) + Len(m) /\ Members(z) = Members(q) \cup Members(m) /\ Follows(z, R)
  BY ONLY <1>7, <1>8, <1>21, Follows(q, R) DEF IsJoined
<1>11. Members(z) \subseteq Between(s, 1, c + e)
  BY <1>6, <1>7, <1>10
<1>12. c + e \in 0..n
  BY ONLY <1>1, <1>2, <1>4
<1>13. r \in Seq(U) /\ e \in Nat
  BY ONLY <1>3, <1>4
<1> QED
  BY ONLY <1>1, <1>6, <1>7, <1>10, <1>11, <1>12, <1>13 DEF IsReadOn

\* A slice goes on where the next part begins.
LEMMA SliceOfMore ==
    ASSUME NEW U, NEW q \in Seq(U), NEW m \in Seq(U), NEW a \in Nat, NEW b \in Nat, NEW p \in Seq(U),
           Members(p) = Between(q, a, b),
           NEW c \in Int, NEW d \in Int, c = a - Len(q), d = b - Len(q),
           NEW w, IsPart(U, m, c, d, w), NEW z, IsJoined(U, p, w, z), NEW l, IsJoined(U, q, m, l)
    PROVE  z \in Seq(U) /\ Members(z) = Between(l, a, b)
<1>1. PICK n \in Nat : n = Len(q) /\ DOMAIN q = 1..n
  OBVIOUS
<1>2. c = a - n /\ d = b - n
  BY <1>1
<1>4. w \in Seq(U) /\ Members(w) = {m[i] : i \in {k \in DOMAIN m : a - n <= k /\ k <= b - n}}
  BY ONLY <1>2, IsPart(U, m, c, d, w) DEF IsPart
<1>6. z \in Seq(U) /\ Members(z) = Members(p) \cup Members(w)
  BY ONLY IsJoined(U, p, w, z) DEF IsJoined
<1>8. /\ \A i \in DOMAIN q : i \in DOMAIN l /\ l[i] = q[i]
      /\ \A i \in DOMAIN m : n + i \in DOMAIN l /\ l[n + i] = m[i]
      /\ \A i \in DOMAIN l : IF i <= n THEN i \in DOMAIN q ELSE i - n \in DOMAIN m
  BY ONLY <1>1, IsJoined(U, q, m, l) DEF IsJoined
<1>9. (\A i \in DOMAIN m : i \in Nat) /\ (\A i \in DOMAIN l : i \in Nat)
  <2>1. l \in Seq(U)
    BY ONLY IsJoined(U, q, m, l) DEF IsJoined
  <2> QED
    BY ONLY <2>1, m \in Seq(U)
<1>10. Members(p) \cup Members(w) \subseteq Between(l, a, b)
  <2>1. Between(q, a, b) \subseteq Between(l, a, b)
    BY <1>8 DEF Between
  <2>2. ASSUME NEW i \in DOMAIN m, a - n <= i, i <= b - n PROVE m[i] \in Between(l, a, b)
    <3>1. n + i \in DOMAIN l /\ l[n + i] = m[i]
      BY <1>8
    <3>2. a <= n + i /\ n + i <= b
      BY <1>9, <2>2
    <3> QED
      BY <3>1, <3>2 DEF Between
  <2> QED
    BY <1>4, <2>1, <2>2
<1>12. \A i \in Nat : a <= i /\ i <= b => n + (i - n) = i /\ a - n <= i - n /\ i - n <= b - n
  BY ONLY a \in Nat, b \in Nat, n \in Nat
<1>11. Between(l, a, b) \subseteq Members(p) \cup Members(w)
  <2>1. SUFFICES ASSUME NEW i \in DOMAIN l, a <= i, i <= b PROVE l[i] \in Members(p) \cup Members(w)
    BY DEF Between
  <2>2. CASE i <= n
    <3>1. i \in DOMAIN q /\ l[i] = q[i]
      BY <1>8, <2>2
    <3> QED
      BY <2>1, <3>1 DEF Between
  <2>3. CASE ~(i <= n)
    <3>1. i - n \in DOMAIN m /\ i \in Nat
      BY <1>8, <1>9, <2>3
    <3>2. n + (i - n) = i /\ a - n <= i - n /\ i - n <= b - n
      BY ONLY <1>12, <2>1, <3>1
    <3>3. l[i] = m[i - n]
      BY <1>8, <3>1, <3>2
    <3> QED
      BY <1>4, <3>1, <3>2, <3>3
  <2> QED
    BY <2>2, <2>3
<1> QED
  BY <1>6, <1>10, <1>11

\* Ranking what is kept together with what was read keeps the first of all.
LEMMA RankedAgain ==
    ASSUME NEW U, NEW R, Strict(R, U), NEW S, S \subseteq U, IsFiniteSet(S), NEW c \in Nat, NEW p \in Seq(U),
           Members(p) = Top(S, R, c), NEW m \in Seq(U), IsFiniteSet(Members(m)),
           NEW q, q = Members(p \o m), NEW z, z = Paged!Part(Paged!InOrder(q, R), 1, c)
    PROVE  z \in Seq(U) /\ Follows(z, R) /\ Members(z) = Top(S \cup Members(m), R, c)
<1>1. PICK w : w = p \o m
  OBVIOUS
<1>20. IsJoined(U, p, m, w)
  BY <1>1, Joined, Zenon
<1>2. q = Top(S, R, c) \cup Members(m)
  <2>1. q = Members(w)
    BY <1>1
  <2> QED
    BY ONLY <1>20, <2>1, Members(p) = Top(S, R, c) DEF IsJoined
<1>3. Members(m) \subseteq U /\ Top(S, R, c) \subseteq S
  BY DEF Members, Top
<1>4. q \subseteq U /\ IsFiniteSet(q)
  <2>1. IsFiniteSet(Top(S, R, c))
    BY <1>3, FS_Subset
  <2> QED
    BY <1>2, <1>3, <2>1, FS_Union
<1>5. PICK l : l = Paged!InOrder(q, R)
  OBVIOUS
<1>6. l \in Seq(U) /\ Follows(l, R) /\ Members(l) = q
  BY <1>4, <1>5, InOrderLists
<1>7. 0 \in Int /\ 1 \in Int /\ c \in Int /\ 0 + 1 = 1
  OBVIOUS
<1>8. z = Paged!Part(l, 1, c) /\ z = Paged!Part(l, 0 + 1, c)
  BY <1>5, <1>7
<1>21. IsPart(U, l, 1, c, z)
  BY <1>6, <1>7, <1>8, PartOfAList, Zenon
<1>9. z \in Seq(U) /\ Follows(z, R)
  BY ONLY <1>6, <1>21 DEF IsPart
<1>10. Members(z) = {x \in q : 0 <= Rank(q, R, x) /\ Rank(q, R, x) < c}
  <2>1. PICK o \in Int : o = 0
    OBVIOUS
  <2>2. z = Paged!Part(l, o + 1, c)
    BY <1>8, <2>1
  <2>3. Members(z) = Ranked(Members(l), R, o, c)
    <3>1. l \in Seq(U) /\ Follows(l, R) /\ c \in Int
      BY <1>6
    <3> QED
      BY ONLY <2>2, <3>1, Strict(R, U), o \in Int, PartIsRanked
  <2> QED
    BY ONLY <1>6, <2>1, <2>3 DEF Ranked
<1>11. \A x \in q : Rank(q, R, x) \in Nat
  BY <1>4, RankIsANumber
<1>12. Members(z) = Top(q, R, c)
  BY <1>10, <1>11 DEF Top
<1>13. Top(q, R, c) = Top(S \cup Members(m), R, c)
  BY <1>2, <1>3, TopOfMore
<1> QED
  BY <1>9, <1>12, <1>13

-----------------------------------------------------------------------------
(* PagedSearch *)

Plain == ~ask.filtered /\ ask.sort = "none"
FromBatches == using # 0 \/ ask.filtered \/ ask.sort # "none"
Order == IF ask.sort = "none" THEN Paged!Relevance ELSE Paged!Match(ask.sort)
Scope == IF ask.keyword THEN Tagged ELSE Jobs
Seeable == docs \cap IF ask.filtered THEN Matching ELSE Jobs
Readable == Seeable \cap Scope
Untouched == ids = <<>> /\ cursor = 0 /\ page = <<>> /\ total = 0 /\ lost = {} /\ windows = 0 /\ seen = <<>> /\ orphans = {}

\* The order of the candidates of a page of the old sets.
Way == IF ask.profile /\ ~ranked THEN Paged!Less ELSE Paged!Relevance

\* What was read follows the candidates, and is all that can be seen of them; the page is
\* what was asked for of it, or the first of the ranking.
Batched ==
    /\ FromBatches /\ lost = {} /\ windows = 0 /\ orphans = {}
    /\ Follows(ids, Paged!Relevance) /\ Readable \subseteq Members(ids) /\ Members(ids) \subseteq Scope
    /\ Follows(seen, Paged!Relevance) /\ total = Len(seen)
    /\ Members(seen) \subseteq Between(ids, 1, cursor) /\ Between(ids, 1, cursor) \cap Readable \subseteq Members(seen)
    /\ IF ask.sort = "none" THEN Members(page) = Between(seen, Paged!Offset + 1, Paged!Offset + Limit)
       ELSE Follows(page, Order) /\ Members(page) = Top(Members(seen), Order, Paged!Capacity)

\* Every member from the place asked for to the cursor is on the page or lost.
Windowed ==
    /\ ~FromBatches /\ (stable => (ranked <=> ask.profile)) /\ Follows(ids, Way) /\ Members(ids) = Paged!Listed
    /\ Members(page) \cup lost = Between(ids, Paged!Offset + 1, cursor)
    /\ Paged!Offset <= cursor \/ cursor = Len(ids)
    /\ Len(page) <= Limit /\ lost \cap docs = {}

\* Nothing on the page ranks behind what the next one starts with, but for the orphans that
\* are left ahead of it.
Answered ==
    stable => IF FromBatches THEN orphans = {} /\ \A j \in Members(page) : Rank(Readable, Order, j) < Paged!Offset + Limit
              ELSE version = 0 /\ \A j \in Members(page) :
                     Rank(Paged!Listed, Paged!Relevance, j) < Paged!Offset + Limit + Cardinality(orphans)

\* Nothing on the page before ranks where this one starts, but for what it left.
Continued ==
    /\ stable /\ at \in {"open", "snapshot", "batch"} =>
          left = 0 /\ \A j \in Members(before) : Rank(Members(seen) \cup Readable, Order, j) < Paged!Offset
    /\ stable /\ at \in {"members", "window"} =>
          version = 0 /\ \A j \in Members(before) : Rank(Paged!Listed, Paged!Relevance, j) < Paged!Offset + left

PagedInv ==
    /\ Paged!PTypeOK /\ {ids, page, seen, before} \subseteq Seq(Jobs) /\ using <= version /\ docs \subseteq members
    /\ at = "open" => Untouched /\ using = 0 /\ (Plain => version # 0)
    /\ at = "snapshot" => Untouched /\ using # 0
    /\ at = "members" => Untouched /\ using = 0 /\ Plain
    /\ at = "batch" => Batched
    /\ at = "window" => Windowed
    /\ at = "done" => Answered
    /\ Continued
    /\ Paged!PageIsTheSlice /\ Paged!NextPageGoesOn

LEMMA PagedConstants ==
    /\ Jobs \subseteq Nat /\ IsFiniteSet(Jobs) /\ Matching \subseteq Jobs /\ Tagged \subseteq Jobs /\ Scores \subseteq [Jobs -> Nat]
    /\ Limit \in Nat \ {0} /\ Batch \in Nat \ {0} /\ MaxWindows \in Nat \ {0} /\ MaxPage \in Nat \ {0} /\ MaxVersion \in Nat
    /\ Cardinality(Jobs) \in Nat
<1>1. Paged!IsFiniteSet(Jobs) <=> IsFiniteSet(Jobs)
  BY DEF Paged!IsFiniteSet, IsFiniteSet
<1>2. IsFiniteSet(Jobs) /\ Jobs = 1..Paged!Cardinality(Jobs)
  BY <1>1, MCAssumption DEF Paged!PagedSearchAssumption
<1>3. Cardinality(Jobs) \in Nat
  BY <1>2, FS_CardinalityType
<1>4. Jobs = 1..Cardinality(Jobs)
  BY <1>2, SameCount
<1>5. Jobs \subseteq Nat
  BY ONLY <1>3, <1>4
<1> QED
  BY <1>2, <1>3, <1>5, MCAssumption DEF Paged!PagedSearchAssumption

LEMMA SomeJobs ==
    ASSUME NEW S, S \subseteq Jobs
    PROVE  IsFiniteSet(S) /\ Cardinality(S) \in Nat /\ Cardinality(S) <= Cardinality(Jobs)
BY PagedConstants, FS_Subset, FS_CardinalityType

LEMMA RelevanceIsStrict == Strict(Paged!Relevance, Jobs)
<1>1. PICK R : R = Paged!Relevance
  OBVIOUS
<1>2. \A x, y \in Jobs : <<x, y>> \in R <=> IF ask.profile /\ (x \in Preferred) # (y \in Preferred)
                                             THEN x \in Preferred ELSE x < y
  BY <1>1 DEF Paged!Relevance
<1>3. Strict(R, Jobs)
  BY <1>2, PagedConstants DEF Strict
<1> QED
  BY <1>1, <1>3

LEMMA MatchIsStrict == ASSUME score \in [Jobs -> Nat], NEW way PROVE Strict(Paged!Match(way), Jobs)
<1>1. PICK R : R = Paged!Match(way)
  OBVIOUS
<1>2. PICK f \in [Jobs -> Nat] : f = score
  OBVIOUS
<1>3. \A x, y \in Jobs : <<x, y>> \in R <=> IF f[x] = f[y] THEN x < y ELSE IF way = "asc" THEN f[x] < f[y] ELSE f[x] > f[y]
  BY <1>1, <1>2 DEF Paged!Match
<1>4. \A x \in Jobs : x \in Nat /\ f[x] \in Nat
  BY <1>2, PagedConstants
<1>5. Strict(R, Jobs)
  BY ONLY <1>3, <1>4 DEF Strict
<1> QED
  BY <1>1, <1>5

LEMMA OffsetIsANumber == ask \in Paged!Asks => Paged!Offset \in Nat
<1>1. ASSUME ask \in Paged!Asks PROVE ask.page \in 1..MaxPage
  BY <1>1 DEF Paged!Asks
<1>2. ASSUME NEW p \in 1..MaxPage PROVE (p - 1) * Limit \in Nat
  <2>1. p - 1 \in Nat /\ Limit \in Nat
    BY PagedConstants
  <2> QED
    BY ONLY <2>1
<1> QED
  BY <1>1, <1>2 DEF Paged!Offset

\* What the proofs of the steps start from.
LEMMA PagedFacts ==
    ASSUME PagedInv
    PROVE  /\ ids \in Seq(Jobs) /\ page \in Seq(Jobs) /\ seen \in Seq(Jobs) /\ before \in Seq(Jobs)
           /\ Paged!Offset \in Nat /\ Strict(Paged!Relevance, Jobs) /\ Strict(Order, Jobs)
           /\ docs \subseteq Jobs /\ members \subseteq Jobs /\ score \in [Jobs -> Nat] /\ Readable \subseteq docs
           /\ version \in 0..MaxVersion /\ ask \in Paged!Asks /\ Paged!Listed \subseteq Jobs /\ orphans \subseteq Jobs
           /\ left \in Nat /\ left \in 0..Paged!Cardinality(Jobs) /\ stable \in BOOLEAN /\ ranked \in BOOLEAN /\ ask.profile \in BOOLEAN
<1>1. score \in [Jobs -> Nat]
  BY PagedConstants DEF PagedInv, Paged!PTypeOK
<1>2. Strict(Order, Jobs)
  BY <1>1, RelevanceIsStrict, MatchIsStrict DEF Order
<1>3. ask \in Paged!Asks /\ Paged!Listed \subseteq Jobs /\ orphans \subseteq Jobs /\ stable \in BOOLEAN /\ ranked \in BOOLEAN
      /\ left \in 0..Paged!Cardinality(Jobs)
  BY PagedConstants DEF PagedInv, Paged!PTypeOK, Paged!Listed
<1>4. ask.profile \in BOOLEAN
  BY <1>3 DEF Paged!Asks
<1>5. left \in Nat
  BY <1>3, SameCount, PagedConstants
<1> QED
  BY <1>1, <1>2, <1>3, <1>4, <1>5, RelevanceIsStrict, OffsetIsANumber DEF PagedInv, Paged!PTypeOK, Readable, Seeable

LEMMA ToSetIsMembers == ASSUME NEW s PROVE Paged!ToSet(s) = Members(s)
BY DEF Paged!ToSet, Members

\* What the next page repeats, counted as the proofs count.
LEMMA GoesOnMeans ==
    Paged!NextPageGoesOn <=> (at = "done" /\ stable => Cardinality(Members(page) \cap Members(before)) <= left)
BY ToSetIsMembers, SameCount DEF Paged!NextPageGoesOn

LEMMA NotAnsweredYet == at # "done" => Paged!PageIsTheSlice /\ Paged!NextPageGoesOn /\ (at = "done" => Answered)
BY DEF Paged!PageIsTheSlice, Paged!NextPageGoesOn

LEMMA PagedStart == ASSUME Paged!PInit PROVE PagedInv
<1> USE DEF Paged!PInit
<1>1. ask \in Paged!Asks
  <2>1. 1 \in 1..MaxPage
    BY PagedConstants
  <2> QED
    BY <2>1 DEF Paged!Asks
<1>2. Paged!PTypeOK
  <2>1. Paged!JobSeq(<<>>) /\ Len(<<>>) = 0
    BY DEF Paged!JobSeq
  <2>2. Paged!Cardinality(Jobs) \in Nat
    BY PagedConstants, SameCount
  <2>3. /\ cursor \in 0..Len(ids) /\ total \in 0..Paged!Cardinality(Jobs) /\ windows \in 0..MaxWindows /\ using \in 0..MaxVersion
        /\ left \in 0..Paged!Cardinality(Jobs)
    BY <2>1, <2>2, PagedConstants
  <2>4. /\ Paged!JobSeq(ids) /\ Paged!JobSeq(page) /\ Paged!JobSeq(seen) /\ Paged!JobSeq(before)
    BY <2>1
  <2> QED
    BY <1>1, <2>3, <2>4 DEF Paged!PTypeOK
<1>3. {ids, page, seen, before} \subseteq Seq(Jobs) /\ using <= version /\ docs \subseteq members
  BY PagedConstants
<1>4. Continued
  BY DEF Continued
<1>5. Paged!PageIsTheSlice /\ Paged!NextPageGoesOn
  BY NotAnsweredYet
<1> QED
  BY <1>2, <1>3, <1>4, <1>5 DEF PagedInv

LEMMA NotAnsweredThen == ASSUME at' # "done" PROVE Paged!PageIsTheSlice' /\ Paged!NextPageGoesOn'
<1>1. (at # "done" => Paged!PageIsTheSlice /\ Paged!NextPageGoesOn)'
  BY NotAnsweredYet, PTL
<1> QED
  BY <1>1

LEMMA NothingInNothing == Members(<<>>) = {} /\ \A a, b : Between(<<>>, a, b) = {}
BY DEF Members, Between

BatchOpens ==
    /\ Follows(ids, Paged!Relevance) /\ Readable \subseteq Members(ids) /\ Members(ids) \subseteq Scope /\ FromBatches
    /\ cursor = 0 /\ page = <<>> /\ total = 0 /\ lost = {} /\ windows = 0 /\ seen = <<>> /\ orphans = {}

LEMMA BatchBegins == BatchOpens => Batched
<1> SUFFICES ASSUME BatchOpens PROVE Batched
  OBVIOUS
<1> USE DEF BatchOpens
<1>1. Members(seen) = {} /\ Members(page) = {} /\ Between(seen, Paged!Offset + 1, Paged!Offset + Limit) = {} /\ total = Len(seen)
  BY NothingInNothing
<1>2. Between(ids, 1, cursor) = {}
  <2>1. \A k : 1 <= k /\ k <= 0 => k \notin Int
    OBVIOUS
  <2> QED
    BY <2>1 DEF Between
<1>3. Follows(seen, Paged!Relevance) /\ Follows(page, Order)
  BY DEF Follows
<1>4. Top({}, Order, Paged!Capacity) = {}
  BY DEF Top
<1> QED
  BY <1>1, <1>2, <1>3, <1>4 DEF Batched

LEMMA AscendingFollows ==
    ASSUME NEW S, S \subseteq Jobs, NEW s, s = Paged!Ascending(S)
    PROVE  /\ s \in Seq(Jobs) /\ Follows(s, Paged!Less) /\ Members(s) = S /\ Len(s) = Cardinality(S)
           /\ ~ask.profile => Follows(s, Paged!Relevance)
<1>1. S \subseteq Nat /\ IsFiniteSet(S)
  BY PagedConstants, SomeJobs
<1>2. s \in Seq(Nat) /\ Follows(s, Paged!Less) /\ Members(s) = S /\ Len(s) = Cardinality(S)
  <2>1. s = Paged!InOrder(S, Paged!Less)
    BY DEF Paged!Ascending
  <2>2. PICK L : L = Paged!Less
    OBVIOUS
  <2>3. Strict(L, Nat)
    BY <2>2, LessRanksNumbers
  <2>4. s = Paged!InOrder(S, L)
    BY <2>1, <2>2
  <2>5. PICK U : U = Nat
    OBVIOUS
  <2>6. Strict(L, U) /\ S \subseteq U /\ IsFiniteSet(S)
    BY <1>1, <2>3, <2>5
  <2>7. s \in Seq(U) /\ Len(s) = Cardinality(S) /\ Follows(s, L) /\ Members(s) = S
    BY ONLY <2>4, <2>6, InOrderLists
  <2> QED
    BY ONLY <2>2, <2>5, <2>7
<1>3. \A i \in DOMAIN s : s[i] \in Jobs
  BY <1>2 DEF Members
<1>4. s \in Seq(Jobs)
  BY ONLY <1>2, <1>3
<1>5. ASSUME ~ask.profile, NEW x \in Jobs, NEW y \in Jobs, <<x, y>> \in Paged!Less PROVE <<x, y>> \in Paged!Relevance
  BY <1>5 DEF Paged!Less, Paged!Relevance
<1> QED
  BY <1>2, <1>3, <1>4, <1>5 DEF Follows

LEMMA PrioritizedFollows ==
    ASSUME NEW S, S \subseteq Jobs, NEW s, s = Paged!Prioritized(S)
    PROVE  s \in Seq(Jobs) /\ Follows(s, Paged!Relevance) /\ Members(s) = S /\ Len(s) = Cardinality(S)
BY RelevanceIsStrict, SomeJobs, InOrderLists DEF Paged!Prioritized

LEMMA SearchStep == ASSUME PagedInv, NEW a \in Paged!Asks, Paged!Search(a) PROVE PagedInv'
<1>1. /\ at \in {"idle", "done"} /\ ask' = a /\ UNCHANGED <<version, docs, members, score>>
      /\ before' = IF at = "done" /\ a = [ask EXCEPT !.page = @ + 1] THEN page ELSE <<>>
      /\ (stable' <=> (stable \/ before' = <<>>)) /\ stable' \in BOOLEAN
      /\ at' = IF a.filtered \/ a.sort # "none" \/ version # 0 THEN "open" ELSE "members"
      /\ using' = 0 /\ ranked' = FALSE
      /\ left' = IF before' = <<>> THEN 0 ELSE Paged!Cardinality(orphans)
  BY DEF Paged!Search, Paged!index
<1>2. ids' = <<>> /\ cursor' = 0 /\ page' = <<>> /\ total' = 0 /\ lost' = {} /\ windows' = 0 /\ seen' = <<>> /\ orphans' = {}
  BY DEF Paged!Search
<1>12. Paged!Cardinality(orphans) = Cardinality(orphans) /\ Cardinality(orphans) \in 0..Paged!Cardinality(Jobs)
  BY SameCount, SomeJobs, PagedConstants, PagedFacts
<1>3. before' \in Seq(Jobs)
  BY <1>1, PagedFacts
<1>4. Paged!PTypeOK'
  <2>1. Paged!JobSeq(<<>>) /\ Len(<<>>) = 0
    BY DEF Paged!JobSeq
  <2>2. Paged!Cardinality(Jobs) \in Nat
    BY PagedConstants, SameCount
  <2>3. /\ cursor' \in 0..Len(ids') /\ total' \in 0..Paged!Cardinality(Jobs) /\ windows' \in 0..MaxWindows /\ using' \in 0..MaxVersion
    BY <1>1, <1>2, <2>1, <2>2, PagedConstants
  <2>4. /\ Paged!JobSeq(ids') /\ Paged!JobSeq(page') /\ Paged!JobSeq(seen')
    BY <1>2, <2>1
  <2>5. Paged!JobSeq(before')
    BY <1>3 DEF Paged!JobSeq
  <2>6. ask' \in Paged!Asks
    BY <1>1
  <2>7. version' \in 0..MaxVersion /\ docs' \subseteq Jobs /\ members' \subseteq Jobs /\ score' \in Scores
    BY <1>1 DEF PagedInv, Paged!PTypeOK
  <2>8. left' \in 0..Paged!Cardinality(Jobs) /\ ranked' \in BOOLEAN /\ orphans' \subseteq Jobs
    <3>1. PICK n : n = Paged!Cardinality(Jobs)
      OBVIOUS
    <3>2. left' = 0 \/ left' = Paged!Cardinality(orphans)
      BY <1>1
    <3>3. left' \in 0..n
      BY ONLY <1>12, <2>2, <3>1, <3>2
    <3> QED
      BY <1>1, <1>2, <3>1, <3>3
  <2> QED
    BY <1>1, <1>2, <2>8, <2>3, <2>4, <2>5, <2>6, <2>7 DEF Paged!PTypeOK
<1>5. ({ids, page, seen, before} \subseteq Seq(Jobs))' /\ using' <= version' /\ docs' \subseteq members'
  BY <1>1, <1>2, <1>3, PagedFacts DEF PagedInv
<1>6. Untouched'
  BY <1>2 DEF Untouched
<1>7. Continued'
  <2>1. CASE before' = <<>>
    <3>1. Members(before)' = {} /\ left' = 0
      BY <1>1, <2>1, NothingInNothing
    <3>2. at' = "members" => version' = 0
      BY <1>1
    <3> QED
      BY <1>1, <3>1, <3>2 DEF Continued
  <2>2. CASE before' # <<>>
    <3>1. at = "done" /\ a = [ask EXCEPT !.page = @ + 1] /\ before' = page /\ (stable' => stable)
          /\ left' = Cardinality(orphans)
      BY <1>1, <1>12, <2>2
    <3>2. a.filtered = ask.filtered /\ a.keyword = ask.keyword /\ a.sort = ask.sort /\ a.profile = ask.profile /\ a.page = ask.page + 1
      BY <3>1, PagedFacts DEF Paged!Asks
    <3>3. Order' = Order /\ Readable' = Readable /\ Paged!Relevance' = Paged!Relevance /\ Paged!Listed' = Paged!Listed
      BY <1>1, <3>2 DEF Order, Readable, Seeable, Scope, Paged!Relevance, Paged!Match, Paged!Listed
    <3>4. Paged!Offset' = Paged!Offset + Limit
      <4>1. ASSUME NEW p \in Nat PROVE (p + 1 - 1) * Limit = (p - 1) * Limit + Limit
        <5>1. PICK q : q = p - 1 /\ p + 1 - 1 = q + 1 /\ q \in Int
          OBVIOUS
        <5>2. (q + 1) * Limit = q * Limit + Limit
          BY ONLY <5>1, PagedConstants
        <5> QED
          BY ONLY <5>1, <5>2
      <4>2. ask.page \in Nat
        BY PagedFacts DEF Paged!Asks
      <4> QED
        BY <1>1, <3>2, <4>1, <4>2 DEF Paged!Offset
    <3>5. Members(seen)' = {}
      BY <1>2, NothingInNothing
    <3>6. Answered
      BY <3>1 DEF PagedInv
    <3>7. ASSUME stable', at' \in {"open", "snapshot", "batch"}
          PROVE  left' = 0 /\ \A j \in Members(before') : Rank((Members(seen) \cup Readable)', Order', j) < Paged!Offset'
      <4>1. FromBatches
        BY <1>1, <3>2, <3>6, <3>7, <3>1 DEF FromBatches, Answered
      <4>2. orphans = {} /\ \A j \in Members(page) : Rank(Readable, Order, j) < Paged!Offset + Limit
        BY <3>1, <3>6, <3>7, <4>1 DEF Answered
      <4>3. (Members(seen) \cup Readable)' = Readable
        BY <3>3, <3>5
      <4>4. left' = 0
        BY <3>1, <4>2, FS_EmptySet
      <4> QED
        BY ONLY <3>1, <3>3, <3>4, <4>2, <4>3, <4>4
    <3>8. ASSUME stable', at' \in {"members", "window"}
          PROVE  version' = 0 /\ \A j \in Members(before') : Rank(Paged!Listed', Paged!Relevance', j) < Paged!Offset' + left'
      <4>1. version = 0 /\ ~a.filtered /\ a.sort = "none"
        BY <1>1, <3>8
      <4>2. using = 0
        BY <4>1 DEF PagedInv, Paged!PTypeOK
      <4>3. ~FromBatches
        BY <3>2, <4>1, <4>2 DEF FromBatches
      <4>4. \A j \in Members(page) : Rank(Paged!Listed, Paged!Relevance, j) < Paged!Offset + Limit + Cardinality(orphans)
        BY <3>1, <3>6, <3>8, <4>3 DEF Answered
      <4> QED
        BY ONLY <1>1, <3>1, <3>3, <3>4, <4>1, <4>4
    <3> QED
      BY <3>7, <3>8 DEF Continued
  <2> QED
    BY <2>1, <2>2
<1>8. (at = "open" => (Plain => version # 0))' /\ (at = "members" => Plain)'
  BY <1>1 DEF Plain
<1>9. Paged!PageIsTheSlice' /\ Paged!NextPageGoesOn'
  BY <1>1, NotAnsweredThen
<1> QED
  BY <1>1, <1>4, <1>5, <1>6, <1>7, <1>8, <1>9 DEF PagedInv

\* A step within a search leaves what is asked, and what the page has to go on from.
Within0 == UNCHANGED <<version, docs, members, score, ask, ranked, before, left, stable, orphans>>

LEMMA OrderStays ==
    ASSUME ask' = ask, score' = score
    PROVE  Order' = Order /\ Paged!Relevance' = Paged!Relevance /\ Paged!Offset' = Paged!Offset /\ Scope' = Scope
BY DEF Order, Paged!Relevance, Paged!Match, Paged!Offset, Scope

LEMMA SetsStay ==
    ASSUME ask' = ask
    PROVE  /\ docs' = docs => Readable' = Readable /\ Seeable' = Seeable
           /\ docs' \subseteq docs => Readable' \subseteq Readable
           /\ members' = members => Paged!Listed' = Paged!Listed
BY DEF Readable, Seeable, Scope, Paged!Listed

\* The page before stays where it is as long as what is read is not more than can be seen.
LEMMA ContinuedStays ==
    ASSUME PagedInv, Within0, at \in {"open", "snapshot", "batch"}, at' \in {"snapshot", "batch", "done", "failed"},
           Members(seen)' \subseteq Members(seen) \cup Readable
    PROVE  Continued'
<1>1. Readable' = Readable /\ Order' = Order /\ Paged!Offset' = Paged!Offset
  BY OrderStays, SetsStay DEF Within0
<1>7. stable => left' = 0
  BY DEF Within0, PagedInv, Continued
<1>2. SUFFICES ASSUME stable, at' \in {"snapshot", "batch"}, NEW j \in Members(before)
               PROVE  Rank((Members(seen) \cup Readable)', Order', j) < Paged!Offset'
  BY <1>7 DEF Continued, Within0
<1>3. PICK S, T, O, o : /\ S = (Members(seen) \cup Readable)' /\ T = Members(seen) \cup Readable /\ O = Order /\ o = Paged!Offset
  OBVIOUS
<1>4. S \subseteq T /\ T \subseteq Jobs /\ o \in Nat
  <2>1. S = Members(seen)' \cup Readable'
    BY ONLY <1>3
  <2>2. S \subseteq T
    BY <1>1, <1>3, <2>1
  <2>3. T \subseteq Jobs /\ o \in Nat
    BY <1>3, PagedFacts DEF Members
  <2> QED
    BY ONLY <2>2, <2>3
<1>5. Rank(T, O, j) < o
  BY <1>2, <1>3 DEF PagedInv, Continued
<1>6. Rank(S, O, j) <= Rank(T, O, j) /\ Rank(S, O, j) \in Nat /\ Rank(T, O, j) \in Nat
  BY <1>4, SomeJobs, RankOfMore, RankIsANumber
<1> QED
  BY ONLY <1>1, <1>3, <1>4, <1>5, <1>6

LEMMA PagedFails ==
    ASSUME PagedInv, Paged!Fail, UNCHANGED <<version, docs, members, score>>
    PROVE  PagedInv'
<1>1. at' = "failed" /\ UNCHANGED <<ask, ranked, before, left, stable, orphans, using, ids, cursor, page, total, lost, windows, seen>>
  BY DEF Paged!Fail, Paged!Goto, Paged!past
<1>2. Paged!PTypeOK'
  BY <1>1 DEF PagedInv, Paged!PTypeOK, Paged!JobSeq
<1>3. Continued'
  BY <1>1 DEF Continued
<1>4. Paged!PageIsTheSlice' /\ Paged!NextPageGoesOn'
  BY <1>1, NotAnsweredThen
<1> QED
  BY <1>1, <1>2, <1>3, <1>4 DEF PagedInv

LEMMA OpenStep == ASSUME PagedInv, Paged!Open PROVE PagedInv'
<1>1. /\ at = "open" /\ using' = version /\ ids' = (IF version = 0 THEN Paged!Ascending(Paged!Listed) ELSE <<>>)
      /\ at' = (IF version = 0 THEN "batch" ELSE "snapshot") /\ Within0
      /\ UNCHANGED <<cursor, page, total, lost, windows, seen>>
  BY DEF Paged!Open, Paged!Goto, Paged!past, Paged!index, Within0
<1>2. Untouched /\ (Plain => version # 0)
  BY <1>1 DEF PagedInv
<1>3. version = 0 => ids' \in Seq(Jobs) /\ Follows(ids', Paged!Relevance) /\ Members(ids') = Paged!Listed
  <2>1. version = 0 => ~ask.profile
    BY <1>2, PagedFacts DEF Plain, Paged!Asks
  <2> QED
    BY <1>1, <2>1, AscendingFollows, PagedFacts
<1>4. ids' \in Seq(Jobs)
  BY <1>1, <1>3
<1>5. Paged!PTypeOK'
  <2>1. Paged!JobSeq(ids') /\ cursor' \in 0..Len(ids')
    BY <1>1, <1>2, <1>4 DEF Paged!JobSeq, Untouched
  <2>2. using' \in 0..MaxVersion
    BY <1>1, PagedFacts
  <2> QED
    BY <1>1, <2>1, <2>2 DEF PagedInv, Paged!PTypeOK, Paged!JobSeq, Within0
<1>6. Continued'
  BY <1>1, ContinuedStays
<1>7. ASSUME version = 0 PROVE Batched'
  <2>1. (BatchOpens => Batched)'
    BY BatchBegins, PTL
  <2>2. FromBatches'
    BY <1>1, <1>2, <1>7 DEF FromBatches, Plain, Within0
  <2>3. Readable' \subseteq Members(ids') /\ Members(ids') \subseteq Scope'
    <3>1. Readable' = Readable /\ Scope' = Scope /\ Members(ids') = Paged!Listed
      BY <1>1, <1>3, <1>7, OrderStays, SetsStay DEF Within0
    <3>2. Readable \subseteq Paged!Listed /\ Paged!Listed \subseteq Scope
      BY PagedFacts DEF Readable, Seeable, Scope, Paged!Listed, PagedInv
    <3> QED
      BY ONLY <3>1, <3>2
  <2>4. Follows(ids', Paged!Relevance')
    BY <1>1, <1>3, <1>7, OrderStays DEF Within0
  <2>5. (cursor = 0 /\ page = <<>> /\ total = 0 /\ lost = {} /\ windows = 0 /\ seen = <<>> /\ orphans = {})'
    BY <1>1, <1>2 DEF Untouched, Within0
  <2> QED
    BY <2>1, <2>2, <2>3, <2>4, <2>5 DEF BatchOpens
<1>8. ASSUME version # 0 PROVE (Untouched /\ using # 0)'
  BY <1>1, <1>2, <1>8 DEF Untouched, Within0
<1>9. Paged!PageIsTheSlice' /\ Paged!NextPageGoesOn'
  BY <1>1, NotAnsweredThen
<1>10. ({ids, page, seen, before} \subseteq Seq(Jobs))' /\ using' <= version' /\ docs' \subseteq members'
  BY <1>1, <1>4, PagedFacts DEF Within0, PagedInv
<1>11. (at' = "batch" => Batched') /\ (at' = "snapshot" => (Untouched /\ using # 0)') /\ at' \in {"batch", "snapshot"}
  BY <1>1, <1>7, <1>8
<1> QED
  BY ONLY <1>5, <1>6, <1>9, <1>10, <1>11 DEF PagedInv

LEMMA SnapshotStep == ASSUME PagedInv, Paged!Snapshot PROVE PagedInv'
<1>1. CASE Paged!Fail /\ UNCHANGED <<version, docs, members, score>>
  BY <1>1, PagedFails
<1>2. CASE ~(Paged!Fail /\ UNCHANGED <<version, docs, members, score>>)
  <2>1. /\ at = "snapshot" /\ ids' = Paged!Prioritized(IF ask.keyword THEN docs \cap Tagged ELSE docs) /\ at' = "batch" /\ Within0
        /\ UNCHANGED <<using, cursor, page, total, lost, windows, seen>>
    BY <1>2 DEF Paged!Snapshot, Paged!Goto, Paged!past, Paged!index, Within0
  <2>2. Untouched /\ using # 0
    BY <2>1 DEF PagedInv
  <2>3. ids' \in Seq(Jobs) /\ Follows(ids', Paged!Relevance) /\ Members(ids') = docs \cap Scope
    <3>1. docs \cap Scope = (IF ask.keyword THEN docs \cap Tagged ELSE docs) /\ docs \cap Scope \subseteq Jobs
      BY PagedFacts DEF Scope
    <3> QED
      BY <2>1, <3>1, PrioritizedFollows
  <2>4. Paged!PTypeOK'
    <3>1. Paged!JobSeq(ids') /\ cursor' \in 0..Len(ids')
      BY <2>1, <2>2, <2>3 DEF Paged!JobSeq, Untouched
    <3> QED
      BY <2>1, <3>1 DEF PagedInv, Paged!PTypeOK, Paged!JobSeq, Within0
  <2>5. Continued'
    BY <2>1, ContinuedStays
  <2>6. Batched'
    <3>1. (BatchOpens => Batched)'
      BY BatchBegins, PTL
    <3>2. FromBatches'
      BY <2>1, <2>2 DEF FromBatches
    <3>3. Readable' \subseteq Members(ids') /\ Members(ids') \subseteq Scope'
      <4>1. Readable' = Readable /\ Scope' = Scope
        BY <2>1, OrderStays, SetsStay DEF Within0
      <4> QED
        BY <2>3, <4>1 DEF Readable, Seeable
    <3>4. Follows(ids', Paged!Relevance')
      BY <2>1, <2>3, OrderStays DEF Within0
    <3>5. (cursor = 0 /\ page = <<>> /\ total = 0 /\ lost = {} /\ windows = 0 /\ seen = <<>> /\ orphans = {})'
      BY <2>1, <2>2 DEF Untouched, Within0
    <3> QED
      BY <3>1, <3>2, <3>3, <3>4, <3>5 DEF BatchOpens
  <2>7. Paged!PageIsTheSlice' /\ Paged!NextPageGoesOn'
    BY <2>1, NotAnsweredThen
  <2>8. ({ids, page, seen, before} \subseteq Seq(Jobs))' /\ using' <= version' /\ docs' \subseteq members'
    BY <2>1, <2>3, PagedFacts DEF Within0, PagedInv
  <2> QED
    BY <2>1, <2>4, <2>5, <2>6, <2>7, <2>8 DEF PagedInv
<1> QED
  BY <1>1, <1>2

LEMMA MembersStep == ASSUME PagedInv, Paged!Members PROVE PagedInv'
<1>1. /\ at = "members" /\ ids' = (IF ranked' THEN Paged!Prioritized(Paged!Listed) ELSE Paged!Ascending(Paged!Listed))
      /\ cursor' = (IF Paged!Offset < Paged!Cardinality(Paged!Listed) THEN Paged!Offset ELSE Paged!Cardinality(Paged!Listed))
      /\ at' = "window"
      /\ UNCHANGED <<version, docs, members, score, ask, using, page, total, lost, windows, seen, before, left, orphans>>
  BY DEF Paged!Members, Paged!past, Paged!index
<1>2. Untouched /\ using = 0 /\ Plain
  BY <1>1 DEF PagedInv
<1>12. ranked' \in BOOLEAN /\ stable' \in BOOLEAN /\ (ranked' => ask.profile) /\ (stable' => stable /\ (ranked' <=> ask.profile))
  <2>1. ranked' \in {ask.profile, FALSE} /\ stable' = (stable /\ ranked' = ask.profile)
    BY DEF Paged!Members
  <2>2. ask.profile \in BOOLEAN /\ stable \in BOOLEAN
    BY PagedFacts
  <2> QED
    BY ONLY <2>1, <2>2
<1>3. ids' \in Seq(Jobs) /\ Follows(ids', Way') /\ Members(ids') = Paged!Listed /\ Len(ids') = Cardinality(Paged!Listed)
  <2>1. CASE ranked'
    <3>1. Way' = Paged!Relevance
      BY <1>1, <2>1, OrderStays DEF Way
    <3> QED
      BY <1>1, <2>1, <3>1, PrioritizedFollows, PagedFacts
  <2>2. CASE ~ranked' /\ ask.profile
    <3>1. Way' = Paged!Less
      BY <1>1, <2>2 DEF Way, Paged!Less
    <3> QED
      BY <1>1, <2>2, <3>1, AscendingFollows, PagedFacts
  <2>3. CASE ~ranked' /\ ~ask.profile
    <3>1. Way' = Paged!Relevance
      BY <1>1, <2>3, OrderStays DEF Way
    <3> QED
      BY <1>1, <2>3, <3>1, AscendingFollows, PagedFacts
  <2> QED
    BY <2>1, <2>2, <2>3
<1>4. PICK c, o, n : /\ c = cursor' /\ o = Paged!Offset /\ n = Len(ids') /\ o \in Nat /\ n \in Nat
                     /\ c = IF o < n THEN o ELSE n
  <2>1. Paged!Cardinality(Paged!Listed) = Len(ids')
    BY <1>3, SameCount
  <2>2. cursor' = IF Paged!Offset < Len(ids') THEN Paged!Offset ELSE Len(ids')
    BY <1>1, <2>1
  <2>3. Paged!Offset \in Nat /\ Len(ids') \in Nat
    BY <1>3, PagedFacts
  <2> QED
    BY <2>2, <2>3
<1>5. c \in 0..n /\ (o <= c \/ c = n)
  BY ONLY <1>4
<1>6. Paged!PTypeOK'
  <2>1. Paged!JobSeq(ids') /\ cursor' \in 0..Len(ids')
    BY <1>3, <1>4, <1>5 DEF Paged!JobSeq
  <2> QED
    BY <1>1, <1>12, <2>1 DEF PagedInv, Paged!PTypeOK, Paged!JobSeq
<1>7. Paged!Relevance' = Paged!Relevance /\ Paged!Offset' = Paged!Offset /\ Paged!Listed' = Paged!Listed
  BY <1>1, OrderStays, SetsStay
<1>8. Windowed'
  <2>1. ~FromBatches'
    BY <1>1, <1>2 DEF FromBatches, Plain
  <2>2. Follows(ids', Way') /\ Members(ids') = Paged!Listed' /\ (stable' => (ranked' <=> ask'.profile))
    BY <1>1, <1>3, <1>7, <1>12
  <2>3. Members(page') = {} /\ lost' = {} /\ Len(page') = 0
    BY <1>1, <1>2, NothingInNothing DEF Untouched
  <2>4. Between(ids', Paged!Offset' + 1, cursor') = {}
    <3>1. \A k \in DOMAIN ids' : ~(o + 1 <= k /\ k <= c)
      <4>1. \A k \in Nat : ~(o + 1 <= k /\ k <= c)
        BY ONLY <1>4
      <4>2. \A k \in DOMAIN ids' : k \in Nat
        BY <1>3
      <4> QED
        BY ONLY <4>1, <4>2
    <3> QED
      BY <1>4, <1>7, <3>1 DEF Between
  <2>5. Paged!Offset' <= cursor' \/ cursor' = Len(ids')
    BY <1>4, <1>5, <1>7
  <2>6. 0 <= Limit
    BY PagedConstants
  <2> QED
    BY <2>1, <2>2, <2>3, <2>4, <2>5, <2>6 DEF Windowed
<1>9. Continued'
  BY <1>1, <1>7, <1>12 DEF PagedInv, Continued
<1>10. Paged!PageIsTheSlice' /\ Paged!NextPageGoesOn'
  BY <1>1, NotAnsweredThen
<1>11. ({ids, page, seen, before} \subseteq Seq(Jobs))' /\ using' <= version' /\ docs' \subseteq members'
  BY <1>1, <1>3, PagedFacts DEF PagedInv
<1> QED
  BY <1>1, <1>6, <1>8, <1>9, <1>10, <1>11 DEF PagedInv

\* What is answered stays right when neither the page nor what it was made of changes.
LEMMA AnswerStays ==
    ASSUME UNCHANGED <<score, ask, at, using, page, total, lost, windows, seen, before, left>>, stable' => stable,
           Paged!PageIsTheSlice, Paged!NextPageGoesOn
    PROVE  Paged!PageIsTheSlice' /\ Paged!NextPageGoesOn'
<1>1. Paged!ByScore(page, ask.sort)' = Paged!ByScore(page, ask.sort)
      /\ Paged!ByScore(seen, ask.sort)' = Paged!ByScore(seen, ask.sort)
  BY DEF Paged!ByScore, Paged!Match, Paged!ToSet
<1>2. /\ Paged!Slice(IF ask.sort = "none" THEN seen ELSE Paged!ByScore(seen, ask.sort))'
         = Paged!Slice(IF ask.sort = "none" THEN seen ELSE Paged!ByScore(seen, ask.sort))
  BY <1>1 DEF Paged!Slice, Paged!Part, Paged!Offset
<1>3. Paged!PageIsTheSlice'
  BY <1>1, <1>2 DEF Paged!PageIsTheSlice, Paged!ToSet
<1>4. Paged!NextPageGoesOn'
  <2>1. (Paged!NextPageGoesOn <=> (at = "done" /\ stable => Cardinality(Members(page) \cap Members(before)) <= left))'
    BY GoesOnMeans, PTL
  <2> QED
    BY <2>1, GoesOnMeans
<1> QED
  BY <1>3, <1>4

LEMMA ExpireStep == ASSUME PagedInv, NEW j0 \in Jobs, Paged!Expire(j0) PROVE PagedInv'
<1>1. /\ docs' \subseteq docs
      /\ UNCHANGED <<version, members, score, ask, at, using, ranked, ids, cursor, page, total, lost, windows, seen, before, left, stable, orphans>>
  BY DEF Paged!Expire, Paged!search, Paged!past
<1>2. Order' = Order /\ Paged!Relevance' = Paged!Relevance /\ Paged!Offset' = Paged!Offset /\ Readable' \subseteq Readable
      /\ Plain' = Plain /\ FromBatches' = FromBatches /\ Untouched' = Untouched /\ Paged!Capacity' = Paged!Capacity
      /\ Scope' = Scope /\ Paged!Listed' = Paged!Listed /\ Way' = Way
  BY <1>1, OrderStays, SetsStay DEF Way, Paged!Less, Plain, FromBatches, Untouched, Paged!Capacity, Paged!Offset
<1>3. Paged!PTypeOK'
  BY <1>1 DEF PagedInv, Paged!PTypeOK, Paged!JobSeq
<1>4. ASSUME at = "batch" PROVE Batched'
  BY <1>1, <1>2, <1>4 DEF PagedInv, Batched
<1>5. ASSUME at = "window" PROVE Windowed'
  BY <1>1, <1>2, <1>5 DEF PagedInv, Windowed
<1>6. ASSUME NEW S, NEW T, S \subseteq T, T \subseteq Jobs, NEW O, NEW j, NEW o \in Nat, Rank(T, O, j) < o PROVE Rank(S, O, j) < o
  <2>1. Rank(S, O, j) <= Rank(T, O, j) /\ Rank(S, O, j) \in Nat /\ Rank(T, O, j) \in Nat
    BY <1>6, SomeJobs, RankOfMore, RankIsANumber
  <2> QED
    BY ONLY <1>6, <2>1
<1>7. ASSUME at = "done" PROVE Answered'
  <2>1. SUFFICES ASSUME stable, FromBatches, NEW j \in Members(page) PROVE Rank(Readable', Order, j) < Paged!Offset + Limit
    BY <1>1, <1>2, <1>7 DEF PagedInv, Answered
  <2>2. PICK S, T, O, o : S = Readable' /\ T = Readable /\ O = Order /\ o = Paged!Offset + Limit
    OBVIOUS
  <2>3. S \subseteq T /\ T \subseteq Jobs /\ o \in Nat
    BY <1>2, <2>2, PagedFacts, PagedConstants
  <2>4. Rank(T, O, j) < o
    BY <1>7, <2>1, <2>2 DEF PagedInv, Answered
  <2>5. Rank(S, O, j) < o
    BY <1>6, <2>3, <2>4
  <2> QED
    BY ONLY <2>2, <2>5
<1>8. Continued'
  <2>1. ASSUME stable, at \in {"open", "snapshot", "batch"}, NEW j \in Members(before)
        PROVE  Rank((Members(seen) \cup Readable)', Order, j) < Paged!Offset
    <3>1. PICK S, T, O, o : S = (Members(seen) \cup Readable)' /\ T = Members(seen) \cup Readable /\ O = Order /\ o = Paged!Offset
      OBVIOUS
    <3>2. S \subseteq T /\ T \subseteq Jobs /\ o \in Nat
      BY <1>1, <1>2, <3>1, PagedFacts DEF Members
    <3>3. Rank(T, O, j) < o
      BY <2>1, <3>1 DEF PagedInv, Continued
    <3>4. Rank(S, O, j) < o
      BY <1>6, <3>2, <3>3
    <3> QED
      BY ONLY <3>1, <3>4
  <2> QED
    BY <1>1, <1>2, <2>1 DEF PagedInv, Continued
<1>9. Paged!PageIsTheSlice' /\ Paged!NextPageGoesOn'
  BY <1>1, AnswerStays DEF PagedInv
<1>10. ({ids, page, seen, before} \subseteq Seq(Jobs))' /\ using' <= version' /\ docs' \subseteq members'
  BY <1>1 DEF PagedInv
<1> QED
  BY <1>1, <1>2, <1>3, <1>4, <1>5, <1>7, <1>8, <1>9, <1>10 DEF PagedInv

LEMMA PublishStep == ASSUME PagedInv, Paged!Publish PROVE PagedInv'
<1>1. /\ version < MaxVersion /\ version' = version + 1 /\ stable' = FALSE
      /\ UNCHANGED <<docs, members, score, ask, at, using, ranked, ids, cursor, page, total, lost, windows, seen, before, left, orphans>>
  BY DEF Paged!Publish, Paged!past
<1>2. version' \in 0..MaxVersion /\ version' # 0 /\ using' <= version'
  <2>1. version \in 0..MaxVersion /\ using \in 0..MaxVersion /\ using <= version /\ MaxVersion \in Nat
    BY PagedConstants DEF PagedInv, Paged!PTypeOK
  <2> QED
    BY ONLY <1>1, <2>1
<1>3. Order' = Order /\ Paged!Relevance' = Paged!Relevance /\ Paged!Offset' = Paged!Offset /\ Readable' = Readable
      /\ Plain' = Plain /\ FromBatches' = FromBatches /\ Untouched' = Untouched /\ Paged!Capacity' = Paged!Capacity
      /\ Scope' = Scope /\ Paged!Listed' = Paged!Listed /\ Way' = Way
  BY <1>1, OrderStays, SetsStay DEF Way, Paged!Less, Plain, FromBatches, Untouched, Paged!Capacity, Paged!Offset
<1>4. Paged!PTypeOK'
  BY <1>1, <1>2 DEF PagedInv, Paged!PTypeOK, Paged!JobSeq
<1>5. ASSUME at = "batch" PROVE Batched'
  BY <1>1, <1>3, <1>5 DEF PagedInv, Batched
<1>6. ASSUME at = "window" PROVE Windowed'
  BY <1>1, <1>3, <1>6 DEF PagedInv, Windowed
<1>7. Answered' /\ Continued'
  BY <1>1 DEF Answered, Continued
<1>8. Paged!PageIsTheSlice' /\ Paged!NextPageGoesOn'
  BY <1>1, AnswerStays DEF PagedInv
<1>9. ({ids, page, seen, before} \subseteq Seq(Jobs))' /\ docs' \subseteq members'
  BY <1>1 DEF PagedInv
<1> QED
  BY <1>1, <1>2, <1>3, <1>4, <1>5, <1>6, <1>7, <1>8, <1>9 DEF PagedInv

LEMMA ReadBatchStep == ASSUME PagedInv, Paged!ReadBatch PROVE PagedInv'
<1>1. CASE Paged!Fail /\ UNCHANGED <<version, docs, members, score>>
  BY <1>1, PagedFails
<1>2. CASE ~(Paged!Fail /\ UNCHANGED <<version, docs, members, score>>)
  <2>1. at = "batch" /\ cursor < Len(ids)
    BY DEF Paged!ReadBatch
  <2>2. PICK read : read = Paged!Part(ids, cursor + 1, cursor + Batch)
    OBVIOUS
  <2>3. PICK matches : matches = Paged!Filtered(read)
    OBVIOUS
  <2>4. /\ cursor' = cursor + Len(read) /\ page' = Paged!Take(matches) /\ total' = total + Len(matches)
        /\ seen' = seen \o matches /\ at' = "batch" /\ Within0 /\ UNCHANGED <<using, ids, lost, windows>>
    BY <1>2, <2>2, <2>3 DEF Paged!ReadBatch, Paged!Goto, Paged!past, Paged!index, Within0
  <2>5. Batched
    BY <2>1 DEF PagedInv
  <2>6. /\ ids \in Seq(Jobs) /\ page \in Seq(Jobs) /\ seen \in Seq(Jobs) /\ Follows(ids, Paged!Relevance)
        /\ Follows(seen, Paged!Relevance) /\ Strict(Paged!Relevance, Jobs) /\ Strict(Order, Jobs)
        /\ cursor \in 0..Len(ids) /\ Batch \in Nat /\ Members(seen) \subseteq Between(ids, 1, cursor)
        /\ Paged!Offset \in Nat /\ Limit \in Nat /\ Paged!Offset + Limit \in Nat
    BY <2>5, PagedFacts, PagedConstants DEF Batched, PagedInv, Paged!PTypeOK
  <2>7. matches = Paged!Only(read, Seeable)
    BY <2>3 DEF Paged!Filtered, Seeable
  <2>8. /\ Len(read) \in Nat /\ cursor' \in 0..Len(ids)
        /\ Between(ids, 1, cursor') = Between(ids, 1, cursor) \cup Members(read)
        /\ matches \in Seq(Jobs) /\ Members(matches) = Members(read) \cap Seeable
        /\ seen' \in Seq(Jobs) /\ Follows(seen', Paged!Relevance) /\ Members(seen)' = Members(seen) \cup Members(matches)
        /\ Len(seen') = Len(seen) + Len(matches) /\ Members(seen)' \subseteq Between(ids, 1, cursor')
    <3>1. PICK S : S = Seeable
      OBVIOUS
    <3>2. PICK z, c, d : z = seen \o matches /\ c = cursor /\ d = c + Len(read)
      OBVIOUS
    <3>3. matches = Paged!Only(read, S) /\ read = Paged!Part(ids, c + 1, c + Batch)
          /\ c \in 0..Len(ids) /\ Members(seen) \subseteq Between(ids, 1, c)
      BY ONLY <2>2, <2>6, <2>7, <3>1, <3>2
    <3>4. PICK R : R = Paged!Relevance
      OBVIOUS
    <3>5. IsReadOn(Jobs, R, ids, c, read, S, matches, seen, z)
      <4>1. /\ Strict(R, Jobs) /\ ids \in Seq(Jobs) /\ Follows(ids, R) /\ c \in 0..Len(ids) /\ Batch \in Nat
            /\ read = Paged!Part(ids, c + 1, c + Batch) /\ matches = Paged!Only(read, S)
            /\ seen \in Seq(Jobs) /\ Follows(seen, R) /\ Members(seen) \subseteq Between(ids, 1, c) /\ z = seen \o matches
        BY ONLY <2>6, <3>2, <3>3, <3>4
      <4> QED
        BY ONLY <4>1, ReadOn
    <3>6. seen' = z /\ cursor' = d /\ cursor = c
      BY ONLY <2>4, <3>2
    <3> QED
      BY ONLY <3>1, <3>2, <3>4, <3>5, <3>6 DEF IsReadOn
  <2>9. /\ IsFiniteSet(Members(seen)') /\ Members(seen)' \subseteq Jobs /\ Cardinality(Members(seen)') = Len(seen')
        /\ IsFiniteSet(Members(matches)) /\ IsFiniteSet(Members(seen)) /\ Members(seen) \subseteq Jobs
    <3>1. Members(seen') = Members(seen)'
      OBVIOUS
    <3>2. IsFiniteSet(Members(seen')) /\ Members(seen') \subseteq Jobs /\ Cardinality(Members(seen')) = Len(seen')
      BY <2>6, <2>8, PlaceIsRank, Zenon
    <3>3. Members(seen) \subseteq Jobs /\ Members(matches) \subseteq Jobs
      BY <2>8, <3>1, <3>2
    <3> QED
      BY <3>1, <3>2, <3>3, SomeJobs
  <2>10. /\ Order' = Order /\ Paged!Relevance' = Paged!Relevance /\ Paged!Offset' = Paged!Offset /\ Readable' = Readable
         /\ Paged!Capacity' = Paged!Capacity /\ FromBatches' = FromBatches /\ Scope' = Scope
    BY <2>4, OrderStays, SetsStay DEF Within0, Paged!Capacity, FromBatches
  <2>19. Members(matches) = Members(read) \cap Readable
    <3>1. Members(ids) \subseteq Scope
      BY <2>5 DEF Batched
    <3>2. Between(ids, 1, cursor') \subseteq Members(ids)
      BY DEF Between, Members
    <3>3. Members(read) \subseteq Scope
      BY ONLY <2>8, <3>1, <3>2
    <3> QED
      BY ONLY <2>8, <3>3 DEF Readable
  <2>11. ask.sort = "none" => page' \in Seq(Jobs) /\ Members(page') = Between(seen', Paged!Offset + 1, Paged!Offset + Limit)
    <3>1. SUFFICES ASSUME ask.sort = "none"
                   PROVE  page' \in Seq(Jobs) /\ Members(page') = Between(seen', Paged!Offset + 1, Paged!Offset + Limit)
      OBVIOUS
    <3>2. Members(page) = Between(seen, Paged!Offset + 1, Paged!Offset + Limit)
      BY <2>5, <3>1 DEF Batched
    <3>3. PICK z, w, l, c, d : /\ z = page' /\ w = seen' /\ c = Paged!Offset - Len(seen) + 1 /\ d = Paged!Offset + Limit - Len(seen)
                              /\ l = Paged!Part(matches, c, d)
      OBVIOUS
    <3>4. PICK o \in Nat, b \in Nat : o = Paged!Offset + 1 /\ b = Paged!Offset + Limit
      BY <2>6
    <3>5. page' = page \o Paged!Part(matches, Paged!Offset - Len(seen) + 1, Paged!Offset + Limit - Len(seen))
      BY <2>4, <2>5, <3>1 DEF Paged!Take, Batched
    <3>6. z = page \o l
      BY ONLY <3>3, <3>5, Zenon
    <3>7. w = seen \o matches /\ c = o - Len(seen) /\ d = b - Len(seen) /\ Len(seen) \in Nat
      BY ONLY <2>4, <2>6, <3>3, <3>4
    <3>10. c \in Int /\ d \in Int
      BY ONLY <3>7, o \in Nat, b \in Nat
    <3>8. Members(page) = Between(seen, o, b)
      BY ONLY <3>2, <3>4
    <3>9. z \in Seq(Jobs) /\ Members(z) = Between(w, o, b)
      <4>1. seen \in Seq(Jobs) /\ matches \in Seq(Jobs) /\ page \in Seq(Jobs) /\ o \in Nat /\ b \in Nat
        BY <2>6, <2>8
      <4>2. l = Paged!Part(matches, c, d)
        BY ONLY <3>3
      <4>3. IsPart(Jobs, matches, c, d, l)
        BY ONLY <3>10, <4>1, <4>2, PartOfAList
      <4>4. IsJoined(Jobs, page, l, z) /\ IsJoined(Jobs, seen, matches, w) /\ c = o - Len(seen) /\ d = b - Len(seen)
        <5>1. l \in Seq(Jobs)
          BY <4>3 DEF IsPart
        <5>2. IsJoined(Jobs, page, l, z)
          BY ONLY <3>6, <4>1, <5>1, Joined, Zenon
        <5>3. IsJoined(Jobs, seen, matches, w)
          <6>1. w = seen \o matches
            BY <3>7
          <6> QED
            BY ONLY <6>1, <4>1, Joined, Zenon
        <5> QED
          BY <3>7, <5>2, <5>3
      <4> QED
        BY ONLY <3>8, <3>10, <4>1, <4>3, <4>4, SliceOfMore
    <3> QED
      BY ONLY <3>3, <3>4, <3>9
  <2>12. ask.sort # "none" => page' \in Seq(Jobs) /\ Follows(page', Order)
                              /\ Members(page') = Top(Members(seen)', Order, Paged!Capacity)
    <3>1. SUFFICES ASSUME ask.sort # "none"
                   PROVE  page' \in Seq(Jobs) /\ Follows(page', Order) /\ Members(page') = Top(Members(seen)', Order, Paged!Capacity)
      OBVIOUS
    <3>2. Members(page) = Top(Members(seen), Order, Paged!Capacity)
      BY <2>5, <3>1 DEF Batched
    <3>3. page' = Paged!Part(Paged!InOrder(Members(page \o matches), Order), 1, Paged!Capacity)
      BY <2>4, <3>1, ToSetIsMembers DEF Paged!Take, Paged!ByScore, Order
    <3>4. Paged!Capacity \in Nat
      BY <2>6 DEF Paged!Capacity
    <3>5. PICK q, R, z, c : q = Members(page \o matches) /\ R = Order /\ z = page' /\ c = Paged!Capacity
      OBVIOUS
    <3>6. z = Paged!Part(Paged!InOrder(q, R), 1, c) /\ Members(page) = Top(Members(seen), R, c) /\ Strict(R, Jobs)
      BY ONLY <2>6, <3>2, <3>3, <3>5, Zenon
    <3>7. q = Members(page \o matches)
      BY <3>5
    <3>8. z \in Seq(Jobs) /\ Follows(z, R) /\ Members(z) = Top(Members(seen) \cup Members(matches), R, c)
      <4>1. c \in Nat /\ page \in Seq(Jobs) /\ matches \in Seq(Jobs)
        BY ONLY <2>6, <2>8, <3>4, <3>5
      <4> QED
        BY ONLY <2>9, <3>6, <3>7, <4>1, RankedAgain
    <3> QED
      BY ONLY <2>8, <3>5, <3>8
  <2>13. page' \in Seq(Jobs)
    BY <2>11, <2>12
  <2>14. Batched'
    <3>1. FromBatches' /\ lost' = {} /\ windows' = 0 /\ orphans' = {}
      BY <2>4, <2>5, <2>10 DEF Batched, Within0
    <3>2. Follows(ids', Paged!Relevance') /\ Readable' \subseteq Members(ids') /\ Members(ids') \subseteq Scope'
      BY <2>4, <2>5, <2>10 DEF Batched, Within0
    <3>3. Follows(seen', Paged!Relevance') /\ total' = Len(seen')
      BY <2>4, <2>5, <2>8, <2>10 DEF Batched
    <3>4. Members(seen)' \subseteq Between(ids, 1, cursor')
      BY <2>8
    <3>5. Between(ids, 1, cursor') \cap Readable \subseteq Members(seen)'
      BY <2>5, <2>8, <2>19 DEF Batched
    <3>6. IF ask.sort = "none" THEN Members(page)' = Between(seen', Paged!Offset + 1, Paged!Offset + Limit)
          ELSE Follows(page', Order) /\ Members(page)' = Top(Members(seen)', Order, Paged!Capacity)
      BY <2>11, <2>12
    <3>7. (IF ask.sort = "none" THEN Members(page) = Between(seen, Paged!Offset + 1, Paged!Offset + Limit)
          ELSE Follows(page, Order) /\ Members(page) = Top(Members(seen), Order, Paged!Capacity))'
      BY <2>4, <2>10, <3>6 DEF Within0
    <3>8. (Members(seen) \subseteq Between(ids, 1, cursor) /\ Between(ids, 1, cursor) \cap Readable \subseteq Members(seen))'
      BY <2>4, <2>10, <3>4, <3>5
    <3> QED
      BY <3>1, <3>2, <3>3, <3>7, <3>8 DEF Batched
  <2>15. Paged!PTypeOK'
    <3>1. Paged!JobSeq(page') /\ Paged!JobSeq(seen')
      BY <2>8, <2>13 DEF Paged!JobSeq
    <3>2. Cardinality(Members(seen)') \in Nat /\ Cardinality(Members(seen)') <= Cardinality(Jobs)
      BY <2>9, SomeJobs
    <3>3. total' = Cardinality(Members(seen)')
      BY <2>4, <2>5, <2>8, <2>9 DEF Batched
    <3>4. total' \in 0..Paged!Cardinality(Jobs)
      BY <3>2, <3>3, SameCount, PagedConstants
    <3>5. cursor' \in 0..Len(ids')
      BY <2>4, <2>8
    <3> QED
      BY <2>4, <3>1, <3>4, <3>5 DEF PagedInv, Paged!PTypeOK, Paged!JobSeq, Within0
  <2>16. Continued'
    <3>1. Members(seen)' \subseteq Members(seen) \cup Readable
      BY <2>8, <2>19
    <3> QED
      BY <2>1, <2>4, <3>1, ContinuedStays
  <2>17. Paged!PageIsTheSlice' /\ Paged!NextPageGoesOn'
    BY <2>4, NotAnsweredThen
  <2>18. ({ids, page, seen, before} \subseteq Seq(Jobs))' /\ using' <= version' /\ docs' \subseteq members'
    BY <2>4, <2>8, <2>13, PagedFacts DEF Within0, PagedInv
  <2> QED
    BY <2>4, <2>14, <2>15, <2>16, <2>17, <2>18 DEF PagedInv
<1> QED
  BY <1>1, <1>2

\* The page that is asked for, of all that was read.
Wanted == Ranked(Members(seen), Order, Paged!Offset, Paged!Offset + Limit)

LEMMA SliceIsRanked ==
    ASSUME NEW s \in Seq(Jobs), Strict(Order, Jobs), Follows(s, Order), Paged!Offset \in Nat
    PROVE  /\ Paged!Slice(s) \in Seq(Jobs) /\ Follows(Paged!Slice(s), Order)
           /\ Members(Paged!Slice(s)) = Ranked(Members(s), Order, Paged!Offset, Paged!Offset + Limit)
<1>1. PICK o \in Int, b \in Int : o = Paged!Offset /\ b = Paged!Offset + Limit
  BY PagedConstants
<1>2. PICK R, p : R = Order /\ p = Paged!Slice(s)
  OBVIOUS
<1>3. p = Paged!Part(s, o + 1, b)
  BY <1>1, <1>2 DEF Paged!Slice
<1>4. Strict(R, Jobs) /\ Follows(s, R)
  BY <1>2
<1>5. Members(p) = Ranked(Members(s), R, o, b)
  BY ONLY <1>3, <1>4, s \in Seq(Jobs), o \in Int, b \in Int, PartIsRanked
<1>6. PICK a \in Int : a = o + 1
  OBVIOUS
<1>7. p = Paged!Part(s, a, b)
  BY ONLY <1>3, <1>6
<1>8. IsPart(Jobs, s, a, b, p)
  BY ONLY <1>7, s \in Seq(Jobs), a \in Int, b \in Int, PartOfAList
<1>9. p \in Seq(Jobs) /\ Follows(p, R)
  BY ONLY <1>4, <1>8 DEF IsPart
<1> QED
  BY ONLY <1>1, <1>2, <1>5, <1>9

\* Both the list of all that was read and what is kept of it hold that page.
LEMMA WantedIsSeen ==
    ASSUME PagedInv, Batched
    PROVE  Members(Paged!Slice(IF ask.sort = "none" THEN seen ELSE Paged!ByScore(seen, ask.sort))) = Wanted
<1>1. CASE ask.sort = "none"
  <2>1. Order = Paged!Relevance /\ Follows(seen, Order)
    BY <1>1 DEF Order, Batched
  <2> QED
    BY <1>1, <2>1, PagedFacts, SliceIsRanked DEF Wanted
<1>2. CASE ask.sort # "none"
  <2>1. PICK s : s = Paged!ByScore(seen, ask.sort)
    OBVIOUS
  <2>2. s = Paged!InOrder(Members(seen), Order)
    BY <1>2, <2>1, ToSetIsMembers DEF Paged!ByScore, Order
  <2>3. Members(seen) \subseteq Jobs /\ IsFiniteSet(Members(seen))
    BY PagedFacts, SomeJobs DEF Members
  <2>4. s \in Seq(Jobs) /\ Follows(s, Order) /\ Members(s) = Members(seen)
    BY <2>2, <2>3, PagedFacts, InOrderLists
  <2>5. Members(Paged!Slice(s)) = Ranked(Members(s), Order, Paged!Offset, Paged!Offset + Limit)
    BY <2>4, PagedFacts, SliceIsRanked
  <2> QED
    BY <1>2, <2>1, <2>4, <2>5 DEF Wanted
<1> QED
  BY <1>1, <1>2

LEMMA WantedIsKept ==
    ASSUME PagedInv, Batched, NEW slice, slice = IF ask.sort = "none" THEN page ELSE Paged!Slice(page)
    PROVE  slice \in Seq(Jobs) /\ Members(slice) = Wanted /\ (ask.sort # "none" => Follows(slice, Order))
<1>1. CASE ask.sort = "none"
  <2>1. PICK o \in Int, a \in Int, b \in Int : o = Paged!Offset /\ a = Paged!Offset + 1 /\ b = Paged!Offset + Limit
    BY PagedFacts, PagedConstants
  <2>2. PICK p : p = Paged!Slice(seen)
    OBVIOUS
  <2>3. p = Paged!Part(seen, a, b)
    BY <2>1, <2>2 DEF Paged!Slice
  <2>4. seen \in Seq(Jobs)
    BY PagedFacts
  <2>5. IsPart(Jobs, seen, a, b, p)
    BY ONLY <2>3, <2>4, a \in Int, b \in Int, PartOfAList
  <2>6. Members(p) = Between(seen, a, b)
    BY ONLY <2>5 DEF IsPart, Between
  <2>7. Members(page) = Between(seen, a, b)
    BY <1>1, <2>1 DEF Batched
  <2>8. Members(p) = Wanted
    BY <1>1, <2>2, WantedIsSeen
  <2> QED
    BY <1>1, <2>6, <2>7, <2>8, PagedFacts
<1>2. CASE ask.sort # "none"
  <2>1. Follows(page, Order) /\ Members(page) = Top(Members(seen), Order, Paged!Capacity) /\ slice = Paged!Slice(page)
    BY <1>2 DEF Batched
  <2>2. /\ slice \in Seq(Jobs) /\ Follows(slice, Order)
        /\ Members(slice) = Ranked(Members(page), Order, Paged!Offset, Paged!Offset + Limit)
    BY <2>1, PagedFacts, SliceIsRanked
  <2>3. PICK S, R, C, o, b : /\ S = Members(seen) /\ R = Order /\ C = Paged!Capacity /\ o = Paged!Offset /\ b = Paged!Offset + Limit
    OBVIOUS
  <2>4. Strict(R, Jobs) /\ S \subseteq Jobs /\ IsFiniteSet(S) /\ o \in Nat /\ b \in Nat /\ ids \in Seq(Jobs)
    BY <2>3, PagedFacts, SomeJobs, PagedConstants DEF Members
  <2>5. Cardinality(S) \in Nat /\ Cardinality(S) <= Len(ids) /\ Len(ids) \in Nat
    <3>1. Members(seen) \subseteq Between(ids, 1, cursor) /\ Follows(ids, Paged!Relevance)
      BY DEF Batched
    <3>2. S \subseteq Members(ids)
      BY <2>3, <3>1 DEF Between, Members
    <3>3. IsFiniteSet(Members(ids)) /\ Cardinality(Members(ids)) = Len(ids)
      BY <2>4, <3>1, PlaceIsRank, RelevanceIsStrict
    <3>4. Len(ids) \in Nat
      BY <2>4
    <3> QED
      BY ONLY <2>4, <3>2, <3>3, <3>4, FS_Subset, FS_CardinalityType
  <2>6. C \in Nat /\ (C = Len(ids) \/ C = b)
    BY <2>3, <2>4, <2>5 DEF Paged!Capacity
  <2>7. \A x \in S : Rank(S, R, x) \in Nat /\ Rank(S, R, x) < Cardinality(S)
    <3>1. \A x \in S : Rank(S, R, x) \in 0..Cardinality(S) - 1
      BY ONLY <2>4, RankInside
    <3> QED
      BY ONLY <2>5, <3>1
  <2>8. \A x \in Top(S, R, C) : Rank(Top(S, R, C), R, x) = Rank(S, R, x)
    BY ONLY <2>4, <2>6, RankInTheTop
  <2>9. \A x \in S : Rank(S, R, x) < b => x \in Top(S, R, C)
    BY ONLY <2>4, <2>5, <2>6, <2>7 DEF Top
  <2>10. Ranked(Top(S, R, C), R, o, b) = Ranked(S, R, o, b)
    <3>1. Top(S, R, C) \subseteq S
      BY ONLY <2>4 DEF Top
    <3> QED
      BY ONLY <2>8, <2>9, <3>1 DEF Ranked
  <2>11. Members(slice) = Wanted
    BY ONLY <2>1, <2>2, <2>3, <2>10 DEF Wanted
  <2> QED
    BY <2>2, <2>11
<1> QED
  BY <1>1, <1>2

LEMMA AnswerStep == ASSUME PagedInv, Paged!Answer PROVE PagedInv'
<1>1. CASE Paged!Fail /\ UNCHANGED <<version, docs, members, score>>
  BY <1>1, PagedFails
<1>2. CASE ~(Paged!Fail /\ UNCHANGED <<version, docs, members, score>>)
  <2>1. at = "batch" /\ cursor = Len(ids)
    BY DEF Paged!Answer
  <2>2. Batched
    BY <2>1 DEF PagedInv
  <2>3. PICK slice : slice = IF ask.sort = "none" THEN page ELSE Paged!Slice(page)
    OBVIOUS
  <2>4. PICK gone : gone = IF ask.sort = "none" THEN {} ELSE Paged!ToSet(slice) \ docs
    OBVIOUS
  <2>5. PICK shown : shown = Paged!Only(slice, Jobs \ gone)
    OBVIOUS
  <2>6. /\ page' = (IF ask.profile THEN Paged!ByScore(shown, "desc") ELSE shown) /\ lost' = gone /\ at' = "done"
        /\ Within0 /\ UNCHANGED <<using, ids, cursor, total, windows, seen>>
    BY <1>2, <2>3, <2>4, <2>5 DEF Paged!Answer, Paged!Goto, Paged!past, Paged!index, Within0
  <2>7. slice \in Seq(Jobs) /\ Members(slice) = Wanted /\ (ask.sort # "none" => Follows(slice, Order))
    BY <2>2, <2>3, WantedIsKept
  <2>8. /\ shown \in Seq(Jobs) /\ Members(shown) = Members(slice) \cap (Jobs \ gone)
        /\ (ask.sort # "none" => Follows(shown, Order))
    BY ONLY <2>5, <2>7, OnlyOfAList
  <2>9. Members(slice) \subseteq Jobs /\ gone \subseteq Jobs /\ Members(shown) = Wanted \ gone
    <3>1. Members(slice) \subseteq Jobs
      BY <2>7 DEF Members
    <3>2. gone \subseteq Jobs
      BY <2>4, <3>1, ToSetIsMembers
    <3> QED
      BY ONLY <2>7, <2>8, <3>1, <3>2
  <2>10. page' \in Seq(Jobs) /\ Members(page') = Wanted \ gone
    <3>1. CASE ask.profile
      <4>1. page' = Paged!InOrder(Members(shown), Paged!Match("desc"))
        BY <2>6, <3>1, ToSetIsMembers DEF Paged!ByScore
      <4>2. Members(shown) \subseteq Jobs /\ IsFiniteSet(Members(shown)) /\ Strict(Paged!Match("desc"), Jobs)
        BY <2>7, <2>9, PagedFacts, MatchIsStrict, SomeJobs
      <4>3. page' \in Seq(Jobs) /\ Members(page') = Members(shown)
        BY <4>1, <4>2, InOrderLists
      <4> QED
        BY <2>9, <4>3
    <3>2. CASE ~ask.profile
      BY <2>6, <2>8, <2>9, <3>2
    <3> QED
      BY <3>1, <3>2
  <2>11. /\ Order' = Order /\ Paged!Relevance' = Paged!Relevance /\ Paged!Offset' = Paged!Offset /\ Readable' = Readable
         /\ FromBatches' = FromBatches /\ FromBatches /\ windows = 0 /\ orphans' = {}
    BY <2>2, <2>6, OrderStays, SetsStay DEF Within0, FromBatches, Batched
  <2>12. /\ Members(seen) \subseteq Jobs /\ Readable \subseteq Members(seen) /\ Members(page') \subseteq Jobs
         /\ Paged!Offset \in Nat /\ Paged!Offset + Limit \in Nat
    <3>1. Readable \subseteq Members(ids) /\ Between(ids, 1, cursor) \cap Readable \subseteq Members(seen)
      BY <2>2, PagedFacts DEF Batched
    <3>2. Members(ids) \subseteq Between(ids, 1, cursor)
      <4>1. \A k \in DOMAIN ids : 1 <= k /\ k <= Len(ids)
        BY PagedFacts
      <4> QED
        BY <2>1, <4>1 DEF Members, Between
    <3>3. Members(seen) \subseteq Jobs /\ Members(page') \subseteq Jobs
      BY <2>10, PagedFacts DEF Members
    <3> QED
      BY <3>1, <3>2, <3>3, PagedFacts, PagedConstants
  <2>13. \A j \in Members(page') : /\ Rank(Members(seen), Order, j) \in Nat /\ Paged!Offset <= Rank(Members(seen), Order, j)
                                   /\ Rank(Members(seen), Order, j) < Paged!Offset + Limit
    <3>1. \A j \in Wanted : Paged!Offset <= Rank(Members(seen), Order, j) /\ Rank(Members(seen), Order, j) < Paged!Offset + Limit
      BY DEF Wanted, Ranked
    <3>2. \A j : Rank(Members(seen), Order, j) \in Nat
      BY <2>12, SomeJobs, RankIsANumber
    <3> QED
      BY ONLY <2>10, <3>1, <3>2
  <2>14. Answered'
    <3>1. ASSUME NEW j \in Members(page') PROVE Rank(Readable, Order, j) < Paged!Offset + Limit
      <4>1. PICK R, S, T, a, b : R = Order /\ S = Readable /\ T = Members(seen) /\ a = Rank(S, R, j) /\ b = Rank(T, R, j)
        OBVIOUS
      <4>2. S \subseteq T /\ IsFiniteSet(T) /\ IsFiniteSet(S)
        BY <2>12, <4>1, SomeJobs
      <4>3. a <= b /\ a \in Nat /\ b \in Nat
        BY ONLY <4>1, <4>2, RankOfMore, RankIsANumber
      <4>4. b < Paged!Offset + Limit
        BY <2>13, <4>1
      <4> QED
        BY ONLY <2>12, <4>1, <4>3, <4>4
    <3>2. \A j \in Members(page)' : Rank(Readable', Order', j) < Paged!Offset' + Limit
      BY <2>11, <3>1
    <3> QED
      BY <2>11, <3>2 DEF Answered
  <2>15. Paged!PageIsTheSlice'
    <3>1. PICK kept : kept = Paged!Slice(IF ask.sort = "none" THEN seen ELSE Paged!ByScore(seen, ask.sort))
      OBVIOUS
    <3>2. Members(kept) = Wanted
      BY <2>2, <3>1, WantedIsSeen
    <3>3. kept = Paged!Slice(IF ask.sort = "none" THEN seen ELSE Paged!ByScore(seen, ask.sort))'
      BY <2>6, <3>1 DEF Within0, Paged!Slice, Paged!Part, Paged!Offset, Paged!ByScore, Paged!Match, Paged!ToSet
    <3>4. total' = Len(seen')
      BY <2>2, <2>6 DEF Batched
    <3>5. Paged!ToSet(page') = Paged!ToSet(kept) \ lost'
      BY <2>6, <2>10, <3>2, ToSetIsMembers
    <3>6. ask.sort # "none" => page' = Paged!ByScore(page, ask.sort)'
      <4>1. SUFFICES ASSUME ask.sort # "none" PROVE page' = Paged!ByScore(page, ask.sort)'
        OBVIOUS
      <4>2. ~ask.profile
        BY <4>1, PagedFacts DEF Paged!Asks
      <4>3. Follows(page', Order)
        BY <2>6, <2>8, <4>1, <4>2
      <4>4. page' = Paged!InOrder(Members(page'), Order)
        <5>1. PICK p, S : p = page' /\ S = Members(p)
          OBVIOUS
        <5>2. p \in Seq(Jobs) /\ Follows(p, Order) /\ Strict(Order, Jobs)
          BY <2>10, <4>3, <5>1, PagedFacts
        <5>3. p = Paged!InOrder(S, Order)
          BY ONLY <5>1, <5>2, ListIsUnique
        <5> QED
          BY ONLY <5>1, <5>3
      <4>5. Paged!ByScore(page, ask.sort)' = Paged!InOrder(Members(page'), Paged!Match(ask.sort)')
        BY ToSetIsMembers DEF Paged!ByScore
      <4>6. Paged!Match(ask.sort)' = Order
        BY <2>6, <4>1 DEF Paged!Match, Order, Within0
      <4> QED
        BY ONLY <4>4, <4>5, <4>6
    <3> QED
      BY ONLY <2>6, <3>3, <3>4, <3>5, <3>6 DEF Paged!PageIsTheSlice, Within0
  <2>20. Members(page') \cap Members(before) = {} \/ ~stable
    <3>1. SUFFICES ASSUME stable, NEW j \in Members(page'), j \in Members(before) PROVE FALSE
      OBVIOUS
    <3>2. Rank(Members(seen) \cup Readable, Order, j) < Paged!Offset
      BY <2>1, <3>1 DEF PagedInv, Continued
    <3>3. Members(seen) \cup Readable = Members(seen)
      BY <2>12
    <3>4. Paged!Offset <= Rank(Members(seen), Order, j) /\ Rank(Members(seen), Order, j) \in Nat
      BY <2>13, <3>1
    <3> QED
      BY ONLY <2>12, <3>2, <3>3, <3>4
  <2>16. Paged!NextPageGoesOn'
    <3>1. (Paged!NextPageGoesOn <=> (at = "done" /\ stable => Cardinality(Members(page) \cap Members(before)) <= left))'
      BY GoesOnMeans, PTL
    <3>2. stable' => Cardinality(Members(page') \cap Members(before')) = 0
      BY <2>6, <2>20, FS_EmptySet DEF Within0
    <3>3. left' \in Nat
      BY <2>6, PagedFacts DEF Within0
    <3> QED
      BY <3>1, <3>2, <3>3
  <2>17. Continued'
    BY <2>6 DEF Continued
  <2>18. Paged!PTypeOK'
    <3>1. Paged!JobSeq(page')
      BY <2>10 DEF Paged!JobSeq
    <3> QED
      BY <2>6, <2>9, <3>1 DEF PagedInv, Paged!PTypeOK, Paged!JobSeq, Within0
  <2>19. ({ids, page, seen, before} \subseteq Seq(Jobs))' /\ using' <= version' /\ docs' \subseteq members'
    BY <2>6, <2>10, PagedFacts DEF Within0, PagedInv
  <2> QED
    BY <2>6, <2>14, <2>15, <2>16, <2>17, <2>18, <2>19 DEF PagedInv
<1> QED
  BY <1>1, <1>2

\* The page of the old set has no more jobs than entries.
LEMMA NoMoreThanEntries ==
    ASSUME NEW s \in Seq(Jobs)
    PROVE  Cardinality(Members(s)) \in Nat /\ Cardinality(Members(s)) <= Len(s) /\ Members(s) \subseteq Jobs
<1>1. Len(s) \in Nat /\ DOMAIN s = 1..Len(s) /\ Members(s) \subseteq Jobs
  BY DEF Members
<1>2. IsFiniteSet(1..Len(s)) /\ Cardinality(1..Len(s)) = Len(s)
  <2>1. Cardinality(1..Len(s)) = IF 1 > Len(s) THEN 0 ELSE Len(s) - 1 + 1
    BY <1>1, FS_Interval
  <2> QED
    BY <1>1, <2>1, FS_Interval
<1>3. PICK f : f = [i \in 1..Len(s) |-> s[i]]
  OBVIOUS
<1>4. f \in Surjection(1..Len(s), Members(s))
  BY <1>1, <1>3 DEF Surjection, Members
<1>5. Cardinality(Members(s)) <= Cardinality(1..Len(s))
  BY <1>2, <1>4, FS_Surjection
<1> QED
  BY <1>1, <1>2, <1>5, SomeJobs

LEMMA ReadWindowStep == ASSUME PagedInv, Paged!ReadWindow PROVE PagedInv'
<1>1. at = "window" /\ Paged!More /\ Windowed /\ windows \in 0..MaxWindows
  BY DEF Paged!ReadWindow, PagedInv, Paged!PTypeOK
<1>2. PICK read, found : read = Paged!Part(ids, cursor + 1, cursor + Limit - Len(page)) /\ found = Paged!Only(read, docs)
  OBVIOUS
<1>3. /\ page' = page \o found /\ seen' = seen \o found /\ lost' = lost \cup (Paged!ToSet(read) \ docs)
      /\ cursor' = cursor + Len(read) /\ windows' = windows + 1 /\ at' = "window" /\ Within0 /\ UNCHANGED <<using, ids, total>>
  BY <1>2 DEF Paged!ReadWindow, Paged!Goto, Paged!past, Paged!index, Within0
<1>4. /\ ids \in Seq(Jobs) /\ page \in Seq(Jobs) /\ seen \in Seq(Jobs) /\ cursor \in 0..Len(ids) /\ Len(ids) \in Nat
      /\ Len(page) \in Nat /\ Len(page) < Limit /\ cursor < Len(ids) /\ windows < MaxWindows /\ Limit \in Nat /\ MaxWindows \in Nat
      /\ Paged!Offset \in Nat /\ docs \subseteq Jobs /\ lost \subseteq Jobs
  BY <1>1, PagedFacts, PagedConstants DEF Paged!More, PagedInv, Paged!PTypeOK
<1>5. PICK n, c, o, a, b : n = Len(ids) /\ c = cursor /\ o = Paged!Offset /\ a = cursor + 1 /\ b = cursor + Limit - Len(page)
  OBVIOUS
<1>6. PICK e : e = Len(read)
  OBVIOUS
<1>7. c \in Nat /\ a = c + 1 /\ a \in Int /\ b \in Int /\ b > c /\ c < n /\ n \in Nat /\ o \in Nat /\ b - c = Limit - Len(page)
  BY ONLY <1>4, <1>5
<1>8. IsPart(Jobs, ids, a, b, read)
  <2>1. read = Paged!Part(ids, a, b)
    BY ONLY <1>2, <1>5
  <2> QED
    BY ONLY <1>4, <1>7, <2>1, PartOfAList
<1>9. /\ read \in Seq(Jobs) /\ Members(read) = {ids[i] : i \in {k \in DOMAIN ids : a <= k /\ k <= b}}
      /\ e = IF (IF a < 1 THEN 1 ELSE a) > (IF b > n THEN n ELSE b) THEN 0
             ELSE (IF b > n THEN n ELSE b) - (IF a < 1 THEN 1 ELSE a) + 1
  BY ONLY <1>5, <1>6, <1>8 DEF IsPart
<1>10. e \in Nat /\ c + e <= n /\ e <= b - c /\ (c + e = n \/ e = b - c) /\ e > 0
  BY ONLY <1>7, <1>9
<1>11. found \in Seq(Jobs) /\ Members(found) = Members(read) \cap docs /\ Len(found) <= e
  BY ONLY <1>2, <1>6, <1>9, OnlyOfAList
<1>12. PICK z, w : z = page' /\ w = seen'
  OBVIOUS
<1>13. IsJoined(Jobs, page, found, z) /\ IsJoined(Jobs, seen, found, w)
  <2>1. z = page \o found /\ w = seen \o found
    BY ONLY <1>3, <1>12
  <2>2. page \in Seq(Jobs) /\ found \in Seq(Jobs) /\ seen \in Seq(Jobs)
    BY ONLY <1>4, <1>11
  <2> QED
    BY ONLY <2>1, <2>2, Joined, Zenon
<1>14. z \in Seq(Jobs) /\ w \in Seq(Jobs) /\ Len(z) = Len(page) + Len(found) /\ Members(z) = Members(page) \cup Members(found)
  BY ONLY <1>13 DEF IsJoined
<1>15. Len(z) <= Limit
  <2>1. Len(found) \in Nat
    BY ONLY <1>11
  <2> QED
    BY ONLY <1>4, <1>7, <1>10, <1>11, <1>14, <2>1
<1>16. Members(z) \cup lost' = Between(ids, o + 1, c + e)
  <2>1. Members(page) \cup lost = Between(ids, o + 1, c)
    BY <1>1, <1>5 DEF Windowed
  <2>2. lost' = lost \cup (Members(read) \ docs)
    BY <1>3, ToSetIsMembers
  <2>3. Members(z) \cup lost' = Between(ids, o + 1, c) \cup Members(read)
    BY ONLY <1>11, <1>14, <2>1, <2>2
  <2>4. o <= c
    <3>1. Paged!Offset <= cursor \/ cursor = Len(ids)
      BY <1>1 DEF Windowed
    <3> QED
      BY ONLY <1>5, <1>7, <3>1
  <2>5. \A k \in 1..n : (o + 1 <= k /\ k <= c + e) <=> ((o + 1 <= k /\ k <= c) \/ (a <= k /\ k <= b))
    BY ONLY <1>7, <1>10, <2>4
  <2>6. DOMAIN ids = 1..n
    BY <1>4, <1>5
  <2>7. Between(ids, o + 1, c + e) = Between(ids, o + 1, c) \cup Members(read)
    BY ONLY <1>9, <2>5, <2>6 DEF Between
  <2> QED
    BY ONLY <2>3, <2>7
<1>17. /\ Paged!Relevance' = Paged!Relevance /\ Paged!Offset' = Paged!Offset /\ cursor' = c + e
       /\ Way' = Way /\ Paged!Listed' = Paged!Listed
  BY <1>3, <1>5, <1>6, OrderStays, SetsStay DEF Within0, Way, Paged!Less
<1>18. Windowed'
  <2>1. ~FromBatches' /\ Follows(ids', Way') /\ Members(ids') = Paged!Listed' /\ (stable' => (ranked' <=> ask'.profile))
    BY <1>1, <1>3, <1>17 DEF Windowed, FromBatches, Within0
  <2>2. Members(page') \cup lost' = Between(ids', Paged!Offset' + 1, cursor')
    BY ONLY <1>3, <1>5, <1>12, <1>16, <1>17
  <2>3. Paged!Offset' <= cursor' \/ cursor' = Len(ids')
    <3>1. Paged!Offset <= cursor \/ cursor = Len(ids)
      BY <1>1 DEF Windowed
    <3>2. o <= c + e
      BY ONLY <1>5, <1>7, <1>10, <3>1
    <3> QED
      BY ONLY <1>5, <1>17, <3>2
  <2>4. Len(page') <= Limit
    BY ONLY <1>12, <1>15
  <2>5. lost' \cap docs' = {}
    BY <1>1, <1>3 DEF Windowed, Within0
  <2> QED
    BY ONLY <2>1, <2>2, <2>3, <2>4, <2>5 DEF Windowed
<1>19. Continued'
  BY <1>1, <1>3, <1>17 DEF PagedInv, Continued, Within0
<1>20. Paged!PTypeOK'
  <2>1. Paged!JobSeq(page') /\ Paged!JobSeq(seen')
    BY <1>12, <1>14 DEF Paged!JobSeq
  <2>2. cursor' \in 0..Len(ids')
    <3>1. c + e \in 0..n
      BY ONLY <1>7, <1>10
    <3> QED
      BY ONLY <1>3, <1>5, <1>17, <3>1
  <2>3. windows' \in 0..MaxWindows
    BY ONLY <1>1, <1>3, <1>4
  <2>4. lost' \subseteq Jobs
    <3>1. Members(read) \subseteq Jobs
      BY <1>9 DEF Members
    <3> QED
      BY <1>3, <1>4, <3>1, ToSetIsMembers
  <2> QED
    BY <1>3, <2>1, <2>2, <2>3, <2>4 DEF PagedInv, Paged!PTypeOK, Paged!JobSeq, Within0
<1>21. Paged!PageIsTheSlice' /\ Paged!NextPageGoesOn'
  BY <1>3, NotAnsweredThen
<1>22. ({ids, page, seen, before} \subseteq Seq(Jobs))' /\ using' <= version' /\ docs' \subseteq members'
  BY <1>3, <1>12, <1>14, PagedFacts DEF Within0, PagedInv
<1> QED
  BY <1>3, <1>18, <1>19, <1>20, <1>21, <1>22 DEF PagedInv

LEMMA WayIsStrict == Strict(Way, Jobs)
<1>1. PICK L : L = Paged!Less
  OBVIOUS
<1>2. Strict(L, Nat) /\ Jobs \subseteq Nat
  BY <1>1, LessRanksNumbers, PagedConstants
<1>3. Strict(L, Jobs)
  BY ONLY <1>2 DEF Strict
<1> QED
  BY <1>1, <1>3, RelevanceIsStrict DEF Way

LEMMA AnswerWindowStep == ASSUME PagedInv, Paged!AnswerWindow PROVE PagedInv'
<1>1. at = "window" /\ Windowed
  BY DEF Paged!AnswerWindow, PagedInv
<1>2. /\ members' \in {members, members \ lost} /\ orphans' \subseteq lost
      /\ (orphans' = lost \/ (~ask.keyword /\ members' = members \ lost))
      /\ total' = Len(ids) - Paged!Cardinality(lost) /\ at' = "done"
      /\ page' = (IF ranked /\ Paged!ToSet(ids) \cap Preferred # {} THEN Paged!ByScore(page, "desc") ELSE page)
      /\ UNCHANGED <<version, docs, score, ask, using, ranked, ids, cursor, lost, windows, seen, before, left, stable>>
  <2>1. PICK removed \in (IF lost = {} THEN {TRUE} ELSE BOOLEAN) :
            /\ members' = (IF removed THEN Paged!Removed(lost) ELSE members)
            /\ orphans' = (IF removed /\ ~ask.keyword THEN {} ELSE lost)
    BY DEF Paged!AnswerWindow
  <2>2. /\ total' = Len(ids) - Paged!Cardinality(lost) /\ at' = "done"
        /\ page' = (IF ranked /\ Paged!ToSet(ids) \cap Preferred # {} THEN Paged!ByScore(page, "desc") ELSE page)
        /\ UNCHANGED <<version, docs, score, ask, using, ranked, ids, cursor, lost, windows, seen, before, left, stable>>
    BY DEF Paged!AnswerWindow, Paged!past
  <2>3. members' \in {members, members \ lost} /\ orphans' \subseteq lost
        /\ (orphans' = lost \/ (~ask.keyword /\ members' = members \ lost))
    BY <2>1 DEF Paged!Removed
  <2> QED
    BY <2>2, <2>3
<1>3. /\ ids \in Seq(Jobs) /\ page \in Seq(Jobs) /\ Paged!Offset \in Nat /\ Limit \in Nat \ {0} /\ members \subseteq Jobs
      /\ lost \subseteq Jobs /\ docs \subseteq members /\ docs \subseteq Jobs /\ Strict(Way, Jobs) /\ cursor \in 0..Len(ids)
      /\ left \in Nat /\ Paged!Listed \subseteq Jobs
  BY PagedFacts, PagedConstants, WayIsStrict DEF PagedInv, Paged!PTypeOK
<1>4. page' \in Seq(Jobs) /\ Members(page') = Members(page)
  <2>1. CASE page' = page
    BY <1>3, <2>1
  <2>2. CASE page' = Paged!ByScore(page, "desc")
    <3>1. page' = Paged!InOrder(Members(page), Paged!Match("desc"))
      BY <2>2, ToSetIsMembers DEF Paged!ByScore
    <3>2. Members(page) \subseteq Jobs /\ IsFiniteSet(Members(page)) /\ Strict(Paged!Match("desc"), Jobs)
      BY <1>3, PagedFacts, MatchIsStrict, SomeJobs DEF Members
    <3> QED
      BY <3>1, <3>2, InOrderLists
  <2> QED
    BY <1>2, <2>1, <2>2
<1>5. PICK n, o, c, l, R, M : /\ n = Len(ids) /\ o = Paged!Offset /\ c = cursor /\ l = Limit /\ R = Way /\ M = Paged!Listed
  OBVIOUS
<1>6. /\ Follows(ids, R) /\ Members(ids) = M /\ Members(page) \cup lost = Between(ids, o + 1, c) /\ Len(page) <= l /\ lost \cap docs = {}
      /\ ~FromBatches
  BY <1>1, <1>5 DEF Windowed
<1>7. /\ IsFiniteSet(M) /\ Cardinality(M) = n /\ M \subseteq Jobs /\ (\A k \in DOMAIN ids : Rank(M, R, ids[k]) = k - 1)
      /\ \A i, j \in DOMAIN ids : ids[i] = ids[j] => i = j
  <2>1. ids \in Seq(Jobs) /\ Strict(R, Jobs) /\ Follows(ids, R)
    BY <1>3, <1>5, <1>6
  <2>2. /\ IsFiniteSet(Members(ids)) /\ Cardinality(Members(ids)) = Len(ids) /\ Members(ids) \subseteq Jobs
        /\ \A k \in DOMAIN ids : Rank(Members(ids), R, ids[k]) = k - 1
        /\ \A i, j \in DOMAIN ids : ids[i] = ids[j] => i = j
    BY ONLY <2>1, PlaceIsRank
  <2> QED
    BY ONLY <1>5, <1>6, <2>2
<1>8. \A j \in Members(page) \cup lost : j \in M /\ Rank(M, R, j) \in Nat /\ o <= Rank(M, R, j)
  <2>1. SUFFICES ASSUME NEW j \in Members(page) \cup lost PROVE j \in M /\ Rank(M, R, j) \in Nat /\ o <= Rank(M, R, j)
    OBVIOUS
  <2>2. PICK k \in DOMAIN ids : o + 1 <= k /\ k <= c /\ j = ids[k]
    BY <1>6, <2>1 DEF Between
  <2>3. k \in Nat /\ o \in Nat /\ j \in M
    BY <1>3, <1>5, <1>6, <2>2 DEF Members
  <2>4. Rank(M, R, j) = k - 1
    BY <1>7, <2>2
  <2> QED
    BY ONLY <2>2, <2>3, <2>4
<1>9. Paged!Offset' = o /\ ~FromBatches' /\ FromBatches' = FromBatches /\ (stable => Paged!Relevance = R /\ Paged!Relevance' = R)
  <2>1. stable => (ranked <=> ask.profile)
    BY <1>1 DEF Windowed
  <2>2. stable => Paged!Relevance = R
    BY <1>5, <2>1 DEF Way
  <2> QED
    BY <1>2, <1>5, <1>6, <2>2, OrderStays DEF FromBatches
\* What is listed afterwards is what was, without the orphans that were removed.
<1>19. PICK N, X : N = Paged!Listed' /\ X = orphans'
  OBVIOUS
<1>20. N \subseteq M /\ N \cap lost \subseteq X /\ IsFiniteSet(X) /\ Cardinality(X) \in Nat
  <2>1. N \subseteq M /\ N \cap lost \subseteq X
    BY <1>2, <1>5, <1>19 DEF Paged!Listed
  <2>2. X \subseteq Jobs
    BY <1>2, <1>3, <1>19
  <2> QED
    BY <2>1, <2>2, SomeJobs
<1>10. ASSUME NEW j \in Members(page) PROVE Rank(N, R, j) < o + l + Cardinality(X)
  <2>1. PICK A, P : A = Ahead(N, R, j) /\ P = Members(page) \ {j}
    OBVIOUS
  <2>2. PICK k0 \in DOMAIN ids : o + 1 <= k0 /\ k0 <= c /\ j = ids[k0]
    BY <1>6, <1>10 DEF Between
  <2>3. DOMAIN ids = 1..n /\ n \in Nat /\ o \in Nat /\ o + 1 \in 1..n
    <3>1. DOMAIN ids = 1..Len(ids) /\ Len(ids) \in Nat
      BY <1>3
    <3> QED
      BY ONLY <1>3, <1>5, <2>2, <3>1
  <2>4. PICK f, F : f = ids[o + 1] /\ F = Ahead(M, R, f)
    OBVIOUS
  <2>5. Cardinality(F) = o /\ IsFiniteSet(F)
    <3>1. Rank(M, R, ids[o + 1]) = o + 1 - 1
      BY ONLY <1>7, <2>3
    <3>2. IsFiniteSet(Ahead(M, R, f))
      BY ONLY <1>7, RankIsANumber
    <3> QED
      BY ONLY <2>3, <2>4, <3>1, <3>2 DEF Rank
  <2>6. A \subseteq (F \cup P) \cup X
    <3>1. SUFFICES ASSUME NEW x \in A, x \notin X PROVE x \in F \cup P
      OBVIOUS
    <3>2. x \in M /\ x \notin lost /\ <<x, j>> \in R
      BY <1>20, <2>1, <3>1 DEF Ahead
    <3>3. PICK k \in DOMAIN ids : x = ids[k]
      BY <1>6, <3>2 DEF Members
    <3>4. k < k0
      <4>1. ids \in Seq(Jobs) /\ Strict(R, Jobs) /\ Follows(ids, R)
        BY <1>3, <1>5, <1>6
      <4>2. \A a, b \in DOMAIN ids : <<ids[a], ids[b]>> \in R => a < b
        BY ONLY <4>1, PlaceIsRank
      <4> QED
        BY <2>2, <3>2, <3>3, <4>2
    <3>5. k \in Nat /\ k0 \in Nat /\ c \in Nat
      BY <1>3, <1>5, <2>2, <2>3, <3>3
    <3>6. CASE k <= o
      <4>1. k < o + 1
        BY ONLY <2>3, <3>5, <3>6
      <4>2. <<ids[k], ids[o + 1]>> \in R
        BY ONLY <1>6, <2>3, <3>3, <4>1 DEF Follows
      <4> QED
        BY <2>4, <3>2, <3>3, <4>2 DEF Ahead
    <3>7. CASE ~(k <= o)
      <4>1. o + 1 <= k /\ k <= c /\ k # k0
        BY ONLY <2>2, <2>3, <3>4, <3>5, <3>7
      <4>2. x \in Members(page) \cup lost
        BY <1>6, <3>3, <4>1 DEF Between
      <4>3. x # j
        BY <1>7, <2>2, <3>3, <4>1
      <4> QED
        BY <2>1, <3>2, <4>2, <4>3
    <3> QED
      BY <3>6, <3>7
  <2>7. Cardinality(P) \in Nat /\ Cardinality(P) < l /\ IsFiniteSet(P)
    <3>1. PICK S : S = Members(page)
      OBVIOUS
    <3>2. IsFiniteSet(S) /\ Cardinality(S) \in Nat /\ Cardinality(S) <= Len(page) /\ Len(page) \in Nat /\ j \in S
      <4>1. Len(page) \in Nat
        BY <1>3
      <4> QED
        BY <1>3, <1>10, <3>1, <4>1, NoMoreThanEntries, SomeJobs
    <3>3. Cardinality(S \ {j}) = Cardinality(S) - 1 /\ IsFiniteSet(S \ {j}) /\ Cardinality(S \ {j}) \in Nat
      BY ONLY <3>2, FS_RemoveElement, FS_CardinalityType
    <3>4. Len(page) <= l /\ l \in Nat
      BY <1>3, <1>5, <1>6
    <3> QED
      BY ONLY <2>1, <3>1, <3>2, <3>3, <3>4
  <2>8. /\ IsFiniteSet(F \cup P) /\ Cardinality(F \cup P) \in Nat /\ Cardinality(F \cap P) \in Nat
        /\ Cardinality(F \cup P) = Cardinality(F) + Cardinality(P) - Cardinality(F \cap P)
    <3>1. IsFiniteSet(F \cup P) /\ Cardinality(F \cup P) = Cardinality(F) + Cardinality(P) - Cardinality(F \cap P)
      BY ONLY <2>5, <2>7, FS_Union
    <3>2. IsFiniteSet(F \cap P)
      BY ONLY <2>5, <2>7, FS_Intersection
    <3> QED
      BY ONLY <3>1, <3>2, FS_CardinalityType
  <2>9. Cardinality(A) <= Cardinality(F \cup P) + Cardinality(X) /\ Cardinality(A) \in Nat
    <3>1. PICK V : V = F \cup P
      OBVIOUS
    <3>2. IsFiniteSet(V) /\ IsFiniteSet(X) /\ Cardinality(V) \in Nat /\ Cardinality(X) \in Nat /\ A \subseteq V \cup X
      BY <1>20, <2>6, <2>8, <3>1
    <3>3. IsFiniteSet(V \cup X) /\ Cardinality(V \cup X) = Cardinality(V) + Cardinality(X) - Cardinality(V \cap X)
      BY ONLY <3>2, FS_Union
    <3>4. Cardinality(V \cup X) \in Nat /\ Cardinality(V \cap X) \in Nat
      <4>1. IsFiniteSet(V \cap X)
        BY ONLY <3>2, FS_Intersection
      <4> QED
        BY ONLY <3>3, <4>1, FS_CardinalityType
    <3>5. Cardinality(A) <= Cardinality(V \cup X) /\ Cardinality(A) \in Nat
      BY ONLY <3>2, <3>3, FS_Subset, FS_CardinalityType
    <3> QED
      BY ONLY <3>1, <3>2, <3>3, <3>4, <3>5
  <2>10. Cardinality(A) < o + l + Cardinality(X)
    <3>1. l \in Nat /\ Cardinality(X) \in Nat
      BY <1>3, <1>5, <1>20
    <3> QED
      BY ONLY <2>3, <2>5, <2>7, <2>8, <2>9, <3>1
  <2> QED
    BY <2>1, <2>10 DEF Rank
<1>11. stable => version' = 0 /\ \A j \in Members(before) : Rank(M, R, j) < o + left
  BY <1>1, <1>2, <1>5, <1>9 DEF PagedInv, Continued
<1>12. Answered'
  <2>1. ASSUME stable
        PROVE  version' = 0 /\ \A j \in Members(page)' : Rank(Paged!Listed', Paged!Relevance', j) < Paged!Offset' + Limit + Cardinality(orphans')
    <3>1. \A j \in Members(page') : Rank(N, R, j) < o + l + Cardinality(X)
      BY <1>4, <1>10
    <3> QED
      BY ONLY <1>5, <1>9, <1>11, <1>19, <2>1, <3>1
  <2> QED
    BY <1>2, <1>9, <2>1 DEF Answered
<1>13. Paged!NextPageGoesOn'
  <2>1. (Paged!NextPageGoesOn <=> (at = "done" /\ stable => Cardinality(Members(page) \cap Members(before)) <= left))'
    BY GoesOnMeans, PTL
  <2>2. ASSUME stable PROVE Cardinality(Members(page) \cap Members(before)) <= left
    <3>1. PICK a, b, p : a = o + 1 /\ b = o + left /\ p = Paged!Part(ids, a, b)
      OBVIOUS
    <3>2. o \in Nat /\ a \in Int /\ b \in Int /\ left \in Nat /\ n \in Nat /\ DOMAIN ids = 1..n
      <4>1. o \in Nat /\ left \in Nat /\ n \in Nat /\ DOMAIN ids = 1..n
        BY <1>3, <1>5
      <4> QED
        BY ONLY <3>1, <4>1
    <3>3. IsPart(Jobs, ids, a, b, p)
      BY ONLY <1>3, <3>1, <3>2, PartOfAList
    <3>4. /\ p \in Seq(Jobs) /\ Members(p) = {ids[i] : i \in {k \in DOMAIN ids : a <= k /\ k <= b}}
          /\ Len(p) = IF (IF a < 1 THEN 1 ELSE a) > (IF b > n THEN n ELSE b) THEN 0
                      ELSE (IF b > n THEN n ELSE b) - (IF a < 1 THEN 1 ELSE a) + 1
      BY ONLY <1>5, <3>3 DEF IsPart
    <3>5. Len(p) <= left
      BY ONLY <3>1, <3>2, <3>4
    <3>6. Members(page) \cap Members(before) \subseteq Members(p)
      <4>1. SUFFICES ASSUME NEW j \in Members(page), j \in Members(before) PROVE j \in Members(p)
        OBVIOUS
      <4>2. PICK k \in DOMAIN ids : o + 1 <= k /\ j = ids[k]
        BY <1>6, <4>1 DEF Between
      <4>3. Rank(M, R, j) = k - 1 /\ Rank(M, R, j) < o + left
        BY <1>7, <1>11, <2>2, <4>1, <4>2
      <4>4. a <= k /\ k <= b
        BY ONLY <3>1, <3>2, <4>2, <4>3
      <4> QED
        BY <3>4, <4>2, <4>4
    <3>7. Cardinality(Members(p)) \in Nat /\ Cardinality(Members(p)) <= Len(p) /\ IsFiniteSet(Members(p)) /\ Len(p) \in Nat
      <4>1. Len(p) \in Nat
        BY ONLY <3>4
      <4> QED
        BY <3>4, <4>1, NoMoreThanEntries, SomeJobs
    <3>8. PICK C, D : C = Members(page) \cap Members(before) /\ D = Members(p)
      OBVIOUS
    <3>9. Cardinality(C) <= Cardinality(D) /\ Cardinality(C) \in Nat
      BY ONLY <3>6, <3>7, <3>8, FS_Subset, FS_CardinalityType
    <3> QED
      BY ONLY <3>2, <3>5, <3>7, <3>8, <3>9
  <2> QED
    BY <1>2, <1>4, <2>1, <2>2
<1>14. Paged!PageIsTheSlice'
  BY <1>9 DEF Paged!PageIsTheSlice, FromBatches
<1>15. total' \in 0..Paged!Cardinality(Jobs)
  <2>1. lost \subseteq M
    BY <1>8
  <2>2. /\ Cardinality(lost) \in Nat /\ Cardinality(lost) <= n /\ n \in Nat /\ n <= Cardinality(Jobs) /\ Cardinality(Jobs) \in Nat
    BY ONLY <1>7, <2>1, FS_Subset, FS_CardinalityType, SomeJobs, PagedConstants
  <2>3. total' = n - Cardinality(lost)
    BY <1>2, <1>5, SameCount
  <2>4. total' \in 0..Cardinality(Jobs)
    BY ONLY <2>2, <2>3
  <2> QED
    BY <2>4, SameCount
<1>16. Paged!PTypeOK'
  <2>1. Paged!JobSeq(page')
    BY <1>4 DEF Paged!JobSeq
  <2>2. members' \subseteq Jobs /\ orphans' \subseteq Jobs
    BY <1>2, <1>3 DEF PagedInv, Paged!PTypeOK
  <2> QED
    BY <1>2, <1>15, <2>1, <2>2 DEF PagedInv, Paged!PTypeOK, Paged!JobSeq
<1>17. ({ids, page, seen, before} \subseteq Seq(Jobs))' /\ using' <= version' /\ docs' \subseteq members'
  <2>1. docs' \subseteq members'
    BY <1>2, <1>3, <1>6
  <2> QED
    BY <1>2, <1>4, <2>1, PagedFacts DEF PagedInv
<1>18. Continued'
  BY <1>2 DEF Continued
<1> QED
  BY <1>2, <1>12, <1>13, <1>14, <1>16, <1>17, <1>18 DEF PagedInv

LEMMA PagedStep == ASSUME PagedInv, Paged!PNext PROVE PagedInv'
BY SearchStep, OpenStep, SnapshotStep, ReadBatchStep, AnswerStep, MembersStep, ReadWindowStep, AnswerWindowStep, ExpireStep,
   PublishStep DEF Paged!PNext

LEMMA PagedStays == ASSUME PagedInv, UNCHANGED Paged!pvars PROVE PagedInv'
<1> USE DEF Paged!pvars
<1>1. Paged!PTypeOK'
  BY DEF PagedInv, Paged!PTypeOK, Paged!JobSeq
<1>2. /\ Order' = Order /\ Paged!Relevance' = Paged!Relevance /\ Paged!Offset' = Paged!Offset /\ Readable' = Readable
      /\ Plain' = Plain /\ FromBatches' = FromBatches /\ Untouched' = Untouched /\ Paged!Capacity' = Paged!Capacity
      /\ Scope' = Scope /\ Paged!Listed' = Paged!Listed /\ Way' = Way
  BY OrderStays, SetsStay DEF Way, Paged!Less, Plain, FromBatches, Untouched, Paged!Capacity, Paged!Offset
<1>3. (at' = "batch" => Batched') /\ (at' = "window" => Windowed') /\ (at' = "done" => Answered') /\ Continued'
  BY <1>2 DEF PagedInv, Batched, Windowed, Answered, Continued
<1>4. Paged!PageIsTheSlice' /\ Paged!NextPageGoesOn'
  BY AnswerStays DEF PagedInv
<1> QED
  BY <1>1, <1>2, <1>3, <1>4 DEF PagedInv
=============================================================================
