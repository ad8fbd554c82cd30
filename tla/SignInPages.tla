----------------------------- MODULE SignInPages -----------------------------
(***************************************************************************)
(* Signing in and out in one tab of the frontend (app/AppRoutes,           *)
(* domains/auth) with the session cookie of the backend: the whole session *)
(* is in the cookie, so a request acts on the cookie it was sent with, and *)
(* its answer replaces the one the browser has by then.  Accounts models   *)
(* what the requests do to the tables.                                     *)
(* Below is the telephone of the registration form (RegisterFormPanel):    *)
(* every change of the text goes through a mask, and the form sends what   *)
(* it makes of the masked text.  Parentheses, spaces and hyphens follow    *)
(* from the digits, so a text is a leading plus or none, and digits.  It   *)
(* shares no state with the rest.                                          *)
(***************************************************************************)
EXTENDS Naturals, Sequences, FiniteSets

CONSTANTS Users, Fields, \* fields of the forms
          MaxAttempts,   \* bound on the sign-ins through a provider
          Digits,        \* those of the keyboard
          Pasted,        \* texts that are pasted over the telephone
          MaxForeign,    \* bound on its digits after a plus that is not +55's
          None

\* What a form checks before it sends anything, and what may stay empty.
FieldsOf == [login |-> {"email", "password"},
             register |-> {"nome", "email", "telefone", "password", "cpf", "level"}]
Optional == {"telefone", "cpf"}

SignInPagesAssumption ==
    /\ None \notin Users /\ Fields \subseteq FieldsOf.login \cup FieldsOf.register /\ MaxAttempts \in Nat
    /\ Digits \subseteq 0..9 /\ MaxForeign \in Nat

VARIABLES
    jar,      \* the cookie: [user, state, link], state the number of an attempt, or 0
    tab,      \* the page: [path, booted, user, loading, busy, error, wrong, marked]
    calls,    \* requests on their way: [kind, jar, link]
    attempts, \* sign-ins through a provider that were begun: [link, user]
    steady,   \* a provider sent the user back, and nothing failed nor was left since (history)
    field,    \* telefone: [plus, digits]
    typed     \* what the field should hold: what the user last saw of it when it was cut
              \* or replaced, and the keys accepted since (history)

svars == <<jar, tab, calls, attempts, steady>>
fvars == <<field, typed>>

Public == {"landing", "login", "register", "refused"}   \* refused: /login?error=...
Paths == Public \cup {"home", "callback", "provider"}
Kinds == {"me", "refresh", "login", "register", "logout", "url"}
Jar == [user : Users \cup {None}, state : 0..MaxAttempts, link : BOOLEAN]
Empty == [user |-> None, state |-> 0, link |-> FALSE]

STypeOK ==
    /\ jar \in Jar
    /\ tab \in [path : Paths, booted : BOOLEAN, user : Users \cup {None}, loading : BOOLEAN,
                busy : BOOLEAN, error : BOOLEAN, wrong : SUBSET Fields, marked : SUBSET Fields]
    /\ calls \subseteq [kind : Kinds, jar : Jar, link : BOOLEAN]
    /\ attempts \in Seq([link : BOOLEAN, user : Users \cup {None}])
    /\ steady \in BOOLEAN

-----------------------------------------------------------------------------
\* ProtectedRoute, PublicRoute and the second effect of AuthCallback: where a page that
\* knows its user, or that there is none, goes by itself.  A form is mounted empty.
Blank(t) == [t EXCEPT !.busy = FALSE, !.error = FALSE, !.wrong = Fields \ Optional, !.marked = {}]
Target(t) ==
    CASE t.path \in Public /\ t.user # None -> "home"
      [] t.path = "home" /\ t.user = None -> "login"
      [] t.path = "callback" -> (IF t.user # None THEN "home" ELSE "refused")
      [] OTHER -> t.path
Settled(t) ==
    IF ~t.booted \/ t.loading \/ Target(t) = t.path THEN t
    ELSE Blank([t EXCEPT !.path = Target(t)])

Call(kind) == [kind |-> kind, jar |-> jar, link |-> FALSE]

\* A page that loads: nobody is known yet, and /auth/me is asked.
Fresh(path) == [path |-> path, booted |-> FALSE, user |-> None, loading |-> TRUE,
                busy |-> FALSE, error |-> FALSE, wrong |-> Fields \ Optional, marked |-> {}]
Load(path, cookie) ==
    /\ jar' = cookie
    /\ tab' = Fresh(path)
    /\ calls' = {[kind |-> "me", jar |-> cookie, link |-> FALSE]}

Open(path) == Load(path, jar) /\ steady' = FALSE /\ UNCHANGED attempts

\* App shows the routes after two seconds.  Only then the callback page asks once more who
\* the user is; what its second effect goes by is what was known before.
Boot ==
    /\ tab.path # "provider" /\ ~tab.booted
    /\ LET known == Settled([tab EXCEPT !.booted = TRUE])
           back == tab.path = "callback"
       IN  /\ tab' = IF back THEN [known EXCEPT !.loading = TRUE] ELSE known
           /\ calls' = IF back THEN calls \cup {Call("refresh")} ELSE calls
    /\ UNCHANGED <<jar, attempts, steady>>

-----------------------------------------------------------------------------
Form == tab.booted /\ ~tab.loading /\ ~tab.busy /\ tab.path \in {"login", "refused", "register"}
FormFields == Fields \cap (IF tab.path = "register" THEN FieldsOf.register ELSE FieldsOf.login)

\* An entry becomes acceptable or not; only the telephone loses its mark at once.
Edit(f) ==
    /\ Form /\ f \in FormFields
    /\ tab' = [tab EXCEPT !.wrong = IF f \in @ THEN @ \ {f} ELSE @ \cup {f},
                          !.marked = @ \ ({f} \cap {"telefone"})]
    /\ UNCHANGED <<jar, calls, attempts, steady>>

Submit ==
    /\ Form
    /\ LET refused == tab.wrong \cap FormFields
       IN  /\ tab' = [tab EXCEPT !.marked = refused, !.error = FALSE, !.busy = refused = {}]
           /\ calls' = IF refused # {} THEN calls
                       ELSE calls \cup {Call(IF tab.path = "register" THEN "register" ELSE "login")}
    /\ UNCHANGED <<jar, attempts, steady>>

Pending == Cardinality({c \in calls : c.kind = "url"})

\* The buttons of the providers; the one of Google leaves an error of registration shown.
StartSignIn ==
    /\ Form /\ Len(attempts) + Pending < MaxAttempts
    /\ tab' = [tab EXCEPT !.busy = TRUE, !.error = @ /\ tab.path = "register"]
    /\ calls' = calls \cup {Call("url")}
    /\ UNCHANGED <<jar, attempts, steady>>

StartLink ==
    /\ tab.path = "home" /\ tab.booted /\ ~tab.loading /\ Len(attempts) + Pending < MaxAttempts
    /\ calls' = calls \cup {[Call("url") EXCEPT !.link = TRUE]}
    /\ steady' = FALSE
    /\ UNCHANGED <<jar, tab, attempts>>

LogOut ==
    /\ tab.path = "home" /\ tab.booted /\ ~tab.loading
    /\ calls' = calls \cup {Call("logout")}
    /\ steady' = FALSE
    /\ UNCHANGED <<jar, tab, attempts>>

-----------------------------------------------------------------------------
\* Answers.  What the backend does depends on the cookie of the request alone.
Known(c) ==
    /\ c.kind \in {"me", "refresh"}
    /\ tab' = Settled([tab EXCEPT !.user = c.jar.user, !.loading = FALSE])
    /\ UNCHANGED <<jar, attempts>>

LoggedIn(c) ==
    /\ c.kind = "login"
    /\ \E u \in Users : /\ jar' = [c.jar EXCEPT !.user = u]
                        /\ tab' = Settled([tab EXCEPT !.user = u, !.busy = FALSE])
    /\ UNCHANGED attempts

LoggedOut(c) ==
    /\ c.kind = "logout"
    /\ jar' = Empty
    /\ tab' = Settled([tab EXCEPT !.user = None])
    /\ UNCHANGED attempts

\* AuthController.getUrl; then the page is left, and its other requests with it.
\* Mutant: the intent of an earlier attempt stays in the session.
IntentLeft(c) == (c.link \/ c.jar.link) /\ c.jar.user # None

Intent(c) == c.link /\ c.jar.user # None
Redirected(c) ==
    /\ c.kind = "url"
    /\ attempts' = Append(attempts, [link |-> c.link /\ c.jar.user # None, user |-> c.jar.user])
    /\ jar' = [c.jar EXCEPT !.state = Len(attempts) + 1, !.link = Intent(c)]
    /\ tab' = [Fresh("provider") EXCEPT !.loading = FALSE]

Registered(c) ==
    /\ c.kind = "register"
    /\ \E u \in Users : Load("login", [c.jar EXCEPT !.user = u])
    /\ UNCHANGED <<attempts, steady>>

Answer(c) ==
    \/ Registered(c)
    \/ /\ Known(c) \/ LoggedIn(c) \/ LoggedOut(c) \/ Redirected(c)
       /\ calls' = IF c.kind = "url" THEN {} ELSE calls \ {c}
       /\ UNCHANGED steady

\* Refused by the backend, or lost on the way back.
Failed(c) ==
    /\ calls' = calls \ {c}
    /\ tab' = CASE c.kind \in {"me", "refresh"} -> Settled([tab EXCEPT !.user = None, !.loading = FALSE])
                [] c.kind = "logout" \/ c.link -> tab
                [] OTHER -> [tab EXCEPT !.busy = FALSE, !.error = TRUE]
    /\ steady' = FALSE
    /\ UNCHANGED <<jar, attempts>>

-----------------------------------------------------------------------------
\* AuthController.callback, for an attempt the user completes at the provider: the state is
\* that of the last attempt, or the login page says why not.
Link(n) ==
    /\ jar.state = n /\ jar.link /\ jar.user # None
    /\ \/ Load("home", [jar EXCEPT !.state = 0, !.link = FALSE])
       \/ Load("home", jar)
    /\ steady' = FALSE

SignIn(n) ==
    /\ jar.state = n /\ ~(jar.link /\ jar.user # None)
    /\ \/ /\ \E u \in Users : Load("callback", [user |-> u, state |-> 0, link |-> FALSE])
          /\ steady' = TRUE
       \/ Load("refused", jar) /\ steady' = FALSE

Stale(n) == jar.state # n /\ Load("refused", jar) /\ steady' = FALSE

Return(n) == tab.path = "provider" /\ (Link(n) \/ SignIn(n) \/ Stale(n)) /\ UNCHANGED attempts

SInit ==
    /\ jar \in [user : Users \cup {None}, state : {0}, link : {FALSE}]
    /\ tab = Fresh("landing")
    /\ calls = {[kind |-> "me", jar |-> jar, link |-> FALSE]}
    /\ attempts = <<>> /\ steady = FALSE

SNext ==
    \/ \E p \in {"landing", "login", "register", "home"} : Open(p)
    \/ Boot \/ Submit \/ StartSignIn \/ StartLink \/ LogOut
    \/ \E f \in Fields : Edit(f)
    \/ \E c \in calls : Answer(c) \/ Failed(c)
    \/ \E n \in DOMAIN attempts : Return(n)

SSpec == SInit /\ [][SNext]_svars

-----------------------------------------------------------------------------
\* Who comes back from a provider signed in is not told that it failed, and reaches the
\* dashboard as the user of the session: whichever of the two requests for the user is
\* answered first, before or after the routes are shown.
ComesHome ==
    steady => /\ tab.path \in {"callback", "home"}
              /\ tab.booted /\ calls = {} => tab.path = "home" /\ tab.user = jar.user

\* An attempt ends as what it was begun as: no sign-in becomes a link because an earlier
\* link was given up, and no link a sign-in.
IntentKept == jar.state # 0 => jar.link = attempts[jar.state].link

\* A form that is disabled waits for an answer that frees it, or takes the user away.
FormIsFreed == tab.busy => \E c \in calls : c.kind \in {"login", "register", "url"} /\ ~c.link

-----------------------------------------------------------------------------
(* The telephone *)

Country == <<5, 5>>
Mobile == 11      \* phoneDigitsMobileWithoutCountryCode
Landline == 10    \* phoneDigitsLandlineWithoutCountryCode
WithCountry == 13 \* phoneDigitsWithCountryCode
NoText == [plus |-> FALSE, digits |-> <<>>]
Text == [plus : BOOLEAN, digits : Seq(0..9)]

FTypeOK == field \in Text /\ typed \in Text

-----------------------------------------------------------------------------
Leading(s, n) == SubSeq(s, 1, IF n < Len(s) THEN n ELSE Len(s))
HasPrefix(t) == Leading(t.digits, 2) = Country
Foreign(t) == t.plus /\ ~HasPrefix(t)
\* Mutant: eleven digits are enough for a country code.
HasCountryEarly(t) == t.plus \/ (HasPrefix(t) /\ Len(t.digits) >= Mobile)

HasCountry(t) == t.plus \/ (HasPrefix(t) /\ Len(t.digits) > Mobile)
National(t) == IF HasCountry(t) THEN SubSeq(t.digits, 3, Len(t.digits)) ELSE t.digits
MaxNational(s) == IF Len(s) > 2 /\ s[3] = 9 THEN Mobile ELSE Landline

\* normalizePhoneInput: the country code is kept, or told from the number of digits.
Normalized(t) ==
    IF Foreign(t) THEN [t EXCEPT !.digits = Leading(@, WithCountry)]
    ELSE [plus |-> HasCountry(t),
          digits |-> (IF HasCountry(t) THEN Country ELSE <<>>) \o Leading(National(t), MaxNational(National(t)))]

\* handlePhoneChange: a text with too many digits changes nothing.
TooLong(t) == Len(t.digits) > MaxNational(National(t)) + (IF HasCountry(t) THEN 2 ELSE 0)
Change(t, meant) ==
    /\ field' = IF TooLong(t) THEN field ELSE Normalized(t)
    /\ typed' = IF TooLong(t) THEN typed ELSE meant

\* sanitizePhoneForValidation: an area code without zeros, then nine digits that begin with
\* 9, or eight that begin with 2 to 8.
ValidNational(s) ==
    /\ Len(s) \in {Mobile, Landline} /\ s[1] # 0 /\ s[2] # 0
    /\ IF Len(s) = Mobile THEN s[3] = 9 ELSE s[3] \in 2..8
Valid(t) ==
    IF t.plus THEN HasPrefix(t) /\ ValidNational(SubSeq(t.digits, 3, Len(t.digits)))
    ELSE ValidNational(t.digits)

\* handleSubmit: an empty field is sent as none, an invalid one not at all.
MaySubmit == field = NoText \/ Valid(field)
Payload == field

-----------------------------------------------------------------------------
\* A key at the end of the text; the last character erased; a text over the whole of it.
Press(d) ==
    /\ Foreign(field) => Len(field.digits) < MaxForeign
    /\ Change([field EXCEPT !.digits = Append(@, d)], [typed EXCEPT !.digits = Append(@, d)])
PressPlus == field = NoText /\ Change([NoText EXCEPT !.plus = TRUE], [NoText EXCEPT !.plus = TRUE])
Erase ==
    /\ field # NoText
    /\ LET t == IF field.digits = <<>> THEN NoText ELSE [field EXCEPT !.digits = Leading(@, Len(@) - 1)]
       IN  Change(t, Normalized(t))
Paste(t) == Change(t, t)

FInit == field = NoText /\ typed = NoText

FNext == (\E d \in Digits : Press(d)) \/ PressPlus \/ Erase \/ \E t \in Pasted : Paste(t)

FSpec == FInit /\ [][FNext]_fvars

-----------------------------------------------------------------------------
\* Who types or pastes a Brazilian number, with +55 or without any country code, can send
\* it and sends that number: the mask never takes one for another on the way, not even
\* where an area code is 55 or a landline becomes a mobile number with the next key.
TypedIsSent == Valid(typed) => MaySubmit /\ Payload = typed
=============================================================================
