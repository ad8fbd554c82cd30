------------------------------- MODULE UserPii -------------------------------
(***************************************************************************)
(* Personal data at rest (backend: users.mapper, users.repository,         *)
(* lib/security) and the deployment that protects what older versions left *)
(* in plain text (docker-compose.migrate.yml: scripts/seed, then           *)
(* scripts/backfillUserPii, then the backend).  A protected value is the   *)
(* text it decrypts to, the hash of an e-mail its normal form.  `text` is  *)
(* any of the profile's texts.  The job may die at any point and be run    *)
(* again, also while the backend of the deployment before it serves.       *)
(***************************************************************************)
EXTENDS Naturals, FiniteSets

CONSTANTS People,   \* ids of users
          Typed,    \* e-mails as they are typed
          NormalOf, \* typed e-mail -> its normal form
          Texts, SeedEmail, SeedText, MaxDeploys, MaxWrites, None

VARIABLES
    rows,     \* users: [email, sealedEmail, hash, text, sealed], or None
    creds,    \* credentials, by user: [email, sealed, hash], or None
    demo,     \* the seed's saved job and its event: how often each is there
    job,      \* the deployment: where it is, what it read and has not written yet
    serving,  \* a backend of this version is up
    written,  \* user -> text last written, by its owner or the seed (history)
    deploys, writes \* bounds

pvars == <<rows, creds, demo, job, serving, written, deploys, writes>>

Normal == {NormalOf[e] : e \in Typed}
Row == [email : Typed \cup {None}, sealedEmail : Normal \cup {None}, hash : Normal \cup {None},
        text : Texts \cup {None}, sealed : Texts \cup {None}]
Credential == [email : Typed, sealed : BOOLEAN, hash : Normal \cup {None}]

\* There are users enough for two that older versions left.
UserPiiAssumption ==
    /\ SeedEmail \in Normal /\ SeedText \in Texts /\ {MaxDeploys, MaxWrites} \subseteq Nat
    /\ NormalOf \in [Typed -> Typed] /\ \A e \in Typed : NormalOf[NormalOf[e]] = NormalOf[e]
    /\ \E p, q \in People : p # q
    /\ None \notin Typed \cup Texts /\ None \notin Row /\ None \notin Credential

Table(S) == [People -> S \cup {None}]
Empty == [i \in People |-> None]
Idle == [at |-> "idle", users |-> Empty, credentials |-> Empty, failed |-> FALSE]

PTypeOK ==
    /\ rows \in Table(Row) /\ creds \in Table(Credential) /\ written \in Table(Texts)
    /\ demo \in [job : 0..2, event : 0..2] /\ serving \in BOOLEAN
    /\ job.at \in {"idle", "user", "job", "event", "users", "credentials", "write"}
    /\ job.users \in Table(Row) /\ job.credentials \in Table(Credential) /\ job.failed \in BOOLEAN
    /\ deploys \in 0..MaxDeploys /\ writes \in 0..MaxWrites

-----------------------------------------------------------------------------
There(table) == {i \in People : table[i] # None}
HashTaken(table, h, i) == \E j \in There(table) \ {i} : h # None /\ table[j].hash = h

\* UsersRepository.findByEmail, and the credential of a sign-in.
Found(table, e) == {i \in There(table) : table[i].hash = NormalOf[e]}

\* toPublicUser.
ReadText(row) == IF row.sealed # None THEN row.sealed ELSE row.text
ReadEmail(row) == IF row.sealedEmail # None THEN row.sealedEmail ELSE row.email

\* toUserCreateValues, and protectEmail.
Created(e, text) == [email |-> None, sealedEmail |-> NormalOf[e], hash |-> NormalOf[e], text |-> None, sealed |-> text]
Secret(e) == [email |-> NormalOf[e], sealed |-> TRUE, hash |-> NormalOf[e]]

\* Mutant: the value is protected, and stays beside it.
UpdatedBeside(row, text) == [row EXCEPT !.text = text, !.sealed = text]

\* toUserUpdateValues.
Updated(row, text) == [row EXCEPT !.text = None, !.sealed = text]

-----------------------------------------------------------------------------
\* One deployment at a time; the backend of the one before goes on serving.
Deploy ==
    /\ job.at = "idle" /\ deploys < MaxDeploys
    /\ deploys' = deploys + 1 /\ job' = [Idle EXCEPT !.at = "user"]
    /\ UNCHANGED <<rows, creds, demo, serving, written, writes>>

Die == job.at # "idle" /\ job' = Idle /\ UNCHANGED <<rows, creds, demo, serving, written, deploys, writes>>

\* upsertSeedUser: the profile of the demonstration user is written again; an insert of
\* what is there without its credential is refused, and ends the deployment.
SeedUser ==
    LET known == Found(creds, SeedEmail)
        refused == \E i \in There(rows) : rows[i].hash = SeedEmail
    IN  /\ job.at = "user" /\ UNCHANGED <<demo, serving, deploys, writes>>
        /\ \/ \E i \in known :
                /\ rows' = [rows EXCEPT ![i] = Updated(@, SeedText)] /\ written' = [written EXCEPT ![i] = SeedText]
                /\ job' = [job EXCEPT !.at = "job"] /\ UNCHANGED creds
           \/ /\ known = {} /\ ~refused
              /\ \E i \in People \ There(rows) :
                   /\ rows' = [rows EXCEPT ![i] = Created(SeedEmail, SeedText)]
                   /\ creds' = [creds EXCEPT ![i] = Secret(SeedEmail)]
                   /\ written' = [written EXCEPT ![i] = SeedText]
              /\ job' = [job EXCEPT !.at = "job"]
           \/ known = {} /\ refused /\ job' = Idle /\ UNCHANGED <<rows, creds, written>>

\* upsertSeedSavedJob, upsertApplicationEvent: nothing in the database keeps a second one out.
SeedSaved ==
    /\ \/ /\ job.at = "job" /\ job' = [job EXCEPT !.at = "event"]
          /\ demo' = [demo EXCEPT !.job = IF @ > 0 THEN @ ELSE @ + 1]
       \/ /\ job.at = "event" /\ job' = [job EXCEPT !.at = "users"]
          /\ demo' = [demo EXCEPT !.event = IF @ > 0 THEN @ ELSE @ + 1]
    /\ UNCHANGED <<rows, creds, serving, written, deploys, writes>>

\* backfillUsers and backfillCredentials read their table once, then write row by row; they
\* run side by side, and a row that is refused ends only its own loop.
ReadTables ==
    /\ \/ job.at = "users" /\ job' = [job EXCEPT !.users = rows, !.at = "credentials"]
       \/ job.at = "credentials" /\ job' = [job EXCEPT !.credentials = creds, !.at = "write"]
    /\ UNCHANGED <<rows, creds, demo, serving, written, deploys, writes>>

\* What backfillUsers changes of a row that was read as `read`.
Protected(row, read) ==
    LET mail == IF read.email # None /\ (read.sealedEmail = None \/ read.hash = None)
                THEN [row EXCEPT !.sealedEmail = NormalOf[read.email], !.hash = NormalOf[read.email]] ELSE row
        text == IF read.text # None /\ read.sealed = None THEN [mail EXCEPT !.sealed = read.text] ELSE mail
    IN  [text EXCEPT !.email = IF read.email # None THEN None ELSE @, !.text = IF read.text # None THEN None ELSE @]

ProtectUser(i) ==
    /\ job.users[i] # None /\ job.at \in {"credentials", "write"}
    /\ LET row == IF rows[i] = None THEN None ELSE Protected(rows[i], job.users[i])
           refused == row # None /\ HashTaken(rows, row.hash, i)
       IN  /\ rows' = IF refused THEN rows ELSE [rows EXCEPT ![i] = row]
           /\ job' = [job EXCEPT !.users = IF refused THEN Empty ELSE [@ EXCEPT ![i] = None], !.failed = @ \/ refused]
    /\ UNCHANGED <<creds, demo, serving, written, deploys, writes>>

ProtectCredential(i) ==
    /\ job.credentials[i] # None /\ job.at = "write"
    /\ LET read == job.credentials[i]
           next == IF creds[i] = None THEN None
                   ELSE [creds[i] EXCEPT !.hash = IF read.hash = None THEN NormalOf[read.email] ELSE @,
                                         !.email = IF read.sealed THEN @ ELSE NormalOf[read.email], !.sealed = TRUE]
           refused == next # None /\ HashTaken(creds, next.hash, i)
       IN  /\ creds' = IF refused THEN creds ELSE [creds EXCEPT ![i] = next]
           /\ job' = [job EXCEPT !.credentials = IF refused THEN Empty ELSE [@ EXCEPT ![i] = None], !.failed = @ \/ refused]
    /\ UNCHANGED <<rows, demo, serving, written, deploys, writes>>

\* Only a job that succeeded lets the backend start.
Deployed ==
    /\ job.at = "write" /\ job.users = Empty /\ job.credentials = Empty
    /\ serving' = (serving \/ ~job.failed) /\ job' = Idle
    /\ UNCHANGED <<rows, creds, demo, written, deploys, writes>>

-----------------------------------------------------------------------------
\* CredentialsService.register as one step (Accounts has it step by step), PATCH
\* /api/users/profile, and the deletion of a user with its credential.
Write == serving /\ writes < MaxWrites /\ writes' = writes + 1

Register(i, e, text) ==
    /\ Write /\ rows[i] = None /\ Found(creds, e) = {} /\ Found(rows, e) = {}
    /\ rows' = [rows EXCEPT ![i] = Created(e, text)] /\ creds' = [creds EXCEPT ![i] = Secret(e)]
    /\ written' = [written EXCEPT ![i] = text] /\ UNCHANGED <<demo, job, serving, deploys>>
UpdateProfile(i, text) ==
    /\ Write /\ rows[i] # None
    /\ rows' = [rows EXCEPT ![i] = Updated(@, text)] /\ written' = [written EXCEPT ![i] = text]
    /\ UNCHANGED <<creds, demo, job, serving, deploys>>
Delete(i) ==
    /\ Write /\ rows[i] # None
    /\ rows' = [rows EXCEPT ![i] = None] /\ creds' = [creds EXCEPT ![i] = None]
    /\ written' = [written EXCEPT ![i] = None] /\ UNCHANGED <<demo, job, serving, deploys>>

-----------------------------------------------------------------------------
\* What older versions left: e-mails as they were typed, with or without a password, also
\* of one address twice (which ids they have makes no difference); or what the first
\* deployment made of an empty database.
Legacy(e, t) == [email |-> e, sealedEmail |-> None, hash |-> None, text |-> t, sealed |-> None]
PInit ==
    /\ LET i == CHOOSE p \in People : TRUE
           j == CHOOSE p \in People \ {i} : TRUE
       IN  \/ /\ \E e, f \in Typed, t \in Texts \cup {None} :
                   /\ e # f
                   /\ rows = [Empty EXCEPT ![i] = Legacy(e, t), ![j] = Legacy(f, None)]
                   /\ written = [Empty EXCEPT ![i] = t]
                   /\ creds \in {Empty, [Empty EXCEPT ![i] = [email |-> e, sealed |-> FALSE, hash |-> None]]}
              /\ demo = [job |-> 0, event |-> 0] /\ serving = FALSE
           \/ /\ rows = [Empty EXCEPT ![i] = Created(SeedEmail, SeedText)] /\ written = [Empty EXCEPT ![i] = SeedText]
              /\ creds = [Empty EXCEPT ![i] = Secret(SeedEmail)]
              /\ demo = [job |-> 1, event |-> 1] /\ serving = TRUE
    /\ job = Idle /\ deploys = 0 /\ writes = 0

PNext ==
    \/ Deploy \/ Die \/ SeedUser \/ SeedSaved \/ ReadTables \/ Deployed
    \/ \E i \in People :
         \/ ProtectUser(i) \/ ProtectCredential(i) \/ Delete(i)
         \/ \E e \in Typed, t \in Texts : Register(i, e, t)
         \/ \E t \in Texts \cup {None} : UpdateProfile(i, t)

PSpec == PInit /\ [][PNext]_pvars

-----------------------------------------------------------------------------
\* Once a backend is up nothing is left in plain text, whatever deployments died before:
\* every user is found by its e-mail however it is typed, alone, with the text last
\* written, and so is its credential.
ServedIsProtected ==
    serving =>
      /\ \A i \in There(rows) :
           /\ rows[i].email = None /\ rows[i].text = None /\ ReadText(rows[i]) = written[i]
           /\ \A e \in Typed : NormalOf[e] = ReadEmail(rows[i]) => Found(rows, e) = {i}
      /\ \A i \in There(creds) : creds[i].sealed /\ Found(creds, creds[i].email) = {i}

\* The seed leaves one of each, however often it is run.
SeededOnce == demo.job <= 1 /\ demo.event <= 1
=============================================================================
