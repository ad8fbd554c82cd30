----------------------------- MODULE MailDelivery -----------------------------
(***************************************************************************)
(* The welcome mail after a sign-up has committed (backend: EmailService,  *)
(* the queue and its worker, the start and the stop of the server).  The   *)
(* queue is BullMQ over Valkey, taken from how it is used here: a command  *)
(* waits for Valkey however long that takes and is sent again when the     *)
(* connection breaks, a failed mail is tried again up to `attempts` times, *)
(* and one whose worker is gone is stalled: it is handed out once more.    *)
(***************************************************************************)
EXTENDS Naturals, Sequences

CONSTANTS Requests,    \* sign-ups of new users, a mail each
          Attempts,    \* EMAIL_QUEUE_ATTEMPTS
          MaxStalled,  \* how often BullMQ hands out a stalled mail
          MaxFaults,   \* bound on what goes wrong
          None

\* What the worker has in its hands.
Hand == [mail : Nat, step : {"taken", "sent", "error"}, lock : BOOLEAN]

MailDeliveryAssumption ==
    /\ {Attempts, MaxStalled, MaxFaults} \subseteq Nat /\ Attempts > 0
    /\ None \notin Hand

VARIABLES
    server,   \* "up"; "stopping", "closing" and "leaving" are the steps of shutdown; "down"
    valkey,   \* Valkey can be reached
    hasKey,   \* EMAIL_API_KEY is set
    welcome,  \* request -> how far its sendWelcome is
    mails,    \* the mails in the queue: [of, at, made, stalls, taken]
    holding,  \* a Hand, or None
    faults

dvars == <<server, valkey, hasKey, welcome, mails, holding, faults>>

Mail == [of : Requests, at : {"waiting", "active", "delayed", "completed", "failed"},
         made : 0..Attempts, stalls : 0..MaxStalled + 1,
         taken : Nat] \* how often the provider took it (history)

DTypeOK ==
    /\ server \in {"up", "stopping", "closing", "leaving", "down"}
    /\ {valkey, hasKey} \subseteq BOOLEAN /\ faults \in 0..MaxFaults
    /\ welcome \in [Requests -> {"new", "adding", "queued", "logged", "cut"}]
    /\ mails \in Seq(Mail)
    /\ holding # None => holding \in Hand /\ holding.mail \in DOMAIN mails

Waiting(r) == [of |-> r, at |-> "waiting", made |-> 0, stalls |-> 0, taken |-> 0]
Fault == faults < MaxFaults /\ faults' = faults + 1

-----------------------------------------------------------------------------
\* send, and getEmailQueue().add under it.  The server listens to the end of a shutdown.
SendWelcome(r) ==
    /\ server # "down" /\ welcome[r] = "new" /\ welcome' = [welcome EXCEPT ![r] = "adding"]
    /\ UNCHANGED <<server, valkey, hasKey, mails, holding, faults>>
Enqueue(r) ==
    /\ welcome[r] = "adding" /\ valkey /\ welcome' = [welcome EXCEPT ![r] = "queued"]
    /\ \/ mails' = Append(mails, Waiting(r)) /\ faults' = faults
       \/ mails' = mails \o <<Waiting(r), Waiting(r)>> /\ Fault
    /\ UNCHANGED <<server, valkey, hasKey, holding>>

\* The queue refuses what comes while it is being closed: an error that is logged.
EnqueueFails(r) ==
    /\ welcome[r] = "adding" /\ server = "closing" /\ welcome' = [welcome EXCEPT ![r] = "logged"]
    /\ UNCHANGED <<server, valkey, hasKey, mails, holding, faults>>

-----------------------------------------------------------------------------
\* The worker, one mail at a time.
Take(i) ==
    /\ server = "up" /\ valkey /\ holding = None /\ mails[i].at = "waiting"
    /\ mails' = [mails EXCEPT ![i].at = "active"]
    /\ holding' = [mail |-> i, step |-> "taken", lock |-> TRUE]
    /\ UNCHANGED <<server, valkey, hasKey, welcome, faults>>

Received == mails' = [mails EXCEPT ![holding.mail].taken = @ + 1]
Step(s) == holding' = [holding EXCEPT !.step = s]

\* Mutant: the worker keeps the error of the provider to itself.
ProcessQuietly ==
    /\ holding # None /\ holding.step = "taken"
    /\ \/ ~hasKey /\ Step("sent") /\ UNCHANGED mails
       \/ hasKey /\ Step("sent") /\ (Received \/ UNCHANGED mails)
    /\ UNCHANGED <<server, valkey, hasKey, welcome, faults>>

\* processEmailJob with the provider of getMailProvider: without a key nothing is sent.  A
\* provider may have taken the mail though it answers with an error, or not at all.
ProcessEmailJob ==
    /\ holding # None /\ holding.step = "taken"
    /\ \/ ~hasKey /\ Step("sent") /\ UNCHANGED mails
       \/ hasKey /\ Step("sent") /\ Received
       \/ hasKey /\ Step("error") /\ (Received \/ UNCHANGED mails)
    /\ UNCHANGED <<server, valkey, hasKey, welcome, faults>>

\* What became of it, unless the mail was handed out again meanwhile.
Failed(m) == [m EXCEPT !.made = @ + 1, !.at = IF m.made + 1 < Attempts THEN "delayed" ELSE "failed"]
Settle ==
    /\ holding # None /\ holding.step # "taken" /\ valkey /\ holding' = None
    /\ mails' = IF ~holding.lock THEN mails
                ELSE [mails EXCEPT ![holding.mail] =
                        IF holding.step = "sent" THEN [@ EXCEPT !.at = "completed"] ELSE Failed(@)]
    /\ UNCHANGED <<server, valkey, hasKey, welcome, faults>>

\* The exponential backoff is over.
Retry(i) ==
    /\ valkey /\ server = "up" /\ mails[i].at = "delayed" /\ mails' = [mails EXCEPT ![i].at = "waiting"]
    /\ UNCHANGED <<server, valkey, hasKey, welcome, holding, faults>>

\* No worker has renewed the lock of an active mail: its process is gone, or could not reach
\* Valkey for as long as a lock lasts.
Held(i) == holding # None /\ holding.mail = i /\ holding.lock
Stall(i) ==
    /\ server = "up" /\ valkey /\ mails[i].at = "active"
    /\ IF Held(i) THEN Fault /\ holding' = [holding EXCEPT !.lock = FALSE] ELSE UNCHANGED <<faults, holding>>
    /\ mails' = [mails EXCEPT ![i].stalls = @ + 1, ![i].at = IF mails[i].stalls < MaxStalled THEN "waiting" ELSE "failed"]
    /\ UNCHANGED <<server, valkey, hasKey, welcome>>

-----------------------------------------------------------------------------
\* shutdown: the worker ends its mail, then the queue and the cache are closed.
Gone == [r \in Requests |-> IF welcome[r] = "adding" THEN "cut" ELSE welcome[r]]
Shutdown ==
    /\ server = "up" /\ server' = "stopping"
    /\ UNCHANGED <<valkey, hasKey, welcome, mails, holding, faults>>
StopEmailWorker ==
    /\ server = "stopping" /\ holding = None /\ server' = "closing"
    /\ UNCHANGED <<valkey, hasKey, welcome, mails, holding, faults>>
CloseEmailQueue ==
    /\ server = "closing" /\ valkey /\ server' = "leaving"
    /\ UNCHANGED <<valkey, hasKey, welcome, mails, holding, faults>>
Exit ==
    /\ server = "leaving" /\ server' = "down" /\ welcome' = Gone
    /\ UNCHANGED <<valkey, hasKey, mails, holding, faults>>
Crash ==
    /\ server # "down" /\ Fault /\ server' = "down" /\ welcome' = Gone /\ holding' = None
    /\ UNCHANGED <<valkey, hasKey, mails>>
StartServer ==
    /\ server = "down" /\ server' = "up"
    /\ UNCHANGED <<valkey, hasKey, welcome, mails, holding, faults>>

LoseValkey ==
    /\ valkey /\ Fault /\ valkey' = FALSE
    /\ UNCHANGED <<server, hasKey, welcome, mails, holding>>
FindValkey ==
    /\ ~valkey /\ valkey' = TRUE
    /\ UNCHANGED <<server, hasKey, welcome, mails, holding, faults>>

DInit ==
    /\ server = "up" /\ valkey = TRUE /\ hasKey \in BOOLEAN /\ mails = <<>> /\ holding = None /\ faults = 0
    /\ welcome = [r \in Requests |-> "new"]

DNext ==
    \/ \E r \in Requests : SendWelcome(r) \/ Enqueue(r) \/ EnqueueFails(r)
    \/ \E i \in DOMAIN mails : Take(i) \/ Retry(i) \/ Stall(i)
    \/ ProcessEmailJob \/ Settle
    \/ Shutdown \/ StopEmailWorker \/ CloseEmailQueue \/ Exit \/ Crash \/ StartServer
    \/ LoseValkey \/ FindValkey

DSpec == DInit /\ [][DNext]_dvars

-----------------------------------------------------------------------------
\* A mail leaves the queue for a reason: the provider took it, or it was tried as often as
\* configured, or it stalled once too often; stopping the server in good order stalls none.
LeavesForAReason ==
    /\ \A i \in DOMAIN mails :
          /\ mails[i].at = "completed" /\ hasKey => mails[i].taken > 0
          /\ mails[i].at = "failed" => mails[i].made = Attempts \/ mails[i].stalls > MaxStalled
    /\ faults = 0 => \A i \in DOMAIN mails : mails[i].stalls = 0

\* A new user gets a second mail only for a failure that was counted: an attempt that ended
\* in an error, a stall, or a mail queued twice.
TakenInBounds ==
    \A i \in DOMAIN mails :
        /\ mails[i].taken <= mails[i].made + mails[i].stalls + 1
        /\ \A j \in DOMAIN mails : mails[j].of = mails[i].of /\ j # i => faults > 0
=============================================================================
