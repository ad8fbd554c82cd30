------------------------------ MODULE Scheduler ------------------------------
(***************************************************************************)
(* The scheduler of scraper-go (internal/cronjob) with the shutdown        *)
(* sequence of cmd/server: the cron goroutine, the manual triggers of      *)
(* POST /admin/scrape, the run each of them starts under the distributed   *)
(* lock, the running flag behind GET /admin/scrape/status, and the         *)
(* WaitGroup with which Shutdown waits.                                    *)
(*                                                                         *)
(* The lock is the ExclusiveLease that RunLock implements, seen from one   *)
(* process: its owner is a trigger of this process, nobody, or Outside     *)
(* (another process, the public endpoint, a lock left by a lost reply).    *)
(***************************************************************************)
EXTENDS Naturals, FiniteSets

CONSTANTS Cron,      \* the goroutine of Start
          Admin,     \* the slots that serve POST /admin/scrape
          Outside,   \* any owner of the lock that is not a run of this scheduler
          Nobody     \* the lock is free

ASSUME TriggerAssumption ==
    /\ IsFiniteSet(Admin) /\ Cron \notin Admin
    /\ Nobody # Outside /\ {Nobody, Outside} \cap (Admin \cup {Cron}) = {}

VARIABLES
    owner,    \* who owns the distributed lock
    pc,       \* where each trigger is, from the trigger to the end of its run
    running,  \* Scheduler.running
    stopped,  \* Scheduler.stopped, and the closed stop channel
    active,   \* the counter of the WaitGroup
    bg,       \* bgCtx is canceled
    shut,     \* where the shutdown goroutine is
    awaited   \* history: the counted runs Stop found and that are not over

vars == <<owner, pc, running, stopped, active, bg, shut, awaited>>

Trigger == Admin \cup {Cron}

\* runWithLease, from its entry to the release of the lock.
InRun == {"counted", "body", "ending"}
\* Between active.Add and active.Done.
Counted == InRun \cup {"released", "cleared"}

TypeOK ==
    /\ owner \in Trigger \cup {Nobody, Outside}
    /\ pc \in [Trigger -> {"idle", "checked", "asking", "granted", "exited"} \cup Counted]
    /\ running \in BOOLEAN /\ stopped \in BOOLEAN /\ bg \in BOOLEAN
    /\ active \in Nat
    /\ shut \in {"serving", "canceled", "waiting", "returned", "timedout"}
    /\ awaited \subseteq Trigger

Init ==
    /\ owner = Nobody
    /\ pc = [t \in Trigger |-> "idle"]
    /\ running = FALSE /\ stopped = FALSE /\ bg = FALSE
    /\ active = 0
    /\ shut = "serving"
    /\ awaited = {}

Go(t, stage) == pc' = [pc EXCEPT ![t] = stage]
-----------------------------------------------------------------------------
\* Triggers.

\* Scheduler.acquire reads stopped under the mutex and lets the mutex go.
CheckStopped(t) ==
    /\ pc[t] = "idle"
    /\ Go(t, IF stopped THEN "idle" ELSE "checked")
    /\ UNCHANGED <<owner, running, stopped, active, bg, shut, awaited>>

\* A trigger on a context that shutdown does not cancel.
AskDetached(t) ==
    /\ pc[t] = "checked"
    /\ Go(t, "asking")
    /\ UNCHANGED <<owner, running, stopped, active, bg, shut, awaited>>

\* The SET leaves only on a context that is not done.
Ask(t) ==
    /\ pc[t] = "checked"
    /\ Go(t, IF bg THEN "idle" ELSE "asking")
    /\ UNCHANGED <<owner, running, stopped, active, bg, shut, awaited>>

Granted(t) ==
    /\ pc[t] = "asking" /\ owner = Nobody
    /\ owner' = t
    /\ Go(t, "granted")
    /\ UNCHANGED <<running, stopped, active, bg, shut, awaited>>

\* ErrAlreadyHeld.
Held(t) ==
    /\ pc[t] = "asking" /\ owner # Nobody
    /\ Go(t, "idle")
    /\ UNCHANGED <<owner, running, stopped, active, bg, shut, awaited>>

\* ErrUnavailable; the SET whose answer is missing may have taken the lock.
Unavailable(t) ==
    /\ pc[t] = "asking"
    /\ owner' \in {owner} \cup (IF owner = Nobody THEN {Outside} ELSE {})
    /\ Go(t, "idle")
    /\ UNCHANGED <<running, stopped, active, bg, shut, awaited>>

\* The run's goroutine counts itself once it is scheduled.
CountLater(t) ==
    /\ pc[t] = "granted"
    /\ Go(t, "counted")
    /\ UNCHANGED <<owner, running, stopped, active, bg, shut, awaited>>

\* active.Add(1), before the run's goroutine exists.
Count(t) ==
    /\ pc[t] = "granted"
    /\ active' = active + 1
    /\ Go(t, "counted")
    /\ UNCHANGED <<owner, running, stopped, bg, shut, awaited>>

\* Start's goroutine between two runs: stop closed, or bgCtx done.
CronExits ==
    /\ pc[Cron] = "idle"
    /\ stopped \/ bg
    /\ Go(Cron, "exited")
    /\ UNCHANGED <<owner, running, stopped, active, bg, shut, awaited>>
-----------------------------------------------------------------------------
\* runWithLease.

Begin(t) ==
    /\ pc[t] = "counted"
    /\ running' = TRUE
    /\ Go(t, "body")
    /\ UNCHANGED <<owner, stopped, active, bg, shut, awaited>>

\* The keywords, the scrape and the statistics, or an early return from any
\* of them: the lease's context and the scrape timeout bound them all.
BodyEnds(t) ==
    /\ pc[t] = "body"
    /\ Go(t, "ending")
    /\ UNCHANGED <<owner, running, stopped, active, bg, shut, awaited>>

\* The deferred calls, last first: Release, running = false, FinishRun, Done.
\* Release frees the lock only if the run still owns it, and may fail.
Release(t) ==
    /\ pc[t] = "ending"
    /\ \/ owner = t /\ owner' \in {Nobody, Outside}
       \/ owner # t /\ UNCHANGED owner
    /\ Go(t, "released")
    /\ UNCHANGED <<running, stopped, active, bg, shut, awaited>>

ClearRunning(t) ==
    /\ pc[t] = "released"
    /\ running' = FALSE
    /\ Go(t, "cleared")
    /\ UNCHANGED <<owner, stopped, active, bg, shut, awaited>>

Done(t) ==
    /\ pc[t] = "cleared"
    /\ active' = active - 1
    /\ awaited' = awaited \ {t}
    /\ Go(t, "idle")
    /\ UNCHANGED <<owner, running, stopped, bg, shut>>
-----------------------------------------------------------------------------
\* The lock, from outside.

\* Another owner takes the free lock, or frees it, or its lock expires.
OutsideMoves ==
    /\ \/ owner = Nobody /\ owner' = Outside
       \/ owner = Outside /\ owner' = Nobody
    /\ UNCHANGED <<pc, running, stopped, active, bg, shut, awaited>>

\* A lease that Valkey no longer renews expires under its run.
Expire ==
    /\ owner \in Trigger
    /\ owner' = Nobody
    /\ UNCHANGED <<pc, running, stopped, active, bg, shut, awaited>>
-----------------------------------------------------------------------------
\* SIGTERM in cmd/server: bgCancel, then Scheduler.Shutdown.  The HTTP server
\* still accepts POST /admin/scrape until Shutdown has returned.

BgCancel ==
    /\ shut = "serving"
    /\ bg' = TRUE
    /\ shut' = "canceled"
    /\ UNCHANGED <<owner, pc, running, stopped, active, awaited>>

Stop ==
    /\ shut = "canceled"
    /\ stopped' = TRUE
    /\ awaited' = {t \in Trigger : pc[t] \in Counted}
    /\ shut' = "waiting"
    /\ UNCHANGED <<owner, pc, running, active, bg>>

WaitEnds ==
    /\ shut = "waiting" /\ active = 0
    /\ shut' = "returned"
    /\ UNCHANGED <<owner, pc, running, stopped, active, bg, awaited>>

ShutdownTimesOut ==
    /\ shut = "waiting"
    /\ shut' = "timedout"
    /\ UNCHANGED <<owner, pc, running, stopped, active, bg, awaited>>
-----------------------------------------------------------------------------
Ends(t) ==
    \/ Count(t) \/ Begin(t) \/ BodyEnds(t) \/ Release(t)
    \/ ClearRunning(t) \/ Done(t)

Answered(t) == Ask(t) \/ Granted(t) \/ Held(t) \/ Unavailable(t)

Next ==
    \/ \E t \in Trigger :
          CheckStopped(t) \/ Answered(t) \/ Ends(t)
    \/ CronExits \/ OutsideMoves \/ Expire
    \/ BgCancel \/ Stop \/ WaitEnds \/ ShutdownTimesOut

Spec == Init /\ [][Next]_vars

\* Acquire returns, a run ends (the scrape has a timeout and obeys its
\* context), deferred calls run, and the goroutine that waits on the WaitGroup
\* is scheduled.  Neither Stop nor the deadline of Shutdown has to come.
Fairness ==
    /\ \A t \in Trigger : WF_vars(Answered(t)) /\ WF_vars(Ends(t))
    /\ WF_vars(WaitEnds)

FairSpec == Spec /\ Fairness
-----------------------------------------------------------------------------
\* The running flag is never left set: when it is, some run is between its
\* entry and the deferred call that clears it, in whatever order runs overlap.
RunningMeansRun ==
    running => \E t \in Trigger : pc[t] \in {"body", "ending", "released"}

\* The WaitGroup counts exactly the runs that were announced to it, so it
\* never goes negative and reaches zero again.
ActiveCountsRuns == active = Cardinality({t \in Trigger : pc[t] \in Counted})

\* Shutdown that returns without an error has outlived every run that was
\* counted when it stopped the scheduler.
ShutdownOutlivesCounted == shut = "returned" => awaited = {}

\* Once the application's context is canceled every run comes to its end,
\* frees the lock if it still has it, and no other run starts: whatever the
\* triggers had already asked for.
RunsDrain == bg ~> [](owner \notin Trigger /\ \A t \in Trigger : pc[t] \notin InRun)

\* What the comments of Shutdown and RunNow and SCRAPER.md promise: when
\* Shutdown has returned without an error no run of this process has the lock.
\* A trigger that passed the check of stopped before Stop breaks it.
ShutdownFreesLock == shut = "returned" => owner \notin Trigger
=============================================================================
