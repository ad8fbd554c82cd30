------------------------------- MODULE RunLock -------------------------------
(***************************************************************************)
(* The distributed run lock of scraper-go (internal/runlock): the Valkey   *)
(* keys scraper:run:lock and scraper:run:state, the commands and Lua       *)
(* scripts that touch them, Manager.Acquire, Lease.Release and the         *)
(* renewal goroutine with its ticker and its safety timer.                 *)
(*                                                                         *)
(* Every Acquire draws a fresh random token and run id, so a run is the    *)
(* identity of both.  Time is discrete and every timer counts down.        *)
(* A command travels to Valkey, is executed there, and its reply travels   *)
(* back; the client library may send it again, and the caller may give up  *)
(* at any moment, in which case the command is left behind in `stray` and  *)
(* may still be executed, arbitrarily later, with nobody listening.        *)
(***************************************************************************)
EXTENDS Integers, FiniteSets

CONSTANTS Run,             \* the executions, one per call of Acquire
          NoRun,           \* the owner of a key that does not exist
          TTL,             \* Config.TTL
          RenewInterval,   \* Config.RenewInterval
          AcquireTimeout,  \* longest the SET and the WriteState take together
          ReleaseTimeout,  \* the deadline callers give Release
          MaxStray         \* bound: no resending beyond so many stray commands

\* Config.Validate.
ASSUME ConfigAssumption ==
    /\ TTL \in Nat /\ RenewInterval \in Nat
    /\ 0 < RenewInterval /\ RenewInterval < TTL

\* Acquire has no deadline of its own: it is bounded by the client library.
ASSUME CallAssumption ==
    /\ AcquireTimeout \in Nat /\ 0 < AcquireTimeout
    /\ AcquireTimeout <= RenewInterval
    /\ ReleaseTimeout \in Nat /\ 0 < ReleaseTimeout

ASSUME RunAssumption == NoRun \notin Run

VARIABLES
    lock,     \* LockKey:  whose token it holds and its remaining PTTL
    state,    \* StateKey: the runId of the hash and its remaining PTTL
    pc,       \* where the goroutine that called Acquire is
    ctx,      \* the lease's context
    renewer,  \* the renewal goroutine
    op,       \* the command a run is waiting for
    res,      \* what Valkey did with it
    left,     \* time until the caller's deadline for that command
    tick,     \* time until the ticker fires
    pending,  \* a tick waits in the ticker's channel
    safety,   \* time until the safety timer fires
    stray     \* commands sent and given up by their sender

store == <<lock, state>>
timers == <<tick, pending, safety>>
calls == <<op, res, left, stray>>
vars == <<lock, state, pc, ctx, renewer, op, res, left, tick, pending, safety, stray>>

Command == {"set", "write", "renew", "release"}
Stage == {"idle", "setting", "writing", "held", "stopping", "releasing",
          "done", "crashed"}
Key == [run : Run \cup {NoRun}, ttl : 0..TTL]
Missing == [run |-> NoRun, ttl |-> 0]

RenewTimeout ==
    IF TTL - RenewInterval < RenewInterval THEN TTL - RenewInterval
                                           ELSE RenewInterval

TypeOK ==
    /\ lock \in Key /\ (lock.run = NoRun <=> lock.ttl = 0)
    /\ state \in Key /\ (state.run = NoRun <=> state.ttl = 0)
    /\ pc \in [Run -> Stage]
    /\ ctx \in [Run -> {"live", "canceled", "lost"}]
    /\ renewer \in [Run -> {"none", "select", "renewing", "stopped"}]
    /\ op \in [Run -> Command \cup {"none"}]
    /\ res \in [Run -> {"waiting", "yes", "no"}]
    /\ left \in [Run -> Nat]
    /\ tick \in [Run -> 0..RenewInterval]
    /\ pending \in [Run -> BOOLEAN]
    /\ safety \in [Run -> 0..(TTL - RenewInterval)]
    /\ stray \subseteq [op : Command, run : Run]

Init ==
    /\ lock = Missing /\ state = Missing
    /\ pc = [r \in Run |-> "idle"]
    /\ ctx = [r \in Run |-> "live"]
    /\ renewer = [r \in Run |-> "none"]
    /\ op = [r \in Run |-> "none"]
    /\ res = [r \in Run |-> "waiting"]
    /\ left = [r \in Run |-> 0]
    /\ tick = [r \in Run |-> 0]
    /\ pending = [r \in Run |-> FALSE]
    /\ safety = [r \in Run |-> 0]
    /\ stray = {}
-----------------------------------------------------------------------------
\* Valkey.  A script that finds another token, or a SET NX that finds a key,
\* answers "no" and changes nothing.

Owns(r) == lock.run = r
Owned(r) == [run |-> r, ttl |-> TTL]

\* SET without NX.
SetAlways(r) ==
    /\ lock' = Owned(r)
    /\ UNCHANGED state

SetNX(r) ==
    /\ lock = Missing
    /\ lock' = Owned(r)
    /\ UNCHANGED state

\* WriteState without the comparison of tokens.
BlindWriteState(r) ==
    /\ state' = Owned(r)
    /\ UNCHANGED lock

WriteStateScript(r) ==
    /\ Owns(r)
    /\ state' = Owned(r)
    /\ UNCHANGED lock

RenewScript(r) ==
    /\ Owns(r)
    /\ lock' = Owned(r)
    /\ state' = Owned(r)

\* Release without the comparison of tokens: an unconditional DEL.
BlindRelease(r) ==
    /\ lock # Missing
    /\ lock' = Missing
    /\ state' = IF state.run = r THEN Missing ELSE state

ReleaseScript(r) ==
    /\ Owns(r)
    /\ lock' = Missing
    /\ state' = IF state.run = r THEN Missing ELSE state

Applies(o, r) == IF o = "set" THEN lock = Missing ELSE Owns(r)

Execute(o, r) ==
    \/ o = "set" /\ SetNX(r)
    \/ o = "write" /\ WriteStateScript(r)
    \/ o = "renew" /\ RenewScript(r)
    \/ o = "release" /\ ReleaseScript(r)

Refused(o, r) == ~Applies(o, r) /\ UNCHANGED store

\* Valkey executes the command a run is waiting for.
Serve(r) ==
    /\ op[r] # "none" /\ res[r] = "waiting"
    /\ \/ Execute(op[r], r) /\ res' = [res EXCEPT ![r] = "yes"]
       \/ Refused(op[r], r) /\ res' = [res EXCEPT ![r] = "no"]
    /\ UNCHANGED <<pc, ctx, renewer, op, left, timers, stray>>

\* Valkey executes a command whose sender no longer listens.
ServeStray ==
    \E m \in stray :
        /\ Execute(m.op, m.run) \/ Refused(m.op, m.run)
        /\ stray' = stray \ {m}
        /\ UNCHANGED <<pc, ctx, renewer, op, res, left, timers>>

\* The connection breaks: the library sends the command again, and the first
\* copy, if Valkey has not executed it, may still reach it.
LeftBehind(r) ==
    IF op[r] # "none" /\ res[r] = "waiting"
    THEN stray \cup {[op |-> op[r], run |-> r]} ELSE stray

Resend(r) ==
    /\ op[r] # "none"
    /\ Cardinality(LeftBehind(r)) <= MaxStray
    /\ stray' = LeftBehind(r)
    /\ res' = [res EXCEPT ![r] = "waiting"]
    /\ UNCHANGED <<store, pc, ctx, renewer, op, left, timers>>
-----------------------------------------------------------------------------
\* The caller's side of one command.

Send(r, o) ==
    /\ op' = [op EXCEPT ![r] = o]
    /\ res' = [res EXCEPT ![r] = "waiting"]

\* The call returns, with an error when the reply has not come.
Return(r) ==
    /\ Send(r, "none")
    /\ left' = [left EXCEPT ![r] = 0]
    /\ stray' = LeftBehind(r)

Go(r, stage) == pc' = [pc EXCEPT ![r] = stage]

\* Manager.Acquire.
Acquire(r) ==
    /\ pc[r] = "idle"
    /\ Go(r, "setting")
    /\ Send(r, "set")
    /\ left' = [left EXCEPT ![r] = AcquireTimeout]
    /\ UNCHANGED <<store, ctx, renewer, timers, stray>>

\* ErrAlreadyHeld when Valkey refused, ErrUnavailable when it did not answer.
AcquireFails(r) ==
    /\ pc[r] = "setting"
    /\ res[r] # "yes"
    /\ Go(r, "done")
    /\ Return(r)
    /\ UNCHANGED <<store, ctx, renewer, timers>>

AcquireConfirmed(r) ==
    /\ pc[r] = "setting" /\ res[r] = "yes"
    /\ Go(r, "writing")
    /\ Send(r, "write")
    /\ UNCHANGED <<store, ctx, renewer, left, timers, stray>>

\* Whatever became of WriteState, the lease starts and so does its renewal.
StartLease(r) ==
    /\ pc[r] = "writing"
    /\ Go(r, "held")
    /\ Return(r)
    /\ renewer' = [renewer EXCEPT ![r] = "select"]
    /\ tick' = [tick EXCEPT ![r] = RenewInterval]
    /\ safety' = [safety EXCEPT ![r] = TTL - RenewInterval]
    /\ UNCHANGED <<store, ctx, pending>>

\* The context Acquire was given is canceled: shutdown, or the request ended.
CancelParent(r) ==
    /\ pc[r] = "held" /\ ctx[r] = "live"
    /\ ctx' = [ctx EXCEPT ![r] = "canceled"]
    /\ UNCHANGED <<store, pc, renewer, calls, timers>>
-----------------------------------------------------------------------------
\* Lease.renew.  When several channels are ready, select takes any of them.

StopRenewer(r) ==
    /\ renewer' = [renewer EXCEPT ![r] = "stopped"]
    /\ tick' = [tick EXCEPT ![r] = 0]
    /\ pending' = [pending EXCEPT ![r] = FALSE]
    /\ safety' = [safety EXCEPT ![r] = 0]

Lose(r) == ctx' = [ctx EXCEPT ![r] = IF @ = "live" THEN "lost" ELSE @]

\* stopRenewal is closed, or the lease's context is done.
RenewerStops(r) ==
    /\ renewer[r] = "select"
    /\ pc[r] = "stopping" \/ ctx[r] # "live"
    /\ StopRenewer(r)
    /\ UNCHANGED <<store, pc, ctx, calls>>

SafetyExpires(r) ==
    /\ renewer[r] = "select" /\ safety[r] = 0
    /\ Lose(r)
    /\ StopRenewer(r)
    /\ UNCHANGED <<store, pc, calls>>

\* With a done context the client fails the call at once: RenewerStops again.
RenewStarts(r) ==
    /\ renewer[r] = "select" /\ pending[r] /\ ctx[r] = "live"
    /\ renewer' = [renewer EXCEPT ![r] = "renewing"]
    /\ pending' = [pending EXCEPT ![r] = FALSE]
    /\ Send(r, "renew")
    /\ left' = [left EXCEPT ![r] = RenewTimeout]
    /\ UNCHANGED <<store, pc, ctx, tick, safety, stray>>

Renewed(r) ==
    /\ renewer[r] = "renewing" /\ res[r] = "yes"
    /\ renewer' = [renewer EXCEPT ![r] = "select"]
    /\ safety' = [safety EXCEPT ![r] = TTL - RenewInterval]
    /\ Return(r)
    /\ UNCHANGED <<store, pc, ctx, tick, pending>>

RenewRefused(r) ==
    /\ renewer[r] = "renewing" /\ res[r] = "no"
    /\ Lose(r)
    /\ StopRenewer(r)
    /\ Return(r)
    /\ UNCHANGED <<store, pc>>

\* A goroutine that waits for the answer even after its context is done.
RenewFailsLiveOnly(r) ==
    /\ renewer[r] = "renewing" /\ ctx[r] = "live"
    /\ Return(r)
    /\ renewer' = [renewer EXCEPT ![r] = "select"]
    /\ UNCHANGED <<store, pc, ctx, timers>>

\* A failed attempt that restarts the safety timer as a confirmed one does.
RenewFailsForgiven(r) ==
    /\ renewer[r] = "renewing"
    /\ Return(r)
    /\ IF ctx[r] = "live"
       THEN /\ renewer' = [renewer EXCEPT ![r] = "select"]
            /\ safety' = [safety EXCEPT ![r] = TTL - RenewInterval]
            /\ UNCHANGED <<tick, pending>>
       ELSE StopRenewer(r)
    /\ UNCHANGED <<store, pc, ctx>>

\* No answer: the goroutine ends if the context is done, else it tries again.
RenewFails(r) ==
    /\ renewer[r] = "renewing"
    /\ Return(r)
    /\ IF ctx[r] = "live"
       THEN renewer' = [renewer EXCEPT ![r] = "select"] /\ UNCHANGED timers
       ELSE StopRenewer(r)
    /\ UNCHANGED <<store, pc, ctx>>
-----------------------------------------------------------------------------
\* Lease.Release: cancel, close stopRenewal, wait for renewalDone, then the
\* script.

Release(r) ==
    /\ pc[r] = "held"
    /\ Go(r, "stopping")
    /\ ctx' = [ctx EXCEPT ![r] = IF @ = "live" THEN "canceled" ELSE @]
    /\ UNCHANGED <<store, renewer, calls, timers>>

SendRelease(r) ==
    /\ pc[r] = "stopping" /\ renewer[r] = "stopped"
    /\ Go(r, "releasing")
    /\ Send(r, "release")
    /\ left' = [left EXCEPT ![r] = ReleaseTimeout]
    /\ UNCHANGED <<store, ctx, renewer, timers, stray>>

\* nil, ErrLost or ErrUnavailable: the run is over either way.
Released(r) ==
    /\ pc[r] = "releasing"
    /\ Go(r, "done")
    /\ Return(r)
    /\ UNCHANGED <<store, ctx, renewer, timers>>

\* The process dies; what it sent may still arrive.
Crash(r) ==
    /\ pc[r] \notin {"idle", "done", "crashed"}
    /\ Go(r, "crashed")
    /\ ctx' = [ctx EXCEPT ![r] = IF @ = "live" THEN "canceled" ELSE @]
    /\ Return(r)
    /\ StopRenewer(r)
    /\ UNCHANGED store
-----------------------------------------------------------------------------
\* Time.  Keys expire by themselves, and no call outlasts its deadline.

ElapseKey(k) ==
    IF k.ttl <= 1 THEN Missing ELSE [k EXCEPT !.ttl = @ - 1]

ElapseLock == lock' = ElapseKey(lock)

Minus(n) == IF n = 0 THEN 0 ELSE n - 1

Ticking(r) == renewer[r] \in {"select", "renewing"}

Tick ==
    /\ \A r \in Run : op[r] # "none" => left[r] > 0
    /\ ElapseLock
    /\ state' = ElapseKey(state)
    /\ left' = [r \in Run |-> Minus(left[r])]
    /\ safety' = [r \in Run |-> Minus(safety[r])]
    /\ tick' = [r \in Run |->
                    IF ~Ticking(r) THEN 0
                    ELSE IF tick[r] = 1 THEN RenewInterval ELSE tick[r] - 1]
    /\ pending' = [r \in Run |-> pending[r] \/ (Ticking(r) /\ tick[r] = 1)]
    /\ UNCHANGED <<pc, ctx, renewer, op, res, stray>>
-----------------------------------------------------------------------------
Caller(r) ==
    \/ Acquire(r) \/ AcquireFails(r) \/ AcquireConfirmed(r) \/ StartLease(r)
    \/ Release(r) \/ SendRelease(r) \/ Released(r)

Renewer(r) ==
    \/ RenewerStops(r) \/ SafetyExpires(r) \/ RenewStarts(r)
    \/ Renewed(r) \/ RenewRefused(r) \/ RenewFails(r)

Step(r) ==
    Caller(r) \/ Renewer(r) \/ Serve(r) \/ Resend(r) \/ CancelParent(r) \/ Crash(r)

Next == (\E r \in Run : Step(r)) \/ ServeStray \/ Tick

Spec == Init /\ [][Next]_vars
-----------------------------------------------------------------------------
\* Fairness.  Time passes; goroutines are scheduled; calls return (go-redis
\* and the callers' deadlines bound them); select picks among ready channels
\* at random, so a safety timer that is ready again and again is picked.
\* Nothing makes Valkey answer, a run begin, or a run release in time.
Fairness ==
    /\ WF_vars(Tick)
    /\ \A r \in Run :
        /\ WF_vars(AcquireFails(r) \/ AcquireConfirmed(r) \/ StartLease(r))
        /\ WF_vars(SendRelease(r)) /\ WF_vars(Released(r))
        /\ WF_vars(Renewer(r)) /\ SF_vars(SafetyExpires(r))

FairSpec == Spec /\ Fairness

\* The most punctual process possible: no time passes while the renewal
\* goroutine has something to do.
Ready(r) ==
    /\ renewer[r] = "select"
    /\ safety[r] = 0 \/ pending[r] \/ ctx[r] # "live" \/ pc[r] = "stopping"

PromptTick == (\A r \in Run : ~Ready(r)) /\ Tick

PromptNext == (\E r \in Run : Step(r)) \/ ServeStray \/ PromptTick

PromptSpec == Init /\ [][PromptNext]_vars
-----------------------------------------------------------------------------
Live(r) == pc[r] = "held" /\ ctx[r] = "live"

\* While its safety timer has not fired, a lease whose context is live really
\* owns the key in Valkey, and the key outlasts the timer: the margin that
\* Acquire and renew leave covers the time the answers took to come back.
SafeLeaseOwnsLock ==
    \A r \in Run : Live(r) /\ safety[r] > 0 => Owns(r) /\ lock.ttl >= safety[r]

\* A run's entry in scraper:run:state goes away only when it expires, when the
\* run itself releases, or when the run that holds the lock now writes its
\* own: a command of an old run, however late, never takes it.
StateFenced ==
    [][\A r \in Run : state.run = r /\ state'.run # r =>
            \/ state.ttl = 1
            \/ Owns(r)
            \/ state'.run # NoRun /\ state'.run = lock.run]_vars

\* The keys in Valkey implement the abstract lease: no command of a run that
\* lost the lock, gave up or crashed takes, extends or frees another's lock.
Service == INSTANCE ExclusiveLease
             WITH owner <- lock.run, fuel <- lock.ttl,
                  ended <- {r \in Run : pc[r] \in {"releasing", "done", "crashed"}}

ServiceSpec == Service!Spec

\* Release never waits forever for the renewal goroutine, in whatever state
\* the call found it, even if Valkey never answers again.
ReleaseCompletes ==
    \A r \in Run : (pc[r] = "stopping") ~> (pc[r] \in {"done", "crashed"})

\* A run that lost its lock does not go on for ever believing it has it.
LostLeaseCanceled ==
    \A r \in Run : (Live(r) /\ ~Owns(r)) ~> (~Live(r) \/ Owns(r))

\* Two leases are never live at the same time.  The code does not keep this,
\* however punctual the process: while a renewal is in flight nobody watches
\* the safety timer, and a tick that is ready with it may be taken first.
LiveLeasesExclusive ==
    \A r, q \in Run : Live(r) /\ Live(q) => r = q
=============================================================================
