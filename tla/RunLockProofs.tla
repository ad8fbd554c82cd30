---------------------------- MODULE RunLockProofs ----------------------------
(***************************************************************************)
(* For every set of runs and every valid configuration of the timers, the  *)
(* run lock keeps its types, a lease inside its safety margin owns the     *)
(* key, the state hash is fenced, and the keys implement ExclusiveLease.   *)
(***************************************************************************)
EXTENDS RunLock, TLAPS

\* Which command a run can be waiting for, given where its goroutines are.
Control ==
    \A r \in Run :
        /\ pc[r] \in {"idle", "setting", "writing"} => renewer[r] = "none"
        /\ renewer[r] \in {"select", "renewing"} => pc[r] \in {"held", "stopping"}
        /\ op[r] = "set" => pc[r] = "setting"
        /\ op[r] = "write" <=> pc[r] = "writing"
        /\ op[r] = "release" => pc[r] = "releasing"
        /\ op[r] = "renew" <=> renewer[r] = "renewing"
        /\ pc[r] = "setting" => op[r] = "set"
        /\ Ticking(r) => tick[r] # 0

\* A release left behind belongs to a run that is past releasing.
StraysEnded ==
    \A m \in stray :
        m.op = "release" => pc[m.run] \in {"releasing", "done", "crashed"}

\* An answer that is still in time was given less than one deadline ago, so
\* the key it vouches for has at least the rest of a TTL to live.
Vouched(r, timeout) == Owns(r) /\ lock.ttl + timeout >= TTL + left[r]

Confirmed ==
    \A r \in Run :
        /\ op[r] \in {"set", "write"} => left[r] <= AcquireTimeout
        /\ op[r] = "renew" => left[r] <= RenewTimeout
        /\ op[r] = "set" /\ res[r] = "yes" => Vouched(r, AcquireTimeout)
        /\ op[r] = "write" => Vouched(r, AcquireTimeout)
        /\ op[r] = "renew" /\ res[r] = "yes" => Vouched(r, RenewTimeout)

IInv == TypeOK /\ Control /\ StraysEnded /\ Confirmed /\ SafeLeaseOwnsLock

USE ConfigAssumption, CallAssumption, RunAssumption
-----------------------------------------------------------------------------
\* The deadline of one renewal is at least one unit and within the margin
\* that the safety timer leaves.
LEMMA RenewTimeoutBounds ==
    RenewTimeout \in 1..RenewInterval /\ RenewTimeout <= TTL - RenewInterval
BY DEF RenewTimeout

\* The initial states are in the inductive invariant: no run has started.
LEMMA InitInvariant == Init => IInv
BY DEF Init, IInv, TypeOK, Control, StraysEnded, Confirmed, SafeLeaseOwnsLock,
       Live, Missing, Key, Stage, Command, Ticking

\* What one command of any run may do to the two keys.
LEMMA ExecuteEffect ==
    ASSUME TypeOK, NEW o \in Command, NEW r \in Run,
           Execute(o, r) \/ Refused(o, r)
    PROVE  /\ lock' \in Key /\ (lock'.run = NoRun <=> lock'.ttl = 0)
           /\ state' \in Key /\ (state'.run = NoRun <=> state'.ttl = 0)
           /\ \/ lock' = lock
              \/ o = "set" /\ lock = Missing /\ lock' = Owned(r)
              \/ o = "renew" /\ Owns(r) /\ lock' = Owned(r)
              \/ o = "release" /\ Owns(r) /\ lock' = Missing
           /\ \/ state' = state
              \/ Owns(r) /\ state' = Owned(r)
              \/ Owns(r) /\ state.run = r /\ state' = Missing
BY DEF TypeOK, Execute, Refused, SetNX, WriteStateScript, RenewScript,
       ReleaseScript, Owns, Owned, Missing, Key, Command, store

\* Valkey answering r can only help r, and cannot touch what another run has
\* been given: r does not own it.
LEMMA ServeInvariant ==
    ASSUME IInv, NEW r \in Run, Serve(r)
    PROVE  IInv'
<1>1. TypeOK /\ Control /\ StraysEnded /\ Confirmed /\ SafeLeaseOwnsLock
  BY DEF IInv
<1>2. /\ op[r] \in Command /\ op' = op /\ res[r] = "waiting"
      /\ UNCHANGED <<pc, ctx, renewer, left, tick, pending, safety, stray>>
  BY <1>1 DEF Serve, TypeOK, timers
<1>3. \/ Execute(op[r], r) /\ res' = [res EXCEPT ![r] = "yes"]
      \/ Refused(op[r], r) /\ res' = [res EXCEPT ![r] = "no"]
  BY DEF Serve
<1>4. /\ lock' \in Key /\ (lock'.run = NoRun <=> lock'.ttl = 0)
      /\ state' \in Key /\ (state'.run = NoRun <=> state'.ttl = 0)
      /\ \/ lock' = lock
         \/ op[r] = "set" /\ lock = Missing /\ lock' = Owned(r)
         \/ op[r] = "renew" /\ Owns(r) /\ lock' = Owned(r)
         \/ op[r] = "release" /\ Owns(r) /\ lock' = Missing
  BY <1>1, <1>2, <1>3, ExecuteEffect
<1>5. TypeOK'
  BY <1>1, <1>2, <1>3, <1>4 DEF TypeOK
<1>6. Control' /\ StraysEnded'
  BY <1>1, <1>2 DEF Control, StraysEnded, Ticking
<1>7. /\ lock \in Key /\ left \in [Run -> Nat] /\ res \in [Run -> {"waiting", "yes", "no"}]
      /\ safety \in [Run -> 0..(TTL - RenewInterval)]
  BY <1>1 DEF TypeOK
<1>8. ASSUME NEW q \in Run, q # r, Owns(q), lock.ttl > 0
      PROVE  lock' = lock
  BY <1>4, <1>8 DEF Owns, Missing
<1>9. ASSUME Owns(r), lock.ttl > 0, op[r] # "release"
      PROVE  Owns(r)' /\ lock'.ttl >= lock.ttl
  BY <1>4, <1>7, <1>9 DEF Owns, Owned, Key, Missing
<1>10. ASSUME op[r] \in {"set", "renew"}, res'[r] = "yes"
       PROVE  Owns(r)' /\ lock'.ttl = TTL
  BY <1>3, <1>7, <1>10 DEF Execute, SetNX, RenewScript, Owned, Owns
<1>11. Confirmed'
  <2> SUFFICES ASSUME NEW q \in Run
      PROVE /\ op[q] \in {"set", "write"} => left[q] <= AcquireTimeout
            /\ op[q] = "renew" => left[q] <= RenewTimeout
            /\ op[q] = "set" /\ res'[q] = "yes" => Vouched(q, AcquireTimeout)'
            /\ op[q] = "write" => Vouched(q, AcquireTimeout)'
            /\ op[q] = "renew" /\ res'[q] = "yes" => Vouched(q, RenewTimeout)'
    BY <1>2 DEF Confirmed
  <2>1. CASE q = r
    BY <2>1, <1>1, <1>2, <1>4, <1>7, <1>9, <1>10, RenewTimeoutBounds
    DEF Confirmed, Vouched, Key
  <2>2. CASE q # r
    BY <2>2, <1>1, <1>2, <1>3, <1>7, <1>8, RenewTimeoutBounds DEF Confirmed, Vouched, Key, Owns
  <2>3. QED
    BY <2>1, <2>2
<1>12. SafeLeaseOwnsLock'
  <2> SUFFICES ASSUME NEW q \in Run, Live(q), safety[q] > 0
      PROVE Owns(q)' /\ lock'.ttl >= safety[q]
    BY <1>2 DEF SafeLeaseOwnsLock, Live
  <2>1. Owns(q) /\ lock.ttl >= safety[q] /\ op[q] # "release"
    BY <1>1 DEF SafeLeaseOwnsLock, Control, Live
  <2>2. CASE q = r
    BY <2>1, <2>2, <1>4, <1>7, <1>9 DEF Key
  <2>3. CASE q # r
    BY SMTT(60), <2>1, <2>3, <1>7, <1>8 DEF Key, Owns
  <2>4. QED
    BY <2>2, <2>3
<1>13. QED
  BY <1>5, <1>6, <1>11, <1>12 DEF IInv

\* Every step of a run, of Valkey and of the clock keeps the invariant.
LEMMA NextInvariant == IInv /\ [Next]_vars => IInv'
<1> SUFFICES ASSUME IInv, [Next]_vars PROVE IInv'
  OBVIOUS
<1> USE RenewTimeoutBounds
<1> USE DEF IInv, TypeOK, Control, StraysEnded, Confirmed, Vouched, SafeLeaseOwnsLock,
            Live, Stage, Command, Ticking, Owns, store, timers, calls, Go, Send, Return,
            LeftBehind, StopRenewer, Lose
<1>1. ASSUME NEW r \in Run, Acquire(r) PROVE IInv'
  BY <1>1 DEF Acquire
<1>2. ASSUME NEW r \in Run, AcquireFails(r) PROVE IInv'
  BY <1>2 DEF AcquireFails
<1>3. ASSUME NEW r \in Run, AcquireConfirmed(r) PROVE IInv'
  BY <1>3 DEF AcquireConfirmed
<1>4. ASSUME NEW r \in Run, StartLease(r) PROVE IInv'
  BY <1>4 DEF StartLease, Key
<1>5. ASSUME NEW r \in Run, Release(r) PROVE IInv'
  BY <1>5 DEF Release
<1>6. ASSUME NEW r \in Run, SendRelease(r) PROVE IInv'
  BY <1>6 DEF SendRelease
<1>7. ASSUME NEW r \in Run, Released(r) PROVE IInv'
  BY <1>7 DEF Released
<1>8. ASSUME NEW r \in Run, RenewerStops(r) PROVE IInv'
  BY <1>8 DEF RenewerStops
<1>9. ASSUME NEW r \in Run, SafetyExpires(r) PROVE IInv'
  BY <1>9 DEF SafetyExpires
<1>10. ASSUME NEW r \in Run, RenewStarts(r) PROVE IInv'
  BY <1>10 DEF RenewStarts
<1>11. ASSUME NEW r \in Run, Renewed(r) PROVE IInv'
  BY <1>11 DEF Renewed, Key
<1>12. ASSUME NEW r \in Run, RenewRefused(r) PROVE IInv'
  BY <1>12 DEF RenewRefused
<1>13. ASSUME NEW r \in Run, RenewFails(r) PROVE IInv'
  <2>1. CASE ctx[r] = "live"
    BY <1>13, <2>1 DEF RenewFails
  <2>2. CASE ctx[r] # "live"
    <3>1. /\ StopRenewer(r) /\ Return(r) /\ UNCHANGED <<store, pc, ctx>>
          /\ renewer[r] = "renewing"
      BY <1>13, <2>2 DEF RenewFails
    <3>2. QED
      BY <3>1, <2>2
  <2>3. QED
    BY <2>1, <2>2
<1>14. ASSUME NEW r \in Run, Resend(r) PROVE IInv'
  BY <1>14 DEF Resend
<1>15. ASSUME NEW r \in Run, CancelParent(r) PROVE IInv'
  BY <1>15 DEF CancelParent
<1>16. ASSUME NEW r \in Run, Crash(r) PROVE IInv'
  BY <1>16 DEF Crash
<1>17. ASSUME NEW r \in Run, Serve(r) PROVE IInv'
  BY <1>17, ServeInvariant
<1>18. CASE ServeStray
  BY <1>18, ExecuteEffect DEF ServeStray, Owned, Missing, Key
<1>19. CASE Tick
  BY <1>19 DEF Tick, ElapseLock, ElapseKey, Missing, Minus, Key
<1>20. CASE UNCHANGED vars
  BY <1>20 DEF vars
<1>21. QED
  BY <1>1, <1>2, <1>3, <1>4, <1>5, <1>6, <1>7, <1>8, <1>9, <1>10, <1>11, <1>12,
     <1>13, <1>14, <1>15, <1>16, <1>17, <1>18, <1>19, <1>20
  DEF Next, Step, Caller, Renewer
-----------------------------------------------------------------------------
\* The invariant holds in every reachable state.
LEMMA Invariance == Spec => []IInv
<1>1. Init => IInv
  BY InitInvariant
<1>2. IInv /\ [Next]_vars => IInv'
  BY NextInvariant
<1>3. QED
  BY <1>1, <1>2, PTL DEF Spec

\* Every variable of the lock keeps its type.
THEOREM TypeCorrect == Spec => []TypeOK
<1>1. IInv => TypeOK
  BY DEF IInv
<1>2. QED
  BY <1>1, Invariance, PTL

\* A lease inside its safety margin owns the key, whatever is lost, repeated
\* or delayed on the way to Valkey and whoever else runs.
THEOREM LeaseSafety == Spec => []SafeLeaseOwnsLock
<1>1. IInv => SafeLeaseOwnsLock
  BY DEF IInv
<1>2. QED
  BY <1>1, Invariance, PTL

\* The state hash in one step: only an owner, the holder of the lock or the
\* clock takes an entry out of it.
LEMMA StateStep == IInv /\ [Next]_vars =>
    [\A r \in Run : state.run = r /\ state'.run # r =>
            \/ state.ttl = 1
            \/ Owns(r)
            \/ state'.run # NoRun /\ state'.run = lock.run]_vars
<1> SUFFICES ASSUME IInv, Next, NEW r \in Run, state.run = r, state'.run # r
             PROVE  \/ state.ttl = 1
                    \/ Owns(r)
                    \/ state'.run # NoRun /\ state'.run = lock.run
  OBVIOUS
<1>1. TypeOK
  BY DEF IInv
<1>2. ASSUME NEW q \in Run, NEW o \in Command, Execute(o, q) \/ Refused(o, q)
      PROVE  Owns(r) \/ (state'.run # NoRun /\ state'.run = lock.run)
  BY <1>1, <1>2, ExecuteEffect DEF Owns, Owned, Missing
<1>3. ASSUME NEW q \in Run, Serve(q)
      PROVE  Owns(r) \/ (state'.run # NoRun /\ state'.run = lock.run)
  BY <1>1, <1>2, <1>3 DEF Serve, TypeOK
<1>4. CASE ServeStray
  BY <1>1, <1>2, <1>4 DEF ServeStray, TypeOK
<1>5. CASE Tick
  BY <1>1, <1>5 DEF Tick, ElapseKey, TypeOK, Key
<1>6. ASSUME NEW q \in Run,
             Caller(q) \/ Renewer(q) \/ Resend(q) \/ CancelParent(q) \/ Crash(q)
      PROVE  FALSE
  BY <1>6 DEF Caller, Renewer, Acquire, AcquireFails, AcquireConfirmed, StartLease,
     Release, SendRelease, Released, RenewerStops, SafetyExpires, RenewStarts, Renewed,
     RenewRefused, RenewFails, Resend, CancelParent, Crash, store
<1>7. QED
  BY <1>3, <1>4, <1>5, <1>6 DEF Next, Step

\* No command of an old run, however late, takes the entry of another run
\* out of the state hash: only the clock, its own run or the lock's owner do.
THEOREM StateIsFenced == Spec => StateFenced
<1>1. IInv /\ [Next]_vars =>
        [\A r \in Run : state.run = r /\ state'.run # r =>
            \/ state.ttl = 1
            \/ Owns(r)
            \/ state'.run # NoRun /\ state'.run = lock.run]_vars
  BY StateStep
<1>2. QED
  BY <1>1, Invariance, PTL DEF Spec, StateFenced
-----------------------------------------------------------------------------
Over == {r \in Run : pc[r] \in {"releasing", "done", "crashed"}}

\* No lock in Valkey is no owner in the abstract lease.
LEMMA ServiceInit == Init => Service!Init
BY DEF Init, Service!Init, Missing

\* A command maps to a claim, an extension or a release of the abstract lease.
LEMMA CommandRefines ==
    ASSUME IInv, NEW r \in Run, NEW o \in Command, Execute(o, r) \/ Refused(o, r),
           pc' = pc, o = "release" => r \in Over
    PROVE  [Service!Next]_<<lock.run, lock.ttl, Over>>
<1>1. TypeOK /\ Over' = Over
  BY DEF IInv, Over
<1>2. \/ lock' = lock
      \/ lock = Missing /\ lock' = Owned(r)
      \/ Owns(r) /\ lock' = Owned(r)
      \/ o = "release" /\ Owns(r) /\ lock' = Missing
  BY <1>1, ExecuteEffect
<1>3. CASE lock = Missing /\ lock' = Owned(r)
  <2>1. Service!Claim(r)
    BY <1>1, <1>3 DEF Service!Claim, Missing, Owned, Over
  <2>2. QED
    BY <2>1 DEF Service!Next
<1>4. CASE Owns(r) /\ lock' = Owned(r)
  <2>1. Service!Extend(r)
    BY <1>1, <1>4 DEF Service!Extend, Owns, Owned, Over
  <2>2. QED
    BY <2>1 DEF Service!Next
<1>5. CASE o = "release" /\ Owns(r) /\ lock' = Missing
  <2>1. Service!Yield(r)
    BY <1>1, <1>5 DEF Service!Yield, Owns, Missing, Over
  <2>2. QED
    BY <2>1 DEF Service!Next
<1>6. QED
  BY <1>1, <1>2, <1>3, <1>4, <1>5

\* Every step is a step of the abstract lease on the mapped variables, or
\* leaves them as they are.
LEMMA ServiceStep == IInv /\ [Next]_vars => [Service!Next]_(Service!vars)
<1> SUFFICES ASSUME IInv, [Next]_vars
             PROVE  [Service!Next]_<<lock.run, lock.ttl, Over>>
  BY DEF Service!vars, Over
<1>1. TypeOK /\ Control /\ StraysEnded
  BY DEF IInv
<1>2. ASSUME NEW r \in Run, Serve(r)
      PROVE  [Service!Next]_<<lock.run, lock.ttl, Over>>
  <2>1. /\ op[r] \in Command /\ pc' = pc
        /\ Execute(op[r], r) \/ Refused(op[r], r)
    BY <1>1, <1>2 DEF Serve, TypeOK
  <2>2. op[r] = "release" => r \in Over
    BY <1>1 DEF Control, Over
  <2>3. QED
    BY <2>1, <2>2, CommandRefines
<1>3. CASE ServeStray
  <2>1. PICK m \in stray : (Execute(m.op, m.run) \/ Refused(m.op, m.run)) /\ pc' = pc
    BY <1>3 DEF ServeStray
  <2>2. m.op \in Command /\ m.run \in Run /\ (m.op = "release" => m.run \in Over)
    BY <1>1, <2>1 DEF TypeOK, StraysEnded, Over
  <2>3. QED
    BY <2>1, <2>2, CommandRefines
<1>4. CASE Tick
  <2>1. lock \in Key /\ lock' = ElapseKey(lock) /\ Over' = Over
        /\ (lock.run = NoRun <=> lock.ttl = 0)
    BY <1>1, <1>4 DEF TypeOK, Tick, ElapseLock, Over
  <2>2. CASE lock.ttl = 0
    BY <2>1, <2>2 DEF ElapseKey, Missing, Key
  <2>3. CASE lock.ttl # 0
    <3>1. Service!Elapse
      BY <2>1, <2>3 DEF Service!Elapse, ElapseKey, Missing, Key, Over
    <3>2. QED
      BY <3>1 DEF Service!Next
  <2>4. QED
    BY <2>2, <2>3
<1>5. ASSUME NEW r \in Run,
             Caller(r) \/ Renewer(r) \/ Resend(r) \/ CancelParent(r) \/ Crash(r)
      PROVE  lock' = lock /\ (Over' = Over \/ Over' = Over \cup {r})
  BY <1>1, <1>5 DEF Caller, Renewer, Acquire, AcquireFails, AcquireConfirmed, StartLease,
     Release, SendRelease, Released, RenewerStops, SafetyExpires, RenewStarts, Renewed,
     RenewRefused, RenewFails, Resend, CancelParent, Crash, store, Over, Go, TypeOK
<1>6. ASSUME NEW r \in Run,
             Caller(r) \/ Renewer(r) \/ Resend(r) \/ CancelParent(r) \/ Crash(r)
      PROVE  [Service!Next]_<<lock.run, lock.ttl, Over>>
  <2>1. CASE lock' = lock /\ Over' = Over \cup {r}
    <3>1. Service!End(r)
      BY <2>1 DEF Service!End, Over
    <3>2. QED
      BY <3>1 DEF Service!Next
  <2>2. QED
    BY <1>5, <1>6, <2>1
<1>7. CASE UNCHANGED vars
  BY <1>7 DEF vars, Over
<1>8. QED
  BY <1>2, <1>3, <1>4, <1>6, <1>7 DEF Next, Step

\* The two keys, their scripts and the lease goroutines implement the abstract
\* exclusive lease: at most one owner, no direct handover, no theft.
THEOREM Refinement == Spec => ServiceSpec
<1>1. Init => Service!Init
  BY ServiceInit
<1>2. IInv /\ [Next]_vars => [Service!Next]_(Service!vars)
  BY ServiceStep
<1>3. QED
  BY <1>1, <1>2, Invariance, PTL DEF Spec, ServiceSpec, Service!Spec
=============================================================================
