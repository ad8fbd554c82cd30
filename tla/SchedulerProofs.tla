--------------------------- MODULE SchedulerProofs ---------------------------
(***************************************************************************)
(* What Scheduler keeps for any finite number of triggers: its types, the  *)
(* running flag, the count of the WaitGroup and what Shutdown waits for.   *)
(***************************************************************************)
EXTENDS Scheduler, FiniteSetTheorems, TLAPS

CountedRuns == {t \in Trigger : pc[t] \in Counted}

\* What Shutdown awaits is among what the WaitGroup counts.
AwaitedIsCounted == awaited \subseteq CountedRuns

IInv ==
    /\ TypeOK
    /\ RunningMeansRun
    /\ ActiveCountsRuns
    /\ AwaitedIsCounted
    /\ ShutdownOutlivesCounted

-----------------------------------------------------------------------------
\* The triggers are finitely many, so the counted ones have a cardinality.
LEMMA CountedFinite == IsFiniteSet(CountedRuns) /\ Cardinality(CountedRuns) \in Nat
<1>1. IsFiniteSet(Trigger)
  BY TriggerAssumption, FS_AddElement DEF Trigger
<1>2. CountedRuns \subseteq Trigger
  BY DEF CountedRuns
<1>3. IsFiniteSet(CountedRuns)
  BY <1>1, <1>2, FS_Subset
<1> QED
  BY <1>3, FS_CardinalityType

\* A step that moves one trigger within Counted, or outside it, leaves the
\* count alone.
LEMMA MoveKeepsCount ==
    ASSUME TypeOK, NEW t \in Trigger, NEW stage, Go(t, stage),
           pc[t] \in Counted <=> stage \in Counted
    PROVE  CountedRuns' = CountedRuns
BY DEF CountedRuns, Go, TypeOK

\* The invariant holds when the process starts.
LEMMA InitInvariant == Init => IInv
<1> SUFFICES ASSUME Init PROVE IInv
  OBVIOUS
<1>1. {t \in Trigger : pc[t] \in Counted} = {}
  BY DEF Init, Counted, InRun
<1>2. Cardinality({t \in Trigger : pc[t] \in Counted}) = 0
  BY <1>1, FS_EmptySet
<1> QED
  BY <1>1, <1>2
     DEF Init, IInv, TypeOK, RunningMeansRun, ActiveCountsRuns,
         AwaitedIsCounted, ShutdownOutlivesCounted

\* Every step keeps the types.  Done never takes the counter below zero: the
\* run that ends is one of those it counts.
LEMMA TypeStep == IInv /\ [Next]_vars => TypeOK'
<1> SUFFICES ASSUME IInv, [Next]_vars PROVE TypeOK'
  OBVIOUS
<1> USE DEF TypeOK, IInv, Go, InRun, Counted
<1>1. ASSUME NEW t \in Trigger, Done(t) PROVE TypeOK'
  <2>1. t \in CountedRuns
    BY <1>1 DEF Done, CountedRuns
  <2>2. Cardinality(CountedRuns) # 0
    BY <2>1, CountedFinite, FS_EmptySet
  <2>3. active - 1 \in Nat
    BY <2>2, CountedFinite DEF ActiveCountsRuns, CountedRuns
  <2> QED
    BY <1>1, <2>3 DEF Done
<1>2. ASSUME NEW t \in Trigger, CheckStopped(t) \/ Answered(t) PROVE TypeOK'
  BY <1>2 DEF CheckStopped, Answered, Ask, Granted, Held, Unavailable
<1>3. ASSUME NEW t \in Trigger,
             Count(t) \/ Begin(t) \/ BodyEnds(t) \/ Release(t) \/ ClearRunning(t)
      PROVE TypeOK'
  <2>1. CASE Count(t)
    BY <2>1 DEF Count
  <2>2. CASE Begin(t) \/ BodyEnds(t)
    BY <2>2 DEF Begin, BodyEnds
  <2>3. CASE Release(t)
    BY <2>3 DEF Release
  <2>4. CASE ClearRunning(t)
    BY <2>4 DEF ClearRunning
  <2> QED
    BY <1>3, <2>1, <2>2, <2>3, <2>4
<1>4. CASE CronExits \/ OutsideMoves \/ Expire
  BY <1>4 DEF CronExits, OutsideMoves, Expire, Trigger
<1>5. CASE BgCancel \/ Stop \/ WaitEnds \/ ShutdownTimesOut
  BY <1>5 DEF BgCancel, Stop, WaitEnds, ShutdownTimesOut
<1>6. CASE UNCHANGED vars
  BY <1>6 DEF vars
<1> QED
  BY <1>1, <1>2, <1>3, <1>4, <1>5, <1>6 DEF Next, Ends

\* The flag is set by a run that has entered and cleared by any run that
\* leaves: it is never set without a run that will still clear it.
LEMMA RunningStep == IInv /\ [Next]_vars => RunningMeansRun'
<1> SUFFICES ASSUME IInv, [Next]_vars PROVE RunningMeansRun'
  OBVIOUS
<1> USE DEF TypeOK, IInv, RunningMeansRun, Go
<1>1. ASSUME NEW t \in Trigger, CheckStopped(t) \/ Answered(t)
      PROVE RunningMeansRun'
  BY <1>1 DEF CheckStopped, Answered, Ask, Granted, Held, Unavailable
<1>2. ASSUME NEW t \in Trigger, Ends(t) PROVE RunningMeansRun'
  <2>1. CASE Count(t) \/ BodyEnds(t) \/ Release(t) \/ Done(t)
    BY <2>1 DEF Count, BodyEnds, Release, Done
  <2>2. CASE Begin(t)
    BY <2>2 DEF Begin
  <2>3. CASE ClearRunning(t)
    BY <2>3 DEF ClearRunning
  <2> QED
    BY <1>2, <2>1, <2>2, <2>3 DEF Ends
<1>3. CASE CronExits
  BY <1>3 DEF CronExits, Trigger
<1>4. CASE OutsideMoves \/ Expire \/ BgCancel \/ Stop \/ WaitEnds \/ ShutdownTimesOut
  BY <1>4 DEF OutsideMoves, Expire, BgCancel, Stop, WaitEnds, ShutdownTimesOut
<1>5. CASE UNCHANGED vars
  BY <1>5 DEF vars
<1> QED
  BY <1>1, <1>2, <1>3, <1>4, <1>5 DEF Next

\* The counter follows the runs that are counted, what Shutdown awaits stays
\* among them, and Shutdown returns only when there are none.
LEMMA CountStep ==
    IInv /\ [Next]_vars =>
        ActiveCountsRuns' /\ AwaitedIsCounted' /\ ShutdownOutlivesCounted'
<1> DEFINE Goal == ActiveCountsRuns' /\ AwaitedIsCounted' /\ ShutdownOutlivesCounted'
<1> SUFFICES ASSUME IInv, [Next]_vars PROVE Goal
  OBVIOUS
<1>t. TypeOK /\ awaited \subseteq CountedRuns
  BY DEF IInv, AwaitedIsCounted
<1>a. active = Cardinality(CountedRuns)
  BY DEF IInv, ActiveCountsRuns, CountedRuns
<1>s. shut = "returned" => awaited = {}
  BY DEF IInv, ShutdownOutlivesCounted
<1>k. ASSUME CountedRuns' = CountedRuns, UNCHANGED <<active, awaited, shut>>
      PROVE Goal
  BY <1>k, <1>t, <1>a, <1>s
     DEF ActiveCountsRuns, AwaitedIsCounted, ShutdownOutlivesCounted, CountedRuns
<1>1. ASSUME NEW t \in Trigger, CheckStopped(t) \/ Answered(t) PROVE Goal
  <2>1. \E stage \in {"idle", "checked", "asking", "granted"} :
            Go(t, stage) /\ pc[t] \notin Counted
    BY <1>1 DEF CheckStopped, Answered, Ask, Granted, Held, Unavailable, Counted, InRun
  <2>2. CountedRuns' = CountedRuns
    BY <2>1, <1>t, MoveKeepsCount DEF Counted, InRun
  <2> QED
    BY <1>1, <2>2, <1>k DEF CheckStopped, Answered, Ask, Granted, Held, Unavailable
<1>2. ASSUME NEW t \in Trigger, Count(t) PROVE Goal
  <2>1. t \notin CountedRuns
    BY <1>2 DEF Count, CountedRuns, Counted, InRun
  <2>2. CountedRuns' = CountedRuns \cup {t}
    BY <1>2, <1>t DEF Count, Go, CountedRuns, TypeOK, Counted, InRun
  <2>3. Cardinality(CountedRuns') = active + 1
    BY <2>1, <2>2, <1>a, CountedFinite, FS_AddElement
  <2> QED
    BY <1>2, <2>2, <2>3, <1>t, <1>s
       DEF Count, ActiveCountsRuns, AwaitedIsCounted, ShutdownOutlivesCounted, CountedRuns
<1>3. ASSUME NEW t \in Trigger,
             Begin(t) \/ BodyEnds(t) \/ Release(t) \/ ClearRunning(t)
      PROVE Goal
  <2>1. \E stage \in Counted : Go(t, stage) /\ pc[t] \in Counted
    BY <1>3 DEF Begin, BodyEnds, Release, ClearRunning, Counted, InRun
  <2>2. CountedRuns' = CountedRuns
    BY <2>1, <1>t, MoveKeepsCount
  <2> QED
    BY <1>3, <2>2, <1>k DEF Begin, BodyEnds, Release, ClearRunning
<1>4. ASSUME NEW t \in Trigger, Done(t) PROVE Goal
  <2>1. t \in CountedRuns
    BY <1>4 DEF Done, CountedRuns, Counted
  <2>2. CountedRuns' = CountedRuns \ {t}
    BY <1>4, <1>t DEF Done, Go, CountedRuns, TypeOK, Counted, InRun
  <2>3. Cardinality(CountedRuns') = active - 1
    BY <2>1, <2>2, <1>a, CountedFinite, FS_RemoveElement
  <2> QED
    BY <1>4, <2>2, <2>3, <1>t, <1>s
       DEF Done, ActiveCountsRuns, AwaitedIsCounted, ShutdownOutlivesCounted, CountedRuns
<1>5. CASE CronExits
  <2>1. Cron \in Trigger
    BY DEF Trigger
  <2>2. CountedRuns' = CountedRuns
    BY <1>5, <2>1, <1>t, MoveKeepsCount DEF CronExits, Counted, InRun
  <2> QED
    BY <1>5, <2>2, <1>k DEF CronExits
<1>6. CASE OutsideMoves \/ Expire
  BY <1>6, <1>k DEF OutsideMoves, Expire, CountedRuns
<1>7. CASE BgCancel \/ Stop \/ ShutdownTimesOut
  BY <1>7, <1>t, <1>a, <1>s
     DEF BgCancel, Stop, ShutdownTimesOut, ActiveCountsRuns, AwaitedIsCounted,
         ShutdownOutlivesCounted, CountedRuns
<1>8. CASE WaitEnds
  <2>1. CountedRuns = {}
    BY <1>8, <1>a, CountedFinite, FS_EmptySet DEF WaitEnds
  <2> QED
    BY <1>8, <2>1, <1>t, <1>a
       DEF WaitEnds, ActiveCountsRuns, AwaitedIsCounted, ShutdownOutlivesCounted,
           CountedRuns
<1>9. CASE UNCHANGED vars
  BY <1>9, <1>k DEF vars, CountedRuns
<1> QED
  BY <1>1, <1>2, <1>3, <1>4, <1>5, <1>6, <1>7, <1>8, <1>9 DEF Next, Ends

\* The invariant is inductive.
LEMMA Invariance == Spec => []IInv
<1>1. IInv /\ [Next]_vars => IInv'
  BY TypeStep, RunningStep, CountStep DEF IInv
<1> QED
  BY <1>1, InitInvariant, PTL DEF Spec

-----------------------------------------------------------------------------
\* Every variable keeps its type; in particular the WaitGroup's counter never
\* goes negative, which would panic the process.
THEOREM TypeCorrect == Spec => []TypeOK
<1>1. IInv => TypeOK
  BY DEF IInv
<1> QED
  BY <1>1, Invariance, PTL

\* However many triggers overlap, the running flag behind
\* GET /admin/scrape/status is never left set without a run.
THEOREM RunningIsSound == Spec => []RunningMeansRun
<1>1. IInv => RunningMeansRun
  BY DEF IInv
<1> QED
  BY <1>1, Invariance, PTL

\* The WaitGroup counts the announced runs exactly, for any set of triggers.
THEOREM WaitGroupIsExact == Spec => []ActiveCountsRuns
<1>1. IInv => ActiveCountsRuns
  BY DEF IInv
<1> QED
  BY <1>1, Invariance, PTL

\* Shutdown returns without an error only after every run it found is over.
THEOREM ShutdownWaits == Spec => []ShutdownOutlivesCounted
<1>1. IInv => ShutdownOutlivesCounted
  BY DEF IInv
<1> QED
  BY <1>1, Invariance, PTL
=============================================================================
