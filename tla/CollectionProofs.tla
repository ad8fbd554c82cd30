-------------------------- MODULE CollectionProofs --------------------------
(***************************************************************************)
(* What a collection run keeps for any providers, adapters, limits and     *)
(* queues: its budget, a success that is complete, and an end that leaves  *)
(* nothing behind.                                                         *)
(***************************************************************************)
EXTENDS Collection, FiniteSetTheorems, SequenceTheorems, TLAPS

-----------------------------------------------------------------------------
\* The inductive invariant.

\* A worker has a task from the time it takes one to the time it lets go of it.
Occupied == {"provider", "global", "calling", "reporting"}
Shape ==
    /\ TypeOK
    /\ \A w \in Worker : task[w] \in IF pc[w] \in Occupied THEN Task ELSE {NoTask}
    /\ incoming \in Seq(Task)
    /\ IF gather = "sending" THEN rest.task \in Task /\ rest.left > 0 ELSE rest = Nothing

\* The slots taken are those of the workers that took them.
Called == {w \in Worker : pc[w] \in {"calling", "reporting"}}
Admitted(p) == {w \in Worker : pc[w] \in {"global", "calling", "reporting"} /\ ProviderOf(task[w].source) = p}
SlotsAreHeld ==
    /\ global = Cardinality(Called) /\ global <= MaxConcurrency
    /\ \A p \in Provider : permits[p] = Cardinality(Admitted(p)) /\ permits[p] <= ProviderLimit(p)

\* The run winds up in order: the producer, the workers, the results, the jobs, the verdict.
Gathered == {"waiting", "ok", "error"}
EndsInOrder ==
    /\ ~open => Finished
    /\ gather \in Gathered => ~open /\ results = <<>>
    /\ stage \in {"done", "broken"} => gather \in Gathered /\ incoming = <<>>
    /\ gather \in {"ok", "error"} => stage \in {"done", "broken"}
    /\ gather = "ok" => ~canceled /\ stage = "done"

\* A task is in one place at a time.
Among(t, q) == \E i \in DOMAIN q : q[i] = t
Held(t) == \E w \in Worker : task[w] = t
Distinct(q) == \A i, j \in DOMAIN q : q[i] = q[j] => i = j
Made(t) == t.n <= made[t.source]
InOnePlace ==
    /\ Distinct(tasks) /\ Distinct(results)
    /\ \A v, w \in Worker : task[v] = task[w] /\ task[w] # NoTask => v = w
    /\ \A t \in Task :
         /\ Among(t, tasks) => Made(t) /\ outcome[t] = "none" /\ ~Held(t)
         /\ Among(t, results) => outcome[t] # "none" /\ ~Held(t)
         /\ outcome[t] # "none" => Made(t)
    /\ \A w \in Worker : pc[w] \in Occupied =>
         Made(task[w]) /\ (outcome[task[w]] # "none") = (pc[w] = "reporting")

\* As long as nobody cancels, no task is lost.
NoneIsLost ==
    ~canceled =>
        /\ ~producing => Waiting = {}
        /\ \A w \in Worker : pc[w] = "returned" => ~producing /\ tasks = <<>>
        /\ \A t \in Task : Made(t) => Among(t, tasks) \/ Held(t) \/ outcome[t] # "none"

\* The jobs of a task: none before its result is taken, then no more than came back, and
\* exactly those once they are handed over, unless something fails.
Times(t, q) == Cardinality({i \in DOMAIN q : q[i] = t})
Sent(t) == received[t] + Times(t, incoming) + IF rest.task = t THEN rest.left ELSE 0
Pending(t) == outcome[t] = "none" \/ Held(t) \/ Among(t, results)
Counted(t) ==
    /\ Pending(t) => Sent(t) = 0 /\ rest.task # t
    /\ Sent(t) <= JobsOf[t.source]
    /\ ~Pending(t) /\ outcome[t] = "jobs" /\ ~canceled /\ stage \in {"running", "done"}
         => Sent(t) = JobsOf[t.source]
JobsAreCounted == \A t \in Task : Counted(t)

IInv == Shape /\ SlotsAreHeld /\ EndsInOrder /\ InOnePlace /\ NoneIsLost /\ JobsAreCounted

-----------------------------------------------------------------------------
\* Sequences.

\* What is put at the end of a queue is in it, and nothing else is new.
LEMMA AppendFacts ==
    ASSUME NEW S, NEW q \in Seq(S), NEW x \in S
    PROVE  /\ Append(q, x) \in Seq(S) /\ Len(Append(q, x)) = Len(q) + 1
           /\ \A t : Among(t, Append(q, x)) <=> Among(t, q) \/ t = x
           /\ Distinct(q) /\ ~Among(x, q) => Distinct(Append(q, x))
<1>1. /\ Append(q, x) \in Seq(S) /\ Len(Append(q, x)) = Len(q) + 1 /\ Len(q) \in Nat
      /\ DOMAIN q = 1..Len(q) /\ DOMAIN Append(q, x) = 1..(Len(q) + 1)
      /\ \A i \in 1..Len(q) : Append(q, x)[i] = q[i]
      /\ Append(q, x)[Len(q) + 1] = x
  OBVIOUS
<1>2. QED
  BY <1>1 DEF Among, Distinct

\* The head of a queue leaves it, and nothing else does.
LEMMA TailFacts ==
    ASSUME NEW S, NEW q \in Seq(S), q # <<>>
    PROVE  /\ Head(q) \in S /\ Tail(q) \in Seq(S) /\ Len(Tail(q)) = Len(q) - 1 /\ Len(q) \in Nat \ {0}
           /\ \A t : Among(t, q) <=> Among(t, Tail(q)) \/ t = Head(q)
           /\ Distinct(q) => Distinct(Tail(q)) /\ ~Among(Head(q), Tail(q))
<1>1. /\ Head(q) \in S /\ Tail(q) \in Seq(S) /\ Len(Tail(q)) = Len(q) - 1 /\ Len(q) \in Nat \ {0}
      /\ DOMAIN q = 1..Len(q) /\ DOMAIN Tail(q) = 1..(Len(q) - 1)
      /\ \A i \in 1..(Len(q) - 1) : Tail(q)[i] = q[i + 1]
      /\ Head(q) = q[1]
  BY HeadTailProperties, LenProperties, EmptySeq
<1>2. \A t : Among(t, q) <=> Among(t, Tail(q)) \/ t = Head(q)
  <2>1. \A i \in 2..Len(q) : i - 1 \in 1..(Len(q) - 1) /\ Tail(q)[i - 1] = q[i]
    BY <1>1
  <2>2. ASSUME NEW t, NEW i \in 1..Len(q), q[i] = t PROVE t = Head(q) \/ Among(t, Tail(q))
    <3>1. CASE i = 1
      BY <1>1, <2>2, <3>1
    <3>2. CASE i # 1
      <4>1. i \in 2..Len(q)
        BY <1>1, <3>2
      <4>2. QED
        BY <1>1, <2>1, <2>2, <4>1 DEF Among
    <3>3. QED
      BY <3>1, <3>2
  <2>3. \A t : Among(t, Tail(q)) \/ t = Head(q) => Among(t, q)
    <3>1. 1 \in 1..Len(q) /\ \A i \in 1..(Len(q) - 1) : i + 1 \in 1..Len(q)
      BY <1>1
    <3>2. QED
      BY <1>1, <3>1 DEF Among
  <2>4. QED
    BY <1>1, <2>2, <2>3 DEF Among
<1>3. Distinct(q) => Distinct(Tail(q)) /\ ~Among(Head(q), Tail(q))
  BY <1>1 DEF Among, Distinct
<1>4. QED
  BY <1>1, <1>2, <1>3

\* The places of an element in a queue are finitely many.
LEMMA TimesType ==
    ASSUME NEW S, NEW q \in Seq(S), NEW t
    PROVE  IsFiniteSet({i \in DOMAIN q : q[i] = t}) /\ Times(t, q) \in Nat
<1>1. IsFiniteSet(1..Len(q)) /\ DOMAIN q = 1..Len(q)
  BY FS_Interval
<1>2. IsFiniteSet({i \in DOMAIN q : q[i] = t})
  BY <1>1, FS_Subset
<1>3. QED
  BY <1>2, FS_CardinalityType DEF Times

\* An element is counted once more when it is put at the end.
LEMMA TimesAppend ==
    ASSUME NEW S, NEW q \in Seq(S), NEW x \in S, NEW t
    PROVE  Times(t, Append(q, x)) = Times(t, q) + IF t = x THEN 1 ELSE 0
<1> DEFINE P == {i \in DOMAIN q : q[i] = t}
           A == {i \in DOMAIN Append(q, x) : Append(q, x)[i] = t}
<1>1. A = IF t = x THEN P \cup {Len(q) + 1} ELSE P
  OBVIOUS
<1>2. Len(q) + 1 \notin P
  OBVIOUS
<1>3. IsFiniteSet(P)
  BY TimesType
<1>4. Cardinality(A) = Cardinality(P) + IF t = x THEN 1 ELSE 0
  <2> HIDE DEF P, A
  <2>1. Cardinality(P \cup {Len(q) + 1}) = Cardinality(P) + 1 /\ Cardinality(P) \in Nat
    BY <1>2, <1>3, FS_AddElement, FS_CardinalityType
  <2>2. QED
    BY <1>1, <2>1
<1>5. QED
  BY <1>4 DEF Times

\* And once less when it was the head.
LEMMA TimesTail ==
    ASSUME NEW S, NEW q \in Seq(S), q # <<>>, NEW t
    PROVE  Times(t, q) = Times(t, Tail(q)) + IF t = Head(q) THEN 1 ELSE 0
<1> DEFINE P == {i \in DOMAIN q : q[i] = t}
           R == P \ {1}
           A == {i \in DOMAIN Tail(q) : Tail(q)[i] = t}
<1>1. /\ Tail(q) \in Seq(S) /\ Len(q) \in Nat \ {0} /\ DOMAIN q = 1..Len(q) /\ DOMAIN Tail(q) = 1..(Len(q) - 1)
      /\ \A i \in 1..(Len(q) - 1) : Tail(q)[i] = q[i + 1]
      /\ Head(q) = q[1]
  BY HeadTailProperties, LenProperties, EmptySeq
<1>2. ExistsBijection(A, R)
  <2> DEFINE f == [i \in A |-> i + 1]
  <2>1. \A i \in A : i + 1 \in R
    BY <1>1
  <2>2. \A i \in R : i - 1 \in A /\ (i - 1) + 1 = i
    BY <1>1
  <2>3. \A i, j \in A : i + 1 = j + 1 => i = j
    BY <1>1
  <2> HIDE DEF A, R
  <2>4. f \in Bijection(A, R)
    BY <2>1, <2>2, <2>3 DEF Bijection, Injection, Surjection, IsInjective
  <2>5. QED
    BY <2>4 DEF ExistsBijection
<1>3. IsFiniteSet(A) /\ IsFiniteSet(P)
  BY <1>1, TimesType
<1>4. Cardinality(R) = Cardinality(A)
  BY <1>2, <1>3, FS_Bijection
<1>5. Cardinality(R) = Cardinality(P) - IF t = Head(q) THEN 1 ELSE 0
  <2>1. Cardinality(R) = IF 1 \in P THEN Cardinality(P) - 1 ELSE Cardinality(P)
    BY <1>3, FS_RemoveElement
  <2>2. 1 \in P <=> t = Head(q)
    BY <1>1
  <2>3. Cardinality(P) \in Nat
    BY <1>3, FS_CardinalityType
  <2> HIDE DEF P, R
  <2>4. QED
    BY <2>1, <2>2, <2>3
<1>6. Cardinality(P) \in Nat /\ Times(t, q) = Cardinality(P) /\ Times(t, Tail(q)) = Cardinality(A)
  BY <1>3, FS_CardinalityType DEF Times
<1>7. QED
  <2> HIDE DEF P, R, A
  <2>1. QED
    BY <1>4, <1>5, <1>6

\* Nothing is in an empty queue.
LEMMA TimesEmpty == \A t : Times(t, <<>>) = 0 /\ ~Among(t, <<>>)
<1>1. \A t : {i \in DOMAIN <<>> : <<>>[i] = t} = {} /\ ~Among(t, <<>>)
  BY DEF Among
<1>2. QED
  BY <1>1, FS_EmptySet DEF Times
-----------------------------------------------------------------------------
\* Tasks and limits.

LEMMA TaskFacts ==
    /\ \A t \in Task : t.source \in Source /\ t.n \in 1..TasksOf[t.source] /\ t # NoTask
                       /\ t = [source |-> t.source, n |-> t.n]
    /\ \A s \in Source : \A n \in 1..TasksOf[s] : [source |-> s, n |-> n] \in Task
    /\ \A s \in Source : ProviderOf(s) \in Provider
<1>1. \A t \in Task : t.source \in Source /\ t.n \in 1..TasksOf[t.source] /\ t = [source |-> t.source, n |-> t.n]
  BY DEF Task
<1>2. \A t \in Task : t # NoTask
  <2>1. NoTask.n = 0
    BY DEF NoTask
  <2>2. QED
    BY <1>1, <2>1, LimitAssumption
<1>3. \A s \in Source : \A n \in 1..TasksOf[s] : [source |-> s, n |-> n] \in Task
  BY DEF Task
<1>4. \A s \in Source : ProviderOf(s) \in Provider
  BY DEF Source, ProviderOf
<1>5. QED
  BY <1>1, <1>2, <1>3, <1>4

LEMMA LimitFacts ==
    \A p \in Provider : ProviderLimit(p) \in Nat \ {0} /\ ProviderLimit(p) <= MaxConcurrency
<1> SUFFICES ASSUME NEW p \in Provider PROVE ProviderLimit(p) \in Nat \ {0} /\ ProviderLimit(p) <= MaxConcurrency
  OBVIOUS
<1> DEFINE own == IF p \in DOMAIN Overrides THEN Overrides[p] ELSE DefaultLimit
<1>1. own \in Nat \ {0} /\ MaxConcurrency \in Nat \ {0}
  BY LimitAssumption
<1> HIDE DEF own
<1>2. \A m, n \in Nat : Min({m, n}) \in {m, n} /\ Min({m, n}) <= m
  <2>1. \A m, n \in Nat : \E x \in {m, n} : \A y \in {m, n} : x <= y
    OBVIOUS
  <2>2. QED
    BY <2>1 DEF Min
<1>3. Min({MaxConcurrency, own}) \in Nat \ {0} /\ Min({MaxConcurrency, own}) <= MaxConcurrency
  BY <1>1, <1>2
<1>4. QED
  BY <1>3 DEF ProviderLimit, own

\* What the producer emits next is a task of a source, and not one it has emitted.
LEMMA NextTask ==
    ASSUME TypeOK, NEW i \in Waiting, NEW j, j \in Unfinished(Providers[i])
    PROVE  /\ Providers[i] \in Provider /\ Sources[Providers[i]][j] \in Source
           /\ i \in Nat \ {0} /\ j \in Nat \ {0}
           /\ made[Sources[Providers[i]][j]] + 1 \in 1..TasksOf[Sources[Providers[i]][j]]
<1>1. i \in DOMAIN Providers /\ Providers[i] \in Provider
  BY DEF Waiting, Provider
<1>2. j \in DOMAIN Sources[Providers[i]] /\ Sources[Providers[i]][j] \in Source
  BY <1>1 DEF Unfinished, Source, SourcesOf
<1>3. i \in Nat \ {0} /\ j \in Nat \ {0}
  <2>1. Providers \in Seq(DOMAIN Sources) /\ Sources[Providers[i]] \in Seq(DOMAIN TasksOf)
    BY <1>1, LimitAssumption
  <2>2. DOMAIN Providers = 1..Len(Providers) /\ DOMAIN Sources[Providers[i]] = 1..Len(Sources[Providers[i]])
    BY <2>1, LenProperties
  <2>3. QED
    BY <1>1, <1>2, <2>2
<1>4. made[Sources[Providers[i]][j]] \in Nat /\ TasksOf[Sources[Providers[i]][j]] \in Nat
  BY <1>2, LimitAssumption DEF TypeOK
<1>5. made[Sources[Providers[i]][j]] < TasksOf[Sources[Providers[i]][j]]
  BY <1>2 DEF Unfinished
<1>6. QED
  BY <1>1, <1>2, <1>3, <1>4, <1>5

-----------------------------------------------------------------------------
\* Types.

LEMMA ShapeInit == Init => Shape
<1> SUFFICES ASSUME Init PROVE Shape
  OBVIOUS
<1>1. turn \in [provider : Nat \ {0}, source : [Provider -> Nat \ {0}]]
  BY DEF Init
<1>2. Len(<<>>) <= QueueCapacity /\ Len(<<>>) <= IncomingCapacity /\ \A S : <<>> \in Seq(S)
  BY LimitAssumption, EmptySeq DEF QueueCapacity
<1>3. Nothing.task = NoTask /\ Nothing \in [task : Task \cup {NoTask}, left : Nat]
  BY DEF Nothing
<1>4. TypeOK
  BY <1>1, <1>2, <1>3 DEF Init, TypeOK
<1>5. QED
  BY <1>2, <1>3, <1>4 DEF Init, Shape, Occupied

LEMMA LeaveKeepsShape ==
    ASSUME Shape, NEW w \in Worker, Leave(w)
    PROVE  /\ pc' \in [Worker -> {"select", "provider", "global", "calling", "reporting", "returned"}]
           /\ task' \in [Worker -> Task \cup {NoTask}]
           /\ \A v \in Worker : task'[v] \in IF pc'[v] \in Occupied THEN Task ELSE {NoTask}
BY DEF Shape, TypeOK, Leave, Occupied

\* Whoever has a slot is among those that the semaphores count.
LEMMA SlotsAreTaken ==
    ASSUME Shape, SlotsAreHeld, NEW w \in Worker
    PROVE  /\ IsFiniteSet(Called) /\ \A p \in Provider : IsFiniteSet(Admitted(p))
           /\ w \in Called => global > 0
           /\ \A p \in Provider : w \in Admitted(p) => permits[p] > 0
<1>1. IsFiniteSet(Worker)
  BY LimitAssumption, FS_Interval DEF Worker
<1>2. IsFiniteSet(Called) /\ \A p \in Provider : IsFiniteSet(Admitted(p))
  BY <1>1, FS_Subset DEF Called, Admitted
<1>3. \A S : IsFiniteSet(S) /\ w \in S => Cardinality(S) > 0
  BY FS_EmptySet, FS_CardinalityType
<1>4. QED
  BY <1>2, <1>3 DEF SlotsAreHeld

LEMMA ShapeStep == Shape /\ SlotsAreHeld /\ [Next]_vars => Shape'
<1> SUFFICES ASSUME Shape, SlotsAreHeld, [Next]_vars PROVE Shape'
  OBVIOUS
<1> USE DEF Shape, TypeOK, producer, workers
<1>1. CASE UNCHANGED vars
  BY <1>1 DEF vars
<1>2. CASE Cancel
  BY <1>2 DEF Cancel
<1>3. CASE Produce
  <2>0. PICK i \in Waiting : \E j \in Unfinished(Providers[i]) :
          /\ tasks' = Append(tasks, [source |-> Sources[Providers[i]][j], n |-> made[Sources[Providers[i]][j]] + 1])
          /\ made' = [made EXCEPT ![Sources[Providers[i]][j]] = @ + 1]
          /\ turn' = [provider |-> After(i, Len(Providers)),
                      source |-> [turn.source EXCEPT ![Providers[i]] = After(j, Len(Sources[Providers[i]]))]]
    BY <1>3 DEF Produce, FirstFrom
  <2>1. PICK j \in Unfinished(Providers[i]) :
          /\ tasks' = Append(tasks, [source |-> Sources[Providers[i]][j], n |-> made[Sources[Providers[i]][j]] + 1])
          /\ made' = [made EXCEPT ![Sources[Providers[i]][j]] = @ + 1]
          /\ turn' = [provider |-> After(i, Len(Providers)),
                      source |-> [turn.source EXCEPT ![Providers[i]] = After(j, Len(Sources[Providers[i]]))]]
    BY <2>0
  <2>2. [source |-> Sources[Providers[i]][j], n |-> made[Sources[Providers[i]][j]] + 1] \in Task
    BY NextTask, TaskFacts
  <2>3. tasks' \in Seq(Task) /\ Len(tasks') = Len(tasks) + 1 /\ Len(tasks) \in Nat
    BY <2>1, <2>2, AppendFacts
  <2>4. QueueCapacity \in Nat /\ Len(tasks) < QueueCapacity
    BY <1>3, LimitAssumption DEF Produce, QueueCapacity
  <2>5. made' \in [Source -> Nat]
    <3> DEFINE s == Sources[Providers[i]][j]
    <3>1. s \in Source /\ made' = [made EXCEPT ![s] = @ + 1]
      BY <2>1, NextTask
    <3> HIDE DEF s
    <3>2. QED
      BY <3>1
  <2>6. \A k, n : k \in Nat \ {0} => After(k, n) \in Nat \ {0}
    BY DEF After
  <2>7. i \in Nat \ {0} /\ j \in Nat \ {0}
    BY NextTask
  <2>8. turn' \in [provider : Nat \ {0}, source : [Provider -> Nat \ {0}]]
    BY <2>1, <2>6, <2>7, NextTask
  <2>9. /\ producing' \in BOOLEAN
        /\ UNCHANGED <<canceled, workers, results, open, gather, rest, incoming, received, stage>>
    BY <1>3 DEF Produce
  <2>10. QED
    BY <2>3, <2>4, <2>5, <2>8, <2>9
<1>4. CASE StopProducing
  BY <1>4 DEF StopProducing
<1>5. ASSUME NEW w \in Worker, TakeTask(w) PROVE Shape'
  <2>1. Head(tasks) \in Task /\ tasks' \in Seq(Task) /\ Len(tasks') <= QueueCapacity
    BY <1>5, TailFacts, LimitAssumption DEF TakeTask, QueueCapacity
  <2>2. CASE canceled
    BY <1>5, <2>1, <2>2, LeaveKeepsShape DEF TakeTask
  <2>3. CASE ~canceled
    BY ZenonT(60), <1>5, <2>1, <2>3 DEF TakeTask, Occupied
  <2>4. QED
    BY <2>2, <2>3
<1>6. ASSUME NEW w \in Worker, StopWorking(w) PROVE Shape'
  BY <1>6, LeaveKeepsShape DEF StopWorking
<1>7. ASSUME NEW w \in Worker, AcquireProvider(w) PROVE Shape'
  <2> DEFINE p == ProviderOf(task[w].source)
  <2>1. task[w] \in Task /\ p \in Provider
    BY <1>7, TaskFacts DEF AcquireProvider, Occupied
  <2>2. permits' \in [Provider -> Nat]
    <3> HIDE DEF p
    <3>1. [permits EXCEPT ![p] = @ + 1] \in [Provider -> Nat]
      BY <2>1
    <3>2. QED
      BY <1>7, <3>1 DEF AcquireProvider, p
  <2>3. QED
    BY <1>7, <2>1, <2>2 DEF AcquireProvider, Occupied
<1>8. ASSUME NEW w \in Worker, AcquireGlobal(w) PROVE Shape'
  BY <1>8 DEF AcquireGlobal, Occupied
<1>9. ASSUME NEW w \in Worker, GiveUp(w) PROVE Shape'
  <2>1. permits' \in [Provider -> Nat]
    <3> DEFINE p == ProviderOf(task[w].source)
    <3>1. CASE pc[w] = "global"
      <4>1. task[w] \in Task
        BY <3>1 DEF Occupied
      <4>2. p \in Provider /\ w \in Admitted(p)
        BY <3>1, <4>1, TaskFacts DEF Admitted
      <4>3. permits[p] > 0
        BY <4>2, SlotsAreTaken
      <4> HIDE DEF p
      <4>4. [permits EXCEPT ![p] = @ - 1] \in [Provider -> Nat]
        BY <4>2, <4>3
      <4>5. QED
        BY <1>9, <3>1, <4>4 DEF GiveUp, p
    <3>2. CASE pc[w] # "global"
      BY <1>9, <3>2 DEF GiveUp
    <3>3. QED
      BY <3>1, <3>2
  <2>2. QED
    BY <1>9, <2>1, LeaveKeepsShape DEF GiveUp
<1>11. ASSUME NEW w \in Worker, AdapterReturns(w) PROVE Shape'
  <2>1. task[w] \in Task
    BY <1>11 DEF AdapterReturns, Occupied
  <2>2. outcome' \in [Task -> {"none", "jobs", "error"}]
    BY <1>11, <2>1 DEF AdapterReturns
  <2>3. QED
    BY <1>11, <2>2 DEF AdapterReturns, Occupied
<1>12. ASSUME NEW w \in Worker, Report(w) PROVE Shape'
  <2> DEFINE p == ProviderOf(task[w].source)
  <2>1. task[w] \in Task
    BY <1>12 DEF Report, Occupied
  <2>2. p \in Provider /\ w \in Admitted(p) /\ w \in Called
    BY <1>12, <2>1, TaskFacts DEF Report, Admitted, Called
  <2>3. permits[p] > 0 /\ global > 0
    BY <2>2, SlotsAreTaken
  <2>4. global' \in Nat /\ permits' \in [Provider -> Nat]
    <3> HIDE DEF p
    <3>1. [permits EXCEPT ![p] = @ - 1] \in [Provider -> Nat] /\ global - 1 \in Nat
      BY <2>2, <2>3
    <3>2. QED
      BY <1>12, <3>1 DEF Report, Release, p
  <2>5. results' \in Seq(Task) /\ Len(results') <= QueueCapacity
    <3>1. Append(results, task[w]) \in Seq(Task) /\ Len(Append(results, task[w])) = Len(results) + 1
      BY <2>1, AppendFacts
    <3>2. QueueCapacity \in Nat /\ Len(results) \in Nat
      BY LimitAssumption DEF QueueCapacity
    <3>3. CASE results' = Append(results, task[w]) /\ Len(results) < QueueCapacity
      BY <3>1, <3>2, <3>3
    <3>4. CASE results' = results
      BY <3>4
    <3>5. QED
      BY <1>12, <3>3, <3>4 DEF Report
  <2>6. /\ pc' \in [Worker -> {"select", "provider", "global", "calling", "reporting", "returned"}]
        /\ task' \in [Worker -> Task \cup {NoTask}]
        /\ \A v \in Worker : task'[v] \in IF pc'[v] \in Occupied THEN Task ELSE {NoTask}
    BY <1>12, LeaveKeepsShape DEF Report, Release, Occupied
  <2>7. QED
    BY <1>12, <2>4, <2>5, <2>6 DEF Report
<1>13. CASE CloseResults
  BY <1>13 DEF CloseResults
<1>14. CASE TakeResult
  <2>1. Head(results) \in Task /\ results' \in Seq(Task) /\ Len(results') <= QueueCapacity
    BY <1>14, TailFacts, LimitAssumption DEF TakeResult, QueueCapacity
  <2>2. JobsOf[Head(results).source] \in Nat
    BY <2>1, TaskFacts, LimitAssumption
  <2>3. QED
    BY SMTT(60), <1>14, <2>1, <2>2 DEF TakeResult, Resume, Nothing
<1>15. CASE SendJob
  <2>1. rest.task \in Task
    BY <1>15 DEF SendJob
  <2>2. incoming' \in Seq(Task) /\ Len(incoming') <= IncomingCapacity
    BY <1>15, <2>1, AppendFacts, LimitAssumption DEF SendJob
  <2>3. CASE gather' = "results" /\ rest' = Nothing
    BY <1>15, <2>2, <2>3 DEF SendJob, Nothing
  <2>4. CASE gather' = "sending" /\ rest' = [rest EXCEPT !.left = @ - 1] /\ rest.left - 1 # 0
    <3>1. rest.left - 1 \in Nat \ {0}
      BY <1>15, <2>4 DEF SendJob
    <3>2. rest'.task = rest.task /\ rest'.left = rest.left - 1
      BY <2>4
    <3>3. rest' \in [task : Task \cup {NoTask}, left : Nat]
      BY <2>1, <2>4, <3>1
    <3>4. QED
      BY SMTT(60), <1>15, <2>1, <2>2, <2>4, <3>1, <3>2, <3>3 DEF SendJob
  <2>5. QED
    BY <1>15, <2>3, <2>4 DEF SendJob, Resume
<1>16. CASE DropJobs
  BY <1>16 DEF DropJobs, Resume, Nothing
<1>17. CASE CloseIncoming
  BY <1>17 DEF CloseIncoming
<1>18. CASE Return
  BY <1>18 DEF Return
<1>19. CASE ProcessJob
  <2>1. Head(incoming) \in Task /\ incoming' \in Seq(Task) /\ Len(incoming') <= IncomingCapacity
    BY <1>19, TailFacts, LimitAssumption DEF ProcessJob
  <2>2. QED
    BY SMTT(60), <1>19, <2>1 DEF ProcessJob
<1>20. CASE EndProcessing
  BY <1>20 DEF EndProcessing
<1>21. CASE Terminated
  BY <1>1, <1>21 DEF Terminated
<1>22. QED
  BY <1>1, <1>2, <1>3, <1>4, <1>5, <1>6, <1>7, <1>8, <1>9, <1>11, <1>12, <1>13, <1>14, <1>15, <1>16,
     <1>17, <1>18, <1>19, <1>20, <1>21 DEF Next, Work, Gather
-----------------------------------------------------------------------------
\* Slots.

LEMMA SlotsInit == Init => SlotsAreHeld
<1> SUFFICES ASSUME Init PROVE SlotsAreHeld
  OBVIOUS
<1>1. Called = {} /\ \A p \in Provider : Admitted(p) = {}
  BY DEF Init, Called, Admitted
<1>2. global = 0 /\ Cardinality(Called) = 0 /\ MaxConcurrency \in Nat
  BY <1>1, FS_EmptySet, LimitAssumption DEF Init
<1>3. \A p \in Provider : permits[p] = 0 /\ Cardinality(Admitted(p)) = 0 /\ ProviderLimit(p) \in Nat
  BY <1>1, FS_EmptySet, LimitFacts DEF Init
<1>4. QED
  BY <1>2, <1>3 DEF SlotsAreHeld

\* Steps that move nobody to a slot or from it.
LEMMA SlotsStay ==
    ASSUME SlotsAreHeld, UNCHANGED <<global, permits>>,
           Called' = Called, \A p \in Provider : Admitted(p)' = Admitted(p)
    PROVE  SlotsAreHeld'
BY DEF SlotsAreHeld

\* One provider's slots change, by those who take or return them.
LEMMA SlotsMove ==
    ASSUME Shape, SlotsAreHeld, NEW p \in Provider, NEW n,
           permits' = [permits EXCEPT ![p] = n], n <= ProviderLimit(p), Cardinality(Admitted(p)') = n,
           \A q \in Provider \ {p} : Admitted(q)' = Admitted(q),
           global' = Cardinality(Called'), global' <= MaxConcurrency
    PROVE  SlotsAreHeld'
<1>1. ASSUME NEW q \in Provider PROVE permits'[q] = Cardinality(Admitted(q)') /\ permits'[q] <= ProviderLimit(q)
  <2>1. permits'[q] = IF q = p THEN n ELSE permits[q]
    BY DEF Shape, TypeOK
  <2>2. CASE q = p
    BY <2>1, <2>2
  <2>3. CASE q # p
    BY <2>1, <2>3 DEF SlotsAreHeld
  <2>4. QED
    BY <2>2, <2>3
<1>2. QED
  BY <1>1 DEF SlotsAreHeld

\* A worker that takes or leaves a task, or drops one, without a slot.
LEMMA SlotlessMove ==
    ASSUME Shape, SlotsAreHeld, NEW w \in Worker, UNCHANGED <<global, permits>>,
           pc[w] \in {"select", "provider"}, pc'[w] \in {"provider", "returned"},
           \A v \in Worker \ {w} : pc'[v] = pc[v] /\ task'[v] = task[v]
    PROVE  SlotsAreHeld'
<1>1. Called' = Called
  BY DEF Called
<1>2. \A p \in Provider : Admitted(p)' = Admitted(p)
  BY DEF Admitted
<1>3. QED
  BY <1>1, <1>2, SlotsStay

LEMMA SlotsStep == Shape /\ SlotsAreHeld /\ [Next]_vars => SlotsAreHeld'
<1> SUFFICES ASSUME Shape, SlotsAreHeld, [Next]_vars PROVE SlotsAreHeld'
  OBVIOUS
<1>1. CASE UNCHANGED <<pc, task, permits, global>>
  BY <1>1, SlotsStay DEF Called, Admitted
<1>2. ASSUME NEW w \in Worker, TakeTask(w) \/ StopWorking(w) PROVE SlotsAreHeld'
  <2>1. /\ pc[w] = "select" /\ pc'[w] \in {"provider", "returned"}
        /\ \A v \in Worker \ {w} : pc'[v] = pc[v] /\ task'[v] = task[v]
        /\ UNCHANGED <<global, permits>>
    BY <1>2 DEF TakeTask, StopWorking, Leave, Shape, TypeOK
  <2>2. QED
    BY <2>1, SlotlessMove
<1>3. ASSUME NEW w \in Worker, AcquireProvider(w) PROVE SlotsAreHeld'
  <2>1. PICK p \in Provider : p = ProviderOf(task[w].source)
    BY <1>3, TaskFacts DEF AcquireProvider, Shape, Occupied
  <2>2. /\ Admitted(p)' = Admitted(p) \cup {w} /\ w \notin Admitted(p)
        /\ \A q \in Provider \ {p} : Admitted(q)' = Admitted(q)
        /\ Called' = Called
    BY <1>3, <2>1 DEF AcquireProvider, Admitted, Called, Shape, TypeOK
  <2>3. permits' = [permits EXCEPT ![p] = @ + 1] /\ permits[p] < ProviderLimit(p) /\ global' = global
    BY <1>3, <2>1 DEF AcquireProvider
  <2>4. permits \in [Provider -> Nat] /\ ProviderLimit(p) \in Nat
    BY <2>1, LimitFacts DEF Shape, TypeOK
  <2>5. Cardinality(Admitted(p)') = permits[p] + 1
    BY ZenonT(60), <2>1, <2>2, SlotsAreTaken, FS_AddElement DEF SlotsAreHeld
  <2>6. permits[p] + 1 <= ProviderLimit(p)
    BY <2>3, <2>4
  <2>7. QED
    BY <2>2, <2>3, <2>5, <2>6, SlotsMove DEF SlotsAreHeld
<1>4. ASSUME NEW w \in Worker, AcquireGlobal(w) PROVE SlotsAreHeld'
  <2>1. Called' = Called \cup {w} /\ w \notin Called
    BY <1>4 DEF AcquireGlobal, Called, Shape, TypeOK
  <2>2. \A p \in Provider : Admitted(p)' = Admitted(p)
    BY <1>4 DEF AcquireGlobal, Admitted, Shape, TypeOK
  <2>3. Cardinality(Called') = global + 1
    BY <2>1, SlotsAreTaken, FS_AddElement DEF SlotsAreHeld
  <2>4. global' = global + 1 /\ global < MaxConcurrency /\ global \in Nat /\ permits' = permits
    BY <1>4 DEF AcquireGlobal, Shape, TypeOK
  <2>5. QED
    BY <2>2, <2>3, <2>4, LimitAssumption DEF SlotsAreHeld
<1>5. ASSUME NEW w \in Worker, GiveUp(w) PROVE SlotsAreHeld'
  <2>1. CASE pc[w] = "provider"
    <3>1. /\ pc'[w] = "returned" /\ UNCHANGED <<global, permits>>
          /\ \A v \in Worker \ {w} : pc'[v] = pc[v] /\ task'[v] = task[v]
      BY <1>5, <2>1 DEF GiveUp, Leave, Shape, TypeOK
    <3>2. QED
      BY <2>1, <3>1, SlotlessMove
  <2>2. CASE pc[w] = "global"
    <3>1. PICK p \in Provider : p = ProviderOf(task[w].source)
      BY <2>2, TaskFacts DEF Shape, Occupied
    <3>2. /\ Admitted(p)' = Admitted(p) \ {w} /\ w \in Admitted(p)
          /\ \A q \in Provider \ {p} : Admitted(q)' = Admitted(q)
          /\ Called' = Called
      BY <1>5, <2>2, <3>1 DEF GiveUp, Leave, Admitted, Called, Shape, TypeOK
    <3>3. permits' = [permits EXCEPT ![p] = @ - 1] /\ global' = global
      BY <1>5, <2>2, <3>1 DEF GiveUp
    <3>4. permits \in [Provider -> Nat] /\ ProviderLimit(p) \in Nat
      BY <3>1, LimitFacts DEF Shape, TypeOK
    <3>5. Cardinality(Admitted(p)') = permits[p] - 1
      BY <3>1, <3>2, SlotsAreTaken, FS_RemoveElement DEF SlotsAreHeld
    <3>6. permits[p] - 1 <= ProviderLimit(p)
      BY <3>4 DEF SlotsAreHeld
    <3>7. QED
      BY <3>2, <3>3, <3>5, <3>6, SlotsMove DEF SlotsAreHeld
  <2>3. QED
    BY <1>5, <2>1, <2>2 DEF GiveUp
<1>6. ASSUME NEW w \in Worker, AdapterReturns(w) PROVE SlotsAreHeld'
  <2>1. Called' = Called /\ UNCHANGED <<global, permits>>
    BY <1>6 DEF AdapterReturns, Called, Shape, TypeOK
  <2>2. \A p \in Provider : Admitted(p)' = Admitted(p)
    BY <1>6 DEF AdapterReturns, Admitted, Shape, TypeOK
  <2>3. QED
    BY <2>1, <2>2, SlotsStay
<1>7. ASSUME NEW w \in Worker, Report(w) PROVE SlotsAreHeld'
  <2>1. PICK p \in Provider : p = ProviderOf(task[w].source)
    BY <1>7, TaskFacts DEF Report, Shape, Occupied
  <2>2. pc[w] = "reporting" /\ pc'[w] \in {"select", "returned"} /\ \A v \in Worker \ {w} : pc'[v] = pc[v] /\ task'[v] = task[v]
    BY <1>7 DEF Report, Release, Leave, Shape, TypeOK
  <2>3. /\ Admitted(p)' = Admitted(p) \ {w} /\ w \in Admitted(p)
        /\ \A q \in Provider \ {p} : Admitted(q)' = Admitted(q)
    BY <2>1, <2>2 DEF Admitted
  <2>4. Called' = Called \ {w} /\ w \in Called
    BY <2>1, <2>2 DEF Called
  <2>5. permits' = [permits EXCEPT ![p] = @ - 1] /\ global' = global - 1
    BY <1>7, <2>1 DEF Report, Release
  <2>6. permits \in [Provider -> Nat] /\ ProviderLimit(p) \in Nat /\ global \in Nat
    BY <2>1, LimitFacts DEF Shape, TypeOK
  <2>7. Cardinality(Admitted(p)') = permits[p] - 1
    BY <2>1, <2>3, SlotsAreTaken, FS_RemoveElement DEF SlotsAreHeld
  <2>8. Cardinality(Called') = global - 1
    BY <2>4, SlotsAreTaken, FS_RemoveElement DEF SlotsAreHeld
  <2>9. permits[p] - 1 <= ProviderLimit(p) /\ global - 1 <= MaxConcurrency
    BY <2>6, LimitAssumption DEF SlotsAreHeld
  <2>10. QED
    BY <2>3, <2>5, <2>7, <2>8, <2>9, SlotsMove
<1>8. CASE Cancel \/ Produce \/ StopProducing \/ CloseResults \/ Gather \/ ProcessJob
           \/ EndProcessing \/ Terminated \/ UNCHANGED vars
  <2>1. UNCHANGED <<pc, task, permits, global>>
    BY <1>8 DEF Cancel, Produce, StopProducing, CloseResults, Gather, TakeResult, SendJob, DropJobs,
           CloseIncoming, Return, ProcessJob, EndProcessing, Terminated, vars, workers
  <2>2. QED
    BY <1>1, <2>1
<1>9. QED
  BY <1>2, <1>3, <1>4, <1>5, <1>6, <1>7, <1>8 DEF Next, Work

-----------------------------------------------------------------------------
\* The end of a run.

LEMMA EndInit == Init => EndsInOrder
BY DEF Init, EndsInOrder, Gathered

LEMMA EndStep == Shape /\ EndsInOrder /\ [Next]_vars => EndsInOrder'
<1> SUFFICES ASSUME Shape, EndsInOrder, [Next]_vars PROVE EndsInOrder'
  OBVIOUS
<1> USE DEF EndsInOrder, Gathered, producer, workers
<1>1. CASE UNCHANGED vars \/ Terminated
  BY <1>1 DEF vars, Terminated, Finished
<1>2. CASE Cancel
  BY <1>2 DEF Cancel, Finished
<1>3. CASE Produce
  <2>1. producing /\ UNCHANGED <<canceled, pc, results, open, gather, incoming, stage>>
    BY <1>3 DEF Produce
  <2>2. QED
    BY <2>1 DEF Finished
<1>4. CASE StopProducing
  BY <1>4 DEF StopProducing, Finished
<1>5. ASSUME NEW w \in Worker, Work(w) PROVE EndsInOrder'
  <2>1. pc[w] # "returned" /\ UNCHANGED <<canceled, open, gather, incoming, stage>>
    BY <1>5 DEF Work, TakeTask, StopWorking, AcquireProvider, AcquireGlobal, GiveUp, AdapterReturns, Report
  <2>2. open
    BY <2>1 DEF Finished
  <2>3. QED
    BY <2>1, <2>2
<1>6. CASE CloseResults
  BY <1>6 DEF CloseResults, Finished
<1>7. CASE TakeResult \/ SendJob \/ DropJobs
  <2>1. gather \in {"results", "sending"} /\ gather' \in {"results", "sending"}
        /\ UNCHANGED <<canceled, producing, pc, open, stage>>
    BY <1>7 DEF TakeResult, SendJob, DropJobs, Resume
  <2>2. QED
    BY <2>1 DEF Finished
<1>8. CASE CloseIncoming
  BY <1>8 DEF CloseIncoming, Finished
<1>9. CASE Return
  BY <1>9 DEF Return, Finished
<1>10. CASE ProcessJob
  BY <1>10 DEF ProcessJob, Finished
<1>11. CASE EndProcessing
  BY <1>11 DEF EndProcessing, Finished
<1>12. QED
  BY <1>1, <1>2, <1>3, <1>4, <1>5, <1>6, <1>7, <1>8, <1>9, <1>10, <1>11 DEF Next, Gather
-----------------------------------------------------------------------------
\* Tasks are in one place.

LEMMA PlaceInit == Init => InOnePlace
<1> SUFFICES ASSUME Init PROVE InOnePlace
  OBVIOUS
<1>1. Distinct(tasks) /\ Distinct(results) /\ \A t : ~Among(t, tasks) /\ ~Among(t, results)
  BY TimesEmpty DEF Init, Distinct
<1>2. QED
  BY <1>1 DEF Init, InOnePlace, Occupied

\* A worker lets go of its task, which nobody else has.
LEMMA LetGo ==
    ASSUME Shape, InOnePlace, NEW w \in Worker, Leave(w) \/ (task' = [task EXCEPT ![w] = NoTask] /\ pc' = [pc EXCEPT ![w] = "select"])
    PROVE  /\ pc'[w] \notin Occupied /\ task'[w] = NoTask
           /\ \A v \in Worker \ {w} : pc'[v] = pc[v] /\ task'[v] = task[v]
           /\ \A t \in Task : Held(t)' <=> Held(t) /\ t # task[w]
<1>1. /\ pc'[w] \notin Occupied /\ task'[w] = NoTask
      /\ \A v \in Worker \ {w} : pc'[v] = pc[v] /\ task'[v] = task[v]
  BY DEF Leave, Occupied, Shape, TypeOK
<1>2. \A t \in Task : t # NoTask
  BY TaskFacts
<1>3. QED
  BY <1>1, <1>2 DEF Held, InOnePlace

LEMMA PlaceStep == Shape /\ InOnePlace /\ [Next]_vars => InOnePlace'
<1> SUFFICES ASSUME Shape, InOnePlace, [Next]_vars PROVE InOnePlace'
  OBVIOUS
<1>1. CASE UNCHANGED <<tasks, results, task, pc, made, outcome>>
  BY <1>1 DEF InOnePlace, Among, Distinct, Held, Made
<1>2. CASE Produce
  <2>1. PICK i \in Waiting : \E j \in Unfinished(Providers[i]) :
          /\ tasks' = Append(tasks, [source |-> Sources[Providers[i]][j], n |-> made[Sources[Providers[i]][j]] + 1])
          /\ made' = [made EXCEPT ![Sources[Providers[i]][j]] = @ + 1]
    BY <1>2 DEF Produce, FirstFrom
  <2>2. PICK j \in Unfinished(Providers[i]) :
          /\ tasks' = Append(tasks, [source |-> Sources[Providers[i]][j], n |-> made[Sources[Providers[i]][j]] + 1])
          /\ made' = [made EXCEPT ![Sources[Providers[i]][j]] = @ + 1]
    BY <2>1
  <2>3. PICK s \in Source : s = Sources[Providers[i]][j] /\ made[s] + 1 \in 1..TasksOf[s]
    BY NextTask DEF Shape
  <2>4. PICK t \in Task : t = [source |-> s, n |-> made[s] + 1]
    BY <2>3, TaskFacts
  <2>5. ~Made(t) /\ t.source = s /\ t.n = made[s] + 1 /\ made[s] \in Nat
    BY <2>4 DEF Made, Shape, TypeOK
  <2>6. Made(t)' /\ \A u \in Task : Made(u) => Made(u)'
    <3>1. made' = [made EXCEPT ![s] = made[s] + 1] /\ made \in [Source -> Nat]
      BY <2>2, <2>3 DEF Shape, TypeOK
    <3>2. QED
      BY <2>3, <2>5, <3>1, TaskFacts, LimitAssumption DEF Made
  <2>7. outcome[t] = "none" /\ ~Held(t) /\ ~Among(t, tasks)
    <3>1. outcome[t] = "none" /\ ~Among(t, tasks)
      BY <2>5 DEF InOnePlace, Shape, TypeOK
    <3>2. ~Held(t)
      BY <2>5, TaskFacts DEF InOnePlace, Held, Shape
    <3>3. QED
      BY <3>1, <3>2
  <2>8. /\ \A u : Among(u, tasks') <=> Among(u, tasks) \/ u = t
        /\ Distinct(tasks')
    BY <2>2, <2>3, <2>4, <2>7, AppendFacts DEF InOnePlace, Shape, TypeOK
  <2>9. UNCHANGED <<results, task, pc, outcome>>
    BY <1>2 DEF Produce, workers
  <2>10. QED
    BY <2>6, <2>7, <2>8, <2>9 DEF InOnePlace, Held, Shape, Occupied
<1>3. ASSUME NEW w \in Worker, TakeTask(w) PROVE InOnePlace'
  <2>1. /\ Head(tasks) \in Task
        /\ \A t : Among(t, tasks) <=> Among(t, tasks') \/ t = Head(tasks)
        /\ Distinct(tasks') /\ ~Among(Head(tasks), tasks')
    BY <1>3, TailFacts DEF TakeTask, InOnePlace, Shape, TypeOK
  <2>2. UNCHANGED <<made, results, outcome>>
    BY <1>3 DEF TakeTask, producer
  <2>3. CASE canceled
    <3>1. Leave(w)
      BY <1>3, <2>3 DEF TakeTask
    <3>2. QED
      BY <2>1, <2>2, <3>1, LetGo DEF InOnePlace, Made
  <2>4. CASE ~canceled
    <3>1. /\ pc'[w] = "provider" /\ task'[w] = Head(tasks) /\ task[w] = NoTask
          /\ \A v \in Worker \ {w} : pc'[v] = pc[v] /\ task'[v] = task[v]
      BY <1>3, <2>4 DEF TakeTask, Shape, TypeOK, Occupied
    <3>2. \A t \in Task : Held(t)' <=> Held(t) \/ t = Head(tasks)
      BY <3>1, TaskFacts DEF Held
    <3>3. Made(Head(tasks)) /\ outcome[Head(tasks)] = "none" /\ ~Held(Head(tasks))
      BY <2>1 DEF InOnePlace
    <3>4. \A t : Made(t)' <=> Made(t)
      BY <2>2 DEF Made
    <3>5. \A v, x \in Worker : task'[v] = task'[x] /\ task'[v] # NoTask => v = x
      BY <3>1, <3>3 DEF InOnePlace, Held
    <3>6. \A t \in Task :
             /\ Among(t, tasks') => Made(t)' /\ outcome'[t] = "none" /\ ~Held(t)'
             /\ Among(t, results') => outcome'[t] # "none" /\ ~Held(t)'
             /\ outcome'[t] # "none" => Made(t)'
      BY <2>1, <2>2, <3>2, <3>3, <3>4 DEF InOnePlace
    <3>7. (\A x \in Worker : pc[x] \in Occupied =>
             Made(task[x]) /\ (outcome[task[x]] # "none") = (pc[x] = "reporting"))'
      BY <2>2, <3>1, <3>3, <3>4 DEF InOnePlace
    <3>8. QED
      BY <2>1, <2>2, <3>5, <3>6, <3>7 DEF InOnePlace
  <2>5. QED
    BY <2>3, <2>4
<1>4. ASSUME NEW w \in Worker, StopWorking(w) \/ GiveUp(w) PROVE InOnePlace'
  <2>1. Leave(w) /\ UNCHANGED <<tasks, made, results, outcome>>
    BY <1>4 DEF StopWorking, GiveUp, producer
  <2>2. QED
    BY <2>1, LetGo DEF InOnePlace, Made
<1>5. ASSUME NEW w \in Worker, AcquireProvider(w) \/ AcquireGlobal(w) PROVE InOnePlace'
  <2>1. /\ UNCHANGED <<tasks, made, results, outcome, task>>
        /\ pc[w] \in {"provider", "global"} /\ pc'[w] \in {"global", "calling"}
        /\ \A v \in Worker \ {w} : pc'[v] = pc[v]
    BY <1>5 DEF AcquireProvider, AcquireGlobal, producer, Shape, TypeOK
  <2>2. QED
    BY <2>1 DEF InOnePlace, Made, Held, Occupied
<1>6. ASSUME NEW w \in Worker, AdapterReturns(w) PROVE InOnePlace'
  <2>1. task[w] \in Task /\ Made(task[w]) /\ Held(task[w])
    BY <1>6 DEF AdapterReturns, Shape, Occupied, InOnePlace, Held
  <2>2. /\ UNCHANGED <<tasks, made, results, task>>
        /\ pc'[w] = "reporting" /\ pc[w] = "calling" /\ \A v \in Worker \ {w} : pc'[v] = pc[v]
        /\ outcome'[task[w]] # "none"
        /\ \A t \in Task \ {task[w]} : outcome'[t] = outcome[t]
    BY <1>6, <2>1 DEF AdapterReturns, producer, Shape, TypeOK
  <2>3. \A v \in Worker \ {w} : pc[v] \in Occupied => task[v] \in Task \ {task[w]}
    BY <2>1, TaskFacts DEF InOnePlace, Shape
  <2>4. \A t : (Held(t)' <=> Held(t)) /\ (Made(t)' <=> Made(t))
    BY <2>2 DEF Held, Made
  <2>5. \A t \in Task :
           /\ Among(t, tasks') => Made(t)' /\ outcome'[t] = "none" /\ ~Held(t)'
           /\ Among(t, results') => outcome'[t] # "none" /\ ~Held(t)'
           /\ outcome'[t] # "none" => Made(t)'
    BY <2>1, <2>2, <2>4 DEF InOnePlace
  <2>6. (\A x \in Worker : pc[x] \in Occupied =>
           Made(task[x]) /\ (outcome[task[x]] # "none") = (pc[x] = "reporting"))'
    BY <2>1, <2>2, <2>3, <2>4 DEF InOnePlace
  <2>7. QED
    BY <2>2, <2>5, <2>6 DEF InOnePlace
<1>7. ASSUME NEW w \in Worker, Report(w) PROVE InOnePlace'
  <2>1. task[w] \in Task /\ Held(task[w]) /\ outcome[task[w]] # "none" /\ ~Among(task[w], results)
    BY <1>7 DEF Report, Shape, Occupied, InOnePlace, Held
  <2>2. UNCHANGED <<tasks, made, outcome>>
    BY <1>7 DEF Report, producer
  <2>3. /\ pc'[w] \notin Occupied /\ task'[w] = NoTask
        /\ \A v \in Worker \ {w} : pc'[v] = pc[v] /\ task'[v] = task[v]
        /\ \A t \in Task : Held(t)' <=> Held(t) /\ t # task[w]
    BY <1>7, LetGo DEF Report, Release
  <2>4. Distinct(results') /\ \A t : Among(t, results') => Among(t, results) \/ t = task[w]
    <3>1. CASE results' = Append(results, task[w])
      BY <2>1, <3>1, AppendFacts DEF InOnePlace, Shape, TypeOK
    <3>2. CASE results' = results
      BY <3>2 DEF InOnePlace
    <3>3. QED
      BY <1>7, <3>1, <3>2 DEF Report
  <2>5. \A t : Made(t)' <=> Made(t)
    BY <2>2 DEF Made
  <2>6. QED
    BY <2>1, <2>2, <2>3, <2>4, <2>5 DEF InOnePlace
<1>8. CASE TakeResult
  <2>1. UNCHANGED <<tasks, made, outcome, task, pc>>
    BY <1>8 DEF TakeResult, producer, workers
  <2>2. Distinct(results') /\ \A t : Among(t, results') => Among(t, results)
    BY <1>8, TailFacts DEF TakeResult, InOnePlace, Shape, TypeOK
  <2>3. QED
    BY <2>1, <2>2 DEF InOnePlace, Made, Held
<1>9. CASE Cancel \/ StopProducing \/ CloseResults \/ SendJob \/ DropJobs \/ CloseIncoming \/ Return
           \/ ProcessJob \/ EndProcessing \/ Terminated \/ UNCHANGED vars
  <2>1. UNCHANGED <<tasks, results, task, pc, made, outcome>>
    BY <1>9 DEF Cancel, StopProducing, CloseResults, SendJob, DropJobs, CloseIncoming, Return,
           ProcessJob, EndProcessing, Terminated, vars, producer, workers
  <2>2. QED
    BY <1>1, <2>1
<1>10. QED
  BY <1>2, <1>3, <1>4, <1>5, <1>6, <1>7, <1>8, <1>9 DEF Next, Work, Gather
-----------------------------------------------------------------------------
\* No task is lost.

LEMMA NoneLostInit == Init => NoneIsLost
<1> SUFFICES ASSUME Init PROVE NoneIsLost
  OBVIOUS
<1>1. \A t \in Task : ~Made(t)
  BY TaskFacts, LimitAssumption DEF Init, Made
<1>2. QED
  BY <1>1 DEF Init, NoneIsLost

\* Steps that neither emit a task nor move one.
LEMMA NoneLostStay ==
    ASSUME NoneIsLost, canceled => canceled', UNCHANGED <<producing, made, tasks, pc, task, outcome>>
    PROVE  NoneIsLost'
BY DEF NoneIsLost, Waiting, Unfinished, Among, Held, Made

LEMMA NoneLostStep == Shape /\ InOnePlace /\ NoneIsLost /\ [Next]_vars => NoneIsLost'
<1> SUFFICES ASSUME Shape, InOnePlace, NoneIsLost, [Next]_vars, ~canceled' PROVE NoneIsLost'
  BY DEF NoneIsLost
<1>1. CASE Cancel \/ CloseResults \/ Gather \/ ProcessJob \/ EndProcessing \/ Terminated \/ UNCHANGED vars
  <2>1. (canceled => canceled') /\ UNCHANGED <<producing, made, tasks, pc, task, outcome>>
    BY <1>1 DEF Cancel, CloseResults, Gather, TakeResult, SendJob, DropJobs, CloseIncoming, Return,
           ProcessJob, EndProcessing, Terminated, vars, producer, workers
  <2>2. QED
    BY <2>1, NoneLostStay
<1>2. CASE Produce
  <2>1. PICK i \in Waiting : \E j \in Unfinished(Providers[i]) :
          /\ tasks' = Append(tasks, [source |-> Sources[Providers[i]][j], n |-> made[Sources[Providers[i]][j]] + 1])
          /\ made' = [made EXCEPT ![Sources[Providers[i]][j]] = @ + 1]
    BY <1>2 DEF Produce, FirstFrom
  <2>2. PICK j \in Unfinished(Providers[i]) :
          /\ tasks' = Append(tasks, [source |-> Sources[Providers[i]][j], n |-> made[Sources[Providers[i]][j]] + 1])
          /\ made' = [made EXCEPT ![Sources[Providers[i]][j]] = @ + 1]
    BY <2>1
  <2>3. PICK s \in Source : s = Sources[Providers[i]][j] /\ made[s] + 1 \in 1..TasksOf[s]
    BY NextTask DEF Shape
  <2>4. PICK t \in Task : t = [source |-> s, n |-> made[s] + 1]
    BY <2>3, TaskFacts
  <2>5. \A u : Among(u, tasks') <=> Among(u, tasks) \/ u = t
    BY SMTT(60), <2>2, <2>3, <2>4, AppendFacts DEF Shape, TypeOK
  <2>6. \A u \in Task : Made(u)' => Made(u) \/ u = t
    <3>1. made' = [made EXCEPT ![s] = made[s] + 1] /\ made \in [Source -> Nat]
      BY <2>2, <2>3 DEF Shape, TypeOK
    <3>2. \A u \in Task : u.source = s /\ u.n = made[s] + 1 => u = t
      BY <2>4, TaskFacts
    <3>3. QED
      BY SMTT(60), <2>3, <3>1, <3>2, TaskFacts, LimitAssumption DEF Made
  <2>7. producing /\ producing' /\ UNCHANGED <<canceled, task, pc, outcome>>
    BY <1>2 DEF Produce, workers
  <2>8. QED
    BY <2>5, <2>6, <2>7 DEF NoneIsLost, Held
<1>3. CASE StopProducing
  BY <1>3 DEF StopProducing, NoneIsLost, workers, Waiting, Unfinished, Made, Held
<1>4. ASSUME NEW w \in Worker, TakeTask(w) PROVE NoneIsLost'
  <2>1. ~canceled /\ UNCHANGED <<producing, made, outcome>>
    BY <1>4 DEF TakeTask, producer
  <2>2. PICK h \in Task : h = Head(tasks) /\ \A t : Among(t, tasks) <=> Among(t, tasks') \/ t = h
    BY <1>4, TailFacts DEF TakeTask, Shape, TypeOK
  <2>3. /\ pc'[w] = "provider" /\ task'[w] = h /\ task[w] = NoTask
        /\ \A v \in Worker \ {w} : pc'[v] = pc[v] /\ task'[v] = task[v]
    BY <1>4, <2>1, <2>2 DEF TakeTask, Shape, TypeOK, Occupied
  <2>4. \A t \in Task : Held(t) \/ t = h => Held(t)'
    BY <2>3, TaskFacts DEF Held
  <2>5. QED
    BY <1>4, <2>1, <2>2, <2>3, <2>4 DEF TakeTask, NoneIsLost, Waiting, Unfinished, Made
<1>5. ASSUME NEW w \in Worker, StopWorking(w) PROVE NoneIsLost'
  <2>1. /\ ~canceled /\ tasks = <<>> /\ ~producing
        /\ UNCHANGED <<producing, made, tasks, outcome>>
    BY <1>5 DEF StopWorking, producer
  <2>2. task[w] = NoTask /\ task'[w] = NoTask /\ \A v \in Worker \ {w} : task'[v] = task[v]
    BY <1>5 DEF StopWorking, Leave, Shape, TypeOK, Occupied
  <2>3. \A t \in Task : Held(t)' <=> Held(t)
    BY <2>2 DEF Held
  <2>4. QED
    BY <2>1, <2>3 DEF NoneIsLost, Waiting, Unfinished, Made
<1>6. ASSUME NEW w \in Worker, AcquireProvider(w) \/ AcquireGlobal(w) \/ AdapterReturns(w) \/ GiveUp(w) PROVE NoneIsLost'
  <2>1. ~canceled /\ UNCHANGED <<producing, made, tasks, task>>
    BY <1>6 DEF AcquireProvider, AcquireGlobal, AdapterReturns, GiveUp, producer
  <2>2. pc'[w] # "returned" /\ \A v \in Worker \ {w} : pc'[v] = pc[v]
    BY <1>6, <2>1 DEF AcquireProvider, AcquireGlobal, AdapterReturns, GiveUp, Shape, TypeOK
  <2>3. \A t \in Task : outcome[t] # "none" => outcome'[t] # "none"
    BY <1>6, <2>1 DEF AcquireProvider, AcquireGlobal, AdapterReturns, GiveUp, Shape, TypeOK
  <2>4. QED
    BY <2>1, <2>2, <2>3 DEF NoneIsLost, Waiting, Unfinished, Made, Held
<1>7. ASSUME NEW w \in Worker, Report(w) PROVE NoneIsLost'
  <2>1. ~canceled /\ UNCHANGED <<producing, made, tasks, outcome>>
    BY <1>7 DEF Report, producer
  <2>2. outcome[task[w]] # "none"
    BY <1>7 DEF Report, InOnePlace, Occupied
  <2>3. /\ pc'[w] = "select" /\ \A v \in Worker \ {w} : pc'[v] = pc[v]
        /\ \A t \in Task : Held(t)' <=> Held(t) /\ t # task[w]
    BY <1>7, <2>1, LetGo DEF Report, Release, Shape, TypeOK
  <2>4. QED
    BY <2>1, <2>2, <2>3 DEF NoneIsLost, Waiting, Unfinished, Made
<1>8. QED
  BY <1>1, <1>2, <1>3, <1>4, <1>5, <1>6, <1>7 DEF Next, Work
-----------------------------------------------------------------------------
\* Jobs are counted.

LEMMA SentType == ASSUME Shape, NEW t \in Task PROVE Sent(t) \in Nat
<1>1. received[t] \in Nat /\ rest.left \in Nat /\ Times(t, incoming) \in Nat
  BY TimesType DEF Shape, TypeOK
<1>2. QED
  BY <1>1 DEF Sent

LEMMA CountInit == Init => JobsAreCounted
<1> SUFFICES ASSUME Init, NEW t \in Task PROVE Counted(t)
  BY DEF JobsAreCounted
<1>1. received[t] = 0 /\ Times(t, incoming) = 0 /\ rest.task # t /\ outcome[t] = "none"
  BY TimesEmpty, TaskFacts DEF Init, Nothing
<1>2. Sent(t) = 0 /\ JobsOf[t.source] \in Nat
  BY <1>1, TaskFacts, LimitAssumption DEF Sent
<1>3. QED
  BY <1>1, <1>2 DEF Counted, Pending

\* Steps that hand no job of t over, nor take one.
LEMMA CountStays ==
    ASSUME NEW t \in Task, Counted(t), Sent(t)' = Sent(t), rest.task # t => rest'.task # t,
           canceled => canceled', stage' \in {"running", "done"} => stage \in {"running", "done"},
           Pending(t)' => Pending(t), Pending(t) /\ ~canceled' => Pending(t)', outcome'[t] = outcome[t] \/ Pending(t)'
    PROVE  Counted(t)'
BY DEF Counted

\* Worker steps: only a canceled run forgets that a result is still to come.
LEMMA WorkKeepsCount ==
    ASSUME Shape, InOnePlace, NEW w \in Worker, Work(w), NEW t \in Task
    PROVE  /\ Pending(t)' => Pending(t)
           /\ Pending(t) /\ ~canceled => Pending(t)'
           /\ outcome'[t] = outcome[t] \/ Pending(t)'
<1> DEFINE Goal == /\ Pending(t)' => Pending(t)
                   /\ Pending(t) /\ ~canceled => Pending(t)'
                   /\ outcome'[t] = outcome[t] \/ Pending(t)'
<1>1. CASE TakeTask(w)
  <2>1. PICK h \in Task : h = Head(tasks) /\ outcome[h] = "none"
    BY <1>1, TailFacts DEF TakeTask, Shape, TypeOK, InOnePlace
  <2>2. /\ task[w] = NoTask /\ task'[w] \in {NoTask, h}
        /\ \A v \in Worker \ {w} : task'[v] = task[v]
        /\ UNCHANGED <<results, outcome>>
    BY <1>1, <2>1 DEF TakeTask, Leave, Shape, TypeOK, Occupied
  <2>3. (Held(t)' => Held(t) \/ t = h) /\ (Held(t) => Held(t)')
    BY <2>2, TaskFacts DEF Held
  <2>4. QED
    BY <2>1, <2>2, <2>3 DEF Pending
<1>2. CASE StopWorking(w)
  <2>1. /\ task[w] = NoTask /\ task'[w] = NoTask
        /\ \A v \in Worker \ {w} : task'[v] = task[v]
        /\ UNCHANGED <<results, outcome>>
    BY <1>2 DEF StopWorking, Leave, Shape, TypeOK, Occupied
  <2>2. Held(t)' <=> Held(t)
    BY <2>1 DEF Held
  <2>3. QED
    BY <2>1, <2>2 DEF Pending
<1>3. CASE AcquireProvider(w) \/ AcquireGlobal(w)
  BY <1>3 DEF AcquireProvider, AcquireGlobal, Pending, Held
<1>4. CASE GiveUp(w)
  <2>1. outcome[task[w]] = "none" /\ UNCHANGED <<results, outcome>>
    BY <1>4 DEF GiveUp, InOnePlace, Occupied
  <2>2. Held(t)' <=> Held(t) /\ t # task[w]
    BY <1>4, LetGo DEF GiveUp
  <2>3. QED
    BY <2>1, <2>2 DEF Pending
<1>5. CASE AdapterReturns(w)
  <2>1. task[w] \in Task /\ Held(task[w]) /\ UNCHANGED <<results, task>>
    BY <1>5 DEF AdapterReturns, Shape, Occupied, Held
  <2>2. t # task[w] => outcome'[t] = outcome[t]
    BY <1>5 DEF AdapterReturns, Shape, TypeOK
  <2>3. Held(t)' <=> Held(t)
    BY <2>1 DEF Held
  <2>4. QED
    BY <2>1, <2>2, <2>3 DEF Pending
<1>6. CASE Report(w)
  <2>1. task[w] \in Task /\ Held(task[w]) /\ outcome' = outcome
    BY <1>6 DEF Report, Shape, Occupied, Held
  <2>2. Held(t)' <=> Held(t) /\ t # task[w]
    BY <1>6, LetGo DEF Report, Release
  <2>3. CASE results' = Append(results, task[w])
    <3>1. Among(t, results') <=> Among(t, results) \/ t = task[w]
      BY <2>1, <2>3, AppendFacts DEF Shape, TypeOK
    <3>2. QED
      BY <2>1, <2>2, <3>1 DEF Pending
  <2>4. CASE canceled /\ results' = results
    BY <2>1, <2>2, <2>4 DEF Pending
  <2>5. QED
    BY <1>6, <2>3, <2>4 DEF Report
<1>7. QED
  BY <1>1, <1>2, <1>3, <1>4, <1>5, <1>6 DEF Work

LEMMA CountStep == Shape /\ Shape' /\ InOnePlace /\ JobsAreCounted /\ [Next]_vars => JobsAreCounted'
<1> SUFFICES ASSUME Shape, Shape', InOnePlace, JobsAreCounted, [Next]_vars, NEW t \in Task PROVE Counted(t)'
  BY DEF JobsAreCounted
<1>1. Counted(t) /\ Sent(t) \in Nat /\ JobsOf[t.source] \in Nat /\ t # NoTask
  BY SentType, TaskFacts, LimitAssumption DEF JobsAreCounted
<1>2. CASE Cancel \/ Produce \/ StopProducing \/ CloseResults \/ CloseIncoming \/ Return \/ EndProcessing
           \/ Terminated \/ UNCHANGED vars
  <2>1. /\ UNCHANGED <<task, results, outcome, received, incoming, rest>> /\ (canceled => canceled')
        /\ stage' \in {"running", "done"} => stage \in {"running", "done"}
    BY <1>2 DEF Cancel, Produce, StopProducing, CloseResults, CloseIncoming, Return, EndProcessing,
           Terminated, vars, workers
  <2>2. Sent(t)' = Sent(t) /\ (Pending(t)' <=> Pending(t))
    BY <2>1 DEF Sent, Pending, Held
  <2>3. QED
    BY <1>1, <2>1, <2>2, CountStays
<1>3. ASSUME NEW w \in Worker, Work(w) PROVE Counted(t)'
  <2>1. UNCHANGED <<canceled, received, incoming, rest, stage>>
    BY <1>3 DEF Work, TakeTask, StopWorking, AcquireProvider, AcquireGlobal, GiveUp, AdapterReturns, Report
  <2>2. Sent(t)' = Sent(t)
    BY <2>1 DEF Sent
  <2>3. QED
    BY <1>1, <1>3, <2>1, <2>2, WorkKeepsCount, CountStays
<1>4. CASE TakeResult
  <2>1. PICK h \in Task : /\ h = Head(results)
                          /\ \A u : Among(u, results) <=> Among(u, results') \/ u = h
                          /\ ~Among(h, results')
    BY <1>4, TailFacts DEF TakeResult, Shape, TypeOK, InOnePlace
  <2>2. /\ rest = Nothing /\ UNCHANGED <<canceled, task, outcome, received, incoming, stage>>
        /\ Resume([task |-> h, left |-> IF outcome[h] = "error" THEN 0 ELSE JobsOf[h.source]])
    BY <1>4, <2>1 DEF TakeResult, Shape, workers
  <2>3. Held(t)' <=> Held(t)
    BY <2>2 DEF Held
  <2>4. rest' = Nothing \/ rest' = [task |-> h, left |-> IF outcome[h] = "error" THEN 0 ELSE JobsOf[h.source]]
    BY <2>2 DEF Resume
  <2>5. rest.task # t
    BY <1>1, <2>2 DEF Nothing
  <2>6. CASE t # h
    <3>1. rest'.task # t
      BY <1>1, <2>4, <2>6 DEF Nothing
    <3>2. Sent(t)' = Sent(t)
      BY <2>2, <2>5, <3>1 DEF Sent
    <3>3. Pending(t)' <=> Pending(t)
      BY <2>1, <2>2, <2>3, <2>6 DEF Pending
    <3>4. QED
      BY <1>1, <2>2, <3>1, <3>2, <3>3, CountStays
  <2>7. CASE t = h
    <3>1. Pending(t) /\ ~Pending(t)' /\ outcome[t] \in {"jobs", "error"}
      BY <2>1, <2>2, <2>3, <2>7 DEF Pending, InOnePlace, Shape, TypeOK
    <3>2. received[t] + Times(t, incoming) = 0
      <4>1. received[t] \in Nat /\ Times(t, incoming) \in Nat
        BY TimesType DEF Shape, TypeOK
      <4>2. Sent(t) = received[t] + Times(t, incoming)
        BY <2>5, <4>1 DEF Sent
      <4>3. QED
        BY <1>1, <3>1, <4>2 DEF Counted
    <3>3. Sent(t)' = IF rest'.task = t THEN rest'.left ELSE 0
      BY <2>2, <3>2 DEF Sent, Shape, TypeOK
    <3>4. CASE rest' = Nothing
      <4>1. Sent(t)' = 0
        BY <1>1, <3>3, <3>4 DEF Nothing
      <4>2. canceled \/ outcome[t] = "error" \/ JobsOf[t.source] = 0
        <5>1. [task |-> h, left |-> IF outcome[h] = "error" THEN 0 ELSE JobsOf[h.source]] # Nothing
          BY <1>1, <2>7 DEF Nothing
        <5>2. QED
          BY <2>2, <2>7, <3>4, <5>1 DEF Resume
      <4>3. QED
        BY <1>1, <2>2, <3>1, <4>1, <4>2 DEF Counted
    <3>5. CASE rest' = [task |-> h, left |-> IF outcome[h] = "error" THEN 0 ELSE JobsOf[h.source]]
      <4>1. Sent(t)' = IF outcome[t] = "error" THEN 0 ELSE JobsOf[t.source]
        BY <2>7, <3>3, <3>5
      <4>2. QED
        BY <1>1, <2>2, <3>1, <4>1 DEF Counted
    <3>6. QED
      BY <2>4, <3>4, <3>5
  <2>8. QED
    BY <2>6, <2>7
<1>5. CASE SendJob
  <2>1. PICK h \in Task : h = rest.task /\ incoming' = Append(incoming, h) /\ rest.left > 0 /\ rest.left \in Nat
    BY <1>5 DEF SendJob, Shape, TypeOK
  <2>2. UNCHANGED <<canceled, task, outcome, received, results, stage>>
    BY <1>5 DEF SendJob, workers
  <2>3. Pending(t)' <=> Pending(t)
    BY <2>2 DEF Pending, Held
  <2>4. Times(t, incoming)' = Times(t, incoming) + IF t = h THEN 1 ELSE 0
    BY <2>1, TimesAppend DEF Shape
  <2>5. rest' = Nothing \/ (rest'.task = h /\ rest'.left = rest.left - 1)
    BY <1>5, <2>1 DEF SendJob, Resume, Shape, TypeOK
  <2>6. rest'.left = 0 /\ rest'.task = NoTask => canceled \/ rest.left = 1
    BY <1>5, <2>1, TaskFacts DEF SendJob, Resume, Shape, TypeOK, Nothing
  <2>7. received[t] \in Nat /\ Times(t, incoming) \in Nat
    BY TimesType DEF Shape, TypeOK
  <2>8. CASE t # h
    <3>1. rest'.task # t /\ rest.task # t
      BY <1>1, <2>1, <2>5, <2>8 DEF Nothing
    <3>2. Sent(t)' = Sent(t)
      <4>1. Times(t, incoming)' = Times(t, incoming)
        BY <2>4, <2>7, <2>8
      <4>2. QED
        BY <2>2, <3>1, <4>1 DEF Sent
    <3>3. QED
      BY <1>1, <2>2, <2>3, <3>1, <3>2, CountStays
  <2>9. CASE t = h /\ rest'.task = h /\ rest'.left = rest.left - 1
    <3>1. Sent(t) = received[t] + Times(t, incoming) + rest.left
      BY <2>1, <2>9 DEF Sent
    <3>2. Times(t, incoming)' = Times(t, incoming) + 1
      BY <2>4, <2>9
    <3>3. Sent(t)' = received[t] + Times(t, incoming)' + (rest.left - 1)
      BY <2>2, <2>9 DEF Sent
    <3>4. Sent(t)' = Sent(t)
      <4>1. Sent(t)' = received[t] + (Times(t, incoming) + 1) + (rest.left - 1)
        BY <3>2, <3>3
      <4>2. rest.left \in Nat
        BY <2>1
      <4>3. QED
        BY <2>7, <3>1, <4>1, <4>2
    <3>5. QED
      BY <1>1, <2>1, <2>2, <2>3, <2>9, <3>4, CountStays
  <2>10. CASE t = h /\ rest' = Nothing
    <3>1. Sent(t)' = received[t] + Times(t, incoming) + 1 /\ Sent(t) = received[t] + Times(t, incoming) + rest.left
      BY <1>1, <2>1, <2>2, <2>4, <2>7, <2>10 DEF Sent, Nothing
    <3>2. canceled \/ rest.left = 1
      BY <2>6, <2>10 DEF Nothing
    <3>3. ~Pending(t)
      BY <1>1, <2>1, <2>10 DEF Counted
    <3>4. Sent(t)' <= JobsOf[t.source] /\ (~canceled => Sent(t)' = Sent(t))
      BY <1>1, <2>1, <2>7, <3>1, <3>2 DEF Counted
    <3>5. QED
      BY <1>1, <2>2, <2>3, <3>3, <3>4 DEF Counted
  <2>11. QED
    BY <2>5, <2>8, <2>9, <2>10
<1>6. CASE DropJobs
  <2>1. canceled /\ rest' = Nothing /\ UNCHANGED <<canceled, task, outcome, received, results, incoming, stage>>
    BY <1>6 DEF DropJobs, Resume, workers
  <2>2. Pending(t)' <=> Pending(t)
    BY <2>1 DEF Pending, Held
  <2>3. rest'.task # t
    BY <1>1, <2>1 DEF Nothing
  <2>4. Sent(t)' <= Sent(t) /\ Sent(t)' \in Nat
    <3>1. rest.left \in Nat /\ received[t] \in Nat /\ Times(t, incoming) \in Nat
      BY TimesType DEF Shape, TypeOK
    <3>2. QED
      BY <2>1, <2>3, <3>1 DEF Sent
  <2>5. QED
    BY <1>1, <2>1, <2>2, <2>3, <2>4 DEF Counted
<1>7. CASE ProcessJob
  <2>1. PICK h \in Task : h = Head(incoming) /\ incoming # <<>> /\ incoming' = Tail(incoming)
    BY <1>7, TailFacts DEF ProcessJob, Shape
  <2>2. UNCHANGED <<canceled, task, outcome, results, rest>>
    BY <1>7 DEF ProcessJob, workers
  <2>3. Pending(t)' <=> Pending(t)
    BY <2>2 DEF Pending, Held
  <2>4. Times(t, incoming) = Times(t, incoming)' + IF t = h THEN 1 ELSE 0
    BY <2>1, TimesTail DEF Shape
  <2>5. received[t] \in Nat /\ Times(t, incoming) \in Nat /\ Times(t, incoming)' \in Nat /\ rest.left \in Nat
    BY TimesType DEF Shape, TypeOK
  <2>6. CASE received' = [received EXCEPT ![h] = @ + 1] /\ stage' = stage
    <3>1. received'[t] = received[t] + IF t = h THEN 1 ELSE 0
      BY SMTT(60), <2>6 DEF Shape, TypeOK
    <3>2. Sent(t)' = Sent(t)
      BY <2>2, <2>4, <2>5, <3>1 DEF Sent
    <3>3. QED
      BY <1>1, <2>2, <2>3, <2>6, <3>2, CountStays
  <2>7. CASE stage' = "failed" /\ received' = received
    <3>1. Sent(t)' <= Sent(t) /\ Sent(t)' \in Nat
      BY <2>2, <2>4, <2>5, <2>7 DEF Sent
    <3>2. QED
      BY <1>1, <2>2, <2>3, <2>7, <3>1 DEF Counted
  <2>8. QED
    BY <1>7, <2>1, <2>6, <2>7 DEF ProcessJob
<1>8. QED
  BY <1>2, <1>3, <1>4, <1>5, <1>6, <1>7 DEF Next, Gather
-----------------------------------------------------------------------------
\* The theorems.

LEMMA Invariance == Spec => []IInv
<1>1. Init => IInv
  BY ShapeInit, SlotsInit, EndInit, PlaceInit, NoneLostInit, CountInit DEF IInv
<1>2. IInv /\ [Next]_vars => IInv'
  <2> SUFFICES ASSUME IInv, [Next]_vars PROVE IInv'
    OBVIOUS
  <2>1. Shape' /\ SlotsAreHeld' /\ EndsInOrder' /\ InOnePlace' /\ NoneIsLost'
    BY ShapeStep, SlotsStep, EndStep, PlaceStep, NoneLostStep DEF IInv
  <2>2. JobsAreCounted'
    BY <2>1, CountStep DEF IInv
  <2>3. QED
    BY <2>1, <2>2 DEF IInv
<1>3. QED
  BY <1>1, <1>2, PTL DEF Spec

\* The queues never hold more than the code gives them room for, and every goroutine is
\* where runWithConcurrency can be.
THEOREM TypeCorrect == Spec => []TypeOK
<1>1. IInv => TypeOK
  BY DEF IInv, Shape
<1>2. QED
  BY <1>1, Invariance, PTL

\* However many adapters, workers and cancellations there are, nobody is called beyond the
\* limits: those who call are among those that the semaphores count, slot by slot.
THEOREM BudgetIsKept == Spec => []WithinBudget
<1>1. IInv => WithinBudget
  <2> SUFFICES ASSUME IInv PROVE WithinBudget
    OBVIOUS
  <2>1. 1 \in Worker
    BY LimitAssumption DEF Worker
  <2>2. Calling(Provider) \subseteq Called /\ \A p \in Provider : Calling({p}) \subseteq Admitted(p)
    BY DEF Calling, Called, Admitted
  <2>3. IsFiniteSet(Called) /\ \A p \in Provider : IsFiniteSet(Admitted(p))
    BY <2>1, SlotsAreTaken DEF IInv
  <2>4. Cardinality(Calling(Provider)) <= Cardinality(Called) /\ Cardinality(Calling(Provider)) \in Nat
    BY <2>2, <2>3, FS_Subset, FS_CardinalityType
  <2>5. ASSUME NEW p \in Provider PROVE Cardinality(Calling({p})) <= ProviderLimit(p)
    <3>1. Cardinality(Calling({p})) <= Cardinality(Admitted(p)) /\ Cardinality(Calling({p})) \in Nat
      BY <2>2, <2>3, FS_Subset, FS_CardinalityType
    <3>2. Cardinality(Admitted(p)) \in Nat /\ Cardinality(Admitted(p)) <= ProviderLimit(p) /\ ProviderLimit(p) \in Nat
      BY <2>3, FS_CardinalityType, LimitFacts DEF IInv, SlotsAreHeld
    <3>3. QED
      BY <3>1, <3>2
  <2>6. Cardinality(Called) \in Nat /\ Cardinality(Called) <= MaxConcurrency /\ MaxConcurrency \in Nat
    BY <2>3, FS_CardinalityType, LimitAssumption DEF IInv, SlotsAreHeld
  <2>7. QED
    BY <2>4, <2>5, <2>6 DEF WithinBudget
<1>2. QED
  BY <1>1, Invariance, PTL

\* A run that returns success has called every adapter task, and every job that came back
\* was taken by the processing stage once.
THEOREM SuccessMeansAll == Spec => []SuccessIsComplete
<1>1. IInv => SuccessIsComplete
  <2> SUFFICES ASSUME IInv PROVE SuccessIsComplete
    OBVIOUS
  <2>1. ASSUME NEW t \in Task PROVE received[t] <= JobsOf[t.source] /\ received[t] \in Nat /\ JobsOf[t.source] \in Nat
    <3>1. received[t] \in Nat /\ Times(t, incoming) \in Nat /\ rest.left \in Nat /\ JobsOf[t.source] \in Nat
      BY TimesType, TaskFacts, LimitAssumption DEF IInv, Shape, TypeOK
    <3>2. Sent(t) <= JobsOf[t.source]
      BY DEF IInv, JobsAreCounted, Counted
    <3>3. QED
      BY <3>1, <3>2 DEF Sent
  <2>2. ASSUME gather = "ok", NEW t \in Task
        PROVE  outcome[t] # "none" /\ (outcome[t] = "jobs" => received[t] = JobsOf[t.source])
    <3>1. ~canceled /\ stage = "done" /\ Finished /\ results = <<>> /\ incoming = <<>> /\ rest.task # t
      BY <2>2, TaskFacts DEF IInv, EndsInOrder, Gathered, Shape, Nothing
    <3>2. ~Held(t)
      BY <3>1, TaskFacts DEF Finished, IInv, Shape, Held, Occupied
    <3>3. tasks = <<>> /\ Waiting = {}
      <4>1. 1 \in Worker
        BY LimitAssumption DEF Worker
      <4>2. QED
        BY <3>1, <4>1 DEF IInv, NoneIsLost, Finished
    <3>4. Made(t)
      <4>1. PICK p \in Provider : t.source \in SourcesOf(p)
        BY TaskFacts DEF Source
      <4>2. PICK i \in DOMAIN Providers : p = Providers[i]
        BY DEF Provider
      <4>3. PICK j \in DOMAIN Sources[p] : t.source = Sources[p][j]
        BY <4>1 DEF SourcesOf
      <4>4. ~(made[t.source] < TasksOf[t.source])
        BY <3>3, <4>2, <4>3 DEF Waiting, Unfinished
      <4>5. made[t.source] \in Nat /\ TasksOf[t.source] \in Nat /\ t.n \in 1..TasksOf[t.source]
        BY TaskFacts, LimitAssumption DEF IInv, Shape, TypeOK
      <4>6. QED
        BY <4>4, <4>5 DEF Made
    <3>5. outcome[t] # "none"
      BY <3>1, <3>2, <3>3, <3>4, TimesEmpty DEF IInv, NoneIsLost
    <3>6. ~Pending(t)
      BY <3>1, <3>2, <3>5, TimesEmpty DEF Pending
    <3>7. Sent(t) = received[t]
      <4>1. Times(t, incoming) = 0
        BY <3>1, TimesEmpty
      <4>2. QED
        BY <2>1, <3>1, <4>1 DEF Sent
    <3>8. QED
      BY <3>1, <3>5, <3>6, <3>7 DEF IInv, JobsAreCounted, Counted
  <2>3. QED
    BY <2>1, <2>2 DEF SuccessIsComplete
<1>2. QED
  BY <1>1, Invariance, PTL

\* When a run returns, canceled or not, no goroutine of it can call an adapter any more and
\* every slot is back.
THEOREM RunLeavesNothing == Spec => []NothingOutlivesRun
<1>1. IInv => NothingOutlivesRun
  <2> SUFFICES ASSUME IInv, gather \in {"ok", "error"}
               PROVE  /\ Finished /\ ~open
                      /\ global = 0 /\ \A p \in Provider : permits[p] = 0
                      /\ results = <<>> /\ incoming = <<>>
    BY DEF NothingOutlivesRun
  <2>1. Finished /\ ~open /\ results = <<>> /\ incoming = <<>>
    BY DEF IInv, EndsInOrder, Gathered
  <2>2. Called = {} /\ \A p \in Provider : Admitted(p) = {}
    BY <2>1 DEF Finished, Called, Admitted
  <2>3. QED
    BY <2>1, <2>2, FS_EmptySet DEF IInv, SlotsAreHeld
<1>2. QED
  BY <1>1, Invariance, PTL
=============================================================================
