----------------------------- MODULE Collection -----------------------------
(***************************************************************************)
(* One collection run of scraper-go (internal/pipeline): the producer of   *)
(* adapter tasks, its workers with their provider and global permits, the  *)
(* goroutine that hands results to the processing stage, the one that      *)
(* closes the results, and the processing stage seen from its input queue. *)
(*                                                                         *)
(* The context of the run may be canceled at any moment.  A check of the   *)
(* context belongs to the step before it: a cancellation that comes after  *)
(* the check finds the goroutine in its select, where either arm may win.  *)
(* What the processing stage does with a job is in ProcessStage.           *)
(***************************************************************************)
EXTENDS Integers, Sequences, FiniteSets, FiniteSetsExt, Functions

CONSTANTS Providers,       \* the providers, in the order of the adapter list
          Sources,         \* Sources[p]: the adapters of p, in order
          TasksOf,         \* TasksOf[s]: keywords, or 1 for batch and catalog
          JobsOf,          \* JobsOf[s]: jobs that a successful call returns
          Fallible,        \* bound: the adapters whose calls may fail
          MaxConcurrency,  \* the global limit, and the number of workers
          DefaultLimit,    \* the provider limit without an override
          Overrides,       \* provider limits by provider
          IncomingCapacity \* stageQueueCapacity

Provider == {Providers[i] : i \in DOMAIN Providers}
SourcesOf(p) == {Sources[p][i] : i \in DOMAIN Sources[p]}
Source == UNION {SourcesOf(p) : p \in Provider}
ProviderOf(s) == CHOOSE p \in Provider : s \in SourcesOf(p)
Task == UNION {[source : {s}, n : 1..TasksOf[s]] : s \in Source}
Worker == 1..MaxConcurrency

ASSUME LimitAssumption ==
    /\ Providers \in Seq(DOMAIN Sources) /\ \A p \in Provider : Sources[p] \in Seq(DOMAIN TasksOf)
    /\ \A s \in Source : TasksOf[s] \in Nat /\ JobsOf[s] \in Nat
    /\ MaxConcurrency \in Nat \ {0} /\ DefaultLimit \in Nat \ {0}
    /\ \A p \in DOMAIN Overrides : Overrides[p] \in Nat \ {0}
    /\ IncomingCapacity \in Nat \ {0, 1}

QueueCapacity == 2 * MaxConcurrency

\* providerLimit: an override wins, and no provider exceeds the global limit.
ProviderLimit(p) ==
    Min({MaxConcurrency,
         IF p \in DOMAIN Overrides THEN Overrides[p] ELSE DefaultLimit})

VARIABLES
    canceled,   \* the context of the run
    made,       \* made[s]: how many tasks the producer has emitted for s
    turn,       \* turn.provider and turn.source[p]: whose turn it is
    producing,  \* the producer has not closed its queue
    tasks,      \* the channel of tasks
    pc, task,   \* each worker: where it is, and with which task
    permits,    \* permits[p]: slots taken of the semaphore of p
    global,     \* slots taken of the global semaphore
    results,    \* the channel of results
    open,       \* the results channel is not closed
    outcome,    \* what each adapter call came to
    gather,     \* the goroutine of the caller
    rest,       \* jobs of the current result still to hand over
    incoming,   \* the channel to the processing stage
    received,   \* received[t]: jobs of task t that the stage has taken
    stage       \* the processing stage

producer == <<made, turn, producing>>
workers == <<pc, task, permits, global, outcome>>
vars == <<canceled, made, turn, producing, tasks, pc, task, permits, global,
          results, open, outcome, gather, rest, incoming, received, stage>>

NoTask == [source |-> "none", n |-> 0]
Nothing == [task |-> NoTask, left |-> 0]

TypeOK ==
    /\ canceled \in BOOLEAN /\ producing \in BOOLEAN /\ open \in BOOLEAN
    /\ made \in [Source -> Nat]
    /\ turn \in [provider : Nat \ {0}, source : [Provider -> Nat \ {0}]]
    /\ tasks \in Seq(Task) /\ Len(tasks) <= QueueCapacity
    /\ pc \in [Worker -> {"select", "provider", "global", "calling",
                          "reporting", "returned"}]
    /\ task \in [Worker -> Task \cup {NoTask}]
    /\ permits \in [Provider -> Nat] /\ global \in Nat
    /\ results \in Seq(Task) /\ Len(results) <= QueueCapacity
    /\ outcome \in [Task -> {"none", "jobs", "error"}]
    /\ gather \in {"results", "sending", "waiting", "ok", "error"}
    /\ rest \in [task : Task \cup {NoTask}, left : Nat]
    /\ incoming \in Seq(Task \cup {NoTask}) /\ Len(incoming) <= IncomingCapacity
    /\ received \in [Task -> Nat]
    /\ stage \in {"running", "failed", "done", "broken"}

Init ==
    /\ canceled = FALSE
    /\ made = [s \in Source |-> 0]
    /\ turn = [provider |-> 1, source |-> [p \in Provider |-> 1]]
    /\ producing = TRUE
    /\ tasks = <<>>
    /\ pc = [w \in Worker |-> "select"]
    /\ task = [w \in Worker |-> NoTask]
    /\ permits = [p \in Provider |-> 0]
    /\ global = 0
    /\ results = <<>>
    /\ open = TRUE
    /\ outcome = [t \in Task |-> "none"]
    /\ gather = "results"
    /\ rest = Nothing
    /\ incoming = <<>>
    /\ received = [t \in Task |-> 0]
    /\ stage = "running"
-----------------------------------------------------------------------------
Cancel ==
    /\ ~canceled /\ gather \notin {"ok", "error"}
    /\ canceled' = TRUE
    /\ UNCHANGED <<producer, tasks, workers, results, open, gather, rest,
                   incoming, received, stage>>

\* The index that follows i in a cycle of n.
After(i, n) == IF i = n THEN 1 ELSE i + 1

\* The first index at or after i, in a cycle of n, that is in S.
FirstFrom(i, n, S) == {j \in S : \A k \in S : (j - i) % n <= (k - i) % n}

\* The sources of p with tasks left, and the providers with such sources.
Unfinished(p) == {i \in DOMAIN Sources[p] : made[Sources[p][i]] < TasksOf[Sources[p][i]]}
Waiting == {i \in DOMAIN Providers : Unfinished(Providers[i]) # {}}

\* One turn of the loop of produceTasks whose send goes through.  Providers
\* that have nothing left are passed over, and so are sources.
Produce ==
    /\ producing /\ Waiting # {} /\ Len(tasks) < QueueCapacity
    /\ \E i \in FirstFrom(turn.provider, Len(Providers), Waiting) :
         LET p == Providers[i] IN
         \E j \in FirstFrom(turn.source[p], Len(Sources[p]), Unfinished(p)) :
           LET s == Sources[p][j] IN
           /\ tasks' = Append(tasks, [source |-> s, n |-> made[s] + 1])
           /\ made' = [made EXCEPT ![s] = @ + 1]
           /\ turn' = [provider |-> After(i, Len(Providers)),
                       source |-> [turn.source EXCEPT ![p] = After(j, Len(Sources[p]))]]
    /\ producing' = ~canceled
    /\ UNCHANGED <<canceled, workers, results, open, gather, rest, incoming,
                   received, stage>>

\* Nothing left, or the context is done: the producer closes its queue.
StopProducing ==
    /\ producing
    /\ Waiting = {} \/ canceled
    /\ producing' = FALSE
    /\ UNCHANGED <<canceled, made, turn, tasks, workers, results, open, gather,
                   rest, incoming, received, stage>>
-----------------------------------------------------------------------------
\* Workers.

\* A worker's goroutine returns, for good.
Leave(w) ==
    /\ pc' = [pc EXCEPT ![w] = "returned"]
    /\ task' = [task EXCEPT ![w] = NoTask]

\* The worker takes a task; if the context is done by then, it drops it.
TakeTask(w) ==
    /\ pc[w] = "select" /\ tasks # <<>>
    /\ tasks' = Tail(tasks)
    /\ IF canceled
       THEN Leave(w)
       ELSE /\ pc' = [pc EXCEPT ![w] = "provider"]
            /\ task' = [task EXCEPT ![w] = Head(tasks)]
    /\ UNCHANGED <<canceled, producer, permits, global, results, open, outcome,
                   gather, rest, incoming, received, stage>>

\* The queue is closed and empty, or the context is done.
StopWorking(w) ==
    /\ pc[w] = "select"
    /\ canceled \/ (tasks = <<>> /\ ~producing)
    /\ Leave(w)
    /\ UNCHANGED <<canceled, producer, tasks, permits, global, results, open,
                   outcome, gather, rest, incoming, received, stage>>

\* The semaphores never make anyone wait.
UnlimitedAcquireProvider(w) ==
    LET p == ProviderOf(task[w].source)
    IN  /\ pc[w] = "provider" /\ ~canceled
        /\ permits' = [permits EXCEPT ![p] = @ + 1]
        /\ pc' = [pc EXCEPT ![w] = "global"]
        /\ UNCHANGED <<canceled, producer, tasks, task, global, results, open,
                       outcome, gather, rest, incoming, received, stage>>

\* A slot of the provider's semaphore, which goes back at once if the context
\* is done by then (that is GiveUp).
AcquireProvider(w) ==
    LET p == ProviderOf(task[w].source)
    IN  /\ pc[w] = "provider" /\ ~canceled
        /\ permits[p] < ProviderLimit(p)
        /\ permits' = [permits EXCEPT ![p] = @ + 1]
        /\ pc' = [pc EXCEPT ![w] = "global"]
        /\ UNCHANGED <<canceled, producer, tasks, task, global, results, open,
                       outcome, gather, rest, incoming, received, stage>>

\* A slot of the global semaphore, and the adapter is called.
AcquireGlobal(w) ==
    /\ pc[w] = "global" /\ ~canceled
    /\ global < MaxConcurrency
    /\ global' = global + 1
    /\ pc' = [pc EXCEPT ![w] = "calling"]
    /\ UNCHANGED <<canceled, producer, tasks, task, permits, results, open,
                   outcome, gather, rest, incoming, received, stage>>

\* GiveUp without giving the provider's slot back.
LeakyGiveUp(w) ==
    /\ pc[w] \in {"provider", "global"} /\ canceled
    /\ Leave(w)
    /\ UNCHANGED <<canceled, producer, tasks, permits, global, results, open,
                   outcome, gather, rest, incoming, received, stage>>

\* acquire returns the cancellation; the worker then leaves its loop.
GiveUp(w) ==
    /\ pc[w] \in {"provider", "global"} /\ canceled
    /\ permits' = IF pc[w] = "global"
                  THEN [permits EXCEPT ![ProviderOf(task[w].source)] = @ - 1]
                  ELSE permits
    /\ Leave(w)
    /\ UNCHANGED <<canceled, producer, tasks, global, results, open, outcome,
                   gather, rest, incoming, received, stage>>

\* The adapter returns its jobs, or an error.
AdapterReturns(w) ==
    /\ pc[w] = "calling"
    /\ \E o \in {"jobs", "error"} :
          /\ o = "error" => task[w].source \in Fallible
          /\ outcome' = [outcome EXCEPT ![task[w]] = o]
    /\ pc' = [pc EXCEPT ![w] = "reporting"]
    /\ UNCHANGED <<canceled, producer, tasks, task, permits, global, results,
                   open, gather, rest, incoming, received, stage>>

\* The deferred release of both permits, and the loop goes on.
Release(w) ==
    /\ global' = global - 1
    /\ permits' = [permits EXCEPT ![ProviderOf(task[w].source)] = @ - 1]
    /\ IF canceled
       THEN Leave(w)
       ELSE /\ pc' = [pc EXCEPT ![w] = "select"]
            /\ task' = [task EXCEPT ![w] = NoTask]

\* The worker sends its result, or drops it if the context is done.
Report(w) ==
    /\ pc[w] = "reporting"
    /\ \/ /\ Len(results) < QueueCapacity
          /\ results' = Append(results, task[w])
       \/ /\ canceled
          /\ UNCHANGED results
    /\ Release(w)
    /\ UNCHANGED <<canceled, producer, tasks, open, outcome, gather, rest,
                   incoming, received, stage>>

Work(w) ==
    \/ TakeTask(w) \/ StopWorking(w) \/ AcquireProvider(w) \/ AcquireGlobal(w)
    \/ GiveUp(w) \/ AdapterReturns(w) \/ Report(w)
-----------------------------------------------------------------------------
\* The goroutine that closes the results, and the caller, which gathers them.

Finished == ~producing /\ \A w \in Worker : pc[w] = "returned"

\* tasksWg.Wait, then close(results).
CloseResults ==
    /\ open /\ Finished
    /\ open' = FALSE
    /\ UNCHANGED <<canceled, producer, tasks, workers, results, gather, rest,
                   incoming, received, stage>>

\* Whether the caller still has a job of r to send; the context is checked
\* before each of them.
Resume(r) ==
    IF r.left = 0 \/ canceled
    THEN gather' = "results" /\ rest' = Nothing
    ELSE gather' = "sending" /\ rest' = r

TakeResult ==
    /\ gather = "results" /\ results # <<>>
    /\ results' = Tail(results)
    /\ LET t == Head(results)
       IN  Resume([task |-> t,
                   left |-> IF outcome[t] = "error" THEN 0 ELSE JobsOf[t.source]])
    /\ UNCHANGED <<canceled, producer, tasks, workers, open, incoming, received,
                   stage>>

SendJob ==
    /\ gather = "sending" /\ Len(incoming) < IncomingCapacity
    /\ incoming' = Append(incoming, rest.task)
    /\ Resume([rest EXCEPT !.left = @ - 1])
    /\ UNCHANGED <<canceled, producer, tasks, workers, results, open, received,
                   stage>>

\* The context is done: the jobs left of this result are dropped.
DropJobs ==
    /\ gather = "sending" /\ canceled
    /\ Resume(rest)
    /\ UNCHANGED <<canceled, producer, tasks, workers, results, open, incoming,
                   received, stage>>

\* The results are closed and empty: closeIncomingFn.
CloseIncoming ==
    /\ gather = "results" /\ ~open /\ results = <<>>
    /\ gather' = "waiting"
    /\ UNCHANGED <<canceled, producer, tasks, workers, results, open, rest,
                   incoming, received, stage>>

\* Return that trusts the processing stage to have noticed the cancellation.
TrustingReturn ==
    /\ gather = "waiting" /\ stage \in {"done", "broken"}
    /\ gather' = IF stage = "broken" THEN "error" ELSE "ok"
    /\ UNCHANGED <<canceled, producer, tasks, workers, results, open, rest,
                   incoming, received, stage>>

\* processWg.Wait and gatherWg.Wait, then the verdict of the run.
Return ==
    /\ gather = "waiting" /\ stage \in {"done", "broken"}
    /\ gather' = IF stage = "broken" \/ canceled THEN "error" ELSE "ok"
    /\ UNCHANGED <<canceled, producer, tasks, workers, results, open, rest,
                   incoming, received, stage>>
-----------------------------------------------------------------------------
\* The processing stage, seen from its queue.

\* ProcessJob that returns at its first error and leaves its queue alone.
HastyProcessJob ==
    /\ stage = "running" /\ incoming # <<>>
    /\ incoming' = Tail(incoming)
    /\ \/ /\ ~canceled
          /\ received' = [received EXCEPT ![Head(incoming)] = @ + 1]
          /\ UNCHANGED stage
       \/ /\ stage' = "broken"
          /\ UNCHANGED received
    /\ UNCHANGED <<canceled, producer, tasks, workers, results, open, gather, rest>>

\* A job is processed; an error or a cancellation ends the processing, and
\* from then on jobs are taken and thrown away.
ProcessJob ==
    /\ stage \in {"running", "failed"} /\ incoming # <<>>
    /\ incoming' = Tail(incoming)
    /\ \/ /\ stage = "running" /\ ~canceled
          /\ received' = [received EXCEPT ![Head(incoming)] = @ + 1]
          /\ UNCHANGED stage
       \/ /\ stage' = "failed"
          /\ UNCHANGED received
    /\ UNCHANGED <<canceled, producer, tasks, workers, results, open, gather, rest>>

\* The queue is closed and empty: the last flush, which may fail.
EndProcessing ==
    /\ stage \in {"running", "failed"}
    /\ incoming = <<>> /\ gather = "waiting"
    /\ stage' \in (IF stage = "failed" THEN {"broken"} ELSE {"done", "broken"})
    /\ UNCHANGED <<canceled, producer, tasks, workers, results, open, gather,
                   rest, incoming, received>>

Gather ==
    \/ TakeResult \/ SendJob \/ DropJobs \/ CloseIncoming \/ Return

Terminated == gather \in {"ok", "error"} /\ UNCHANGED vars

Next ==
    \/ Cancel \/ Produce \/ StopProducing
    \/ \E w \in Worker : Work(w)
    \/ CloseResults \/ Gather
    \/ ProcessJob \/ EndProcessing
    \/ Terminated

Spec == Init /\ [][Next]_vars

\* Every goroutine is scheduled, and adapters return (they make HTTP calls
\* with timeouts under the run's context).  Nothing has to cancel the run.
Fairness ==
    /\ WF_vars(Produce \/ StopProducing)
    /\ \A w \in Worker : WF_vars(Work(w))
    /\ WF_vars(CloseResults)
    /\ WF_vars(Gather)
    /\ WF_vars(ProcessJob \/ EndProcessing)

FairSpec == Spec /\ Fairness
-----------------------------------------------------------------------------
\* No provider is called, and the run calls nobody, beyond the limits of
\* SCRAPER_PROVIDER_MAX_CONCURRENCY, its overrides and the request.
Calling(S) == {w \in Worker : pc[w] \in {"calling", "reporting"}
                               /\ ProviderOf(task[w].source) \in S}
WithinBudget ==
    /\ Cardinality(Calling(Provider)) <= MaxConcurrency
    /\ \A p \in Provider : Cardinality(Calling({p})) <= ProviderLimit(p)

\* A run that reports success called every adapter task once and its
\* processing stage took every job that came back, once.
SuccessIsComplete ==
    /\ \A t \in Task : received[t] <= JobsOf[t.source]
    /\ gather = "ok" =>
          \A t \in Task :
              /\ outcome[t] # "none"
              /\ outcome[t] = "jobs" => received[t] = JobsOf[t.source]

\* When the run returns it has left nothing behind: no goroutine that could
\* still call an adapter, no permit taken, no open queue.  The next run builds
\* its own budget and relies on it.
NothingOutlivesRun ==
    gather \in {"ok", "error"} =>
        /\ Finished /\ ~open
        /\ global = 0 /\ \A p \in Provider : permits[p] = 0
        /\ results = <<>> /\ incoming = <<>>

\* Every run returns, canceled or not, whatever fails: nobody waits for a
\* queue that nobody serves.
RunReturns == <>(gather \in {"ok", "error"})
=============================================================================
