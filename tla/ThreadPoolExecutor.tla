------------------------- MODULE ThreadPoolExecutor -------------------------
(***************************************************************************)
(* csics::executor::ThreadPoolExecutor: worker threads take tasks from a   *)
(* queue under m_mutex and sleep on m_cv while there is nothing to do; the *)
(* destructor stops the pool and joins the workers.                        *)
(*                                                                         *)
(* A critical section of m_mutex is one step: all it reads and writes is   *)
(* guarded by that mutex.  cv.wait gives up the mutex and starts to wait   *)
(* in one step, and may wake for no reason.  Notifications are sent after  *)
(* the mutex is released, in a step of their own.                          *)
(*                                                                         *)
(* A task is its effect on the pool: it may submit one more task from its  *)
(* worker, and it may wait for that task's future.                         *)
(***************************************************************************)
EXTENDS Naturals, Sequences, FiniteSets

CONSTANTS
    Workers,   \* m_workers
    Clients,   \* threads outside the pool that submit tasks
    Tasks,     \* every task there is
    Roots,     \* the tasks clients submit
    NoTask,    \* not a task
    Child,     \* the task that a task submits from its worker, or NoTask
    Awaiting   \* the tasks that wait for the future of the task they submit

ASSUME PoolAssumption ==
    /\ Workers # {} /\ IsFiniteSet(Workers)
    /\ IsFiniteSet(Clients)
    /\ NoTask \notin Tasks
    /\ Roots \subseteq Tasks
    /\ Child \in [Tasks -> Tasks \cup {NoTask}]
    /\ Awaiting \subseteq Tasks

\* Every task is submitted at most once: by a client or by one other task.
ASSUME SubmittedOnce ==
    /\ \A t \in Tasks : Child[t] \notin Roots
    /\ \A t, u \in Tasks : Child[t] = Child[u] /\ Child[t] # NoTask => t = u

VARIABLES
    m_tasks,   \* the queue of tasks
    m_stop,
    wpc,       \* where each worker is
    current,   \* the task each worker holds
    cpc,       \* where each client is: outside submit, or about to notify
    dtor,      \* how far the destructor is
    accepted,  \* history: the tasks enqueued, in order
    started,   \* history: the tasks dequeued, in order
    rejected,  \* the tasks whose submission threw
    finished   \* the tasks whose future is ready

vars == <<m_tasks, m_stop, wpc, current, cpc, dtor, accepted, started, rejected, finished>>

Waiting == {w \in Workers : wpc[w] = "waiting"}

Elements(s) == {s[i] : i \in 1..Len(s)}

Init ==
    /\ m_tasks = <<>> /\ m_stop = FALSE
    /\ wpc = [w \in Workers |-> "ready"]
    /\ current = [w \in Workers |-> NoTask]
    /\ cpc = [c \in Clients |-> "outside"]
    /\ dtor = "alive"
    /\ accepted = <<>> /\ started = <<>>
    /\ rejected = {} /\ finished = {}

-----------------------------------------------------------------------------
(***************************************************************************)
(* The worker's loop.                                                      *)
(***************************************************************************)
\* Fault: a stopped worker leaves although tasks are queued.
ExitsAtOnce == m_stop

\* Fault: the predicate of the wait forgets the stop flag.
MayProceedOnTasks == m_tasks # <<>>

MayProceed == m_stop \/ m_tasks # <<>>

Exits == m_stop /\ m_tasks = <<>>

\* Faults: the task stays in the queue; the last task is taken first.
DequeueNoPop(w) ==
    /\ current' = [current EXCEPT ![w] = Head(m_tasks)]
    /\ started' = Append(started, Head(m_tasks))
    /\ UNCHANGED m_tasks

DequeueLast(w) ==
    LET last == m_tasks[Len(m_tasks)] IN
    /\ current' = [current EXCEPT ![w] = last]
    /\ started' = Append(started, last)
    /\ m_tasks' = SubSeq(m_tasks, 1, Len(m_tasks) - 1)

Dequeue(w) ==
    /\ current' = [current EXCEPT ![w] = Head(m_tasks)]
    /\ started' = Append(started, Head(m_tasks))
    /\ m_tasks' = Tail(m_tasks)

\* The predicate does not hold: wait on m_cv.
WaitForTask(w) ==
    /\ wpc[w] = "ready"
    /\ ~MayProceed
    /\ wpc' = [wpc EXCEPT ![w] = "waiting"]
    /\ UNCHANGED <<m_tasks, m_stop, current, cpc, dtor, accepted, started, rejected, finished>>

Exit(w) ==
    /\ wpc[w] = "ready"
    /\ MayProceed /\ Exits
    /\ wpc' = [wpc EXCEPT ![w] = "exited"]
    /\ UNCHANGED <<m_tasks, m_stop, current, cpc, dtor, accepted, started, rejected, finished>>

TakeTask(w) ==
    /\ wpc[w] = "ready"
    /\ MayProceed /\ ~Exits
    /\ Dequeue(w)
    /\ wpc' = [wpc EXCEPT ![w] = "running"]
    /\ UNCHANGED <<m_stop, cpc, dtor, accepted, rejected, finished>>

SpuriousWakeup(w) ==
    /\ wpc[w] = "waiting"
    /\ wpc' = [wpc EXCEPT ![w] = "ready"]
    /\ UNCHANGED <<m_tasks, m_stop, current, cpc, dtor, accepted, started, rejected, finished>>

-----------------------------------------------------------------------------
(***************************************************************************)
(* submit.                                                                 *)
(***************************************************************************)
Enqueue(t) ==
    /\ m_tasks' = Append(m_tasks, t)
    /\ accepted' = Append(accepted, t)

Submitted == Elements(accepted) \cup rejected

\* Faults: nobody is woken; someone is woken only if this is the only task.
NotifyNobody == UNCHANGED wpc

NotifyIfFirst ==
    IF Waiting = {} \/ Len(m_tasks) # 1
    THEN UNCHANGED wpc
    ELSE \E w \in Waiting : wpc' = [wpc EXCEPT ![w] = "ready"]

\* m_cv.notify_one, for a thread outside the pool.
NotifyOne ==
    IF Waiting = {}
    THEN UNCHANGED wpc
    ELSE \E w \in Waiting : wpc' = [wpc EXCEPT ![w] = "ready"]

\* A client submits a task; it may do so while no destructor has begun, as for
\* any object.
ClientSubmit(c, t) ==
    /\ dtor = "alive"
    /\ cpc[c] = "outside"
    /\ t \in Roots \ Submitted
    /\ Enqueue(t)
    /\ cpc' = [cpc EXCEPT ![c] = "notify"]
    /\ UNCHANGED <<m_stop, wpc, current, dtor, started, rejected, finished>>

ClientNotify(c) ==
    /\ cpc[c] = "notify"
    /\ NotifyOne
    /\ cpc' = [cpc EXCEPT ![c] = "outside"]
    /\ UNCHANGED <<m_tasks, m_stop, current, dtor, accepted, started, rejected, finished>>

-----------------------------------------------------------------------------
(***************************************************************************)
(* task(): what runs on a worker, outside the mutex.  A packaged_task      *)
(* keeps an exception for its future, so the worker survives it.           *)
(***************************************************************************)
HasChildToSubmit(w) ==
    wpc[w] = "running" /\ Child[current[w]] # NoTask /\ Child[current[w]] \notin Submitted

\* The task submits another.
TaskSubmit(w) ==
    /\ HasChildToSubmit(w)
    /\ ~m_stop
    /\ Enqueue(Child[current[w]])
    /\ wpc' = [wpc EXCEPT ![w] = "notify"]
    /\ UNCHANGED <<m_stop, current, cpc, dtor, started, rejected, finished>>

\* submit throws on a stopped pool; the exception ends the task.
TaskRejected(w) ==
    /\ HasChildToSubmit(w)
    /\ m_stop
    /\ rejected' = rejected \cup {Child[current[w]]}
    /\ UNCHANGED <<m_tasks, m_stop, wpc, current, cpc, dtor, accepted, started, finished>>

\* notify_one from a worker: w itself goes back to its task.
TaskNotify(w) ==
    /\ wpc[w] = "notify"
    /\ LET back == IF current[w] \in Awaiting THEN "awaiting" ELSE "running" IN
       IF Waiting = {}
       THEN wpc' = [wpc EXCEPT ![w] = back]
       ELSE \E v \in Waiting : wpc' = [wpc EXCEPT ![w] = back, ![v] = "ready"]
    /\ UNCHANGED <<m_tasks, m_stop, current, cpc, dtor, accepted, started, rejected, finished>>

\* The future the task waits for is ready.
AwaitReturns(w) ==
    /\ wpc[w] = "awaiting"
    /\ Child[current[w]] \in finished
    /\ wpc' = [wpc EXCEPT ![w] = "running"]
    /\ UNCHANGED <<m_tasks, m_stop, current, cpc, dtor, accepted, started, rejected, finished>>

\* Fault: the worker still holds the task it has run.
FinishTaskKeepsTask(w) ==
    /\ wpc[w] = "running"
    /\ ~HasChildToSubmit(w)
    /\ finished' = finished \cup {current[w]}
    /\ wpc' = [wpc EXCEPT ![w] = "ready"]
    /\ UNCHANGED <<m_tasks, m_stop, current, cpc, dtor, accepted, started, rejected>>

FinishTask(w) ==
    /\ wpc[w] = "running"
    /\ ~HasChildToSubmit(w)
    /\ finished' = finished \cup {current[w]}
    /\ current' = [current EXCEPT ![w] = NoTask]
    /\ wpc' = [wpc EXCEPT ![w] = "ready"]
    /\ UNCHANGED <<m_tasks, m_stop, cpc, dtor, accepted, started, rejected>>

-----------------------------------------------------------------------------
(***************************************************************************)
(* The destructor: stop under the mutex, notify everybody, join.           *)
(***************************************************************************)
Stop ==
    /\ dtor = "alive"
    /\ \A c \in Clients : cpc[c] = "outside"
    /\ m_stop' = TRUE
    /\ dtor' = "notify"
    /\ UNCHANGED <<m_tasks, wpc, current, cpc, accepted, started, rejected, finished>>

NotifyAll ==
    /\ dtor = "notify"
    /\ wpc' = [w \in Workers |-> IF wpc[w] = "waiting" THEN "ready" ELSE wpc[w]]
    /\ dtor' = "join"
    /\ UNCHANGED <<m_tasks, m_stop, current, cpc, accepted, started, rejected, finished>>

Join ==
    /\ dtor = "join"
    /\ \A w \in Workers : wpc[w] = "exited"
    /\ dtor' = "done"
    /\ UNCHANGED <<m_tasks, m_stop, wpc, current, cpc, accepted, started, rejected, finished>>

-----------------------------------------------------------------------------
WorkerStep(w) ==
    \/ WaitForTask(w) \/ Exit(w) \/ TakeTask(w)
    \/ TaskSubmit(w) \/ TaskRejected(w) \/ TaskNotify(w) \/ AwaitReturns(w) \/ FinishTask(w)

Next ==
    \/ \E w \in Workers : WorkerStep(w) \/ SpuriousWakeup(w)
    \/ \E c \in Clients : ClientNotify(c) \/ \E t \in Roots : ClientSubmit(c, t)
    \/ Stop \/ NotifyAll \/ Join

Spec == Init /\ [][Next]_vars

\* Threads are scheduled: a worker that can step does, a client leaves submit, a
\* destructor goes on.  Nobody has to submit, to destroy the pool, or to be woken
\* for no reason.
FairSpec ==
    /\ Spec
    /\ \A w \in Workers : WF_vars(WorkerStep(w))
    /\ \A c \in Clients : WF_vars(ClientNotify(c))
    /\ WF_vars(NotifyAll) /\ WF_vars(Join)

-----------------------------------------------------------------------------
\* Types of the variables; a worker holds a task exactly while it runs one.
TypeOK ==
    /\ m_tasks \in Seq(Tasks) /\ accepted \in Seq(Tasks) /\ started \in Seq(Tasks)
    /\ m_stop \in BOOLEAN
    /\ wpc \in [Workers -> {"ready", "waiting", "running", "notify", "awaiting", "exited"}]
    /\ current \in [Workers -> Tasks \cup {NoTask}]
    /\ \A w \in Workers : current[w] # NoTask <=> wpc[w] \in {"running", "notify", "awaiting"}
    /\ cpc \in [Clients -> {"outside", "notify"}]
    /\ dtor \in {"alive", "notify", "join", "done"}
    /\ rejected \subseteq Tasks /\ finished \subseteq Tasks

\* submit's future is always answered: a task that was accepted is queued, held by
\* exactly one worker, or finished, and when the destructor returns it is finished.
NoTaskLost ==
    /\ \A t \in Elements(accepted) :
          \/ t \in finished
          \/ \E w \in Workers : current[w] = t
          \/ t \in Elements(m_tasks)
    /\ dtor = "done" => Elements(accepted) = finished

\* A task runs once: no two workers hold it, and none that is held or finished is
\* in the queue or will be run again.
RunsOnce ==
    /\ \A v, w \in Workers : current[v] = current[w] /\ current[v] # NoTask => v = w
    /\ \A w \in Workers : current[w] \notin finished \cup Elements(m_tasks)
    /\ \A i, j \in 1..Len(started) : started[i] = started[j] => i = j

\* No wake-up is lost: while workers sleep, every queued task has a worker of its own
\* that is awake and about to look at the queue, or a thread still about to notify
\* one; and nobody sleeps once the destructor has notified all.
Ready == {w \in Workers : wpc[w] = "ready"}
Notifying == {w \in Workers : wpc[w] = "notify"}
ClientsNotifying == {c \in Clients : cpc[c] = "notify"}

NoLostWakeup ==
    /\ Waiting # {} =>
          Len(m_tasks) <= Cardinality(Ready) + Cardinality(Notifying)
                          + Cardinality(ClientsNotifying)
    /\ dtor \in {"join", "done"} => Waiting = {}

\* The queue hands tasks out first in, first out.
Channel == INSTANCE BoundedChannel WITH
    Message <- Tasks, Bound <- Cardinality(Tasks), sent <- accepted, received <- started

ImplementsChannel == Channel!Spec

\* Every accepted task finishes, also when the destructor runs meanwhile, as long as
\* fewer tasks wait for others than there are workers.
EveryTaskFinishes ==
    \A t \in Tasks : t \in Elements(accepted) ~> t \in finished

\* The destructor returns.
DestructorReturns == dtor = "notify" ~> dtor = "done"
=============================================================================
