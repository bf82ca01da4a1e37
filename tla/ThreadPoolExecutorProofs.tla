---------------------- MODULE ThreadPoolExecutorProofs ----------------------
(***************************************************************************)
(* ThreadPoolExecutor for any number of workers, clients and tasks: tasks  *)
(* are neither lost nor run twice, they start in the order in which they   *)
(* were accepted, and no wake-up is lost.                                  *)
(***************************************************************************)
EXTENDS ThreadPoolExecutor, FiniteSetTheorems, TLAPS

\* The queue is what is left of the tasks accepted after those started.
QueueIsRest ==
    /\ Len(accepted) = Len(started) + Len(m_tasks)
    /\ \A i \in 1..Len(started) : started[i] = accepted[i]
    /\ \A i \in 1..Len(m_tasks) : m_tasks[i] = accepted[Len(started) + i]

AcceptedOnce ==
    \A i, j \in 1..Len(accepted) : accepted[i] = accepted[j] => i = j

\* A started task is held by the worker that runs it until it is finished.
StartedAccounted ==
    /\ \A i \in 1..Len(started) :
          started[i] \in finished \/ \E w \in Workers : current[w] = started[i]
    /\ \A t \in finished : \E i \in 1..Len(started) : started[i] = t
    /\ \A w \in Workers : current[w] # NoTask =>
          /\ current[w] \notin finished
          /\ \E i \in 1..Len(started) : started[i] = current[w]
    /\ \A v, w \in Workers : current[v] = current[w] /\ current[v] # NoTask => v = w

Stopping ==
    /\ m_stop <=> dtor # "alive"
    /\ \A w \in Workers : wpc[w] = "exited" => m_stop /\ m_tasks = <<>>
    /\ dtor = "done" => \A w \in Workers : wpc[w] = "exited"

PoolInv == TypeOK /\ QueueIsRest /\ AcceptedOnce /\ StartedAccounted /\ Stopping

-----------------------------------------------------------------------------
\* What ASSUME says of the constants, in the parts the proofs use.
LEMMA PoolConstants ==
    /\ Workers # {} /\ IsFiniteSet(Workers) /\ IsFiniteSet(Clients)
    /\ NoTask \notin Tasks /\ Roots \subseteq Tasks
    /\ \A t \in Tasks : Child[t] \in Tasks \cup {NoTask}
BY PoolAssumption

\* A task that is not in the queue's history is at none of its places.
LEMMA NotAccepted ==
    ASSUME NEW t, t \notin Submitted
    PROVE  \A i \in 1..Len(accepted) : accepted[i] # t
BY DEF Submitted, Elements

LEMMA PoolInit == Init => PoolInv
<1> SUFFICES ASSUME Init PROVE PoolInv
  OBVIOUS
<1>1. TypeOK
  <2>1. m_tasks \in Seq(Tasks) /\ accepted \in Seq(Tasks) /\ started \in Seq(Tasks)
    BY DEF Init
  <2>2. \A w \in Workers : current[w] = NoTask /\ wpc[w] = "ready"
    BY DEF Init
  <2>3. /\ wpc \in [Workers -> {"ready", "waiting", "running", "notify", "awaiting", "exited"}]
        /\ current \in [Workers -> Tasks \cup {NoTask}]
        /\ cpc \in [Clients -> {"outside", "notify"}]
    BY DEF Init
  <2>4. m_stop \in BOOLEAN /\ dtor = "alive" /\ rejected = {} /\ finished = {}
    BY DEF Init
  <2> QED BY <2>1, <2>2, <2>3, <2>4 DEF TypeOK
<1>2. accepted = <<>> /\ started = <<>> /\ m_tasks = <<>> /\ finished = {}
  BY DEF Init
<1>3. QueueIsRest /\ AcceptedOnce
  <2>1. Len(accepted) = 0 /\ Len(started) = 0 /\ Len(m_tasks) = 0
    BY <1>2
  <2> QED BY <2>1 DEF QueueIsRest, AcceptedOnce
<1>4. \A w \in Workers : current[w] = NoTask
  BY DEF Init
<1>5. StartedAccounted
  <2>1. 1..Len(started) = {}
    BY <1>2
  <2> QED BY <2>1, <1>2, <1>4 DEF StartedAccounted
<1>6. Stopping
  BY DEF Init, Stopping
<1> QED BY <1>1, <1>3, <1>5, <1>6 DEF PoolInv

-----------------------------------------------------------------------------
(***************************************************************************)
(* Enqueueing, for a client and for a task.                                *)
(***************************************************************************)
\* A new task at the end of the queue keeps the histories together.
LEMMA EnqueueKeeps ==
    ASSUME PoolInv, NEW t \in Tasks, t \notin Submitted, Enqueue(t), UNCHANGED started
    PROVE  /\ m_tasks' \in Seq(Tasks) /\ accepted' \in Seq(Tasks) /\ started' \in Seq(Tasks)
           /\ QueueIsRest' /\ AcceptedOnce'
<1> USE DEF PoolInv, TypeOK
<1>1. /\ m_tasks' \in Seq(Tasks) /\ accepted' \in Seq(Tasks) /\ started' \in Seq(Tasks)
      /\ Len(m_tasks') = Len(m_tasks) + 1 /\ Len(accepted') = Len(accepted) + 1
      /\ Len(m_tasks) \in Nat /\ Len(accepted) \in Nat /\ Len(started) \in Nat
  BY DEF Enqueue
<1>2. /\ \A i \in 1..Len(m_tasks) : m_tasks'[i] = m_tasks[i]
      /\ m_tasks'[Len(m_tasks) + 1] = t
      /\ \A i \in 1..Len(accepted) : accepted'[i] = accepted[i]
      /\ accepted'[Len(accepted) + 1] = t
  BY DEF Enqueue
<1>3. QueueIsRest'
  <2>1. Len(accepted') = Len(started') + Len(m_tasks')
    BY <1>1 DEF QueueIsRest
  <2>2. ASSUME NEW i \in 1..Len(started') PROVE started'[i] = accepted'[i]
    BY <1>1, <1>2 DEF QueueIsRest
  <2>3. ASSUME NEW i \in 1..Len(m_tasks') PROVE m_tasks'[i] = accepted'[Len(started') + i]
    <3>1. CASE i = Len(m_tasks) + 1
      <4>1. Len(started) + i = Len(accepted) + 1
        BY <3>1, <1>1 DEF QueueIsRest
      <4> QED BY <3>1, <4>1, <1>2
    <3>2. CASE i # Len(m_tasks) + 1
      <4>1. i \in 1..Len(m_tasks) /\ Len(started) + i \in 1..Len(accepted)
        BY <3>2, <1>1 DEF QueueIsRest
      <4> QED BY <4>1, <1>2 DEF QueueIsRest
    <3> QED BY <3>1, <3>2
  <2> QED BY <2>1, <2>2, <2>3 DEF QueueIsRest
<1>4. AcceptedOnce'
  <2> SUFFICES ASSUME NEW i \in 1..Len(accepted'), NEW j \in 1..Len(accepted'),
                      accepted'[i] = accepted'[j]
               PROVE  i = j
    BY DEF AcceptedOnce
  <2>1. \A k \in 1..Len(accepted) : accepted[k] # t
    BY NotAccepted
  <2>2. CASE i = Len(accepted) + 1 \/ j = Len(accepted) + 1
    <3>1. accepted'[i] = t /\ accepted'[j] = t
      BY <2>2, <1>2
    <3>2. i \notin 1..Len(accepted) /\ j \notin 1..Len(accepted)
      BY <3>1, <2>1, <1>2
    <3> QED BY <3>2, <1>1
  <2>3. CASE i # Len(accepted) + 1 /\ j # Len(accepted) + 1
    <3>1. i \in 1..Len(accepted) /\ j \in 1..Len(accepted)
      BY <2>3, <1>1
    <3> QED BY <3>1, <1>2 DEF AcceptedOnce
  <2> QED BY <2>2, <2>3
<1> QED BY <1>1, <1>3, <1>4

LEMMA InvClientSubmit ==
    ASSUME PoolInv, NEW c \in Clients, NEW t \in Roots, ClientSubmit(c, t)
    PROVE  PoolInv'
<1>1. t \in Tasks /\ t \notin Submitted /\ Enqueue(t) /\ UNCHANGED started
  BY PoolConstants DEF ClientSubmit
<1>2. /\ m_tasks' \in Seq(Tasks) /\ accepted' \in Seq(Tasks) /\ started' \in Seq(Tasks)
      /\ QueueIsRest' /\ AcceptedOnce'
  BY <1>1, EnqueueKeeps
<1>3. TypeOK'
  BY <1>2 DEF PoolInv, TypeOK, ClientSubmit
<1>4. StartedAccounted'
  BY DEF PoolInv, StartedAccounted, ClientSubmit
<1>5. Stopping'
  BY DEF PoolInv, Stopping, ClientSubmit
<1> QED BY <1>2, <1>3, <1>4, <1>5 DEF PoolInv

LEMMA InvTaskSubmit ==
    ASSUME PoolInv, NEW w \in Workers, TaskSubmit(w)
    PROVE  PoolInv'
<1> DEFINE t == Child[current[w]]
<1>1. t \in Tasks /\ t \notin Submitted /\ Enqueue(t) /\ UNCHANGED started
  BY PoolConstants DEF TaskSubmit, HasChildToSubmit, PoolInv, TypeOK
<1>2. /\ m_tasks' \in Seq(Tasks) /\ accepted' \in Seq(Tasks) /\ started' \in Seq(Tasks)
      /\ QueueIsRest' /\ AcceptedOnce'
  BY <1>1, EnqueueKeeps
<1>3. TypeOK'
  BY <1>2 DEF PoolInv, TypeOK, TaskSubmit, HasChildToSubmit
<1>4. StartedAccounted'
  BY DEF PoolInv, StartedAccounted, TaskSubmit
<1>5. Stopping'
  BY DEF PoolInv, TypeOK, Stopping, TaskSubmit, HasChildToSubmit
<1> QED BY <1>2, <1>3, <1>4, <1>5 DEF PoolInv

-----------------------------------------------------------------------------
(***************************************************************************)
(* Taking and finishing a task.                                            *)
(***************************************************************************)
LEMMA InvTakeTask ==
    ASSUME PoolInv, NEW w \in Workers, TakeTask(w)
    PROVE  PoolInv'
<1> USE DEF PoolInv
<1>1. m_tasks # <<>> /\ m_tasks \in Seq(Tasks) /\ started \in Seq(Tasks) /\ accepted \in Seq(Tasks)
  BY DEF TypeOK, TakeTask, MayProceed, Exits
<1>2. PICK t \in Tasks : t = Head(m_tasks)
  BY <1>1
<1>3. /\ current' = [current EXCEPT ![w] = t]
      /\ started' = Append(started, t)
      /\ m_tasks' = Tail(m_tasks)
      /\ t = m_tasks[1]
  BY <1>1, <1>2 DEF TakeTask, Dequeue
<1>4. /\ Len(m_tasks) \in Nat /\ Len(m_tasks) > 0 /\ Len(started) \in Nat
      /\ started' \in Seq(Tasks) /\ m_tasks' \in Seq(Tasks)
      /\ Len(started') = Len(started) + 1
      /\ Len(m_tasks') = Len(m_tasks) - 1
      /\ \A i \in 1..Len(started) : started'[i] = started[i]
      /\ started'[Len(started) + 1] = t
      /\ \A i \in 1..Len(m_tasks) - 1 : m_tasks'[i] = m_tasks[i + 1]
  BY <1>1, <1>3
<1>5. TypeOK'
  BY <1>3, <1>4, PoolConstants DEF TypeOK, TakeTask
<1>6. t = accepted[Len(started) + 1] /\ Len(started) + 1 \in 1..Len(accepted)
  BY <1>3, <1>4 DEF QueueIsRest
<1>7. QueueIsRest'
  <2>0. accepted' = accepted
    BY DEF TakeTask
  <2>1. Len(accepted') = Len(started') + Len(m_tasks')
    <3>1. Len(accepted) = Len(started) + Len(m_tasks)
      BY DEF QueueIsRest
    <3>2. Len(accepted') = Len(accepted)
      BY <2>0
    <3> QED BY <3>1, <3>2, <1>4
  <2>2. ASSUME NEW i \in 1..Len(started') PROVE started'[i] = accepted'[i]
    BY <2>0, <1>4, <1>6 DEF QueueIsRest
  <2>3. ASSUME NEW i \in 1..Len(m_tasks') PROVE m_tasks'[i] = accepted'[Len(started') + i]
    <3>1. /\ i \in 1..Len(m_tasks) - 1 /\ i + 1 \in 1..Len(m_tasks)
          /\ Len(started') + i = Len(started) + (i + 1)
      BY <1>4
    <3>2. m_tasks[i + 1] = accepted[Len(started) + (i + 1)]
      BY <3>1 DEF QueueIsRest
    <3> QED BY <2>0, <3>1, <3>2, <1>4
  <2> QED BY <2>1, <2>2, <2>3 DEF QueueIsRest
<1>8. AcceptedOnce'
  BY DEF AcceptedOnce, TakeTask
<1>9. \A i \in 1..Len(started) : started[i] # t
  <2> SUFFICES ASSUME NEW i \in 1..Len(started), started[i] = t PROVE FALSE
    OBVIOUS
  <2>1. accepted[i] = accepted[Len(started) + 1] /\ i \in 1..Len(accepted)
    BY <1>4, <1>6 DEF QueueIsRest
  <2> QED BY <2>1, <1>4, <1>6 DEF AcceptedOnce
<1>10. current[w] = NoTask /\ t # NoTask
  BY PoolConstants DEF TypeOK, TakeTask
<1>11. t \notin finished /\ \A v \in Workers : current[v] # t
  BY <1>9, <1>10 DEF StartedAccounted
<1>12. current' \in [Workers -> Tasks \cup {NoTask}] /\ current \in [Workers -> Tasks \cup {NoTask}]
  BY <1>5 DEF TypeOK
<1>13. current'[w] = t /\ \A v \in Workers : v # w => current'[v] = current[v]
  BY <1>3, <1>12
<1>14. StartedAccounted'
  <2>1. finished' = finished
    BY DEF TakeTask
  <2>2. ASSUME NEW i \in 1..Len(started')
        PROVE  started'[i] \in finished' \/ \E v \in Workers : current'[v] = started'[i]
    <3>1. CASE i = Len(started) + 1
      BY <3>1, <1>4, <1>13
    <3>2. CASE i # Len(started) + 1
      <4>1. i \in 1..Len(started) /\ started'[i] = started[i]
        BY <3>2, <1>4
      <4>2. CASE started[i] \in finished
        BY <4>1, <4>2, <2>1
      <4>3. CASE \E v \in Workers : current[v] = started[i]
        <5>1. PICK v \in Workers : current[v] = started[i]
          BY <4>3
        <5>2. v # w
          BY <5>1, <4>1, <1>1, <1>4, <1>10, PoolConstants
        <5> QED BY <5>1, <5>2, <4>1, <1>13
      <4> QED BY <4>1, <4>2, <4>3 DEF StartedAccounted
    <3> QED BY <3>1, <3>2
  <2>3. \A u \in finished' : \E i \in 1..Len(started') : started'[i] = u
    BY <2>1, <1>4 DEF StartedAccounted
  <2>4. ASSUME NEW v \in Workers, current'[v] # NoTask
        PROVE  current'[v] \notin finished' /\ \E i \in 1..Len(started') : started'[i] = current'[v]
    BY <2>1, <2>4, <1>4, <1>11, <1>13 DEF StartedAccounted
  <2>5. \A u, v \in Workers : current'[u] = current'[v] /\ current'[u] # NoTask => u = v
    BY <1>11, <1>13 DEF StartedAccounted
  <2> QED BY <2>2, <2>3, <2>4, <2>5 DEF StartedAccounted
<1>15. Stopping'
  BY <1>1 DEF TypeOK, Stopping, TakeTask
<1> QED BY <1>5, <1>7, <1>8, <1>14, <1>15

LEMMA InvFinishTask ==
    ASSUME PoolInv, NEW w \in Workers, FinishTask(w)
    PROVE  PoolInv'
<1> USE DEF PoolInv
<1>1. current \in [Workers -> Tasks \cup {NoTask}] /\ current[w] # NoTask
  BY DEF TypeOK, FinishTask
<1>2. /\ finished' = finished \cup {current[w]} /\ UNCHANGED <<started, m_tasks, accepted>>
      /\ current'[w] = NoTask /\ \A v \in Workers : v # w => current'[v] = current[v]
  BY <1>1 DEF FinishTask
<1>3. TypeOK'
  BY <1>1, PoolConstants DEF TypeOK, FinishTask
<1>4. QueueIsRest' /\ AcceptedOnce'
  BY <1>2 DEF QueueIsRest, AcceptedOnce
<1>5. StartedAccounted'
  <2>1. ASSUME NEW i \in 1..Len(started')
        PROVE  started'[i] \in finished' \/ \E v \in Workers : current'[v] = started'[i]
    BY <1>2 DEF StartedAccounted
  <2>2. \A u \in finished' : \E i \in 1..Len(started') : started'[i] = u
    BY <1>1, <1>2 DEF StartedAccounted
  <2>3. ASSUME NEW v \in Workers, current'[v] # NoTask
        PROVE  current'[v] \notin finished' /\ \E i \in 1..Len(started') : started'[i] = current'[v]
    BY <2>3, <1>1, <1>2 DEF StartedAccounted
  <2>4. \A u, v \in Workers : current'[u] = current'[v] /\ current'[u] # NoTask => u = v
    BY <1>2 DEF StartedAccounted
  <2> QED BY <2>1, <2>2, <2>3, <2>4 DEF StartedAccounted
<1>6. Stopping'
  BY <1>1 DEF TypeOK, Stopping, FinishTask
<1> QED BY <1>3, <1>4, <1>5, <1>6

-----------------------------------------------------------------------------
\* The steps that only move a thread leave the histories alone.
LEMMA HistoryFrame ==
    ASSUME PoolInv, UNCHANGED <<m_tasks, accepted, started, current, finished>>
    PROVE  QueueIsRest' /\ AcceptedOnce' /\ StartedAccounted'
BY DEF PoolInv, QueueIsRest, AcceptedOnce, StartedAccounted

LEMMA InvOtherWorkerSteps ==
    ASSUME PoolInv, NEW w \in Workers,
           \/ WaitForTask(w) \/ Exit(w) \/ SpuriousWakeup(w)
           \/ TaskRejected(w) \/ TaskNotify(w) \/ AwaitReturns(w)
    PROVE  PoolInv'
<1> USE DEF PoolInv
<1>1. CASE WaitForTask(w)
  BY <1>1, HistoryFrame DEF WaitForTask, TypeOK, Stopping
<1>2. CASE Exit(w)
  BY <1>2, HistoryFrame DEF Exit, Exits, TypeOK, Stopping
<1>3. CASE SpuriousWakeup(w)
  BY <1>3, HistoryFrame DEF SpuriousWakeup, TypeOK, Stopping
<1>4. CASE TaskRejected(w)
  <2>1. Child[current[w]] \in Tasks
    BY <1>4, PoolConstants DEF TaskRejected, HasChildToSubmit, TypeOK
  <2> QED BY <1>4, <2>1, HistoryFrame DEF TaskRejected, TypeOK, Stopping
<1>5. CASE TaskNotify(w)
  <2>1. CASE Waiting = {}
    BY <1>5, <2>1, HistoryFrame DEF TaskNotify, TypeOK, Stopping
  <2>2. CASE Waiting # {}
    <3>1. PICK v \in Waiting :
             wpc' = [wpc EXCEPT ![w] = IF current[w] \in Awaiting THEN "awaiting" ELSE "running",
                                ![v] = "ready"]
      BY <1>5, <2>2 DEF TaskNotify
    <3>2. v \in Workers /\ wpc[v] = "waiting" /\ v # w
      BY <1>5, <3>1 DEF Waiting, TaskNotify
    <3>3. UNCHANGED <<m_tasks, m_stop, current, cpc, dtor, accepted, started, rejected, finished>>
      BY <1>5 DEF TaskNotify
    <3>4. /\ \A u \in Workers : u # v /\ u # w => wpc'[u] = wpc[u]
          /\ wpc'[v] = "ready" /\ wpc'[w] \in {"awaiting", "running"} /\ wpc[w] = "notify"
          /\ wpc' \in [Workers -> {"ready", "waiting", "running", "notify", "awaiting", "exited"}]
      BY <1>5, <3>1, <3>2 DEF TypeOK, TaskNotify
    <3>5. TypeOK'
      BY <3>2, <3>3, <3>4 DEF TypeOK
    <3>6. Stopping'
      BY <3>2, <3>3, <3>4 DEF Stopping
    <3> QED BY <3>3, <3>5, <3>6, HistoryFrame
  <2> QED BY <2>1, <2>2
<1>6. CASE AwaitReturns(w)
  BY <1>6, HistoryFrame DEF AwaitReturns, TypeOK, Stopping
<1> QED BY <1>1, <1>2, <1>3, <1>4, <1>5, <1>6

LEMMA InvClientNotify ==
    ASSUME PoolInv, NEW c \in Clients, ClientNotify(c)
    PROVE  PoolInv'
<1> USE DEF PoolInv
<1>1. CASE Waiting = {}
  BY <1>1, HistoryFrame DEF ClientNotify, NotifyOne, TypeOK, Stopping
<1>2. CASE Waiting # {}
  <2>1. PICK v \in Waiting : wpc' = [wpc EXCEPT ![v] = "ready"]
    BY <1>2 DEF ClientNotify, NotifyOne
  <2>2. v \in Workers /\ wpc[v] = "waiting"
    BY <2>1 DEF Waiting
  <2> QED BY <2>1, <2>2, HistoryFrame DEF ClientNotify, TypeOK, Stopping
<1> QED BY <1>1, <1>2

LEMMA InvDestructor ==
    ASSUME PoolInv, Stop \/ NotifyAll \/ Join
    PROVE  PoolInv'
<1> USE DEF PoolInv
<1>1. CASE Stop
  BY <1>1, HistoryFrame DEF Stop, TypeOK, Stopping
<1>2. CASE NotifyAll
  BY <1>2, HistoryFrame DEF NotifyAll, TypeOK, Stopping
<1>3. CASE Join
  BY <1>3, HistoryFrame DEF Join, TypeOK, Stopping
<1> QED BY <1>1, <1>2, <1>3

LEMMA InvNext == PoolInv /\ [Next]_vars => PoolInv'
<1> SUFFICES ASSUME PoolInv, [Next]_vars PROVE PoolInv'
  OBVIOUS
<1>1. ASSUME NEW w \in Workers, WorkerStep(w) \/ SpuriousWakeup(w) PROVE PoolInv'
  BY <1>1, InvTakeTask, InvTaskSubmit, InvFinishTask, InvOtherWorkerSteps DEF WorkerStep
<1>2. ASSUME NEW c \in Clients, ClientNotify(c) \/ \E t \in Roots : ClientSubmit(c, t)
      PROVE  PoolInv'
  BY <1>2, InvClientNotify, InvClientSubmit
<1>3. CASE UNCHANGED vars
  BY <1>3, HistoryFrame DEF vars, PoolInv, TypeOK, Stopping
<1> QED BY <1>1, <1>2, <1>3, InvDestructor DEF Next

\* The variables keep their types, and a worker holds a task exactly while it runs
\* one, for any number of workers, clients and tasks.
THEOREM PoolTypeCorrect == Spec => []TypeOK
<1>1. PoolInv => TypeOK
  BY DEF PoolInv
<1> QED BY <1>1, PoolInit, InvNext, PTL DEF Spec

\* No task is lost: submit's future is answered, at the latest when the destructor
\* returns.
THEOREM NoTaskLostCorrect == Spec => []NoTaskLost
<1>1. PoolInv => NoTaskLost
  <2> SUFFICES ASSUME PoolInv PROVE NoTaskLost
    OBVIOUS
  <2> USE DEF PoolInv
  <2>0. Len(accepted) \in Nat /\ Len(started) \in Nat /\ Len(m_tasks) \in Nat
    BY DEF TypeOK
  <2>1. ASSUME NEW k \in 1..Len(accepted)
        PROVE  \/ accepted[k] \in finished
               \/ \E w \in Workers : current[w] = accepted[k]
               \/ \E i \in 1..Len(m_tasks) : m_tasks[i] = accepted[k]
    <3>1. CASE k <= Len(started)
      <4>1. k \in 1..Len(started)
        BY <3>1, <2>0
      <4>2. started[k] = accepted[k]
        BY <4>1 DEF QueueIsRest
      <4> QED BY <4>1, <4>2 DEF StartedAccounted
    <3>2. CASE k > Len(started)
      <4>1. k - Len(started) \in 1..Len(m_tasks)
        BY <3>2, <2>0 DEF QueueIsRest
      <4>2. m_tasks[k - Len(started)] = accepted[Len(started) + (k - Len(started))]
        BY <4>1 DEF QueueIsRest
      <4> QED BY <4>1, <4>2, <2>0
    <3> QED BY <3>1, <3>2, <2>0
  <2>2. ASSUME dtor = "done" PROVE Elements(accepted) = finished
    <3>1. /\ \A w \in Workers : current[w] = NoTask
          /\ m_tasks = <<>>
      BY <2>2, PoolConstants DEF Stopping, TypeOK
    <3>2. \A k \in 1..Len(accepted) : accepted[k] # NoTask
      BY PoolConstants DEF TypeOK
    <3>3. \A k \in 1..Len(accepted) : accepted[k] \in finished
      BY <2>1, <3>1, <3>2
    <3>4. \A t \in finished : \E k \in 1..Len(accepted) : accepted[k] = t
      BY <2>0 DEF StartedAccounted, QueueIsRest
    <3> QED BY <3>3, <3>4 DEF Elements
  <2> QED BY <2>1, <2>2 DEF NoTaskLost, Elements
<1> QED BY <1>1, PoolInit, InvNext, PTL DEF Spec

\* No task runs twice.
THEOREM RunsOnceCorrect == Spec => []RunsOnce
<1>1. PoolInv => RunsOnce
  <2> SUFFICES ASSUME PoolInv PROVE RunsOnce
    OBVIOUS
  <2> USE DEF PoolInv
  <2>0. Len(accepted) \in Nat /\ Len(started) \in Nat /\ Len(m_tasks) \in Nat
    BY DEF TypeOK
  <2>1. \A i, j \in 1..Len(started) : started[i] = started[j] => i = j
    BY <2>0 DEF QueueIsRest, AcceptedOnce
  <2>2. ASSUME NEW w \in Workers PROVE current[w] \notin finished \cup Elements(m_tasks)
    <3>1. CASE current[w] = NoTask
      BY <3>1, PoolConstants DEF TypeOK, Elements
    <3>2. CASE current[w] # NoTask
      <4>1. PICK i \in 1..Len(started) : started[i] = current[w]
        BY <3>2 DEF StartedAccounted
      <4>2. \A j \in 1..Len(m_tasks) : m_tasks[j] # current[w]
        BY <4>1, <2>0 DEF QueueIsRest, AcceptedOnce
      <4> QED BY <3>2, <4>2 DEF StartedAccounted, Elements
    <3> QED BY <3>1, <3>2
  <2> QED BY <2>1, <2>2 DEF RunsOnce, StartedAccounted
<1> QED BY <1>1, PoolInit, InvNext, PTL DEF Spec

-----------------------------------------------------------------------------
(***************************************************************************)
(* Wake-ups, by counting threads.                                          *)
(***************************************************************************)
LEMMA ThreadCounts ==
    /\ IsFiniteSet(Ready) /\ IsFiniteSet(Notifying) /\ IsFiniteSet(ClientsNotifying)
    /\ Cardinality(Ready) \in Nat /\ Cardinality(Notifying) \in Nat
    /\ Cardinality(ClientsNotifying) \in Nat
<1>1. Ready \subseteq Workers /\ Notifying \subseteq Workers /\ ClientsNotifying \subseteq Clients
  BY DEF Ready, Notifying, ClientsNotifying
<1>2. IsFiniteSet(Ready) /\ IsFiniteSet(Notifying) /\ IsFiniteSet(ClientsNotifying)
  BY <1>1, PoolConstants, FS_Subset
<1> QED BY <1>2, FS_CardinalityType

\* The same of the next state, where the sets are other sets.
LEMMA ThreadCountsNext ==
    /\ Cardinality(Ready') \in Nat /\ Cardinality(Notifying') \in Nat
    /\ Cardinality(ClientsNotifying') \in Nat
<1>1. Ready' \subseteq Workers /\ Notifying' \subseteq Workers /\ ClientsNotifying' \subseteq Clients
  BY DEF Ready, Notifying, ClientsNotifying
<1>2. IsFiniteSet(Ready') /\ IsFiniteSet(Notifying') /\ IsFiniteSet(ClientsNotifying')
  BY <1>1, PoolConstants, FS_Subset
<1> QED BY <1>2, FS_CardinalityType

\* A thread that joins a set, and one that leaves it, changes its size by one.
LEMMA OneMore ==
    ASSUME NEW S, IsFiniteSet(S), NEW x, x \notin S
    PROVE  Cardinality(S \cup {x}) = Cardinality(S) + 1
BY FS_AddElement

LEMMA OneLess ==
    ASSUME NEW S, IsFiniteSet(S), NEW x \in S
    PROVE  Cardinality(S \ {x}) = Cardinality(S) - 1
BY FS_RemoveElement

LEMMA WakeInit == Init => NoLostWakeup
BY DEF Init, NoLostWakeup, Waiting

\* Somebody asleep is woken in place of the notifier.
LEMMA WakeWorkerSteps ==
    ASSUME PoolInv, NoLostWakeup, NEW w \in Workers, WorkerStep(w) \/ SpuriousWakeup(w)
    PROVE  NoLostWakeup'
<1>1. /\ wpc \in [Workers -> {"ready", "waiting", "running", "notify", "awaiting", "exited"}]
      /\ cpc \in [Clients -> {"outside", "notify"}]
      /\ m_tasks \in Seq(Tasks) /\ Len(m_tasks) \in Nat
      /\ m_stop <=> dtor # "alive"
  BY DEF PoolInv, TypeOK, Stopping
<1>2. CASE WaitForTask(w)
  <2>1. m_tasks' = <<>> /\ dtor' = "alive"
    BY <1>1, <1>2 DEF WaitForTask, MayProceed
  <2>2. Len(m_tasks') = 0
    BY <2>1
  <2> QED BY <2>1, <2>2, ThreadCountsNext DEF NoLostWakeup
<1>3. CASE Exit(w)
  <2>1. m_tasks' = <<>> /\ Waiting' = Waiting /\ dtor' = dtor
    BY <1>1, <1>3 DEF Exit, Exits, Waiting
  <2>2. Len(m_tasks') = 0
    BY <2>1
  <2> QED BY <2>1, <2>2, ThreadCountsNext DEF NoLostWakeup
<1>4. CASE TakeTask(w)
  <2>1. /\ Waiting' = Waiting /\ Ready' = Ready \ {w} /\ w \in Ready
        /\ Notifying' = Notifying /\ ClientsNotifying' = ClientsNotifying /\ dtor' = dtor
    BY <1>1, <1>4 DEF TakeTask, Waiting, Ready, Notifying, ClientsNotifying
  <2>2. Len(m_tasks') = Len(m_tasks) - 1
    <3>1. m_tasks # <<>>
      BY <1>4 DEF TakeTask, MayProceed, Exits
    <3> QED BY <3>1, <1>1, <1>4 DEF TakeTask, Dequeue
  <2>3. Cardinality(Ready') = Cardinality(Ready) - 1
    BY <2>1, ThreadCounts, OneLess
  <2> QED BY <1>1, <2>1, <2>2, <2>3, ThreadCounts DEF NoLostWakeup
<1>5. CASE TaskSubmit(w)
  <2>1. /\ Waiting' = Waiting /\ Ready' = Ready
        /\ Notifying' = Notifying \cup {w} /\ w \notin Notifying
        /\ ClientsNotifying' = ClientsNotifying /\ dtor' = dtor
    BY <1>1, <1>5 DEF TaskSubmit, HasChildToSubmit, Waiting, Ready, Notifying, ClientsNotifying
  <2>2. Len(m_tasks') = Len(m_tasks) + 1
    BY <1>1, <1>5 DEF TaskSubmit, Enqueue
  <2>3. Cardinality(Notifying') = Cardinality(Notifying) + 1
    BY <2>1, ThreadCounts, OneMore
  <2> QED BY <1>1, <2>1, <2>2, <2>3, ThreadCounts DEF NoLostWakeup
<1>6. CASE TaskRejected(w) \/ AwaitReturns(w)
  <2>1. /\ Waiting' = Waiting /\ Ready' = Ready /\ Notifying' = Notifying
        /\ ClientsNotifying' = ClientsNotifying /\ dtor' = dtor /\ m_tasks' = m_tasks
    BY <1>1, <1>6 DEF TaskRejected, AwaitReturns, Waiting, Ready, Notifying, ClientsNotifying
  <2> QED BY <2>1 DEF NoLostWakeup
<1>7. CASE FinishTask(w) \/ SpuriousWakeup(w)
  <2>1. /\ Waiting' \subseteq Waiting /\ Ready' = Ready \cup {w} /\ w \notin Ready
        /\ Notifying' = Notifying /\ ClientsNotifying' = ClientsNotifying
        /\ dtor' = dtor /\ m_tasks' = m_tasks
    BY <1>1, <1>7 DEF FinishTask, SpuriousWakeup, Waiting, Ready, Notifying, ClientsNotifying
  <2>2. Cardinality(Ready') = Cardinality(Ready) + 1
    BY <2>1, ThreadCounts, OneMore
  <2> QED BY <1>1, <2>1, <2>2, ThreadCounts DEF NoLostWakeup
<1>8. CASE TaskNotify(w)
  <2>1. wpc[w] = "notify" /\ dtor' = dtor /\ m_tasks' = m_tasks /\ cpc' = cpc
    BY <1>8 DEF TaskNotify
  <2>2. CASE Waiting = {}
    <3>1. Waiting' = {}
      BY <1>1, <1>8, <2>2 DEF TaskNotify, Waiting
    <3> QED BY <3>1 DEF NoLostWakeup
  <2>3. CASE Waiting # {}
    <3>1. PICK v \in Waiting :
             wpc' = [wpc EXCEPT ![w] = IF current[w] \in Awaiting THEN "awaiting" ELSE "running",
                                ![v] = "ready"]
      BY <1>8, <2>3 DEF TaskNotify
    <3>2. v \in Workers /\ wpc[v] = "waiting" /\ v # w
      BY <2>1, <3>1 DEF Waiting
    <3>3. /\ \A u \in Workers : u # v /\ u # w => wpc'[u] = wpc[u]
          /\ wpc'[v] = "ready" /\ wpc'[w] \in {"awaiting", "running"}
      BY <1>1, <3>1, <3>2
    <3>4. /\ Ready' = Ready \cup {v} /\ v \notin Ready
          /\ Notifying' = Notifying \ {w} /\ w \in Notifying
          /\ ClientsNotifying' = ClientsNotifying
          /\ Waiting' \subseteq Waiting
      BY <2>1, <3>2, <3>3 DEF Ready, Notifying, ClientsNotifying, Waiting
    <3>5. /\ Cardinality(Ready') = Cardinality(Ready) + 1
          /\ Cardinality(Notifying') = Cardinality(Notifying) - 1
      BY <3>4, ThreadCounts, OneMore, OneLess
    <3> QED BY <1>1, <2>1, <2>3, <3>4, <3>5, ThreadCounts DEF NoLostWakeup
  <2> QED BY <2>2, <2>3
<1> QED BY <1>2, <1>3, <1>4, <1>5, <1>6, <1>7, <1>8 DEF WorkerStep

LEMMA WakeClientSteps ==
    ASSUME PoolInv, NoLostWakeup, NEW c \in Clients,
           ClientNotify(c) \/ \E t \in Roots : ClientSubmit(c, t)
    PROVE  NoLostWakeup'
<1>1. /\ wpc \in [Workers -> {"ready", "waiting", "running", "notify", "awaiting", "exited"}]
      /\ cpc \in [Clients -> {"outside", "notify"}]
      /\ m_tasks \in Seq(Tasks) /\ Len(m_tasks) \in Nat
  BY DEF PoolInv, TypeOK
<1>2. CASE \E t \in Roots : ClientSubmit(c, t)
  <2>1. PICK t \in Roots : ClientSubmit(c, t)
    BY <1>2
  <2>2. /\ Waiting' = Waiting /\ Ready' = Ready /\ Notifying' = Notifying
        /\ ClientsNotifying' = ClientsNotifying \cup {c} /\ c \notin ClientsNotifying
        /\ dtor' = dtor
    BY <1>1, <2>1 DEF ClientSubmit, Waiting, Ready, Notifying, ClientsNotifying
  <2>3. Len(m_tasks') = Len(m_tasks) + 1
    BY <1>1, <2>1 DEF ClientSubmit, Enqueue
  <2>4. Cardinality(ClientsNotifying') = Cardinality(ClientsNotifying) + 1
    BY <2>2, ThreadCounts, OneMore
  <2> QED BY <1>1, <2>2, <2>3, <2>4, ThreadCounts DEF NoLostWakeup
<1>3. CASE ClientNotify(c)
  <2>1. /\ cpc[c] = "notify" /\ dtor' = dtor /\ m_tasks' = m_tasks
        /\ ClientsNotifying' = ClientsNotifying \ {c} /\ c \in ClientsNotifying
    BY <1>1, <1>3 DEF ClientNotify, ClientsNotifying
  <2>2. CASE Waiting = {}
    <3>1. Waiting' = {}
      BY <1>3, <2>2 DEF ClientNotify, NotifyOne, Waiting
    <3> QED BY <3>1 DEF NoLostWakeup
  <2>3. CASE Waiting # {}
    <3>1. PICK v \in Waiting : wpc' = [wpc EXCEPT ![v] = "ready"]
      BY <1>3, <2>3 DEF ClientNotify, NotifyOne
    <3>2. /\ Ready' = Ready \cup {v} /\ v \notin Ready
          /\ Notifying' = Notifying /\ Waiting' \subseteq Waiting
      BY <1>1, <3>1 DEF Ready, Notifying, Waiting
    <3>3. /\ Cardinality(Ready') = Cardinality(Ready) + 1
          /\ Cardinality(ClientsNotifying') = Cardinality(ClientsNotifying) - 1
      BY <2>1, <3>2, ThreadCounts, OneMore, OneLess
    <3> QED BY <1>1, <2>1, <2>3, <3>2, <3>3, ThreadCounts DEF NoLostWakeup
  <2> QED BY <2>2, <2>3
<1> QED BY <1>2, <1>3

LEMMA WakeNext == PoolInv /\ NoLostWakeup /\ [Next]_vars => NoLostWakeup'
<1> SUFFICES ASSUME PoolInv, NoLostWakeup, [Next]_vars PROVE NoLostWakeup'
  OBVIOUS
<1>1. CASE UNCHANGED vars
  BY <1>1 DEF vars, NoLostWakeup, Waiting, Ready, Notifying, ClientsNotifying
<1>2. CASE Stop
  BY <1>2 DEF Stop, NoLostWakeup, Waiting, Ready, Notifying, ClientsNotifying
<1>3. CASE NotifyAll
  <2>1. Waiting' = {}
    BY <1>3 DEF NotifyAll, Waiting
  <2> QED BY <2>1 DEF NoLostWakeup
<1>4. CASE Join
  BY <1>4 DEF Join, NoLostWakeup, Waiting, Ready, Notifying, ClientsNotifying
<1> QED BY <1>1, <1>2, <1>3, <1>4, WakeWorkerSteps, WakeClientSteps DEF Next

\* No wake-up is lost, whatever the number of workers, clients and tasks: as long as
\* a worker sleeps, each queued task has an awake worker or a pending notification.
THEOREM NoLostWakeupCorrect == Spec => []NoLostWakeup
<1>1. PoolInv /\ NoLostWakeup /\ [Next]_vars => PoolInv' /\ NoLostWakeup'
  BY InvNext, WakeNext
<1> QED BY <1>1, PoolInit, WakeInit, PTL DEF Spec

-----------------------------------------------------------------------------
(***************************************************************************)
(* The queue as a channel.                                                 *)
(***************************************************************************)
\* No task is accepted twice, so no more are accepted than there are.
LEMMA AcceptedCount ==
    ASSUME IsFiniteSet(Tasks), NEW s \in Seq(Tasks),
           \A i, j \in 1..Len(s) : s[i] = s[j] => i = j
    PROVE  Len(s) <= Cardinality(Tasks)
<1>1. Len(s) \in Nat /\ s \in [1..Len(s) -> Tasks]
  OBVIOUS
<1>2. s \in Injection(1..Len(s), Tasks)
  BY <1>1 DEF Injection, IsInjective
<1>3. Cardinality(1..Len(s)) <= Cardinality(Tasks)
  BY <1>2, FS_Injection
<1>4. Cardinality(1..Len(s)) = Len(s)
  <2>1. 1 \in Int /\ Len(s) \in Int
    BY <1>1
  <2>2. Cardinality(1..Len(s)) = IF 1 > Len(s) THEN 0 ELSE Len(s) - 1 + 1
    BY ONLY <2>1, FS_Interval
  <2> QED BY <1>1, <2>2
<1> QED BY <1>3, <1>4

LEMMA EnqueueSends ==
    ASSUME IsFiniteSet(Tasks), PoolInv, NEW t \in Tasks, t \notin Submitted, Enqueue(t),
           UNCHANGED started
    PROVE  Channel!Next
<1>1. /\ accepted' \in Seq(Tasks) /\ accepted \in Seq(Tasks) /\ Len(accepted) \in Nat
      /\ Len(started) \in Nat /\ Len(started) >= 0
  BY EnqueueKeeps DEF PoolInv, TypeOK
<1>2. Len(accepted') <= Cardinality(Tasks)
  <2>1. \A i, j \in 1..Len(accepted') : accepted'[i] = accepted'[j] => i = j
    BY EnqueueKeeps DEF AcceptedOnce
  <2> QED BY <1>1, <2>1, AcceptedCount
<1>3. accepted' = Append(accepted, t) /\ Len(accepted') = Len(accepted) + 1
  BY <1>1 DEF Enqueue
<1>4. Cardinality(Tasks) \in Nat
  BY FS_CardinalityType
<1>5. Len(accepted) - Len(started) < Cardinality(Tasks)
  BY <1>1, <1>2, <1>3, <1>4
<1> QED BY <1>3, <1>5 DEF Channel!Next, Channel!Send

LEMMA DequeueReceives ==
    ASSUME PoolInv, NEW w \in Workers, TakeTask(w)
    PROVE  Channel!Next
<1>1. m_tasks # <<>> /\ m_tasks \in Seq(Tasks) /\ Len(started) \in Nat /\ Len(accepted) \in Nat
  BY DEF PoolInv, TypeOK, TakeTask, MayProceed, Exits
<1>2. Len(m_tasks) \in Nat /\ Len(m_tasks) >= 1 /\ Head(m_tasks) = m_tasks[1]
  BY <1>1
<1>3. Len(started) < Len(accepted) /\ Head(m_tasks) = accepted[Len(started) + 1]
  BY <1>1, <1>2 DEF PoolInv, QueueIsRest
<1>4. started' = Append(started, Head(m_tasks)) /\ UNCHANGED accepted
  BY DEF TakeTask, Dequeue
<1> QED BY <1>3, <1>4 DEF Channel!Next, Channel!Receive

LEMMA PoolStepsChannel ==
    ASSUME IsFiniteSet(Tasks), PoolInv, [Next]_vars
    PROVE  [Channel!Next]_<<accepted, started>>
<1>1. ASSUME NEW w \in Workers, WorkerStep(w) \/ SpuriousWakeup(w)
      PROVE  Channel!Next \/ UNCHANGED <<accepted, started>>
  <2>1. CASE TakeTask(w)
    BY <2>1, DequeueReceives
  <2>2. CASE TaskSubmit(w)
    <3>1. PICK t \in Tasks : t \notin Submitted /\ Enqueue(t) /\ UNCHANGED started
      BY <2>2, PoolConstants DEF TaskSubmit, HasChildToSubmit, PoolInv, TypeOK
    <3> QED BY <3>1, EnqueueSends
  <2>3. CASE \/ WaitForTask(w) \/ Exit(w) \/ TaskRejected(w) \/ TaskNotify(w)
             \/ AwaitReturns(w) \/ FinishTask(w) \/ SpuriousWakeup(w)
    BY <2>3 DEF WaitForTask, Exit, TaskRejected, TaskNotify, AwaitReturns, FinishTask,
                SpuriousWakeup
  <2> QED BY <1>1, <2>1, <2>2, <2>3 DEF WorkerStep
<1>2. ASSUME NEW c \in Clients, ClientNotify(c) \/ \E t \in Roots : ClientSubmit(c, t)
      PROVE  Channel!Next \/ UNCHANGED <<accepted, started>>
  <2>1. CASE ClientNotify(c)
    BY <2>1 DEF ClientNotify
  <2>2. ASSUME NEW t \in Roots, ClientSubmit(c, t) PROVE Channel!Next
    <3>1. t \in Tasks /\ t \notin Submitted /\ Enqueue(t) /\ UNCHANGED started
      BY <2>2, PoolConstants DEF ClientSubmit
    <3> QED BY <3>1, EnqueueSends
  <2> QED BY <1>2, <2>1, <2>2
<1>3. CASE Stop \/ NotifyAll \/ Join \/ UNCHANGED vars
  BY <1>3 DEF Stop, NotifyAll, Join, vars
<1> QED BY <1>1, <1>2, <1>3 DEF Next

\* The queue of the pool is a channel: tasks are started in the order in which they were
\* accepted, each once and none that was not; m_tasks itself has no limit, and the bound is
\* the number of tasks there are.
THEOREM PoolImplementsChannel ==
    ASSUME IsFiniteSet(Tasks)
    PROVE  Spec => ImplementsChannel
<1>1. Init => Channel!Init
  BY DEF Init, Channel!Init
<1>2. PoolInv /\ [Next]_vars => [Channel!Next]_<<accepted, started>>
  BY PoolStepsChannel
<1> QED BY <1>1, <1>2, PoolInit, InvNext, PTL DEF Spec, ImplementsChannel, Channel!Spec, Channel!channelVars
=============================================================================
