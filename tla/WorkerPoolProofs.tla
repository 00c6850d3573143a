-------------------------- MODULE WorkerPoolProofs --------------------------
(***************************************************************************)
(* What TLAPS proves of WorkerPool for every set of workers and of tasks:  *)
(* type correctness, ExactlyOnce, and that the pool implements TaskPool.   *)
(* TypeOK /\ ExactlyOnce is inductive as it stands: a task that leaves a   *)
(* queue is still known to be in no other slot because NoTaskQueuedTwice   *)
(* speaks of every pair of slots, and a new task is in none of the stages. *)
(***************************************************************************)
EXTENDS WorkerPool, SequenceTheorems, TLAPS

USE PoolAssumption

Inv == TypeOK /\ ExactlyOnce

\* Popping: the front task of a queue is one of its tasks, and the slots that
\* remain are the old slots but the first.
LEMMA PopFacts ==
    ASSUME NEW q \in Seq(Tasks), q # <<>>
    PROVE  /\ Head(q) \in Tasks
           /\ Tail(q) \in Seq(Tasks)
           /\ 1 \in DOMAIN q
           /\ Head(q) = q[1]
           /\ DOMAIN Tail(q) = 1 .. Len(q) - 1
           /\ \A i \in DOMAIN Tail(q) : i + 1 \in DOMAIN q /\ Tail(q)[i] = q[i + 1]
  OBVIOUS

\* Pushing: the new slot holds the pushed task, the old ones are unchanged.
LEMMA PushFacts ==
    ASSUME NEW q \in Seq(Tasks), NEW t \in Tasks
    PROVE  /\ Append(q, t) \in Seq(Tasks)
           /\ DOMAIN Append(q, t) = DOMAIN q \cup {Len(q) + 1}
           /\ Append(q, t)[Len(q) + 1] = t
           /\ Len(q) + 1 \notin DOMAIN q
           /\ \A i \in DOMAIN q : Append(q, t)[i] = q[i]
  OBVIOUS

\* A known task is queued, running or finished.
LEMMA KnownFacts ==
    ASSUME NEW t, t \notin Known
    PROVE  /\ \A v \in Workers : \A i \in DOMAIN m_tasks[v] : m_tasks[v][i] # t
           /\ t # nullptr => \A v \in Workers : next_task[v] # t
           /\ t \notin finished
  BY DEF Known, Queued, QueueOf, Running

\* add_task: the new task is in no other slot and in no other stage.
LEMMA AddTaskStep ==
    ASSUME Inv, NEW w \in Workers, NEW t \in Tasks \ Known, AddTask(w, t)
    PROVE  Inv'
<1> USE DEF Inv
<1>1. TypeOK'
  BY PushFacts DEF AddTask, TypeOK
<1>2. /\ m_tasks'[w] = Append(m_tasks[w], t)
      /\ \A v \in Workers \ {w} : m_tasks'[v] = m_tasks[v]
      /\ m_tasks[w] \in Seq(Tasks)
  BY DEF AddTask, TypeOK
<1>3. t # nullptr
  OBVIOUS
<1>4. NoTaskQueuedTwice'
  <2>1. ASSUME NEW v \in Workers, NEW i \in DOMAIN m_tasks'[v]
        PROVE  \/ i \in DOMAIN m_tasks[v] /\ m_tasks'[v][i] = m_tasks[v][i]
               \/ v = w /\ i = Len(m_tasks[w]) + 1 /\ m_tasks'[v][i] = t
    <3>1. CASE v = w
      BY <1>2, <2>1, <3>1, PushFacts
    <3>2. CASE v # w
      BY <1>2, <2>1, <3>2
    <3> QED BY <3>1, <3>2
  <2>2. \A v \in Workers : \A i \in DOMAIN m_tasks[v] : m_tasks[v][i] # t
    BY KnownFacts
  <2>3. SUFFICES ASSUME NEW u \in Workers, NEW v \in Workers,
                        NEW i \in DOMAIN m_tasks'[u], NEW j \in DOMAIN m_tasks'[v],
                        m_tasks'[u][i] = m_tasks'[v][j]
                 PROVE  u = v /\ i = j
    BY DEF NoTaskQueuedTwice
  <2> QED BY <2>1, <2>2, <2>3 DEF NoTaskQueuedTwice, ExactlyOnce
<1>5. HoldsTaskWhileHandling'
  BY DEF AddTask, HoldsTaskWhileHandling, ExactlyOnce
<1>6. Queued' = Queued \cup {t}
  BY <1>2, PushFacts DEF Queued, QueueOf
<1>7. Running' = Running /\ finished' = finished /\ next_task' = next_task
  BY DEF AddTask, Running
<1>8. NoTaskInTwoStages'
  BY <1>6, <1>7 DEF NoTaskInTwoStages, ExactlyOnce, Known
<1> QED BY <1>1, <1>4, <1>5, <1>8 DEF ExactlyOnce

\* The popped task leaves the queues and nothing else does.
LEMMA TakeLeaves ==
    ASSUME Inv, NEW w \in Workers, Take(w)
    PROVE  /\ Head(m_tasks[w]) \in Queued
           /\ Queued' = Queued \ {Head(m_tasks[w])}
<1> DEFINE t == Head(m_tasks[w])
<1>1. /\ m_tasks[w] \in Seq(Tasks) /\ m_tasks[w] # <<>>
      /\ m_tasks'[w] = Tail(m_tasks[w])
      /\ \A v \in Workers \ {w} : m_tasks'[v] = m_tasks[v]
  BY DEF Take, Inv, TypeOK
<1>2. t = m_tasks[w][1] /\ 1 \in DOMAIN m_tasks[w] /\ t \in Tasks
  BY <1>1, PopFacts
<1>3. t \in Queued
  BY <1>2 DEF Queued, QueueOf
<1>4. t \notin Queued'
  <2>1. ASSUME NEW v \in Workers, NEW i \in DOMAIN m_tasks'[v]
        PROVE  m_tasks'[v][i] # t
    <3>1. CASE v = w
      <4>1. /\ i \in 1 .. Len(m_tasks[w]) - 1
            /\ i + 1 \in DOMAIN m_tasks[w]
            /\ m_tasks'[w][i] = m_tasks[w][i + 1]
        BY <3>1, <2>1, <1>1, PopFacts
      <4>2. i + 1 # 1
        BY <4>1, <1>1
      <4> QED BY <4>1, <4>2, <3>1, <1>2 DEF Inv, ExactlyOnce, NoTaskQueuedTwice
    <3>2. CASE v # w
      BY <3>2, <2>1, <1>1, <1>2 DEF Inv, ExactlyOnce, NoTaskQueuedTwice
    <3> QED BY <3>1, <3>2
  <2> QED BY <2>1 DEF Queued, QueueOf
<1>5. Queued' \subseteq Queued
  <2>1. ASSUME NEW v \in Workers, NEW i \in DOMAIN m_tasks'[v]
        PROVE  \E j \in DOMAIN m_tasks[v] : m_tasks'[v][i] = m_tasks[v][j]
    <3>1. CASE v = w
      BY <3>1, <2>1, <1>1, PopFacts
    <3>2. CASE v # w
      BY <3>2, <2>1, <1>1
    <3> QED BY <3>1, <3>2
  <2> QED BY <2>1 DEF Queued, QueueOf
<1>6. Queued \subseteq Queued' \cup {t}
  <2>1. ASSUME NEW v \in Workers, NEW i \in DOMAIN m_tasks[v], m_tasks[v][i] # t
        PROVE  \E j \in DOMAIN m_tasks'[v] : m_tasks[v][i] = m_tasks'[v][j]
    <3>1. CASE v = w
      <4>1. i # 1 /\ i \in 1 .. Len(m_tasks[w])
        BY <3>1, <2>1, <1>1, <1>2
      <4>2. i - 1 \in 1 .. Len(m_tasks[w]) - 1
        BY <4>1, <1>1
      <4>3. /\ i - 1 \in DOMAIN m_tasks'[w]
            /\ m_tasks'[w][i - 1] = m_tasks[w][(i - 1) + 1]
        BY <4>2, <1>1, PopFacts
      <4>4. (i - 1) + 1 = i
        BY <4>1
      <4> QED BY <4>3, <4>4, <3>1
    <3>2. CASE v # w
      BY <3>2, <2>1, <1>1
    <3> QED BY <3>1, <3>2
  <2> QED BY <2>1 DEF Queued, QueueOf
<1> QED BY <1>3, <1>4, <1>5, <1>6

\* The locked section of the worker: the task moves from its queue to the
\* worker and is in no other slot.
LEMMA TakeStep ==
    ASSUME Inv, NEW w \in Workers, Take(w)
    PROVE  Inv'
<1> DEFINE t == Head(m_tasks[w])
<1>1. /\ m_tasks[w] \in Seq(Tasks) /\ m_tasks[w] # <<>>
      /\ m_tasks'[w] = Tail(m_tasks[w])
      /\ \A v \in Workers \ {w} : m_tasks'[v] = m_tasks[v]
      /\ next_task' = [next_task EXCEPT ![w] = t]
      /\ finished' = finished
  BY DEF Take, Inv, TypeOK
<1>2. t \in Tasks /\ t # nullptr
  BY <1>1, PopFacts
<1>3. TypeOK'
  BY <1>1, <1>2, PopFacts DEF Take, Inv, TypeOK
<1>4. NoTaskQueuedTwice'
  <2>1. ASSUME NEW v \in Workers, NEW i \in DOMAIN m_tasks'[v]
        PROVE  IF v = w
               THEN i + 1 \in DOMAIN m_tasks[v] /\ m_tasks'[v][i] = m_tasks[v][i + 1] /\ i \in Nat
               ELSE i \in DOMAIN m_tasks[v] /\ m_tasks'[v][i] = m_tasks[v][i]
    <3>1. CASE v = w
      <4>1. i \in DOMAIN Tail(m_tasks[w]) /\ m_tasks'[v][i] = Tail(m_tasks[w])[i]
        BY <1>1, <2>1, <3>1
      <4>2. i \in 1 .. Len(m_tasks[w]) - 1
        BY <1>1, <4>1, PopFacts
      <4> QED BY <1>1, <3>1, <4>1, <4>2, PopFacts
    <3>2. CASE v # w
      BY <1>1, <2>1, <3>2
    <3> QED BY <3>1, <3>2
  <2>2. SUFFICES ASSUME NEW u \in Workers, NEW v \in Workers,
                        NEW i \in DOMAIN m_tasks'[u], NEW j \in DOMAIN m_tasks'[v],
                        m_tasks'[u][i] = m_tasks'[v][j]
                 PROVE  u = v /\ i = j
    BY DEF NoTaskQueuedTwice
  <2> QED BY <2>1, <2>2 DEF Inv, ExactlyOnce, NoTaskQueuedTwice
<1>5. HoldsTaskWhileHandling'
  BY <1>1, <1>2 DEF Take, Inv, TypeOK, ExactlyOnce, HoldsTaskWhileHandling
<1>6. next_task[w] = nullptr
  BY DEF Take, Inv, ExactlyOnce, HoldsTaskWhileHandling
<1>7. Running' = Running \cup {t}
  BY <1>1, <1>2, <1>6 DEF Running, Inv, TypeOK
<1>8. t \notin Running /\ t \notin finished
  BY TakeLeaves DEF Inv, ExactlyOnce, NoTaskInTwoStages
<1>9. NoTaskInTwoStages'
  <2>1. \A u, v \in Workers :
            next_task'[u] = next_task'[v] /\ next_task'[u] # nullptr => u = v
    BY <1>1, <1>8 DEF Running, Inv, TypeOK, ExactlyOnce, NoTaskInTwoStages
  <2>2. /\ Queued' \cap Running' = {}
        /\ Queued' \cap finished' = {}
        /\ Running' \cap finished' = {}
    BY <1>1, <1>7, <1>8, TakeLeaves DEF Inv, ExactlyOnce, NoTaskInTwoStages
  <2> QED BY <2>1, <2>2 DEF NoTaskInTwoStages
<1> QED BY <1>3, <1>4, <1>5, <1>9 DEF Inv, ExactlyOnce

\* Sleeping and waking up move no task.
LEMMA SleepStep ==
    ASSUME Inv, NEW w \in Workers, Chill(w) \/ Wake(w)
    PROVE  Inv' /\ UNCHANGED <<Queued, next_task, finished>>
<1>1. UNCHANGED <<m_tasks, next_task, finished>>
  BY DEF Chill, Wake
<1>2. UNCHANGED <<Queued, Running, NoTaskQueuedTwice>>
  BY <1>1 DEF Queued, QueueOf, Running, NoTaskQueuedTwice
<1>3. TypeOK'
  BY DEF Chill, Wake, Inv, TypeOK
<1>4. HoldsTaskWhileHandling'
  BY DEF Chill, Wake, Inv, TypeOK, ExactlyOnce, HoldsTaskWhileHandling
<1>5. NoTaskInTwoStages'
  BY <1>1, <1>2 DEF Inv, ExactlyOnce, NoTaskInTwoStages
<1> QED BY <1>1, <1>2, <1>3, <1>4, <1>5 DEF Inv, ExactlyOnce

\* The end of a handler: the task moves from its worker to the finished ones.
LEMMA FinishStep ==
    ASSUME Inv, NEW w \in Workers, Finish(w)
    PROVE  /\ Inv'
           /\ Queued' = Queued
           /\ next_task[w] \in Tasks /\ next_task[w] # nullptr
           /\ Running' = Running \ {next_task[w]}
<1>1. /\ next_task[w] \in Tasks /\ next_task[w] # nullptr
      /\ next_task' = [next_task EXCEPT ![w] = nullptr]
      /\ finished' = finished \cup {next_task[w]}
      /\ m_tasks' = m_tasks
  BY DEF Finish, Inv, TypeOK, ExactlyOnce, HoldsTaskWhileHandling
<1>2. TypeOK'
  BY <1>1 DEF Finish, Inv, TypeOK
<1>3. UNCHANGED <<Queued, NoTaskQueuedTwice>>
  BY <1>1 DEF Queued, QueueOf, NoTaskQueuedTwice
<1>4. HoldsTaskWhileHandling'
  BY <1>1 DEF Finish, Inv, TypeOK, ExactlyOnce, HoldsTaskWhileHandling
<1>5. Running' = Running \ {next_task[w]}
  BY <1>1 DEF Running, Inv, TypeOK, ExactlyOnce, NoTaskInTwoStages
<1>6. next_task[w] \in Running
  BY <1>1 DEF Running
<1>7. NoTaskInTwoStages'
  BY <1>1, <1>3, <1>5, <1>6 DEF Inv, TypeOK, ExactlyOnce, NoTaskInTwoStages
<1> QED BY <1>1, <1>2, <1>3, <1>4, <1>5, <1>7 DEF Inv, ExactlyOnce

\* The empty pool has the invariant.
LEMMA InitInv == Init => Inv
<1> SUFFICES ASSUME Init PROVE Inv
  OBVIOUS
<1>1. TypeOK /\ HoldsTaskWhileHandling
  BY DEF Init, TypeOK, HoldsTaskWhileHandling
<1>2. NoTaskQueuedTwice
  BY DEF Init, NoTaskQueuedTwice
<1>3. Queued = {} /\ Running = {} /\ finished = {}
  BY DEF Init, Queued, QueueOf, Running
<1>4. NoTaskInTwoStages
  BY <1>3 DEF Init, NoTaskInTwoStages
<1> QED BY <1>1, <1>2, <1>4 DEF Inv, ExactlyOnce

\* Every step keeps it.
LEMMA StepInv == Inv /\ [Next]_vars => Inv'
<1> SUFFICES ASSUME Inv, [Next]_vars PROVE Inv'
  OBVIOUS
<1>1. CASE \E w \in Workers, t \in Tasks \ Known : AddTask(w, t)
  BY <1>1, AddTaskStep
<1>2. CASE \E w \in Workers : Take(w)
  BY <1>2, TakeStep
<1>3. CASE \E w \in Workers : Chill(w) \/ Wake(w)
  BY <1>3, SleepStep
<1>4. CASE \E w \in Workers : Finish(w)
  BY <1>4, FinishStep
<1>5. CASE UNCHANGED vars
  <2>1. UNCHANGED <<Queued, Running, TypeOK, NoTaskQueuedTwice, HoldsTaskWhileHandling>>
    BY <1>5 DEF vars, Queued, QueueOf, Running, TypeOK, NoTaskQueuedTwice,
                HoldsTaskWhileHandling
  <2>2. UNCHANGED NoTaskInTwoStages
    BY <1>5, <2>1 DEF vars, NoTaskInTwoStages
  <2> QED BY <2>1, <2>2 DEF Inv, ExactlyOnce
<1> QED BY <1>1, <1>2, <1>3, <1>4, <1>5 DEF Next, Work

\* Every queue holds tasks, every worker holds a task or nullptr, always.
THEOREM TypeCorrect == Spec => []TypeOK
<1>1. Spec => []Inv
  BY InitInv, StepInv, PTL DEF Spec
<1>2. Inv => TypeOK
  BY DEF Inv
<1> QED BY <1>1, <1>2, PTL

\* Whatever the workers and the accept loop do, a task given to add_task is
\* in one place only: one slot of one queue, or one worker, or finished.
THEOREM TasksRunExactlyOnce == Spec => []ExactlyOnce
<1>1. Spec => []Inv
  BY InitInv, StepInv, PTL DEF Spec
<1>2. Inv => ExactlyOnce
  BY DEF Inv
<1> QED BY <1>1, <1>2, PTL

\* thread::pool implements TaskPool: add_task is Submit, the worker's locked
\* section is Start, the end of a handler is Complete, the naps are stutters.
THEOREM PoolImplementsTaskPool == Spec => KeepsPromise
<1>1. Init => Promise!Init
  BY DEF Init, Promise!Init, Queued, QueueOf
<1>2. ASSUME Inv, [Next]_vars PROVE [Promise!Next]_Promise!vars
  <2>1. ASSUME NEW w \in Workers, NEW t \in Tasks \ Known, AddTask(w, t)
        PROVE  Promise!Submit(t)
    <3>1. t \notin Queued \cup Promise!Started
      BY DEF Known, Running, Promise!Started
    <3>2. /\ m_tasks'[w] = Append(m_tasks[w], t)
          /\ \A v \in Workers \ {w} : m_tasks'[v] = m_tasks[v]
          /\ m_tasks[w] \in Seq(Tasks)
      BY <1>2, <2>1 DEF AddTask, Inv, TypeOK
    <3>3. Queued' = Queued \cup {t}
      BY <3>2, PushFacts DEF Queued, QueueOf
    <3> QED BY <2>1, <3>1, <3>3 DEF AddTask, Promise!Submit
  <2>2. ASSUME NEW w \in Workers, Take(w)
        PROVE  Promise!Start(w, Head(m_tasks[w])) /\ Head(m_tasks[w]) \in Tasks
    <3>1. next_task[w] = nullptr
      BY <1>2, <2>2 DEF Take, Inv, ExactlyOnce, HoldsTaskWhileHandling
    <3>2. Head(m_tasks[w]) \in Tasks
      BY <1>2, <2>2, PopFacts DEF Take, Inv, TypeOK
    <3> QED BY <1>2, <2>2, <3>1, <3>2, TakeLeaves DEF Take, Promise!Start
  <2>3. ASSUME NEW w \in Workers, Chill(w) \/ Wake(w)
        PROVE  UNCHANGED Promise!vars
    BY <1>2, <2>3, SleepStep DEF Promise!vars
  <2>4. ASSUME NEW w \in Workers, Finish(w)
        PROVE  Promise!Complete(w)
    BY <1>2, <2>4, FinishStep DEF Finish, Promise!Complete
  <2>5. CASE UNCHANGED vars
    BY <2>5 DEF vars, Promise!vars, Queued, QueueOf
  <2> QED BY <1>2, <2>1, <2>2, <2>3, <2>4, <2>5 DEF Next, Work, Promise!Next
<1>3. Spec => []Inv
  BY InitInv, StepInv, PTL DEF Spec
<1> QED BY <1>1, <1>2, <1>3, PTL DEF Spec, KeepsPromise, Promise!Spec
=============================================================================
