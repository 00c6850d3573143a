----------------------------- MODULE WorkerPool -----------------------------
(***************************************************************************)
(* thread/pool.cpp and thread/worker.cpp: ten worker threads, each with a  *)
(* queue of its own guarded by a mutex of its own.  The accept loop pushes *)
(* a task on the queue of a worker it draws at random; each worker polls   *)
(* its queue, sleeps 25 ms when it finds it empty, and otherwise runs the  *)
(* task to its end before it looks again.                                  *)
(*                                                                         *)
(* The two lock_guard sections touch nothing but the queue they guard and  *)
(* the caller's local pointer, so each is one atomic step here.            *)
(***************************************************************************)
EXTENDS Naturals, Sequences

CONSTANTS
    Workers,    \* the ten threads pool::pool starts
    Tasks,      \* the task objects main() can build
    Hanging,    \* tasks whose handler never returns (a program it runs and
                \* reads to end of file does not end, utils.cpp:164-173)
    nullptr

ASSUME PoolAssumption ==
    /\ nullptr \notin Tasks
    /\ Hanging \subseteq Tasks

VARIABLES
    m_tasks,    \* m_tasks[w]: the queue of worker w
    next_task,  \* next_task[w]: the task w has popped, or nullptr
    wpc,        \* where the loop of worker w is
    finished    \* history: tasks whose handler has returned

vars == <<m_tasks, next_task, wpc, finished>>

QueueOf(w) == {m_tasks[w][i] : i \in DOMAIN m_tasks[w]}
Queued == UNION {QueueOf(w) : w \in Workers}
Running == {next_task[w] : w \in Workers} \ {nullptr}
Known == Queued \cup Running \cup finished

TypeOK ==
    /\ m_tasks \in [Workers -> Seq(Tasks)]
    /\ next_task \in [Workers -> Tasks \cup {nullptr}]
    /\ wpc \in [Workers -> {"poll", "chill", "handle"}]
    /\ finished \subseteq Tasks
-----------------------------------------------------------------------------
(* Slips a change to this code could make; each breaks a property below. *)

\* main() moves its pointer away before the push
AddMovedFrom(w, t) ==
    /\ m_tasks' = [m_tasks EXCEPT ![w] = Append(@, nullptr)]
    /\ UNCHANGED <<next_task, wpc, finished>>

\* front() without pop()
TakeWithoutPop(w) ==
    /\ wpc[w] = "poll"
    /\ m_tasks[w] # <<>>
    /\ next_task' = [next_task EXCEPT ![w] = Head(m_tasks[w])]
    /\ wpc' = [wpc EXCEPT ![w] = "handle"]
    /\ UNCHANGED <<m_tasks, finished>>

\* "break" where worker.cpp:40 has "continue"
ChillAndLeave(w) ==
    /\ wpc[w] = "poll"
    /\ m_tasks[w] = <<>>
    /\ wpc' = [wpc EXCEPT ![w] = "left"]
    /\ UNCHANGED <<m_tasks, next_task, finished>>
-----------------------------------------------------------------------------
\* pool::pool starts every worker before the accept loop is entered
Init ==
    /\ m_tasks = [w \in Workers |-> <<>>]
    /\ next_task = [w \in Workers |-> nullptr]
    /\ wpc = [w \in Workers |-> "poll"]
    /\ finished = {}

\* pool::add_task, w being the index utils::random drew
AddTask(w, t) ==
    /\ m_tasks' = [m_tasks EXCEPT ![w] = Append(@, t)]
    /\ UNCHANGED <<next_task, wpc, finished>>

\* the locked section finds a task: front, pop, and on to server::handle
Take(w) ==
    /\ wpc[w] = "poll"
    /\ m_tasks[w] # <<>>
    /\ next_task' = [next_task EXCEPT ![w] = Head(m_tasks[w])]
    /\ m_tasks' = [m_tasks EXCEPT ![w] = Tail(@)]
    /\ wpc' = [wpc EXCEPT ![w] = "handle"]
    /\ UNCHANGED finished

\* the locked section finds the queue empty: next_task stays nullptr
Chill(w) ==
    /\ wpc[w] = "poll"
    /\ m_tasks[w] = <<>>
    /\ wpc' = [wpc EXCEPT ![w] = "chill"]
    /\ UNCHANGED <<m_tasks, next_task, finished>>

\* the 25 ms are over
Wake(w) ==
    /\ wpc[w] = "chill"
    /\ wpc' = [wpc EXCEPT ![w] = "poll"]
    /\ UNCHANGED <<m_tasks, next_task, finished>>

\* server.handle() has returned and the server object is destroyed
Finish(w) ==
    /\ wpc[w] = "handle"
    /\ next_task[w] \notin Hanging
    /\ finished' = finished \cup {next_task[w]}
    /\ next_task' = [next_task EXCEPT ![w] = nullptr]
    /\ wpc' = [wpc EXCEPT ![w] = "poll"]
    /\ UNCHANGED m_tasks

Work(w) == Take(w) \/ Chill(w) \/ Wake(w) \/ Finish(w)

\* main() builds a new task object for every call, so no task is added twice
Next ==
    \/ \E w \in Workers, t \in Tasks \ Known : AddTask(w, t)
    \/ \E w \in Workers : Work(w)

Spec == Init /\ [][Next]_vars

\* the operating system keeps scheduling every thread of the pool
FairSpec == Spec /\ \A w \in Workers : WF_vars(Work(w))
-----------------------------------------------------------------------------
\* No task is queued twice: two slots of the queues never hold one task.
NoTaskQueuedTwice ==
    \A v, w \in Workers :
        \A i \in DOMAIN m_tasks[v], j \in DOMAIN m_tasks[w] :
            m_tasks[v][i] = m_tasks[w][j] => v = w /\ i = j

\* A worker holds a task exactly while it is inside the handler.
HoldsTaskWhileHandling ==
    \A w \in Workers : wpc[w] = "handle" <=> next_task[w] # nullptr

\* No two workers run one task, a task that runs has left its queue, and a
\* task that has finished is neither queued nor running again.
NoTaskInTwoStages ==
    /\ \A v, w \in Workers :
           next_task[v] = next_task[w] /\ next_task[v] # nullptr => v = w
    /\ Queued \cap Running = {}
    /\ Queued \cap finished = {}
    /\ Running \cap finished = {}

\* Every task handed to pool::add_task is in one place only, from the push on
\* its queue to the end of its handler: it is run at most once, by one worker.
ExactlyOnce ==
    /\ NoTaskQueuedTwice
    /\ HoldsTaskWhileHandling
    /\ NoTaskInTwoStages

\* The pool keeps its promise to the accept loop.
Promise == INSTANCE TaskPool WITH waiting <- Queued, running <- next_task
KeepsPromise == Promise!Spec

\* A task waits for ever only behind a handler of its own worker that hangs.
StartedUnlessStuck ==
    \A t \in Tasks, w \in Workers :
        t \in QueueOf(w) ~> (t \notin Queued \/ next_task[w] \in Hanging)

\* main.cpp:286 says a task is added "to be processed by the thread pool when
\* possible": while some worker is free, a queued task does not wait for ever.
FreeWorker == \E w \in Workers : wpc[w] # "handle"
ProcessedWhenPossible ==
    \A t \in Tasks : t \in Queued ~> (t \notin Queued \/ ~FreeWorker)
=============================================================================
