------------------------------ MODULE TaskPool ------------------------------
(***************************************************************************)
(* What thread::pool promises its only caller, the accept loop: a task     *)
(* handed over waits until some worker starts it, is run by exactly one    *)
(* worker, and is never run again.  Nothing is said about which worker     *)
(* takes it or in which order.  WorkerPool implements this.                *)
(***************************************************************************)
CONSTANTS
    Workers,    \* the threads of the pool
    Tasks,      \* every task object that can ever be built
    nullptr     \* "no task"

VARIABLES
    waiting,    \* tasks handed over and not started
    running,    \* running[w]: the task worker w is busy with, or nullptr
    finished    \* tasks whose handler has returned

vars == <<waiting, running, finished>>

Started == {running[w] : w \in Workers} \cup finished

Init ==
    /\ waiting = {}
    /\ running = [w \in Workers |-> nullptr]
    /\ finished = {}

Submit(t) ==
    /\ t \notin waiting \cup Started
    /\ waiting' = waiting \cup {t}
    /\ UNCHANGED <<running, finished>>

Start(w, t) ==
    /\ running[w] = nullptr
    /\ t \in waiting
    /\ waiting' = waiting \ {t}
    /\ running' = [running EXCEPT ![w] = t]
    /\ UNCHANGED finished

Complete(w) ==
    /\ running[w] # nullptr
    /\ running' = [running EXCEPT ![w] = nullptr]
    /\ finished' = finished \cup {running[w]}
    /\ UNCHANGED waiting

Next ==
    \/ \E t \in Tasks : Submit(t)
    \/ \E w \in Workers, t \in Tasks : Start(w, t)
    \/ \E w \in Workers : Complete(w)

Spec == Init /\ [][Next]_vars
=============================================================================
