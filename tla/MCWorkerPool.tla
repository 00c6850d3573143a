---------------------------- MODULE MCWorkerPool ----------------------------
EXTENDS WorkerPool, TLC

CONSTANTS w1, w2, t1, t2, t3

MCWorkers == {w1, w2}
MCTasks == {t1, t2, t3}
MCHanging == {t1}
=============================================================================
