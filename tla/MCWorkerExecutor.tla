-------------------------- MODULE MCWorkerExecutor --------------------------
\* Two processes and one job: the smallest instance in which a lease is taken
\* over while its first holder is still alive.
EXTENDS WorkerExecutor
=============================================================================
