--------------------------- MODULE MCWorkerShutdown ---------------------------
EXTENDS WorkerShutdown
=============================================================================
