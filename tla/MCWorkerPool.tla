---------------------------- MODULE MCWorkerPool ----------------------------
EXTENDS WorkerPool
CONSTANTS j1, j2, j3
MCRounds == {<<j1, j2, j3>>, <<j2>>, <<>>}
=============================================================================
