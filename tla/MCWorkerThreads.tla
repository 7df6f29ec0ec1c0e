--------------------------- MODULE MCWorkerThreads ---------------------------
(* Two threads of WorkerThreads for TLC.                                      *)
EXTENDS WorkerThreads, TLC

CONSTANTS t1, t2, s1, s2, s3, s4

MCTwoThreads == {t1, t2}
MCSockets == {s1, s2, s3, s4}
===============================================================================
