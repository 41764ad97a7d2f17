-------------------------- MODULE MCWorkerRequests --------------------------
(* A small instance of WorkerRequests for TLC.                             *)
EXTENDS WorkerRequests

OnePage == {Page}
=============================================================================
