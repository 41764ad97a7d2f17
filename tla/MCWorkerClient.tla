--------------------------- MODULE MCWorkerClient ---------------------------
(* Small instances of WorkerClient for TLC: tabs and lock names are        *)
(* interchangeable.                                                        *)
EXTENDS WorkerClient, TLC

TabSymmetry == Permutations(Tabs) \cup Permutations(Names)
=============================================================================
