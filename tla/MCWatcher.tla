------------------------------ MODULE MCWatcher ------------------------------
(* Nodes and addresses for TLC: the master, a GPU node and a worker.        *)
(* Addresses are interchangeable and the master keeps its own, so that only *)
(* the runs in which it has a1 need be explored.                            *)
EXTENDS Watcher

CONSTANTS master, gpu, worker, a1, a2, a3

MCInit == Init /\ addr[Master] = a1

MCSpec == MCInit /\ [][Next]_vars /\ Fairness
=============================================================================
