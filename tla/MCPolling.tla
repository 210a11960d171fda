------------------------------ MODULE MCPolling ------------------------------
(* A master, a node and a GPU node, so that an address can pass from one    *)
(* agent to another. A pause of two calls' time, and a collection that may  *)
(* take a pause, so that two of one call can be under way.                  *)
EXTENDS Polling

CONSTANTS master, node, gpu, none
=============================================================================
