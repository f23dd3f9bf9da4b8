------------------------------ MODULE MCMutex ------------------------------
(* The semaphore word of the mutex alone on its root. *)
EXTENDS MutexClients, TLC

CONSTANTS r1

OneRoot == MutexSema :> r1

OneAddr == {MutexSema}
=============================================================================
