------------------------------- MODULE MCSync -------------------------------
(* All the semaphore words hash to one root. *)
EXTENDS SyncPrimitives, TLC

CONSTANTS r1

Words == {WriterSem, ReaderSem, WaitSema}

OneRoot == [a \in Words |-> r1]
=============================================================================
