------------------------------- MODULE MCSema -------------------------------
(* Two semaphore words that hash to the same root, as two of the addresses *)
(* of a program may: nwait and the root lock are shared between them.      *)
EXTENDS SemaClients, TLC

CONSTANTS a1, a2, r1

OneRoot == a1 :> r1 @@ a2 :> r1

\* Two permits may meet on one of them; the other is there to interfere.
TwoAndOne == a1 :> 2 @@ a2 :> 1
=============================================================================
