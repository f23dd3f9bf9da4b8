------------------------------ MODULE Program ------------------------------
(* A program that uses the primitives of package sync: its goroutines.     *)

CONSTANT Goroutines
=============================================================================
