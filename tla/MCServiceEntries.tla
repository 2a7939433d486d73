-------------------------- MODULE MCServiceEntries --------------------------
(* Instances of ServiceEntries; threads and buffers are interchangeable.     *)
EXTENDS ServiceEntries, TLC

CONSTANTS Accepted, Messages, Errors

MCBound == [connection |-> Accepted, message |-> Messages, error |-> Errors]

Interchangeable == Permutations(Threads) \cup Permutations(Buffers)
=============================================================================
