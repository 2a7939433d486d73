---------------------------- MODULE MCWorkerLoop ----------------------------
(* Instances of WorkerLoop; threads and buffers are interchangeable.         *)
EXTENDS WorkerLoop, TLC

CONSTANTS OtherPackets, FailedAccepts, RequestErrors, AllOfThem, Faults

MCBound == [packet |-> OtherPackets, failed |-> FailedAccepts, error |-> RequestErrors,
            all |-> AllOfThem, fault |-> Faults]

Interchangeable == Permutations(Threads) \cup Permutations(Buffers)
=============================================================================
