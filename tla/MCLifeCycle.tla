------------------------------ MODULE MCLifeCycle ------------------------------
(* Instances of LifeCycle.                                                    *)
EXTENDS LifeCycle

Set(k, v) == [key |-> k, value |-> v]

\* Every file of at most four lines over these: a skipped line, an unknown key, keys
\* with a value, one with none, one without '='.
ShortLines ==
  {Set("", NoEquals), Set("LINGER", 1), Set("NUM_THREADS", 2), Set("NEW_SERVICE", NoEquals),
   Set("SERVICE_CODE", 0), Set("SERVICE_CODE", 1), Set("SERVICE_CODE", NoValue),
   Set("SERVICE_ADDRESS_REQUIRED", 2)}
ShortFiles == UNION {[1..n -> ShortLines] : n \in 0..4}

Service(type, code, clients, receives, sends) ==
  <<Set("NEW_SERVICE", NoEquals), Set("SERVICE_TYPE", type), Set("SERVICE_CODE", code),
    Set("SERVICE_MAX_CLIENTS", clients), Set("SERVICE_RQ_MAX_RECEIVES", receives),
    Set("SERVICE_RQ_MAX_SENDS", sends)>>

\* Whole configurations: a listener and a datagram service, of which each quantity is
\* at a boundary or on either side of the width, or the two have one code.
WholeFiles ==
  {<<Set("BUFFER_SIZE", size), Set("NUM_THREADS", threads)>>
     \o Service(1, 0, clients, 1, 1) \o Service(0, code, counted, receives, 1)
   : size \in {0, 1, 2, 3, 5}, threads \in {0, 1}, clients \in {1, 2, 7}, code \in {0, 1},
     counted \in {0, 1, 2}, receives \in {0, 2, -1}}

MCFiles == ShortFiles \cup WholeFiles
=============================================================================
