--------------------------- MODULE MCBufferManager ---------------------------
(* Instance of BufferManager: every interleaving of the calls of a few threads *)
(* on a pool smaller than the demand, so that the empty-pool return happens.   *)
EXTENDS BufferManager
=============================================================================
