-------------------------- MODULE MCConnectionServer --------------------------
(* Instance of ConnectionServer.                                             *)
EXTENDS ConnectionServer

CONSTANTS Clients, Arrivals, Errors, Both

MCBound == [connection |-> Clients, message |-> Arrivals, error |-> Errors,
            both |-> Both]
=============================================================================
