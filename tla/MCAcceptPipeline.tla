-------------------------- MODULE MCAcceptPipeline --------------------------
(* Instances of AcceptPipeline.                                              *)
EXTENDS AcceptPipeline

Service(type, clients, accepts, receives, sends) ==
  [type |-> type, maxClients |-> clients, maxAccepts |-> accepts,
   maxReceives |-> receives, maxSends |-> sends]

\* A datagram service that was counted for once, two listeners of which one may take
\* the room of the other, and a datagram service counted for as none, as in config.txt.
MCConfigurations ==
  {<<Service("TCPListener", 1, 2, 1, 1), Service("UDPSocket", 1, 0, 1, 1)>>,
   <<Service("TCPListener", 1, 1, 2, 1), Service("TCPListener", 2, 1, 1, 0)>>,
   <<Service("UDPSocket", 0, 0, 1, 0), Service("TCPListener", 2, 1, 1, 0)>>}
=============================================================================
