------------------------------ MODULE LifeCycle ------------------------------
(***************************************************************************)
(* The main thread from the first line of _tmain to its last: the           *)
(* configuration is loaded (ConfigLoader), the memory for it is laid out    *)
(* (BufferLayout), RIO, the completion port and the completion queue are    *)
(* set up, the services are created, the workers run, and after the Escape  *)
(* key RIOManager::Shutdown and the destructors give things back.  Any      *)
(* error that is looked at ends the process (exit(0)).                      *)
(*                                                                         *)
(* While the workers run only what matters for shutdown is here: entries    *)
(* are added to services and closed.  How they do it, and what may go wrong *)
(* meanwhile, is the subject of the other modules; AcceptPipeline has the   *)
(* accept slots that creating a listener fills.                             *)
(*                                                                         *)
(* External: any call of Windows may fail; RIO refuses a completion queue   *)
(* for an invalid port, a request queue there is no room for, and a receive *)
(* into a segment that is not in registered memory.                         *)
(***************************************************************************)
EXTENDS ConfigLoader, BufferLayout

CONSTANTS Garbage,          \* what uninitialised memory may hold
          MaxConnections    \* clients accepted

ASSUME GarbageAssumption == Garbage \subseteq int /\ Garbage # {}
ASSUME NumbersAssumption ==
  \A f \in Files : \A i \in DOMAIN f : f[i].value \in int \cup {NoEquals, NoValue}
ASSUME MaxConnectionsAssumption == MaxConnections \in Nat

VARIABLES
  main,             \* place in _tmain
  config,           \* rioMainConfig and services as they are used: all fields hold values
  memory,           \* none, registered, refused (by RIORegisterBuffer, which nobody
                    \* looks at), deregistered, freed
  freeBufferIndex,
  port,             \* none, open, closed
  queue,            \* the completion queue, likewise
  created,          \* services created
  posted,           \* receives outstanding on each of them that is a datagram service
  left,             \* receives still to be posted on the one being created
  accepted,         \* connections so far
  entries,          \* those listed: the service of each
  requestQueues,    \* request queues of open sockets
  criticalSectionDump,
  deleted           \* how often the section of each connection was deleted

setup    == <<memory, freeBufferIndex, port, queue>>
creation == <<created, posted, left>>
running  == <<accepted, entries, requestQueues, criticalSectionDump, deleted>>
tmain    == <<main, config, setup, creation, running>>
vars     == <<loader, tmain>>

Connections == 1..MaxConnections

Init ==
  /\ LoadInit
  /\ main = "load" /\ config = [main |-> NewRIOMainConfig, services |-> <<>>]
  /\ memory = "none" /\ freeBufferIndex = <<>>
  /\ port = "none" /\ queue = "none"
  /\ created = 0 /\ posted = <<>> /\ left = 0
  /\ accepted = 0 /\ entries = <<>> /\ requestQueues = {} /\ criticalSectionDump = <<>>
  /\ deleted = [c \in Connections |-> 0]

-----------------------------------------------------------------------------
(* Loading, sizes, RIO, port and queue.                                     *)

Load == LoadNext /\ UNCHANGED tmain

\* A file that cannot be opened or read ends the process; else its services are
\* used, with what is in the memory of the fields no line has set.
Loaded ==
  /\ main = "load"
  /\ \/ loading \in {"failed", "threw"} /\ main' = "exited" /\ UNCHANGED config
     \/ /\ loading = "loaded" /\ main' = "initialize"
        /\ \E g \in Garbage :
             LET Held(f) == [k \in DOMAIN f |-> IF f[k] = Unset THEN g ELSE f[k]] IN
             config' = [main |-> Held(rioMainConfig),
                        services |-> [i \in DOMAIN services |-> Held(services[i])]]
  /\ UNCHANGED <<loader, setup, creation, running>>

bufferSize  == U(config.main.BUFFER_SIZE)
bufferCount == numberBuffersRequired(config.services)
Segments    == totalBufferCount(bufferSize, bufferCount)

Exit(l) == main = l /\ main' = "exited" /\ UNCHANGED <<loader, config, setup, creation, running>>

\* InitializeRIO: Winsock, the extensions, and VirtualAllocEx, which has no memory
\* of size 0 to give; the identifier RIORegisterBuffer returns is not looked at.
InitializeRIO ==
  /\ main = "initialize" /\ main' = "port"
  /\ totalBufferSize(bufferSize, bufferCount) # 0
  /\ memory' \in {"registered", "refused"}
  /\ freeBufferIndex' = [i \in 1..Segments |-> i - 1]
  /\ UNCHANGED <<loader, config, port, queue, creation, running>>

\* CreateIOCP returns NULL when it fails, and _tmain compares with
\* INVALID_HANDLE_VALUE: either way it goes on.
CreateIOCP ==
  /\ main = "port" /\ main' = "queue"
  /\ port' \in {"open", "none"}
  /\ UNCHANGED <<loader, config, memory, freeBufferIndex, queue, creation, running>>

\* Mutation: the queue is made without looking at the port.
CreateCQOnAnyPort ==
  /\ main = "queue" /\ main' = "create"
  /\ queue' = "open"
  /\ UNCHANGED <<loader, config, memory, freeBufferIndex, port, creation, running>>

\* Without a port GetMainIOCP returns INVALID_HANDLE_VALUE, and there is no queue.
CreateCQ ==
  /\ main = "queue" /\ main' = "create"
  /\ port = "open" /\ queue' = "open"
  /\ UNCHANGED <<loader, config, memory, freeBufferIndex, port, creation, running>>

-----------------------------------------------------------------------------
(* The services.                                                            *)

Next1     == config.services[created + 1]
Created   == {config.services[i] : i \in 1..created}
IsNewCode == \A s \in Created : s.SERVICE_CODE # Next1.SERVICE_CODE

UDPSocket   == 0
TCPListener == 1

\* RIOCreateRequestQueue takes ULONGs: a negative number is a large one.  The completion
\* queue holds what the request queues so far were given.
QueueRoom(s) == U(s.SERVICE_RQ_MAX_RECEIVES) + U(s.SERVICE_RQ_MAX_SENDS)
Taken(i)     == IF config.services[i].SERVICE_TYPE = UDPSocket
                THEN QueueRoom(config.services[i]) ELSE 0
HasRoom ==
  SumFunction([i \in 1..created |-> Taken(i)]) + QueueRoom(Next1)
    <= maximumCQSize(config.services)

\* The service is inserted, then its receives are posted.
CreateDatagram ==
  /\ main = "create" /\ created < Len(config.services)
  /\ Next1.SERVICE_TYPE = UDPSocket /\ HasRoom /\ IsNewCode
  /\ main' = "post"
  /\ created' = created + 1
  /\ posted' = Append(posted, 0) /\ left' = Next1.SERVICE_RQ_MAX_RECEIVES
  /\ requestQueues' = requestQueues \cup {<<"service", created + 1>>}
  /\ UNCHANGED <<loader, config, setup, accepted, entries, criticalSectionDump, deleted>>

Accepts(i) == memory = "registered" /\ Inside(bufferSize, bufferCount, i)

\* PostReceiveOnUDPService; what it returns is only printed.
PostReceive ==
  /\ main = "post" /\ left > 0
  /\ left' = left - 1
  /\ \/ freeBufferIndex = <<>> /\ UNCHANGED <<freeBufferIndex, posted>>
     \/ /\ freeBufferIndex # <<>>
        /\ IF Accepts(Head(freeBufferIndex))
             THEN /\ posted' = [posted EXCEPT ![created] = @ + 1]
                  /\ freeBufferIndex' = Tail(freeBufferIndex)
             ELSE /\ freeBufferIndex' = Append(Tail(freeBufferIndex),
                       bufferIndex(bufferSize, Offset(bufferSize, Head(freeBufferIndex))))
                  /\ UNCHANGED posted
  /\ UNCHANGED <<loader, main, config, memory, port, queue, created, running>>

ReceivesPosted ==
  /\ main = "post" /\ left <= 0
  /\ main' = "create"
  /\ UNCHANGED <<loader, config, setup, creation, running>>

CreateListener ==
  /\ main = "create" /\ created < Len(config.services)
  /\ Next1.SERVICE_TYPE = TCPListener /\ IsNewCode
  /\ created' = created + 1 /\ posted' = Append(posted, 0)
  /\ UNCHANGED <<loader, main, config, setup, left, running>>

\* The call of Windows fails, or one of the tests does.
Fail == \E l \in {"initialize", "queue", "create"} : Exit(l)

CreateThreads ==
  /\ main = "create" /\ created = Len(config.services)
  /\ main' = "running"
  /\ UNCHANGED <<loader, config, setup, creation, running>>

-----------------------------------------------------------------------------
(* The workers, if NUM_THREADS gives any, add entries and close them.       *)

Working == main = "running" /\ config.main.NUM_THREADS > 0

AddEntryToService ==
  /\ Working /\ accepted < MaxConnections
  /\ \E s \in 1..created :
       /\ config.services[s].SERVICE_TYPE = TCPListener
       /\ entries' = [c \in DOMAIN entries \cup {accepted + 1} |->
                        IF c = accepted + 1 THEN s ELSE entries[c]]
  /\ accepted' = accepted + 1
  /\ requestQueues' = requestQueues \cup {<<"entry", accepted + 1>>}
  /\ UNCHANGED <<loader, main, config, setup, creation, criticalSectionDump, deleted>>

\* The section of the entry is kept for Shutdown to delete.
CloseServiceEntry ==
  /\ Working
  /\ \E c \in DOMAIN entries :
       /\ entries' = [d \in DOMAIN entries \ {c} |-> entries[d]]
       /\ requestQueues' = requestQueues \ {<<"entry", c>>}
       /\ criticalSectionDump' = Append(criticalSectionDump, c)
  /\ UNCHANGED <<loader, main, config, setup, creation, accepted, deleted>>

\* Escape; every worker ends (WorkerLoop).
EscapeAndJoin ==
  /\ main = "running" /\ main' = "CloseAllSockets"
  /\ UNCHANGED <<loader, config, setup, creation, running>>

-----------------------------------------------------------------------------
(* Shutdown, call by call.                                                  *)

\* Mutation: a datagram service is taken to have no listeningSocket.
CloseListenersOnly ==
  /\ main = "CloseAllSockets" /\ main' = "CloseCQs"
  /\ requestQueues' = requestQueues \ {<<"entry", c>> : c \in DOMAIN entries}
  /\ deleted' = [c \in Connections |-> deleted[c] + (IF c \in DOMAIN entries THEN 1 ELSE 0)]
  /\ UNCHANGED <<loader, config, setup, creation, accepted, entries, criticalSectionDump>>

\* The socket of a datagram service is its listeningSocket.
CloseAllSockets ==
  /\ main = "CloseAllSockets" /\ main' = "CloseCQs"
  /\ requestQueues' = requestQueues \ ({<<"service", s>> : s \in 1..created}
                                       \cup {<<"entry", c>> : c \in DOMAIN entries})
  /\ deleted' = [c \in Connections |-> deleted[c] + (IF c \in DOMAIN entries THEN 1 ELSE 0)]
  /\ UNCHANGED <<loader, config, setup, creation, accepted, entries, criticalSectionDump>>

CloseCQs ==
  /\ main = "CloseCQs" /\ main' = "CloseIOCPHandles"
  /\ queue' = "closed"
  /\ UNCHANGED <<loader, config, memory, freeBufferIndex, port, creation, running>>

CloseIOCPHandles ==
  /\ main = "CloseIOCPHandles" /\ main' = "dump"
  /\ port' = "closed"
  /\ UNCHANGED <<loader, config, memory, freeBufferIndex, queue, creation, running>>

DeleteDump ==
  /\ main = "dump" /\ main' = "ShutdownCleanup"
  /\ deleted' = [c \in Connections |->
       deleted[c] + Cardinality({i \in DOMAIN criticalSectionDump : criticalSectionDump[i] = c})]
  /\ UNCHANGED <<loader, config, setup, creation, accepted, entries, requestQueues,
                 criticalSectionDump>>

ShutdownCleanup ==
  /\ main = "ShutdownCleanup" /\ main' = "return"
  /\ memory' = "deregistered"
  /\ UNCHANGED <<loader, config, freeBufferIndex, port, queue, creation, running>>

\* The destructor of BufferManager, when _tmain returns.
Destruct ==
  /\ main = "return" /\ main' = "returned"
  /\ memory' = "freed"
  /\ UNCHANGED <<loader, config, freeBufferIndex, port, queue, creation, running>>

-----------------------------------------------------------------------------

Next ==
  \/ Load \/ Loaded \/ InitializeRIO \/ CreateIOCP \/ CreateCQ
  \/ CreateDatagram \/ PostReceive \/ ReceivesPosted \/ CreateListener \/ Fail \/ CreateThreads
  \/ AddEntryToService \/ CloseServiceEntry \/ EscapeAndJoin
  \/ CloseAllSockets \/ CloseCQs \/ CloseIOCPHandles \/ DeleteDump \/ ShutdownCleanup \/ Destruct

Spec == Init /\ [][Next]_vars

-----------------------------------------------------------------------------
(* Properties                                                               *)

Ends == {"exited", "returned"}

\* Shape of the state.
TypeOK ==
  /\ line \in 0..Len(file) /\ serviceCount \in 0..line
  /\ Len(services) <= IF serviceCount = 0 THEN 1 ELSE serviceCount
  /\ main \in Ends \cup {"load", "initialize", "port", "queue", "create", "post", "running",
       "CloseAllSockets", "CloseCQs", "CloseIOCPHandles", "dump", "ShutdownCleanup", "return"}
  /\ memory \in {"none", "registered", "refused", "deregistered", "freed"}
  /\ freeBufferIndex \in Seq(DWORD)
  /\ {port, queue} \subseteq {"none", "open", "closed"}
  /\ created = Len(posted) /\ created <= Len(config.services)
  /\ accepted \in 0..MaxConnections /\ DOMAIN entries \subseteq 1..accepted
  /\ criticalSectionDump \in Seq(1..accepted)

\* Once memory is laid out, every segment lies in it and its offset leads back to
\* its index, exactly when the size asked for did not wrap: below 2^32 bytes the
\* layout is sound whatever the configuration, and above, a start-up that goes on
\* always has a segment outside the memory it registered.
SegmentsFit ==
  main \notin {"load", "initialize", "exited"} =>
    /\ SegmentsSound(bufferSize, bufferCount) <=> NoWrap(bufferSize, bufferCount)
    /\ NoWrap(bufferSize, bufferCount) => SegmentsEnough(bufferSize, bufferCount)

\* The server runs only with everything it was configured for: a port (although the
\* test for a failed CreateIOCP can never be true), a queue on it, memory, and each
\* service of the file under a code of its own.
RunningComplete ==
  main = "running" =>
    /\ port = "open" /\ queue = "open" /\ memory # "none" /\ Segments > 0
    /\ Len(config.services) = Len(services)
    /\ Cardinality({s.SERVICE_CODE : s \in Created}) = Len(services)
    /\ \A s \in Created : s.SERVICE_TYPE \in {UDPSocket, TCPListener}

\* A server that runs has posted every receive of its datagram services, though
\* nobody looks at whether they were: a service that no segments were counted for
\* (SERVICE_MAX_CLIENTS 0, or a sum that wrapped) finds no room in the completion
\* queue first, which is never larger than the pool as long as the product fits.
InitialReceivesPosted ==
  main = "running" /\ memory = "registered" /\ NoWrap(bufferSize, bufferCount)
  => \A i \in 1..created : config.services[i].SERVICE_TYPE = UDPSocket
       => posted[i] = config.services[i].SERVICE_RQ_MAX_RECEIVES

\* Shutdown gives things back before what they rest on: no queue is closed while a
\* request queue on it is open, no port before the queue, no memory deregistered that
\* RIO may still write to; and the section of each connection is deleted once, whether
\* it was still listed or had been closed.
ShutdownInOrder ==
  /\ queue = "closed" => requestQueues = {}
  /\ port = "closed" => queue = "closed"
  /\ memory \in {"deregistered", "freed"} => requestQueues = {} /\ queue = "closed"
  /\ \A c \in Connections : deleted[c] <= 1
  /\ main = "returned" => \A c \in 1..accepted : deleted[c] = 1
=============================================================================
