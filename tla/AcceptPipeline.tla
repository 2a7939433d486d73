---------------------------- MODULE AcceptPipeline ----------------------------
(***************************************************************************)
(* Accepting connections: the services are created one by one by _tmain,    *)
(* each listener posts its AcceptEx calls (FillAcceptStructures), a worker  *)
(* that takes a CK_ACCEPT packet makes the connection an entry of its       *)
(* service (CreateRIOSocket, AddEntryToService) and posts the next AcceptEx *)
(* (ResetAcceptCall).  CreateRIOSocket returns early in several places, and *)
(* nobody looks at what it or ResetAcceptCall returns.                      *)
(*                                                                         *)
(* A slot is an ExtendedOverlapped: it stands for one AcceptEx call that is *)
(* posted again and again, each time with a new socket.  A request queue    *)
(* takes room in the one completion queue until its socket is closed.       *)
(*                                                                         *)
(* External: sockets, whose handles Windows gives out again once they are   *)
(* closed; any call of Windows may fail.  The list of a service is changed  *)
(* in one step: what can happen inside is the subject of ServiceEntries, and*)
(* the end of the workers that of WorkerLoop.                               *)
(***************************************************************************)
EXTENDS Integers, Sequences, FiniteSets, FiniteSetsExt, Functions

CONSTANTS Threads,
          NoThread,
          Sockets,
          NoSocket,
          Configurations,   \* what LoadConfiguration may yield: lists of services
          RIO_MAX_CQ_SIZE

ServiceData == [type : {"UDPSocket", "TCPListener"}, maxClients : Nat, maxAccepts : Nat,
                maxReceives : Nat, maxSends : Nat]

ASSUME FiniteAssumption == IsFiniteSet(Threads) /\ IsFiniteSet(Sockets)
ASSUME NullAssumption == NoThread \notin Threads /\ NoSocket \notin Sockets
ASSUME ConfigurationsAssumption == Configurations \subseteq Seq(ServiceData) \ {<<>>}
ASSUME MaxAssumption == RIO_MAX_CQ_SIZE \in Nat

VARIABLES
  services,     \* the configuration that was read
  (* _tmain *)
  main,         \* create, fill (the slots of a new listener), running, exited
  created,      \* how many services are created
  filled,       \* how many slots each listener has got
  (* Windows *)
  open,         \* open sockets, those of listeners and datagram services left out
  requestQueue, \* service whose request queue a socket has, 0 if it has none
  posted,       \* slots whose AcceptEx is pending
  port,         \* completion port: slots, and whether the AcceptEx went well
  (* ExtendedOverlapped and ConnectionServerService *)
  relevantSocket,
  socketList,   \* entries: service and socket
  listCS,       \* owner of each service's socketListCriticalSection
  (* per worker *)
  pc,
  job,          \* slot accepted on, or entry being closed
  (* history *)
  lost,         \* slots that no AcceptEx will ever be posted for again
  orphans       \* open sockets that nothing in the program leads to

setup   == <<services, main, created, filled>>
windows == <<open, requestQueue, posted, port>>
lists   == <<socketList, listCS>>
worker  == <<pc, job>>
history == <<lost, orphans>>
vars    == <<setup, windows, relevantSocket, lists, worker, history>>

Services == 1..Len(services)
Slots    == UNION {{<<s, i>> : i \in 1..services[s].maxAccepts} : s \in Services}

Goto(t, l) == pc' = [pc EXCEPT ![t] = l]

-----------------------------------------------------------------------------
(* Room in the completion queue.                                            *)

Room(s) == services[s].maxReceives + services[s].maxSends

\* Mutation: the sends are forgotten.
RequiredForReceives ==
  SumFunction([s \in Services |-> services[s].maxClients * services[s].maxReceives])

\* numberBuffersRequired
Required == SumFunction([s \in Services |-> services[s].maxClients * Room(s)])

\* maximumCQSize
CQSize == IF Required <= RIO_MAX_CQ_SIZE THEN Required ELSE RIO_MAX_CQ_SIZE

Datagram(s) == services[s].type = "UDPSocket"

\* The request queues of service s.
Queues(s) == IF Datagram(s) THEN IF s <= created THEN 1 ELSE 0
             ELSE Cardinality({h \in Sockets : requestQueue[h] = s})

\* RIOCreateRequestQueue is refused when the completion queue has no room left.
HasRoom(s) == SumFunction([r \in Services |-> Queues(r) * Room(r)]) + Room(s) <= CQSize

Init ==
  /\ services \in Configurations
  /\ main = "create" /\ created = 0 /\ filled = [s \in Services |-> 0]
  /\ open = {} /\ requestQueue = [h \in Sockets |-> 0] /\ posted = {} /\ port = <<>>
  /\ relevantSocket = [k \in Slots |-> NoSocket]
  /\ socketList = {} /\ listCS = [s \in Services |-> NoThread]
  /\ pc = [t \in Threads |-> "idle"]
  /\ job = [t \in Threads |-> <<>>]
  /\ lost = {} /\ orphans = {}

-----------------------------------------------------------------------------
(* _tmain: the services are created in order, any error ends the process.   *)

ServiceDone(s) == created' = s /\ main' = IF s = Len(services) THEN "running" ELSE "create"

CreateDatagram ==
  LET s == created + 1 IN
  /\ main = "create" /\ Datagram(s)
  /\ HasRoom(s)
  /\ ServiceDone(s)
  /\ UNCHANGED <<services, filled, windows, relevantSocket, lists, worker, history>>

CreateListener ==
  /\ main = "create" /\ ~Datagram(created + 1)
  /\ main' = "fill"
  /\ UNCHANGED <<services, created, filled, windows, relevantSocket, lists, worker, history>>

\* One of the errors -2 to -8.
CreateFails ==
  /\ main = "create"
  /\ main' = "exited"
  /\ UNCHANGED <<services, created, filled, windows, relevantSocket, lists, worker, history>>

\* WSASocket and BeginAcceptEx for slot k: posted, or AcceptEx fails.
AcceptOn(k) == \E h \in Sockets \ open :
  /\ open' = open \cup {h}
  /\ relevantSocket' = [relevantSocket EXCEPT ![k] = h]
  /\ \/ posted' = posted \cup {k} /\ UNCHANGED history
     \/ lost' = lost \cup {k} /\ orphans' = orphans \cup {h} /\ UNCHANGED posted

\* Mutation: the loop runs once more than it should.
FillOneMore ==
  LET s == created + 1  k == <<s, filled[s] + 1>> IN
  /\ main = "fill"
  /\ \/ /\ filled[s] <= services[s].maxAccepts
        /\ filled' = [filled EXCEPT ![s] = @ + 1]
        /\ AcceptOn(k)
        /\ IF k \in posted' THEN UNCHANGED <<main, created>> ELSE ServiceDone(s)
     \/ /\ ServiceDone(s)
        /\ UNCHANGED <<filled, open, posted, relevantSocket, history>>
  /\ UNCHANGED <<services, requestQueue, port, lists, worker>>

\* FillAcceptStructures: it stops at the first failure, and CreateRIOSocket takes
\* no notice.
Fill ==
  LET s == created + 1  k == <<s, filled[s] + 1>> IN
  /\ main = "fill"
  /\ \/ /\ filled[s] < services[s].maxAccepts
        /\ filled' = [filled EXCEPT ![s] = @ + 1]
        /\ AcceptOn(k)
        /\ IF k \in posted' THEN UNCHANGED <<main, created>> ELSE ServiceDone(s)
     \/ /\ ServiceDone(s)                      \* all posted, or no socket
        /\ UNCHANGED <<filled, open, posted, relevantSocket, history>>
  /\ UNCHANGED <<services, requestQueue, port, lists, worker>>

-----------------------------------------------------------------------------
(* A client connects, or goes away before it is accepted.                   *)

AcceptExCompletes(k, ok) ==
  /\ k \in posted
  /\ posted' = posted \ {k}
  /\ port' = Append(port, [slot |-> k, ok |-> ok])
  /\ UNCHANGED <<setup, open, requestQueue, relevantSocket, lists, worker, history>>

-----------------------------------------------------------------------------
(* The workers.                                                             *)

\* The worker that gets the packet of a failed AcceptEx leaves its loop.
TakePacket(t) ==
  LET k == Head(port).slot IN
  /\ pc[t] = "idle"
  /\ port # <<>>
  /\ port' = Tail(port)
  /\ IF Head(port).ok
       THEN /\ job' = [job EXCEPT ![t] = k]
            /\ Goto(t, "queue")
            /\ UNCHANGED history
       ELSE /\ Goto(t, "exited")
            /\ lost' = lost \cup {k} /\ orphans' = orphans \cup {relevantSocket[k]}
            /\ UNCHANGED job
  /\ UNCHANGED <<setup, open, requestQueue, posted, relevantSocket, lists>>

\* Mutation: a worker that cannot set up the connection goes on to the next packet.
QueueFailsAndBreaks(t) ==
  LET k == job[t] IN
  /\ pc[t] = "queue"
  /\ orphans' = orphans \cup {relevantSocket[k]}
  /\ Goto(t, "idle") /\ job' = [job EXCEPT ![t] = <<>>]
  /\ UNCHANGED <<setup, windows, relevantSocket, lists, lost>>

\* CreateRIOSocket for the connection returns -4 or -7: no extensions, no request
\* queue.  The socket is neither closed nor kept.
QueueFails(t) ==
  /\ pc[t] = "queue"
  /\ orphans' = orphans \cup {relevantSocket[job[t]]}
  /\ Goto(t, "reset")
  /\ UNCHANGED <<setup, windows, relevantSocket, lists, job, lost>>

CreateQueue(t) ==
  LET s == job[t][1] IN
  /\ pc[t] = "queue"
  /\ HasRoom(s)
  /\ requestQueue' = [requestQueue EXCEPT ![relevantSocket[job[t]]] = s]
  /\ Goto(t, "add")
  /\ UNCHANGED <<setup, open, posted, port, relevantSocket, lists, job, history>>

\* AddEntryToService.  A worker that copies the section of the list while another
\* is inside waits for ever in the copy.  A socket that is listed is refused.
AddEntry(t) ==
  LET s == job[t][1]  h == relevantSocket[job[t]] IN
  /\ pc[t] = "add"
  /\ IF listCS[s] # NoThread
       THEN Goto(t, "stuck") /\ UNCHANGED <<socketList, orphans>>
       ELSE IF <<s, h>> \in socketList
              THEN Goto(t, "reset") /\ orphans' = orphans \cup {h} /\ UNCHANGED socketList
              ELSE /\ socketList' = socketList \cup {<<s, h>>}
                   /\ Goto(t, "receives")
                   /\ UNCHANGED orphans
  /\ UNCHANGED <<setup, windows, relevantSocket, listCS, job, lost>>

\* PostReceiveOnTCPService for the new entry, serviceRQMaxReceives times.  Each call
\* copies the section of the list too; its failures are only printed.
PostInitialReceives(t) ==
  LET s == job[t][1] IN
  /\ pc[t] = "receives"
  /\ Goto(t, IF listCS[s] # NoThread /\ services[s].maxReceives > 0
               THEN "stuckListed" ELSE "reset")
  /\ UNCHANGED <<setup, windows, relevantSocket, lists, job, history>>

\* Mutation: the next AcceptEx gets the socket of the last one.
ResetKeepsSocket(t) ==
  LET k == job[t] IN
  /\ pc[t] = "reset"
  /\ \/ posted' = posted \cup {k} /\ UNCHANGED lost
     \/ lost' = lost \cup {k} /\ UNCHANGED posted
  /\ Goto(t, "idle") /\ job' = [job EXCEPT ![t] = <<>>]
  /\ UNCHANGED <<setup, open, requestQueue, port, relevantSocket, lists, orphans>>

\* Mutation: a worker that gets no socket tries again until it gets one.
ResetRetries(t) ==
  /\ pc[t] = "reset"
  /\ \/ /\ AcceptOn(job[t])
        /\ Goto(t, "idle") /\ job' = [job EXCEPT ![t] = <<>>]
     \/ UNCHANGED <<open, posted, relevantSocket, pc, job, history>>
  /\ UNCHANGED <<setup, requestQueue, port, lists>>

\* ResetAcceptCall: a new socket for the slot, or the slot is lost.
Reset(t) ==
  LET k == job[t] IN
  /\ pc[t] = "reset"
  /\ \/ AcceptOn(k)
     \/ /\ lost' = lost \cup {k}
        /\ relevantSocket' = [relevantSocket EXCEPT ![k] = NoSocket]
        /\ UNCHANGED <<open, posted, orphans>>
  /\ Goto(t, "idle") /\ job' = [job EXCEPT ![t] = <<>>]
  /\ UNCHANGED <<setup, requestQueue, port, lists>>

\* A failed request of entry <<s, h>>: CloseServiceEntry closes the socket ...
CloseSocket(t, s, h) ==
  /\ pc[t] = "idle"
  /\ <<s, h>> \in socketList
  /\ listCS[s] = NoThread
  /\ listCS' = [listCS EXCEPT ![s] = t]
  /\ open' = open \ {h}
  /\ requestQueue' = [requestQueue EXCEPT ![h] = 0]
  /\ Goto(t, "erase") /\ job' = [job EXCEPT ![t] = <<s, h>>]
  /\ UNCHANGED <<setup, posted, port, relevantSocket, socketList, history>>

\* ... and erases the entry.
EraseEntry(t) ==
  /\ pc[t] = "erase"
  /\ socketList' = socketList \ {job[t]}
  /\ listCS' = [listCS EXCEPT ![job[t][1]] = NoThread]
  /\ Goto(t, "idle") /\ job' = [job EXCEPT ![t] = <<>>]
  /\ UNCHANGED <<setup, windows, relevantSocket, history>>

-----------------------------------------------------------------------------

Setup == CreateDatagram \/ CreateListener \/ CreateFails \/ Fill

Accept(t) == \/ TakePacket(t) \/ QueueFails(t) \/ CreateQueue(t) \/ AddEntry(t)
             \/ PostInitialReceives(t) \/ Reset(t) \/ EraseEntry(t)

Clients ==
  \/ \E k \in Slots, ok \in BOOLEAN : AcceptExCompletes(k, ok)
  \/ main = "running" /\ \E t \in Threads, s \in Services, h \in Sockets : CloseSocket(t, s, h)

Next == \/ main # "exited" /\ (Setup \/ Clients)
        \/ main = "running" /\ \E t \in Threads : Accept(t)

Spec == Init /\ [][Next]_vars

\* Every worker is scheduled again and again; clients may stay away.
FairSpec == Spec /\ \A t \in Threads : WF_vars(main = "running" /\ Accept(t))

-----------------------------------------------------------------------------
(* Properties                                                               *)

Made == {k \in Slots : k[2] <= filled[k[1]]}

\* Shape of the state: no listener has more slots than SERVICE_MAX_ACCEPTS, and the
\* section of a list is held exactly by the worker that closes one of its entries.
TypeOK ==
  /\ services \in Configurations
  /\ main \in {"create", "fill", "running", "exited"}
  /\ created \in 0..Len(services)
  /\ \A s \in Services : filled[s] \in 0..services[s].maxAccepts
  /\ open \subseteq Sockets /\ orphans \subseteq open
  /\ requestQueue \in [Sockets -> {0} \cup Services]
  /\ posted \subseteq Slots /\ lost \subseteq Slots
  /\ port \in Seq([slot : Slots, ok : BOOLEAN])
  /\ relevantSocket \in [Slots -> Sockets \cup {NoSocket}]
  /\ socketList \subseteq Services \X Sockets
  /\ pc \in [Threads -> {"idle", "queue", "add", "receives", "reset", "erase",
                      "stuck", "stuckListed", "exited"}]
  /\ \A t \in Threads, s \in Services :
       listCS[s] = t <=> pc[t] = "erase" /\ job[t][1] = s

Accepting(t) == pc[t] \in {"queue", "add", "receives", "reset", "stuck", "stuckListed"}

\* It waits in the copy of a section, before its connection is listed or after.
Stuck(t) == pc[t] \in {"stuck", "stuckListed"}

\* The places that answer for a slot.
Places(k) ==
  {<<"posted", j>> : j \in posted \cap {k}} \cup
  {<<"port", i>> : i \in {j \in 1..Len(port) : port[j].slot = k}} \cup
  {<<"worker", t>> : t \in {u \in Threads : Accepting(u) /\ job[u] = k}} \cup
  {<<"lost", j>> : j \in lost \cap {k}}

\* A slot that was made is pending, in the port or with one worker, until its AcceptEx
\* or the call for its next one fails: a service loses no accept because the set-up of
\* an accepted connection returned early.
AcceptsConserved == \A k \in Made : Cardinality(Places(k)) = 1

Erasing(e) == \E t \in Threads : pc[t] = "erase" /\ job[t] = e

\* What leads to a socket.
Owners(h) ==
  {k \in Slots : relevantSocket[k] = h /\
     \/ k \in posted
     \/ \E i \in 1..Len(port) : port[i].slot = k
     \/ \E t \in Threads : pc[t] \in {"queue", "add", "stuck"} /\ job[t] = k} \cup
  {e \in socketList : e[2] = h /\ ~Erasing(e)} \cup
  (orphans \cap {h})

\* Every open socket has one owner: a slot whose AcceptEx is pending or being
\* served, an entry of a service, or it was left by one of the early returns that
\* forget it; a closed one has none.  So no handle that is given out again is
\* still used by the slot or entry that had it, though ResetAcceptCall and
\* CloseServiceEntry run at the same time.
SocketsOwned ==
  \A h \in Sockets : Cardinality(Owners(h)) = IF h \in open THEN 1 ELSE 0

\* What service s has taken of the room it was counted for.
Connected(s) ==
  IF Datagram(s) THEN 1
  ELSE Cardinality({e \in socketList : e[1] = s /\ ~Erasing(e)})
       + Cardinality({t \in Threads : pc[t] \in {"add", "stuck"} /\ job[t][1] = s})

\* The size computed at start-up is enough: a connection is refused its request
\* queue only when some service has more clients than it was counted for, be it
\* another one; sockets that were forgotten or closed take no room.
RoomForClients ==
  \A t \in Threads :
    LET s == job[t][1] IN
    pc[t] = "queue" /\ ~HasRoom(s) /\ Required <= RIO_MAX_CQ_SIZE =>
      \E r \in Services :
        Connected(r) + (IF r = s THEN 1 ELSE 0) > services[r].maxClients

InPort(k) == \E i \in 1..Len(port) : port[i].slot = k

AnySlot == UNION {{<<s, i>> : s \in DOMAIN c, i \in 1..Max({c[s].maxAccepts : s \in DOMAIN c})} :
                  c \in Configurations}

\* A client that connects is served, and its slot posted again unless the call for
\* it fails, as long as there are workers that have not left or got stuck.
AcceptsServed ==
  \A k \in AnySlot :
    InPort(k) ~>
      \/ k \in posted \cup lost
      \/ \E t \in Threads : Stuck(t) /\ job[t] = k
      \/ \A t \in Threads : Stuck(t) \/ pc[t] = "exited"
      \/ main # "running"
=============================================================================
