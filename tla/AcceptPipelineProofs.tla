------------------------- MODULE AcceptPipelineProofs -------------------------
(***************************************************************************)
(* Theorems about AcceptPipeline, for any configurations and any number of  *)
(* workers and sockets.                                                     *)
(***************************************************************************)
EXTENDS AcceptPipeline, DataFacts

PCs    == {"idle", "queue", "add", "receives", "reset", "erase", "stuck", "stuckListed",
           "exited"}
Packet == [slot : Slots, ok : BOOLEAN]
Entry  == Services \X Sockets

(* The types that TypeOK states, those of what a worker works on, and that  *)
(* _tmain has a service left to create while it is at it.                   *)
Types ==
  /\ services \in Configurations
  /\ main \in {"create", "fill", "running", "exited"}
  /\ created \in 0..Len(services)
  /\ main \in {"create", "fill"} => created < Len(services)
  /\ filled \in [Services -> Nat] /\ \A s \in Services : filled[s] <= services[s].maxAccepts
  /\ open \subseteq Sockets
  /\ requestQueue \in [Sockets -> {0} \cup Services]
  /\ posted \subseteq Slots /\ lost \subseteq Slots
  /\ port \in Seq(Packet)
  /\ relevantSocket \in [Slots -> Sockets \cup {NoSocket}]
  /\ socketList \subseteq Entry
  /\ listCS \in [Services -> Threads \cup {NoThread}]
  /\ pc \in [Threads -> PCs]
  /\ job \in [Threads -> Slots \cup Entry \cup {<<>>}]

Jobs ==
  \A t \in Threads : /\ Accepting(t) => job[t] \in Slots
                     /\ pc[t] = "erase" => job[t] \in Entry

Sections ==
  \A t \in Threads, s \in Services : listCS[s] = t <=> pc[t] = "erase" /\ job[t][1] = s

TypeInv == Types /\ Jobs /\ Sections

(* Each slot that was made has a place, and no two; no other slot has one.  *)
Working(k) == \E t \in Threads : Accepting(t) /\ job[t] = k

Placed(k) == k \in posted \/ InPort(k) \/ Working(k) \/ k \in lost

SlotInv ==
  /\ \A k \in Slots : Placed(k) <=> k \in Made
  /\ \A k \in Slots : /\ k \in posted => ~InPort(k) /\ ~Working(k) /\ k \notin lost
                      /\ InPort(k) => ~Working(k) /\ k \notin lost
                      /\ Working(k) => k \notin lost
  /\ \A i, j \in 1..Len(port) : port[i].slot = port[j].slot => i = j
  /\ \A t, u \in Threads : Accepting(t) /\ Accepting(u) /\ job[t] = job[u] => t = u

(* What leads to the open sockets: a slot with a pending call, a packet or  *)
(* a worker that has still to make it an entry, or an entry.                *)
Live(k) ==
  \/ k \in posted
  \/ InPort(k)
  \/ \E t \in Threads : pc[t] \in {"queue", "add", "stuck"} /\ job[t] = k

LiveSlots == {k \in Slots : Live(k)}
Entries   == {e \in socketList : ~Erasing(e)}

SocketInv ==
  /\ orphans \subseteq open
  /\ \A h \in open : \/ h \in orphans
                     \/ \E k \in LiveSlots : relevantSocket[k] = h
                     \/ \E e \in Entries : e[2] = h
  /\ \A k \in LiveSlots : relevantSocket[k] \in open \ orphans
  /\ \A k, l \in LiveSlots : relevantSocket[k] = relevantSocket[l] => k = l
  /\ \A e \in Entries : e[2] \in open \ orphans
  /\ \A e \in Entries, k \in LiveSlots : relevantSocket[k] # e[2]
  /\ \A e, f \in Entries : e[2] = f[2] => e = f

(* A socket with a request queue is that of an entry, or of a worker that   *)
(* makes it one.                                                            *)
Adding(t, s) == pc[t] \in {"add", "stuck"} /\ job[t][1] = s

QueueInv ==
  \A h \in Sockets, s \in Services :
    requestQueue[h] = s =>
      <<s, h>> \in Entries \/ \E t \in Threads : Adding(t, s) /\ relevantSocket[job[t]] = h

-----------------------------------------------------------------------------

LEMMA SlotParts ==
  /\ \A k \in Slots : k[1] \in Services /\ k[2] \in 1..services[k[1]].maxAccepts
                      /\ k = <<k[1], k[2]>>
  /\ \A s \in Services : \A i \in 1..services[s].maxAccepts : <<s, i>> \in Slots
BY DEF Slots

\* The services stay as they were read.
LEMMA SameServices ==
  ASSUME UNCHANGED services
  PROVE  Services' = Services /\ Slots' = Slots /\ Packet' = Packet /\ Entry' = Entry
BY DEF Services, Slots, Packet, Entry

LEMMA ServicesType ==
  ASSUME services \in Configurations
  PROVE  /\ Len(services) \in Nat \ {0}
         /\ \A s \in Services : services[s].maxAccepts \in Nat
         /\ \A s \in Services : s \in Nat /\ 1 <= s /\ s <= Len(services)
<1>1. services \in Seq(ServiceData) /\ services # <<>>
  BY ConfigurationsAssumption
<1>2. Len(services) \in Nat \ {0}
  BY <1>1
<1>3. \A s \in Services : services[s] \in ServiceData
  BY <1>1 DEF Services
<1>4. \A s \in Services : s \in Nat /\ 1 <= s /\ s <= Len(services)
  BY <1>2 DEF Services
<1>5. \A d \in ServiceData : d.maxAccepts \in Nat
  BY DEF ServiceData
<1> QED
  BY <1>2, <1>3, <1>4, <1>5

LEMMA InitType == Init => TypeInv
<1> SUFFICES ASSUME Init PROVE TypeInv
  OBVIOUS
<1> USE DEF Init
<1>1. Types
  <2>1. port \in Seq(Packet)
    OBVIOUS
  <2>2. created \in 0..Len(services) /\ created < Len(services)
    BY ServicesType
  <2>3. \A s \in Services : filled[s] <= services[s].maxAccepts
    BY ServicesType
  <2> QED
    BY <2>1, <2>2, <2>3 DEF Types, PCs
<1>2. Jobs /\ Sections
  BY NullAssumption DEF Jobs, Sections, Accepting
<1> QED
  BY <1>1, <1>2 DEF TypeInv

LEMMA InitSlots == Init => SlotInv /\ SocketInv
<1> SUFFICES ASSUME Init PROVE SlotInv /\ SocketInv
  OBVIOUS
<1> USE DEF Init
<1>1. \A k : ~InPort(k) /\ ~Working(k) /\ k \notin posted /\ k \notin lost /\ ~Live(k)
  BY DEF InPort, Working, Accepting, Live
<1>2. \A k \in Slots : k \notin Made
  BY SlotParts, ServicesType DEF Made
<1>3. SlotInv
  BY <1>1, <1>2 DEF SlotInv, Placed, Accepting
<1>4. LiveSlots = {} /\ Entries = {}
  BY <1>1 DEF LiveSlots, Entries
<1>5. SocketInv
  BY <1>4 DEF SocketInv
<1> QED
  BY <1>3, <1>5

-----------------------------------------------------------------------------
(* Types.                                                                   *)

LEMMA SetupType ==
  ASSUME TypeInv, Setup
  PROVE  TypeInv'
<1> USE DEF windows, lists, worker, history
<1>1. UNCHANGED <<services, port, lists, worker, requestQueue>>
  BY DEF Setup, CreateDatagram, CreateListener, CreateFails, Fill
<1>2. Services' = Services /\ Slots' = Slots /\ Packet' = Packet /\ Entry' = Entry
  BY <1>1, SameServices
<1>3. Len(services) \in Nat /\ created \in Nat /\ created <= Len(services)
  BY ServicesType DEF TypeInv, Types
<1>4. ASSUME main \in {"create", "fill"}, ServiceDone(created + 1)
      PROVE  /\ created' \in 0..Len(services') /\ main' \in {"create", "running"}
             /\ main' = "create" => created' < Len(services')
  <2>1. created + 1 <= Len(services)
    BY <1>3, <1>4 DEF TypeInv, Types
  <2> QED
    BY <1>1, <1>3, <1>4, <2>1 DEF ServiceDone
<1>5. CASE CreateDatagram
  BY <1>1, <1>2, <1>4, <1>5 DEF CreateDatagram, TypeInv, Types, Jobs, Sections, Accepting
<1>6. CASE CreateListener \/ CreateFails
  BY <1>1, <1>2, <1>6 DEF CreateListener, CreateFails, TypeInv, Types, Jobs, Sections, Accepting
<1>7. CASE Fill
  <2> DEFINE s == created + 1
             k == <<s, filled[s] + 1>>
  <2>1. s \in Services
    BY <1>3, <1>7 DEF Fill, TypeInv, Types, Services
  <2>2. /\ created' \in 0..Len(services')
        /\ main' \in {"create", "fill", "running"}
        /\ main' \in {"create", "fill"} => created' < Len(services')
    BY <1>1, <1>4, <1>7 DEF Fill, TypeInv, Types
  <2>3. CASE filled[s] < services[s].maxAccepts /\ filled' = [filled EXCEPT ![s] = @ + 1] /\ AcceptOn(k)
    <3>1. filled[s] \in Nat /\ services[s].maxAccepts \in Nat
      BY <2>1, ServicesType DEF TypeInv, Types
    <3>2. k \in Slots
      BY <2>1, <2>3, <3>1, SlotParts
    <3> HIDE DEF k, s
    <3>3. /\ open' \subseteq Sockets /\ posted' \subseteq Slots /\ lost' \subseteq Slots
          /\ relevantSocket' \in [Slots -> Sockets \cup {NoSocket}]
      BY <2>3, <3>2 DEF AcceptOn, TypeInv, Types
    <3>4. filled' \in [Services -> Nat] /\ \A x \in Services : filled'[x] <= services[x].maxAccepts
      BY <2>1, <2>3, <3>1 DEF TypeInv, Types
    <3> QED
      BY <1>1, <1>2, <2>2, <3>3, <3>4 DEF TypeInv, Types, Jobs, Sections, Accepting
  <2>4. CASE UNCHANGED <<filled, open, posted, relevantSocket, history>>
    BY <1>1, <1>2, <2>2, <2>4 DEF TypeInv, Types, Jobs, Sections, Accepting
  <2> QED
    BY <1>7, <2>3, <2>4 DEF Fill
<1> QED
  BY <1>5, <1>6, <1>7 DEF Setup

\* A worker of which only the place and the job change.
LEMMA WorkerType ==
  ASSUME TypeInv, NEW t \in Threads, NEW l \in PCs, NEW j, UNCHANGED <<setup, listCS>>,
         Types', pc' = [pc EXCEPT ![t] = l], job' = [job EXCEPT ![t] = j],
         l \in PCs \ {"idle", "erase", "exited"} => j \in Slots,
         l # "erase", pc[t] # "erase"
  PROVE  Jobs' /\ Sections'
<1>1. /\ pc'[t] = l /\ job'[t] = j
      /\ \A u \in Threads \ {t} : pc'[u] = pc[u] /\ job'[u] = job[u]
  BY DEF TypeInv, Types
<1>2. Services' = Services /\ Slots' = Slots /\ Entry' = Entry
  BY SameServices DEF setup
<1>3. Jobs'
  BY <1>1, <1>2 DEF TypeInv, Jobs, Accepting
<1>4. Sections'
  BY <1>1, <1>2 DEF TypeInv, Sections, setup
<1> QED
  BY <1>3, <1>4

LEMMA AcceptType ==
  ASSUME TypeInv, SocketInv, NEW t \in Threads, Accept(t)
  PROVE  TypeInv'
<1> USE DEF windows, lists, worker, history
<1>0. /\ UNCHANGED setup
      /\ Services' = Services /\ Slots' = Slots /\ Packet' = Packet /\ Entry' = Entry
  BY SameServices DEF setup, Accept, TakePacket, QueueFails, CreateQueue, AddEntry,
     PostInitialReceives, Reset, EraseEntry
<1>1. ASSUME NEW l \in PCs \ {"erase"}, NEW j \in Slots \cup {<<>>}, UNCHANGED listCS, pc[t] # "erase",
             pc' = [pc EXCEPT ![t] = l], job' = [job EXCEPT ![t] = j],
             l \in PCs \ {"idle", "erase", "exited"} => j \in Slots,
             /\ open' \subseteq Sockets
             /\ requestQueue' \in [Sockets -> {0} \cup Services]
             /\ posted' \subseteq Slots /\ lost' \subseteq Slots
             /\ port' \in Seq(Packet)
             /\ relevantSocket' \in [Slots -> Sockets \cup {NoSocket}]
             /\ socketList' \subseteq Entry
      PROVE  TypeInv'
  <2>1. Types'
    BY <1>0, <1>1 DEF TypeInv, Types, setup
  <2> QED
    BY <1>0, <1>1, <2>1, WorkerType DEF TypeInv
<1>2. pc[t] \in {"queue", "add", "receives", "reset"} => job[t] \in Slots /\ job[t][1] \in Services
  BY SlotParts DEF TypeInv, Jobs, Accepting
<1>3. UNCHANGED job => job' = [job EXCEPT ![t] = job[t]]
  BY DEF TypeInv, Types
<1>4. CASE TakePacket(t)
  <2>1. Head(port) \in Packet /\ Tail(port) \in Seq(Packet)
    BY <1>4 DEF TakePacket, TypeInv, Types
  <2>2. Head(port).slot \in Slots
    BY <2>1 DEF Packet
  <2>3. UNCHANGED <<open, requestQueue, posted, relevantSocket, socketList, listCS>>
        /\ pc[t] = "idle" /\ port' = Tail(port)
    BY <1>4 DEF TakePacket
  <2>4. CASE /\ job' = [job EXCEPT ![t] = Head(port).slot]
             /\ Goto(t, "queue") /\ UNCHANGED history
    BY <1>1, <2>1, <2>2, <2>3, <2>4 DEF Goto, PCs, TypeInv, Types
  <2>5. CASE Goto(t, "exited") /\ lost' = lost \cup {Head(port).slot} /\ UNCHANGED job
    <3>1. Types'
      BY <1>0, <2>1, <2>2, <2>3, <2>5 DEF Goto, PCs, TypeInv, Types, setup
    <3> QED
      BY <1>0, <1>3, <2>3, <2>5, <3>1, WorkerType DEF Goto, PCs, TypeInv
  <2> QED
    BY <1>4, <2>4, <2>5 DEF TakePacket
<1>5. CASE QueueFails(t)
  BY <1>1, <1>2, <1>3, <1>5 DEF QueueFails, Goto, PCs, TypeInv, Types
<1>6. CASE CreateQueue(t)
  BY <1>1, <1>2, <1>3, <1>6 DEF CreateQueue, Goto, PCs, TypeInv, Types
<1>7. CASE AddEntry(t)
  <2>1. pc[t] = "add" /\ job[t] \in Slots /\ job[t][1] \in Services
    BY <1>2, <1>7 DEF AddEntry
  <2>2. UNCHANGED <<open, requestQueue, posted, port, relevantSocket, listCS, lost, job>>
    BY <1>7 DEF AddEntry
  <2>3. PICK l \in {"stuck", "receives", "reset"} : pc' = [pc EXCEPT ![t] = l]
    BY <1>7 DEF AddEntry, Goto
  <2>4. socketList' \subseteq Entry
    <3>1. CASE socketList' = socketList \cup {<<job[t][1], relevantSocket[job[t]]>>}
      <4>1. relevantSocket[job[t]] \in Sockets
        BY <1>7, <2>1 DEF AddEntry, SocketInv, LiveSlots, Live, TypeInv, Types
      <4> QED
        BY <2>1, <3>1, <4>1 DEF Entry, TypeInv, Types
    <3> QED
      BY <1>7, <3>1 DEF AddEntry, TypeInv, Types
  <2> QED
    BY <1>1, <1>3, <2>1, <2>2, <2>3, <2>4 DEF PCs, TypeInv, Types
<1>8. CASE Reset(t)
  <2>1. pc[t] = "reset" /\ job[t] \in Slots
    BY <1>2, <1>8 DEF Reset
  <2>2. /\ open' \subseteq Sockets /\ posted' \subseteq Slots /\ lost' \subseteq Slots
        /\ relevantSocket' \in [Slots -> Sockets \cup {NoSocket}]
    BY <1>8, <2>1 DEF Reset, AcceptOn, TypeInv, Types
  <2>3. /\ UNCHANGED <<requestQueue, port, socketList, listCS>>
        /\ pc' = [pc EXCEPT ![t] = "idle"] /\ job' = [job EXCEPT ![t] = <<>>]
    BY <1>8 DEF Reset, Goto
  <2> QED
    BY <1>1, <2>1, <2>2, <2>3 DEF PCs, TypeInv, Types
<1>9. CASE EraseEntry(t)
  <2>1. pc[t] = "erase" /\ job[t] \in Entry /\ job[t][1] \in Services /\ listCS[job[t][1]] = t
    BY <1>9 DEF EraseEntry, TypeInv, Jobs, Sections, Entry
  <2>2. /\ UNCHANGED <<open, requestQueue, posted, port, relevantSocket, lost>>
        /\ pc' = [pc EXCEPT ![t] = "idle"] /\ job' = [job EXCEPT ![t] = <<>>]
        /\ socketList' \subseteq Entry
        /\ listCS' = [listCS EXCEPT ![job[t][1]] = NoThread]
    BY <1>9 DEF EraseEntry, Goto, TypeInv, Types
  <2>3. Types'
    BY <1>0, <2>1, <2>2 DEF TypeInv, Types, PCs, setup
  <2>4. Jobs'
    BY <1>0, <2>2 DEF TypeInv, Types, Jobs, Accepting
  <2>5. Sections'
    BY <1>0, <2>1, <2>2, NullAssumption DEF TypeInv, Types, Sections
  <2> QED
    BY <2>3, <2>4, <2>5 DEF TypeInv
<1>10. CASE PostInitialReceives(t)
  <2>1. pc[t] = "receives" /\ job[t] \in Slots
    BY <1>2, <1>10 DEF PostInitialReceives
  <2>2. PICK l \in {"stuckListed", "reset"} : pc' = [pc EXCEPT ![t] = l]
    BY <1>10 DEF PostInitialReceives, Goto
  <2>3. UNCHANGED <<open, requestQueue, posted, port, relevantSocket, socketList, listCS, lost, job>>
    BY <1>10 DEF PostInitialReceives
  <2> QED
    BY <1>1, <1>3, <2>1, <2>2, <2>3 DEF PCs, TypeInv, Types
<1> QED
  BY <1>4, <1>5, <1>6, <1>7, <1>8, <1>9, <1>10 DEF Accept

LEMMA CloseType ==
  ASSUME TypeInv, NEW t \in Threads, NEW s \in Services, NEW h \in Sockets, CloseSocket(t, s, h)
  PROVE  TypeInv'
<1> USE DEF windows, lists, worker, history
<1>0. /\ UNCHANGED setup
      /\ Services' = Services /\ Slots' = Slots /\ Packet' = Packet /\ Entry' = Entry
  BY SameServices DEF setup, CloseSocket
<1>1. /\ UNCHANGED <<posted, port, relevantSocket, socketList, lost>>
      /\ pc' = [pc EXCEPT ![t] = "erase"] /\ job' = [job EXCEPT ![t] = <<s, h>>]
      /\ listCS' = [listCS EXCEPT ![s] = t] /\ <<s, h>> \in Entry
      /\ pc[t] = "idle" /\ listCS[s] = NoThread
  BY DEF CloseSocket, Goto, TypeInv, Types
<1>2. open' \subseteq Sockets /\ requestQueue' \in [Sockets -> {0} \cup Services]
  BY DEF CloseSocket, TypeInv, Types
<1>3. Types'
  BY <1>0, <1>1, <1>2 DEF TypeInv, Types, PCs, setup
<1>4. Jobs'
  BY <1>0, <1>1 DEF TypeInv, Types, Jobs, Accepting
<1>5. Sections'
  BY <1>0, <1>1, NullAssumption DEF TypeInv, Types, Sections
<1> QED
  BY <1>3, <1>4, <1>5 DEF TypeInv

LEMMA CompletesType ==
  ASSUME TypeInv, NEW k \in Slots, NEW ok \in BOOLEAN, AcceptExCompletes(k, ok)
  PROVE  TypeInv'
<1> USE DEF windows, lists, worker, history
<1>0. /\ UNCHANGED setup
      /\ Services' = Services /\ Slots' = Slots /\ Packet' = Packet /\ Entry' = Entry
  BY SameServices DEF setup, AcceptExCompletes
<1>1. port' \in Seq(Packet) /\ posted' \subseteq Slots
  <2>1. [slot |-> k, ok |-> ok] \in Packet
    BY DEF Packet
  <2> QED
    BY <2>1 DEF AcceptExCompletes, TypeInv, Types
<1> QED
  BY <1>0, <1>1 DEF AcceptExCompletes, TypeInv, Types, Jobs, Sections, Accepting, setup

LEMMA TypeStep ==
  ASSUME TypeInv, SocketInv, [Next]_vars
  PROVE  TypeInv'
<1>1. CASE UNCHANGED vars
  <2>1. Services' = Services /\ Slots' = Slots /\ Packet' = Packet /\ Entry' = Entry
    BY <1>1, SameServices DEF vars, setup
  <2> QED
    BY <1>1, <2>1 DEF TypeInv, Types, Jobs, Sections, Accepting, vars, setup, windows, lists, worker,
       history
<1> QED
  BY <1>1, SetupType, AcceptType, CloseType, CompletesType DEF Next, Clients

-----------------------------------------------------------------------------
(* The places of the slots.                                                 *)

\* A step that changes the places of no slot.
LEMMA SamePlaces ==
  ASSUME TypeInv, SlotInv, UNCHANGED <<services, filled, posted, port, lost>>,
         \A t \in Threads : Accepting(t)' <=> Accepting(t),
         \A t \in Threads : Accepting(t) => job'[t] = job[t]
  PROVE  SlotInv'
<1>1. Slots' = Slots /\ Made' = Made
  BY DEF Slots, Made, Services
<1>2. \A k : (InPort(k)' <=> InPort(k)) /\ (Working(k)' <=> Working(k))
  BY DEF InPort, Working
<1>3. \A k : Placed(k)' <=> Placed(k)
  BY <1>2 DEF Placed
<1> QED
  BY <1>1, <1>2, <1>3 DEF SlotInv

\* The slot of a worker is posted again, or lost.
LEMMA ResetSlots ==
  ASSUME TypeInv, SlotInv, NEW t \in Threads, Reset(t)
  PROVE  SlotInv'
<1> DEFINE k == job[t]
<1>1. /\ UNCHANGED <<services, filled, port>>
      /\ Accepting(t) /\ k \in Slots /\ ~Accepting(t)'
      /\ \A u \in Threads \ {t} : (Accepting(u)' <=> Accepting(u)) /\ job'[u] = job[u]
      /\ \/ posted' = posted \cup {k} /\ UNCHANGED lost
         \/ lost' = lost \cup {k} /\ UNCHANGED posted
  BY DEF Reset, AcceptOn, Goto, TypeInv, Types, Jobs, Accepting, setup, history
<1> HIDE DEF k
<1>2. Slots' = Slots /\ Made' = Made
  BY <1>1 DEF Slots, Made, Services
<1>3. \A x : InPort(x)' <=> InPort(x)
  BY <1>1 DEF InPort
<1>4. \A x : Working(x)' <=> Working(x) /\ x # k
  BY <1>1 DEF SlotInv, Working, k
<1>5. Working(k)
  BY <1>1 DEF Working, k
<1>6. \A x : Placed(x)' <=> Placed(x)
  BY <1>1, <1>3, <1>4, <1>5 DEF Placed
<1>7. \A x \in Slots : /\ x \in posted' => ~InPort(x)' /\ ~Working(x)' /\ x \notin lost'
                       /\ InPort(x)' => ~Working(x)' /\ x \notin lost'
                       /\ Working(x)' => x \notin lost'
  BY <1>1, <1>3, <1>4, <1>5 DEF SlotInv
<1>8. \A u, v \in Threads : Accepting(u)' /\ Accepting(v)' /\ job'[u] = job'[v] => u = v
  BY <1>1 DEF SlotInv
<1> QED
  BY <1>1, <1>2, <1>6, <1>7, <1>8 DEF SlotInv

\* A pending call completes.
LEMMA CompletesSlots ==
  ASSUME TypeInv, SlotInv, NEW k \in Slots, NEW ok \in BOOLEAN, AcceptExCompletes(k, ok)
  PROVE  SlotInv'
<1>1. /\ UNCHANGED <<services, filled, lost, pc, job>>
      /\ k \in posted /\ posted' = posted \ {k}
  BY DEF AcceptExCompletes, setup, worker, history
<1> DEFINE n == Len(port) + 1
<1>2. /\ Len(port) \in Nat /\ Len(port') = n /\ n \in 1..n
      /\ \A i \in 1..Len(port) : port'[i] = port[i] /\ i \in 1..n /\ i # n
      /\ port'[n].slot = k
      /\ \A i \in 1..n : i = n \/ i \in 1..Len(port)
  <2>1. port \in Seq(Packet) /\ [slot |-> k, ok |-> ok] \in Packet
    BY DEF TypeInv, Types, Packet
  <2>2. port' = Append(port, [slot |-> k, ok |-> ok])
    BY DEF AcceptExCompletes
  <2> QED
    BY <2>1, <2>2
<1> HIDE DEF n
<1>3. Slots' = Slots /\ Made' = Made
  BY <1>1 DEF Slots, Made, Services
<1>4. \A x : InPort(x)' <=> InPort(x) \/ x = k
  BY <1>2 DEF InPort
<1>5. \A x : Working(x)' <=> Working(x)
  BY <1>1 DEF Working, Accepting
<1>6. \A x : Placed(x)' <=> Placed(x)
  BY <1>1, <1>4, <1>5 DEF Placed
<1>7. ~InPort(k)
  BY <1>1 DEF SlotInv
<1>8. ASSUME NEW i \in 1..Len(port'), NEW j \in 1..Len(port'), port'[i].slot = port'[j].slot
      PROVE  i = j
  BY <1>2, <1>7, <1>8 DEF SlotInv, InPort
<1> QED
  BY <1>1, <1>3, <1>4, <1>5, <1>6, <1>8 DEF SlotInv, Accepting

\* A worker takes the first packet.
LEMMA TakeSlots ==
  ASSUME TypeInv, SlotInv, NEW t \in Threads, TakePacket(t)
  PROVE  SlotInv'
<1> DEFINE k == Head(port).slot
<1>1. /\ UNCHANGED <<services, filled, posted>>
      /\ ~Accepting(t)
      /\ \A u \in Threads \ {t} : (Accepting(u)' <=> Accepting(u)) /\ job'[u] = job[u]
      /\ \/ Accepting(t)' /\ job'[t] = k /\ UNCHANGED lost
         \/ ~Accepting(t)' /\ lost' = lost \cup {k}
  BY DEF TakePacket, Goto, TypeInv, Types, Accepting, setup, history
<1>2. /\ Len(port) \in Nat /\ Len(port) >= 1 /\ Len(port') = Len(port) - 1
      /\ \A i \in 1..Len(port') : port'[i] = port[i + 1]
      /\ Head(port) = port[1]
  <2>1. port \in Seq(Packet) /\ port # <<>> /\ port' = Tail(port)
    BY DEF TypeInv, Types, TakePacket
  <2> QED
    BY <2>1
<1>3. /\ \A i \in 1..Len(port') : i + 1 \in 1..Len(port) /\ i + 1 # 1
      /\ \A i \in 1..Len(port) : i = 1 \/ (i - 1 \in 1..Len(port') /\ (i - 1) + 1 = i)
      /\ 1 \in 1..Len(port)
  BY <1>2
<1>4. k = port[1].slot /\ InPort(k)
  BY <1>2, <1>3 DEF InPort
<1> HIDE DEF k
<1>5. Slots' = Slots /\ Made' = Made
  BY <1>1 DEF Slots, Made, Services
<1>6. ASSUME NEW x PROVE InPort(x)' <=> InPort(x) /\ x # k
  <2>1. ASSUME NEW i \in 1..Len(port'), port'[i].slot = x PROVE InPort(x) /\ x # k
    <3>1. i + 1 \in 1..Len(port) /\ i + 1 # 1 /\ 1 \in 1..Len(port)
      BY <1>3, <2>1
    <3>2. port[i + 1].slot = x /\ port[1].slot = k
      BY <1>2, <1>4, <2>1
    <3>3. port[i + 1].slot # port[1].slot
      BY <3>1 DEF SlotInv
    <3> QED
      BY ONLY <3>1, <3>2, <3>3 DEF InPort
  <2>2. ASSUME NEW i \in 1..Len(port), port[i].slot = x, x # k PROVE InPort(x)'
    <3>1. i - 1 \in 1..Len(port') /\ port'[i - 1].slot = x
      BY <1>2, <1>3, <1>4, <2>2
    <3> QED
      BY <3>1 DEF InPort
  <2> QED
    BY <2>1, <2>2 DEF InPort
<1>7. \A x : Working(x)' <=> Working(x) \/ (x = k /\ UNCHANGED lost /\ Accepting(t)')
  BY <1>1 DEF Working
<1>8. \A x \in Slots : Placed(x)' <=> Placed(x)
  BY <1>1, <1>4, <1>6, <1>7 DEF Placed
<1>9. \A x \in Slots : /\ x \in posted' => ~InPort(x)' /\ ~Working(x)' /\ x \notin lost'
                       /\ InPort(x)' => ~Working(x)' /\ x \notin lost'
                       /\ Working(x)' => x \notin lost'
  BY <1>1, <1>4, <1>6, <1>7 DEF SlotInv
<1>10. ASSUME NEW i \in 1..Len(port'), NEW j \in 1..Len(port'), port'[i].slot = port'[j].slot
       PROVE  i = j
  <2>1. i + 1 = j + 1
    BY <1>2, <1>3, <1>10 DEF SlotInv
  <2> QED
    BY <1>2, <2>1
<1>11. k \in Slots
  <2>1. port[1] \in Packet
    BY <1>3 DEF TypeInv, Types
  <2> QED
    BY <1>4, <2>1 DEF Packet
<1>12. \A u, v \in Threads : Accepting(u)' /\ Accepting(v)' /\ job'[u] = job'[v] => u = v
  BY <1>1, <1>4, <1>11 DEF SlotInv, Working
<1> QED
  BY <1>5, <1>8, <1>9, <1>10, <1>12 DEF SlotInv

\* _tmain makes a slot, and posts it or loses it.
LEMMA FillSlots ==
  ASSUME TypeInv, SlotInv, NEW s \in Services,
         filled[s] < services[s].maxAccepts, filled' = [filled EXCEPT ![s] = @ + 1],
         AcceptOn(<<s, filled[s] + 1>>), UNCHANGED <<services, port, worker>>
  PROVE  /\ SlotInv'
         /\ <<s, filled[s] + 1>> \in Slots /\ ~Placed(<<s, filled[s] + 1>>)
<1> DEFINE k == <<s, filled[s] + 1>>
<1>1. filled[s] \in Nat /\ services[s].maxAccepts \in Nat
  BY ServicesType DEF TypeInv, Types
<1>2. k \in Slots /\ k \notin Made
  <2>1. filled[s] + 1 \in 1..services[s].maxAccepts /\ ~(filled[s] + 1 <= filled[s])
    BY <1>1
  <2> QED
    BY <2>1, SlotParts DEF Made
<1>3. Slots' = Slots
  BY DEF Slots, Services
<1>4. ASSUME NEW x \in Slots PROVE x \in Made' <=> x \in Made \/ x = k
  <2>1. x[1] \in Services /\ x[2] \in Nat /\ x = <<x[1], x[2]>>
    BY SlotParts, ServicesType
  <2>2. filled \in [Services -> Nat]
    BY DEF TypeInv, Types
  <2>3. CASE x[1] = s
    <3>1. x[2] <= filled'[x[1]] <=> x[2] <= filled[s] \/ x[2] = filled[s] + 1
      BY <1>1, <2>1, <2>2, <2>3
    <3> QED
      BY <1>3, <2>1, <2>3, <3>1 DEF Made
  <2>4. CASE x[1] # s
    BY <1>3, <2>1, <2>2, <2>4 DEF Made
  <2> QED
    BY <2>3, <2>4
<1>5. \/ posted' = posted \cup {k} /\ UNCHANGED lost
      \/ lost' = lost \cup {k} /\ UNCHANGED posted
  BY DEF AcceptOn, history
<1> HIDE DEF k
<1>6. \A x : (InPort(x)' <=> InPort(x)) /\ (Working(x)' <=> Working(x))
  BY DEF InPort, Working, Accepting, worker
<1>7. \A x : Placed(x)' <=> Placed(x) \/ x = k
  BY <1>5, <1>6 DEF Placed
<1>8. ~Placed(k)
  BY <1>2 DEF SlotInv
<1>9. \A x \in Slots : /\ x \in posted' => ~InPort(x)' /\ ~Working(x)' /\ x \notin lost'
                       /\ InPort(x)' => ~Working(x)' /\ x \notin lost'
                       /\ Working(x)' => x \notin lost'
  BY <1>5, <1>6, <1>8 DEF SlotInv, Placed
<1>10. \A x \in Slots' : Placed(x)' <=> x \in Made'
  BY <1>3, <1>4, <1>7 DEF SlotInv
<1>11. SlotInv'
  BY <1>3, <1>9, <1>10 DEF SlotInv, Accepting, worker
<1> QED
  BY <1>2, <1>8, <1>11 DEF k

LEMMA SlotStep ==
  ASSUME TypeInv, SlotInv, [Next]_vars
  PROVE  SlotInv'
<1> USE DEF windows, lists, worker, history
<1>1. CASE UNCHANGED vars
  BY <1>1, SamePlaces DEF vars, setup, Accepting
<1>2. CASE CreateDatagram \/ CreateListener \/ CreateFails
  BY <1>2, SamePlaces DEF CreateDatagram, CreateListener, CreateFails, Accepting
<1>3. CASE Fill
  <2> DEFINE s == created + 1
  <2>1. s \in Services
    <3>1. Len(services) \in Nat /\ created \in 0..Len(services) /\ created < Len(services)
      BY <1>3, ServicesType DEF Fill, TypeInv, Types
    <3> QED
      BY <3>1 DEF Services
  <2>2. UNCHANGED <<services, port, worker>>
    BY <1>3 DEF Fill
  <2>3. CASE /\ filled[s] < services[s].maxAccepts
             /\ filled' = [filled EXCEPT ![s] = @ + 1]
             /\ AcceptOn(<<s, filled[s] + 1>>)
    BY <2>1, <2>2, <2>3, FillSlots
  <2>4. CASE UNCHANGED <<filled, open, posted, relevantSocket, history>>
    BY <2>2, <2>4, SamePlaces DEF Accepting
  <2> QED
    BY <1>3, <2>3, <2>4 DEF Fill
<1>4. ASSUME NEW t \in Threads,
             \/ QueueFails(t) \/ CreateQueue(t) \/ AddEntry(t) \/ PostInitialReceives(t)
             \/ EraseEntry(t)
             \/ \E s \in Services, h \in Sockets : CloseSocket(t, s, h)
      PROVE  SlotInv'
  <2>1. UNCHANGED <<services, filled, posted, port, lost>>
    BY <1>4 DEF QueueFails, CreateQueue, AddEntry, PostInitialReceives, EraseEntry, CloseSocket,
       setup
  <2>2. PICK l \in PCs : /\ pc' = [pc EXCEPT ![t] = l]
                         /\ l \in {"queue", "add", "receives", "reset", "stuck", "stuckListed"} <=> Accepting(t)
    BY <1>4 DEF QueueFails, CreateQueue, AddEntry, PostInitialReceives, EraseEntry, CloseSocket,
       Goto, Accepting, PCs
  <2>3. ASSUME NEW u \in Threads PROVE Accepting(u)' <=> Accepting(u)
    <3>1. pc'[u] = IF u = t THEN l ELSE pc[u]
      BY <2>2 DEF TypeInv, Types
    <3> QED
      BY <2>2, <3>1 DEF Accepting
  <2>4. \A u \in Threads : Accepting(u) => job'[u] = job[u]
    BY <1>4 DEF QueueFails, CreateQueue, AddEntry, PostInitialReceives, EraseEntry, CloseSocket,
       Accepting, TypeInv, Types
  <2> QED
    BY <2>1, <2>3, <2>4, SamePlaces
<1> QED
  BY <1>1, <1>2, <1>3, <1>4, ResetSlots, CompletesSlots, TakeSlots DEF Next, Setup, Clients, Accept

-----------------------------------------------------------------------------
(* The owners of the sockets.                                               *)

\* The same slots and entries lead to the same open sockets.
LEMMA SameOwners ==
  ASSUME SocketInv, LiveSlots' = LiveSlots, Entries' = Entries, UNCHANGED <<open, orphans>>,
         \A k \in LiveSlots : relevantSocket'[k] = relevantSocket[k]
  PROVE  SocketInv'
BY DEF SocketInv

\* A new socket, for a slot or for nobody.
LEMMA OpensOwned ==
  ASSUME SocketInv, NEW k \in Slots, k \notin LiveSlots, NEW h, h \notin open,
         open' = open \cup {h}, Entries' = Entries,
         relevantSocket'[k] = h, \A l \in LiveSlots : relevantSocket'[l] = relevantSocket[l],
         \/ LiveSlots' = LiveSlots \cup {k} /\ UNCHANGED orphans
         \/ LiveSlots' = LiveSlots /\ orphans' = orphans \cup {h}
  PROVE  SocketInv'
<1>1. CASE LiveSlots' = LiveSlots \cup {k} /\ UNCHANGED orphans
  BY <1>1 DEF SocketInv
<1>2. CASE LiveSlots' = LiveSlots /\ orphans' = orphans \cup {h}
  BY <1>2 DEF SocketInv
<1> QED
  BY <1>1, <1>2

\* The socket of a slot is forgotten, or gets an entry.
LEMMA LeavesOwned ==
  ASSUME SocketInv, NEW k \in LiveSlots, LiveSlots' = LiveSlots \ {k},
         UNCHANGED <<open, relevantSocket>>,
         \/ orphans' = orphans \cup {relevantSocket[k]} /\ Entries' = Entries
         \/ \E s : Entries' = Entries \cup {<<s, relevantSocket[k]>>} /\ UNCHANGED orphans
  PROVE  SocketInv'
<1>1. CASE orphans' = orphans \cup {relevantSocket[k]} /\ Entries' = Entries
  BY <1>1 DEF SocketInv
<1>2. ASSUME NEW s, Entries' = Entries \cup {<<s, relevantSocket[k]>>}, UNCHANGED orphans
      PROVE  SocketInv'
  <2>1. <<s, relevantSocket[k]>>[2] = relevantSocket[k]
    OBVIOUS
  <2> DEFINE e == <<s, relevantSocket[k]>>
  <2>2. Entries' = Entries \cup {e} /\ e[2] = relevantSocket[k]
    BY <1>2
  <2> HIDE DEF e
  <2> QED
    BY <1>2, <2>2 DEF SocketInv
<1> QED
  BY <1>1, <1>2

\* The socket of an entry is closed.
LEMMA ClosesOwned ==
  ASSUME SocketInv, NEW e \in Entries, Entries' = Entries \ {e}, LiveSlots' = LiveSlots,
         open' = open \ {e[2]}, UNCHANGED <<orphans, relevantSocket>>
  PROVE  SocketInv'
BY DEF SocketInv

LEMMA SetupSockets ==
  ASSUME TypeInv, SlotInv, SocketInv, Setup
  PROVE  SocketInv'
<1> USE DEF windows, lists, worker, history
<1>0. /\ UNCHANGED <<services, port, pc, job, socketList>>
  BY DEF Setup, CreateDatagram, CreateListener, CreateFails, Fill
<1>1. Slots' = Slots /\ Entries' = Entries
  BY <1>0 DEF Slots, Services, Entries, Erasing
<1>2. ASSUME UNCHANGED posted PROVE LiveSlots' = LiveSlots
  BY <1>0, <1>1, <1>2 DEF LiveSlots, Live, InPort
<1>3. CASE CreateDatagram \/ CreateListener \/ CreateFails
  BY <1>1, <1>2, <1>3, SameOwners DEF CreateDatagram, CreateListener, CreateFails
<1>4. CASE Fill
  <2> DEFINE s == created + 1
             k == <<s, filled[s] + 1>>
  <2>1. s \in Services
    <3>1. Len(services) \in Nat /\ created \in 0..Len(services) /\ created < Len(services)
      BY <1>4, ServicesType DEF Fill, TypeInv, Types
    <3> QED
      BY <3>1 DEF Services
  <2>2. CASE /\ filled[s] < services[s].maxAccepts
             /\ filled' = [filled EXCEPT ![s] = @ + 1]
             /\ AcceptOn(k)
    <3>1. k \in Slots /\ ~Placed(k)
      BY <1>0, <2>1, <2>2, FillSlots
    <3> HIDE DEF k
    <3>2. k \notin LiveSlots
      BY <3>1 DEF LiveSlots, Live, Placed, Working, Accepting
    <3>3. PICK h \in Sockets \ open :
            /\ open' = open \cup {h}
            /\ relevantSocket' = [relevantSocket EXCEPT ![k] = h]
            /\ \/ posted' = posted \cup {k} /\ UNCHANGED history
               \/ orphans' = orphans \cup {h} /\ UNCHANGED posted
      BY <2>2 DEF AcceptOn
    <3>4. relevantSocket'[k] = h /\ \A l \in LiveSlots : relevantSocket'[l] = relevantSocket[l]
      BY <3>1, <3>2, <3>3 DEF LiveSlots, TypeInv, Types
    <3>5. posted' = posted \cup {k} => LiveSlots' = LiveSlots \cup {k}
      BY <1>0, <1>1, <3>1 DEF LiveSlots, Live, InPort
    <3> QED
      BY <1>1, <1>2, <3>1, <3>2, <3>3, <3>4, <3>5, OpensOwned
  <2>3. CASE UNCHANGED <<filled, open, posted, relevantSocket, history>>
    BY <1>1, <1>2, <2>3, SameOwners
  <2> QED
    BY <1>4, <2>2, <2>3 DEF Fill
<1> QED
  BY <1>3, <1>4 DEF Setup

LEMMA ResetSockets ==
  ASSUME TypeInv, SlotInv, SocketInv, NEW t \in Threads, Reset(t)
  PROVE  SocketInv'
<1> USE DEF windows, lists, worker, history, setup
<1> DEFINE k == job[t]
<1>1. /\ UNCHANGED <<services, port, socketList>>
      /\ Accepting(t) /\ pc[t] = "reset" /\ pc'[t] = "idle" /\ k \in Slots
      /\ \A u \in Threads \ {t} : pc'[u] = pc[u] /\ job'[u] = job[u]
  BY DEF Reset, Goto, TypeInv, Types, Jobs, Accepting
<1>2. Slots' = Slots /\ Entries' = Entries
  BY <1>1 DEF Slots, Services, Entries, Erasing
<1>3. k \notin LiveSlots
  BY <1>1 DEF LiveSlots, Live, SlotInv, Working, Accepting
<1> HIDE DEF k
<1>4. \A l : InPort(l)' <=> InPort(l)
  BY <1>1 DEF InPort
<1>5. \A l : (\E u \in Threads : pc'[u] \in {"queue", "add", "stuck"} /\ job'[u] = l)
               <=> (\E u \in Threads : pc[u] \in {"queue", "add", "stuck"} /\ job[u] = l)
  BY <1>1
<1>6. /\ UNCHANGED posted => LiveSlots' = LiveSlots
      /\ posted' = posted \cup {k} => LiveSlots' = LiveSlots \cup {k}
  BY <1>1, <1>2, <1>4, <1>5 DEF LiveSlots, Live
<1>7. CASE AcceptOn(k)
  <2>1. PICK h \in Sockets \ open :
          /\ open' = open \cup {h}
          /\ relevantSocket' = [relevantSocket EXCEPT ![k] = h]
          /\ \/ posted' = posted \cup {k} /\ UNCHANGED history
             \/ orphans' = orphans \cup {h} /\ UNCHANGED posted
    BY <1>7 DEF AcceptOn
  <2>2. relevantSocket'[k] = h /\ \A l \in LiveSlots : relevantSocket'[l] = relevantSocket[l]
    BY <1>1, <1>3, <2>1 DEF LiveSlots, TypeInv, Types
  <2> QED
    BY <1>1, <1>2, <1>3, <1>6, <2>1, <2>2, OpensOwned
<1>8. CASE /\ relevantSocket' = [relevantSocket EXCEPT ![k] = NoSocket]
           /\ UNCHANGED <<open, posted, orphans>>
  <2>1. \A l \in LiveSlots : relevantSocket'[l] = relevantSocket[l]
    BY <1>1, <1>3, <1>8 DEF LiveSlots, TypeInv, Types
  <2> QED
    BY <1>2, <1>6, <1>8, <2>1, SameOwners
<1> QED
  BY <1>7, <1>8 DEF Reset, k

LEMMA PacketSockets ==
  ASSUME TypeInv, SlotInv, SocketInv,
         \/ \E k \in Slots, ok \in BOOLEAN : AcceptExCompletes(k, ok)
         \/ \E t \in Threads : TakePacket(t)
  PROVE  SocketInv'
<1> USE DEF windows, lists, history
<1>0. UNCHANGED <<services, open, relevantSocket, socketList>>
  BY DEF AcceptExCompletes, TakePacket, setup
<1>1. Slots' = Slots
  BY <1>0 DEF Slots, Services
<1>2. ASSUME NEW k \in Slots, NEW ok \in BOOLEAN, AcceptExCompletes(k, ok)
      PROVE  SocketInv'
  <2>1. \A x : InPort(x)' <=> InPort(x) \/ x = k
    <3>1. port \in Seq(Packet) /\ [slot |-> k, ok |-> ok] \in Packet
      BY DEF TypeInv, Types, Packet
    <3>2. port' = Append(port, [slot |-> k, ok |-> ok])
      BY <1>2 DEF AcceptExCompletes
    <3>3. /\ Len(port) \in Nat /\ Len(port') = Len(port) + 1
          /\ \A i \in 1..Len(port) : port'[i] = port[i]
          /\ port'[Len(port) + 1].slot = k
      BY <3>1, <3>2
    <3>4. /\ \A i \in 1..Len(port) : i \in 1..Len(port')
          /\ \A i \in 1..Len(port') : i = Len(port) + 1 \/ i \in 1..Len(port)
          /\ Len(port) + 1 \in 1..Len(port')
      BY <3>3
    <3> QED
      BY <3>3, <3>4 DEF InPort
  <2>2. UNCHANGED worker /\ k \in posted /\ posted' = posted \ {k} /\ UNCHANGED history
    BY <1>2 DEF AcceptExCompletes
  <2>3. LiveSlots' = LiveSlots /\ Entries' = Entries
    BY <1>0, <1>1, <2>1, <2>2 DEF LiveSlots, Live, Entries, Erasing, worker
  <2> QED
    BY <1>0, <2>2, <2>3, SameOwners
<1>3. ASSUME NEW t \in Threads, TakePacket(t)
      PROVE  SocketInv'
  <2> DEFINE k == Head(port).slot
  <2>1. /\ Len(port) \in Nat /\ Len(port) >= 1 /\ Len(port') = Len(port) - 1
        /\ \A i \in 1..Len(port') : port'[i] = port[i + 1]
        /\ k = port[1].slot
    <3>1. port \in Seq(Packet) /\ port # <<>> /\ port' = Tail(port)
      BY <1>3 DEF TypeInv, Types, TakePacket
    <3> QED
      BY <3>1
  <2>2. /\ \A i \in 1..Len(port') : i + 1 \in 1..Len(port) /\ i + 1 # 1
        /\ \A i \in 1..Len(port) : i = 1 \/ (i - 1 \in 1..Len(port') /\ (i - 1) + 1 = i)
        /\ 1 \in 1..Len(port)
    BY <2>1
  <2>3. /\ UNCHANGED posted /\ pc[t] = "idle"
        /\ \A u \in Threads \ {t} : pc'[u] = pc[u] /\ job'[u] = job[u]
        /\ \/ pc'[t] = "queue" /\ job'[t] = k /\ UNCHANGED orphans
           \/ pc'[t] = "exited" /\ orphans' = orphans \cup {relevantSocket[k]}
    BY <1>3 DEF TakePacket, Goto, TypeInv, Types
  <2>4. k \in Slots /\ InPort(k)
    <3>1. port[1] \in Packet
      BY <2>2 DEF TypeInv, Types
    <3> QED
      BY <2>1, <2>2, <3>1 DEF Packet, InPort
  <2>5. k \in LiveSlots
    BY <2>4 DEF LiveSlots, Live
  <2> HIDE DEF k
  <2>6. ASSUME NEW x PROVE InPort(x)' <=> InPort(x) /\ x # k
    <3>1. ASSUME NEW i \in 1..Len(port'), port'[i].slot = x PROVE InPort(x) /\ x # k
      BY <2>1, <2>2, <3>1 DEF SlotInv, InPort
    <3>2. ASSUME NEW i \in 1..Len(port), port[i].slot = x, x # k PROVE InPort(x)'
      <4>1. i - 1 \in 1..Len(port') /\ port'[i - 1].slot = x
        BY <2>1, <2>2, <3>2
      <4> QED
        BY <4>1 DEF InPort
    <3> QED
      BY <3>1, <3>2 DEF InPort
  <2>7. Entries' = Entries
    BY <1>0, <2>3 DEF Entries, Erasing
  <2>8. k \notin posted /\ \A u \in Threads : Accepting(u) => job[u] # k
    BY <2>4 DEF SlotInv, Working
  <2>9. LiveSlots' = IF pc'[t] = "queue" THEN LiveSlots ELSE LiveSlots \ {k}
    <3>1. CASE pc'[t] = "queue"
      BY <1>1, <2>3, <2>4, <2>6, <3>1 DEF LiveSlots, Live
    <3>2. CASE pc'[t] = "exited"
      BY <1>1, <2>3, <2>6, <2>8, <3>2 DEF LiveSlots, Live, Accepting
    <3> QED
      BY <2>3, <3>1, <3>2
  <2>10. CASE pc'[t] = "queue" /\ UNCHANGED orphans
    BY <1>0, <2>7, <2>9, <2>10, SameOwners
  <2>11. CASE pc'[t] = "exited" /\ orphans' = orphans \cup {relevantSocket[k]}
    BY <1>0, <2>5, <2>7, <2>9, <2>11, LeavesOwned
  <2> QED
    BY <2>3, <2>10, <2>11
<1> QED
  BY <1>2, <1>3

LEMMA WorkerSockets ==
  ASSUME TypeInv, SlotInv, SocketInv, NEW t \in Threads,
         QueueFails(t) \/ CreateQueue(t) \/ AddEntry(t)
  PROVE  SocketInv'
<1> USE DEF windows, lists, history
<1> DEFINE k == job[t]
           h == relevantSocket[k]
<1>0. /\ UNCHANGED <<services, open, relevantSocket, posted, port, job>>
      /\ pc[t] \in {"queue", "add"} /\ k \in Slots
      /\ \A u \in Threads \ {t} : pc'[u] = pc[u]
      /\ pc'[t] \in {"add", "stuck", "receives", "reset"}
  BY DEF QueueFails, CreateQueue, AddEntry, setup, Goto, TypeInv, Types, Jobs, Accepting
<1>1. Slots' = Slots /\ \A x : InPort(x)' <=> InPort(x)
  BY <1>0 DEF Slots, Services, InPort
<1>2. k \in LiveSlots
  BY <1>0 DEF LiveSlots, Live
<1>3. /\ k \notin posted /\ ~InPort(k)
      /\ \A u \in Threads \ {t} : Accepting(u) => job[u] # k
  BY <1>0 DEF SlotInv, Working, Accepting
<1> HIDE DEF k
<1>4. LiveSlots' = IF pc'[t] \in {"receives", "reset"} THEN LiveSlots \ {k} ELSE LiveSlots
  <2>1. CASE pc'[t] \in {"receives", "reset"}
    BY <1>0, <1>1, <1>3, <2>1 DEF LiveSlots, Live, Accepting, k
  <2>2. CASE pc'[t] \notin {"receives", "reset"}
    BY <1>0, <1>1, <2>2 DEF LiveSlots, Live, k
  <2> QED
    BY <2>1, <2>2
<1>5. \A e : Erasing(e)' <=> Erasing(e)
  BY <1>0 DEF Erasing
<1>6. UNCHANGED socketList => Entries' = Entries
  BY <1>5 DEF Entries
<1>7. CASE QueueFails(t)
  <2>1. pc'[t] = "reset" /\ orphans' = orphans \cup {h} /\ UNCHANGED socketList
    BY <1>7 DEF QueueFails, Goto, TypeInv, Types, k
  <2> QED
    BY <1>0, <1>2, <1>4, <1>6, <2>1, LeavesOwned
<1>8. CASE CreateQueue(t)
  <2>1. pc'[t] = "add" /\ UNCHANGED <<orphans, socketList>>
    BY <1>8 DEF CreateQueue, Goto, TypeInv, Types
  <2> QED
    BY <1>0, <1>4, <1>6, <2>1, SameOwners
<1>9. CASE AddEntry(t)
  <2>1. CASE pc'[t] = "stuck" /\ UNCHANGED <<socketList, orphans>>
    BY <1>0, <1>4, <1>6, <2>1, SameOwners
  <2>2. CASE pc'[t] = "reset" /\ orphans' = orphans \cup {h} /\ UNCHANGED socketList
    BY <1>0, <1>2, <1>4, <1>6, <2>2, LeavesOwned
  <2>3. CASE /\ pc'[t] = "receives" /\ socketList' = socketList \cup {<<k[1], h>>}
             /\ listCS[k[1]] = NoThread /\ UNCHANGED orphans
    <3>1. k[1] \in Services
      BY <1>0, SlotParts DEF k
    <3>2. ~Erasing(<<k[1], h>>)
      <4>1. ASSUME NEW u \in Threads, pc[u] = "erase", job[u] = <<k[1], h>> PROVE FALSE
        <5>1. job[u][1] = k[1]
          BY <4>1
        <5> QED
          BY <2>3, <3>1, <4>1, <5>1, NullAssumption DEF TypeInv, Sections
      <4> QED
        BY <4>1 DEF Erasing
    <3>3. Entries' = Entries \cup {<<k[1], h>>}
      BY <1>5, <2>3, <3>2 DEF Entries
    <3> QED
      BY <1>0, <1>2, <1>4, <2>3, <3>3, LeavesOwned
  <2> QED
    BY <1>9, <2>1, <2>2, <2>3 DEF AddEntry, Goto, TypeInv, Types, k
<1> QED
  BY <1>7, <1>8, <1>9

LEMMA ReceiveSockets ==
  ASSUME TypeInv, SocketInv, NEW t \in Threads, PostInitialReceives(t)
  PROVE  SocketInv'
<1>1. /\ UNCHANGED <<services, open, relevantSocket, posted, port, job, socketList, orphans>>
      /\ pc[t] = "receives" /\ pc'[t] \in {"stuckListed", "reset"}
      /\ \A u \in Threads \ {t} : pc'[u] = pc[u]
  BY DEF PostInitialReceives, windows, lists, history, setup, Goto, TypeInv, Types
<1>2. Slots' = Slots /\ \A x : InPort(x)' <=> InPort(x)
  BY <1>1 DEF Slots, Services, InPort
<1>3. LiveSlots' = LiveSlots
  BY <1>1, <1>2 DEF LiveSlots, Live
<1>4. Entries' = Entries
  BY <1>1 DEF Entries, Erasing
<1> QED
  BY <1>1, <1>3, <1>4, SameOwners

LEMMA CloseSockets ==
  ASSUME TypeInv, SlotInv, SocketInv, NEW t \in Threads,
         EraseEntry(t) \/ \E s \in Services, h \in Sockets : CloseSocket(t, s, h)
  PROVE  SocketInv'
<1> USE DEF windows, lists, history
<1>0. /\ UNCHANGED <<services, relevantSocket, posted, port, orphans>>
      /\ pc[t] \in {"idle", "erase"} /\ pc'[t] \in {"idle", "erase"}
      /\ \A u \in Threads \ {t} : pc'[u] = pc[u] /\ job'[u] = job[u]
  BY DEF EraseEntry, CloseSocket, setup, Goto, TypeInv, Types
<1>1. Slots' = Slots /\ \A x : InPort(x)' <=> InPort(x)
  BY <1>0 DEF Slots, Services, InPort
<1>2. LiveSlots' = LiveSlots
  BY <1>0, <1>1 DEF LiveSlots, Live
<1>3. CASE EraseEntry(t)
  <2>1. /\ pc[t] = "erase" /\ pc'[t] = "idle" /\ UNCHANGED open
        /\ socketList' = socketList \ {job[t]}
    BY <1>3 DEF EraseEntry, Goto, TypeInv, Types
  <2>2. Entries' = Entries
    BY <1>0, <2>1 DEF Entries, Erasing
  <2> QED
    BY <1>0, <1>2, <2>1, <2>2, SameOwners
<1>4. ASSUME NEW s \in Services, NEW h \in Sockets, CloseSocket(t, s, h)
      PROVE  SocketInv'
  <2> DEFINE e == <<s, h>>
  <2>1. /\ pc[t] = "idle" /\ pc'[t] = "erase" /\ job'[t] = e
        /\ e \in socketList /\ UNCHANGED socketList /\ open' = open \ {h}
        /\ listCS[s] = NoThread
    BY <1>4 DEF CloseSocket, Goto, TypeInv, Types
  <2>2. ~Erasing(e)
    <3>1. ASSUME NEW u \in Threads, pc[u] = "erase", job[u] = e PROVE FALSE
      <4>1. job[u][1] = s
        BY <3>1
      <4> QED
        BY <2>1, <3>1, <4>1, NullAssumption DEF TypeInv, Sections
    <3> QED
      BY <3>1 DEF Erasing
  <2>3. e[2] = h
    OBVIOUS
  <2> HIDE DEF e
  <2>4. e \in Entries /\ Entries' = Entries \ {e}
    BY <1>0, <2>1, <2>2 DEF Entries, Erasing
  <2> QED
    BY <1>0, <1>2, <2>1, <2>3, <2>4, ClosesOwned
<1> QED
  BY <1>3, <1>4

LEMMA SocketStep ==
  ASSUME TypeInv, SlotInv, SocketInv, [Next]_vars
  PROVE  SocketInv'
<1>1. CASE UNCHANGED vars
  <2>1. LiveSlots' = LiveSlots /\ Entries' = Entries
    BY <1>1 DEF LiveSlots, Live, InPort, Slots, Services, Entries, Erasing, vars, setup, windows,
       lists, worker
  <2> QED
    BY <1>1, <2>1, SameOwners DEF vars, windows, history
<1> QED
  BY <1>1, SetupSockets, ResetSockets, PacketSockets, WorkerSockets, ReceiveSockets, CloseSockets
     DEF Next, Clients, Accept

LEMMA Invariant == Spec => [](TypeInv /\ SlotInv /\ SocketInv)
BY InitType, InitSlots, TypeStep, SlotStep, SocketStep, PTL DEF Spec

-----------------------------------------------------------------------------

(* Every variable has its type: in particular no listener gets more slots   *)
(* than SERVICE_MAX_ACCEPTS, the sockets nobody leads to are open, and the  *)
(* section of a list is held exactly by the worker that closes an entry.    *)
THEOREM TypeCorrect == Spec => []TypeOK
<1>1. TypeInv /\ SocketInv => TypeOK
  <2>1. TypeInv => \A s \in Services : filled[s] \in 0..services[s].maxAccepts
    BY ServicesType DEF TypeInv, Types
  <2> QED
    BY <2>1 DEF TypeInv, Types, Sections, SocketInv, TypeOK, Packet, Entry, PCs
<1> QED
  BY <1>1, Invariant, PTL

(* A slot of ExtendedOverlapped is in one place: its AcceptEx is pending,   *)
(* in the port or served by one worker, until a call for the next fails.    *)
THEOREM AcceptsKept == Spec => []AcceptsConserved
<1>1. ASSUME TypeInv, SlotInv, NEW k \in Made
      PROVE  \E x : Places(k) = {x}
  <2> DEFINE I == {j \in 1..Len(port) : port[j].slot = k}
             W == {u \in Threads : Accepting(u) /\ job[u] = k}
             P == {<<"posted", j>> : j \in posted \cap {k}}
             Q == {<<"port", i>> : i \in I}
             T == {<<"worker", t>> : t \in W}
             L == {<<"lost", j>> : j \in lost \cap {k}}
  <2>1. Places(k) = P \cup Q \cup T \cup L
    BY DEF Places
  <2>2. k \in Slots
    BY DEF Made
  <2>3. /\ \A i, j \in I : i = j
        /\ \A t, u \in W : t = u
    BY <1>1 DEF SlotInv
  <2>4. /\ k \in posted => I = {} /\ W = {} /\ k \notin lost
        /\ I # {} => W = {} /\ k \notin lost
        /\ W # {} => k \notin lost
        /\ k \in posted \/ I # {} \/ W # {} \/ k \in lost
    BY <1>1, <2>2 DEF SlotInv, Placed, InPort, Working
  <2> HIDE DEF I, W
  <2>5. CASE k \in posted
    <3>1. Places(k) = {<<"posted", k>>}
      BY <2>1, <2>4, <2>5
    <3> QED
      BY <3>1
  <2>6. CASE k \notin posted /\ I # {}
    <3>0. \E i : i \in I
      BY <2>6
    <3>1. PICK i : I = {i}
      BY <2>3, <3>0
    <3>2. Places(k) = {<<"port", i>>}
      BY <2>1, <2>4, <2>6, <3>1
    <3> QED
      BY <3>2
  <2>7. CASE k \notin posted /\ I = {} /\ W # {}
    <3>0. PICK t : t \in W
      BY <2>7
    <3>1. W = {t}
      BY <2>3, <3>0
    <3>2. Places(k) = {<<"worker", t>>}
      BY <2>1, <2>4, <2>7, <3>1
    <3> QED
      BY <3>2
  <2>8. CASE k \notin posted /\ I = {} /\ W = {} /\ k \in lost
    <3>1. Places(k) = {<<"lost", k>>}
      BY <2>1, <2>8
    <3> QED
      BY <3>1
  <2> QED
    BY <2>4, <2>5, <2>6, <2>7, <2>8
<1>2. TypeInv /\ SlotInv => AcceptsConserved
  BY <1>1, FS_Singleton DEF AcceptsConserved
<1> QED
  BY <1>2, Invariant, PTL

(* An open socket has one owner, a slot, an entry or the early return that  *)
(* forgot it, and a closed one none, whatever handles are given out again.  *)
THEOREM SocketsKept == Spec => []SocketsOwned
<1>1. ASSUME TypeInv, SocketInv, NEW h \in Sockets
      PROVE  IF h \in open THEN \E x : Owners(h) = {x} ELSE Owners(h) = {}
  <2> DEFINE K == {k \in LiveSlots : relevantSocket[k] = h}
             E == {e \in Entries : e[2] = h}
  <2>1. Owners(h) = K \cup E \cup (orphans \cap {h})
    BY DEF Owners, LiveSlots, Live, InPort, Entries
  <2>2. /\ \A k, l \in K : k = l
        /\ \A e, f \in E : e = f
        /\ K # {} => E = {} /\ h \notin orphans /\ h \in open
        /\ E # {} => h \notin orphans /\ h \in open
        /\ h \in orphans => h \in open
        /\ h \in open => K # {} \/ E # {} \/ h \in orphans
    BY <1>1 DEF SocketInv
  <2> HIDE DEF K, E
  <2>3. CASE K # {}
    <3>0. \E k : k \in K
      BY <2>3
    <3>1. PICK k : K = {k}
      BY <2>2, <3>0
    <3>2. Owners(h) = {k}
      BY <2>1, <2>2, <2>3, <3>1
    <3> QED
      BY <2>2, <2>3, <3>2
  <2>4. CASE K = {} /\ E # {}
    <3>0. \E e : e \in E
      BY <2>4
    <3>1. PICK e : E = {e}
      BY <2>2, <3>0
    <3>2. Owners(h) = {e}
      BY <2>1, <2>2, <2>4, <3>1
    <3> QED
      BY <2>2, <2>4, <3>2
  <2>5. CASE K = {} /\ E = {}
    BY <2>1, <2>2, <2>5
  <2> QED
    BY <2>3, <2>4, <2>5
<1>2. TypeInv /\ SocketInv => SocketsOwned
  BY <1>1, FS_Singleton, FS_EmptySet DEF SocketsOwned
<1> QED
  BY <1>2, Invariant, PTL

-----------------------------------------------------------------------------
(* Request queues and the room they take.                                   *)

\* The same workers lead to the same sockets, and no entry goes.
LEMMA SameQueues ==
  ASSUME QueueInv, UNCHANGED <<services, requestQueue>>, Entries \subseteq Entries',
         \A t \in Threads :
           pc[t] \in {"add", "stuck"} =>
             /\ pc'[t] \in {"add", "stuck"} /\ job'[t] = job[t]
             /\ relevantSocket'[job[t]] = relevantSocket[job[t]]
  PROVE  QueueInv'
<1>1. Services' = Services
  BY DEF Services
<1>2. \A s : \A t \in Threads : Adding(t, s) =>
        Adding(t, s)' /\ relevantSocket'[job'[t]] = relevantSocket[job[t]]
  BY DEF Adding
<1> QED
  BY <1>1, <1>2 DEF QueueInv

LEMMA QueueSetup ==
  ASSUME TypeInv, SlotInv, QueueInv, Setup
  PROVE  QueueInv'
<1> USE DEF windows, lists, worker, history
<1>1. UNCHANGED <<services, pc, job, socketList, requestQueue>>
  BY DEF Setup, CreateDatagram, CreateListener, CreateFails, Fill
<1>2. Entries' = Entries
  BY <1>1 DEF Entries, Erasing
<1>3. \A t \in Threads : pc[t] \in {"add", "stuck"} => relevantSocket'[job[t]] = relevantSocket[job[t]]
  <2>1. CASE UNCHANGED relevantSocket
    BY <2>1
  <2>2. CASE Fill /\ ~UNCHANGED relevantSocket
    <3> DEFINE s == created + 1
               k == <<s, filled[s] + 1>>
    <3>1. s \in Services
      <4>1. Len(services) \in Nat /\ created \in 0..Len(services) /\ created < Len(services)
        BY <2>2, ServicesType DEF Fill, TypeInv, Types
      <4> QED
        BY <4>1 DEF Services
    <3>2. /\ filled[s] < services[s].maxAccepts
          /\ filled' = [filled EXCEPT ![s] = @ + 1]
          /\ AcceptOn(k) /\ UNCHANGED port
      BY <2>2 DEF Fill
    <3>3. k \in Slots /\ ~Placed(k)
      BY <1>1, <3>1, <3>2, FillSlots
    <3> HIDE DEF k
    <3>4. \A t \in Threads : pc[t] \in {"add", "stuck"} => job[t] # k /\ job[t] \in Slots
      BY <3>3 DEF Placed, Working, Accepting, TypeInv, Jobs
    <3> QED
      BY <3>2, <3>3, <3>4 DEF AcceptOn, TypeInv, Types
  <2> QED
    BY <2>1, <2>2 DEF Setup, CreateDatagram, CreateListener, CreateFails
<1> QED
  BY <1>1, <1>2, <1>3, SameQueues

LEMMA QueueReset ==
  ASSUME TypeInv, SlotInv, QueueInv, NEW t \in Threads, Reset(t)
  PROVE  QueueInv'
<1> USE DEF windows, lists, worker, history, setup
<1>1. /\ UNCHANGED <<services, requestQueue, socketList>>
      /\ Accepting(t) /\ pc[t] = "reset" /\ pc'[t] = "idle" /\ job[t] \in Slots
      /\ \A u \in Threads \ {t} : pc'[u] = pc[u] /\ job'[u] = job[u]
  BY DEF Reset, Goto, TypeInv, Types, Jobs, Accepting
<1>2. Entries' = Entries
  BY <1>1 DEF Entries, Erasing
<1>3. \A u \in Threads : pc[u] \in {"add", "stuck"} => u # t /\ job[u] # job[t] /\ job[u] \in Slots
  BY <1>1 DEF SlotInv, Accepting, TypeInv, Jobs
<1>4. \A l \in Slots : l # job[t] => relevantSocket'[l] = relevantSocket[l]
  BY <1>1 DEF Reset, AcceptOn, TypeInv, Types
<1> QED
  BY <1>1, <1>2, <1>3, <1>4, SameQueues

LEMMA QueueWorker ==
  ASSUME TypeInv, SocketInv, QueueInv, NEW t \in Threads,
         TakePacket(t) \/ QueueFails(t) \/ CreateQueue(t) \/ AddEntry(t)
  PROVE  QueueInv'
<1> USE DEF windows, lists, worker, history, setup
<1>1. /\ UNCHANGED <<services, relevantSocket>>
      /\ \A u \in Threads \ {t} : pc'[u] = pc[u] /\ job'[u] = job[u]
      /\ pc \in [Threads -> PCs]
  BY DEF TakePacket, QueueFails, CreateQueue, AddEntry, Goto, TypeInv, Types
<1>2. UNCHANGED socketList => Entries' = Entries
  <2>1. \A e : Erasing(e)' <=> Erasing(e)
    BY <1>1 DEF TakePacket, QueueFails, CreateQueue, AddEntry, Goto, Erasing
  <2> QED
    BY <2>1 DEF Entries
<1>3. CASE TakePacket(t) \/ QueueFails(t)
  BY <1>1, <1>2, <1>3, SameQueues DEF TakePacket, QueueFails
<1>4. CASE CreateQueue(t)
  <2> DEFINE s == job[t][1]
             h == relevantSocket[job[t]]
  <2>1. /\ requestQueue' = [requestQueue EXCEPT ![h] = s] /\ UNCHANGED <<job, socketList>>
        /\ pc[t] = "queue" /\ pc'[t] = "add"
    BY <1>1, <1>4 DEF CreateQueue, Goto
  <2>2. Services' = Services /\ Entries' = Entries
    BY <1>1, <1>2, <2>1 DEF Services
  <2>3. Adding(t, s)' /\ relevantSocket'[job'[t]] = h
    BY <1>1, <2>1 DEF Adding
  <2>4. \A r : \A u \in Threads : Adding(u, r) => Adding(u, r)'
    BY <1>1, <2>1 DEF Adding
  <2>5. \A g \in Sockets : requestQueue'[g] = requestQueue[g] \/ (g = h /\ requestQueue'[g] = s)
    BY <2>1 DEF TypeInv, Types
  <2>6. relevantSocket' = relevantSocket /\ job' = job /\ s' = s
    BY <1>1, <2>1
  <2> HIDE DEF s, h
  <2>7. ASSUME NEW g \in Sockets, NEW r \in Services, requestQueue'[g] = r
        PROVE  <<r, g>> \in Entries \/ \E u \in Threads : Adding(u, r)' /\ relevantSocket[job[u]] = g
    <3>1. CASE requestQueue[g] = r
      BY <2>1, <2>4, <3>1 DEF QueueInv, Adding
    <3>2. CASE g = h /\ r = s
      BY <2>3, <2>6, <3>2 DEF Adding
    <3> QED
      BY <2>5, <2>7, <3>1, <3>2
  <2> QED
    BY <2>2, <2>6, <2>7 DEF QueueInv
<1>5. CASE AddEntry(t)
  <2> DEFINE s == job[t][1]
             h == relevantSocket[job[t]]
  <2>1. UNCHANGED <<requestQueue, job>> /\ pc[t] = "add"
    BY <1>5 DEF AddEntry
  <2>2. CASE UNCHANGED socketList /\ pc' = [pc EXCEPT ![t] = "stuck"]
    BY <1>1, <1>2, <2>1, <2>2, SameQueues
  <2>3. CASE /\ listCS[s] = NoThread
             /\ \E l \in {"receives", "reset"} : pc' = [pc EXCEPT ![t] = l]
    <3>1. job[t] \in Slots /\ s \in Services /\ job[t] \in LiveSlots
      BY <2>1, SlotParts DEF TypeInv, Jobs, Accepting, LiveSlots, Live
    <3>2. ~Erasing(<<s, h>>)
      <4>1. ASSUME NEW u \in Threads, pc[u] = "erase", job[u] = <<s, h>> PROVE FALSE
        <5>1. job[u][1] = s
          BY <4>1
        <5> QED
          BY <2>3, <3>1, <4>1, <5>1, NullAssumption DEF TypeInv, Sections
      <4> QED
        BY <4>1 DEF Erasing
    <3>3. <<s, h>> \notin socketList
      <4>1. ASSUME <<s, h>> \in Entries PROVE FALSE
        <5>1. <<s, h>>[2] = h
          OBVIOUS
        <5> QED
          BY <3>1, <4>1, <5>1 DEF SocketInv
      <4> QED
        BY <3>2, <4>1 DEF Entries
    <3>4. socketList' = socketList \cup {<<s, h>>}
      BY <1>5, <2>3, <3>3 DEF AddEntry
    <3>5. \A e : Erasing(e)' <=> Erasing(e)
      BY <2>1, <2>3, <1>1 DEF Erasing
    <3> HIDE DEF h, s
    <3>6. Entries' = Entries \cup {<<s, h>>}
      BY <3>2, <3>4, <3>5 DEF Entries
    <3>7. Services' = Services
      BY <1>1 DEF Services
    <3>8. \A r : \A u \in Threads : Adding(u, r) => (Adding(u, r)' \/ (u = t /\ r = s))
      BY <1>1, <2>1 DEF Adding, s
    <3>9. h = relevantSocket[job[t]]
      BY DEF h
    <3> QED
      BY <1>1, <2>1, <3>6, <3>7, <3>8, <3>9 DEF QueueInv
  <2> QED
    BY <1>5, <2>2, <2>3 DEF AddEntry, Goto
<1> QED
  BY <1>3, <1>4, <1>5

LEMMA QueueReceives ==
  ASSUME TypeInv, QueueInv, NEW t \in Threads, PostInitialReceives(t)
  PROVE  QueueInv'
<1>1. /\ UNCHANGED <<services, requestQueue, relevantSocket, socketList, job>>
      /\ pc[t] = "receives" /\ pc'[t] \in {"stuckListed", "reset"}
      /\ \A u \in Threads \ {t} : pc'[u] = pc[u]
  BY DEF PostInitialReceives, windows, lists, setup, Goto, TypeInv, Types
<1>2. Entries' = Entries
  BY <1>1 DEF Entries, Erasing
<1> QED
  BY <1>1, <1>2, SameQueues

LEMMA QueueClose ==
  ASSUME TypeInv, QueueInv, NEW t \in Threads,
         EraseEntry(t) \/ \E s \in Services, h \in Sockets : CloseSocket(t, s, h)
  PROVE  QueueInv'
<1> USE DEF windows, lists, worker, history, setup
<1>1. /\ UNCHANGED <<services, relevantSocket>>
      /\ pc[t] \in {"idle", "erase"} /\ pc \in [Threads -> PCs]
      /\ \A u \in Threads \ {t} : pc'[u] = pc[u] /\ job'[u] = job[u]
  BY DEF EraseEntry, CloseSocket, Goto, TypeInv, Types
<1>2. CASE EraseEntry(t)
  <2>1. /\ pc[t] = "erase" /\ pc'[t] = "idle" /\ UNCHANGED requestQueue
        /\ socketList' = socketList \ {job[t]}
    BY <1>1, <1>2 DEF EraseEntry, Goto
  <2>2. Entries' = Entries
    BY <1>1, <2>1 DEF Entries, Erasing
  <2> QED
    BY <1>1, <2>1, <2>2, SameQueues
<1>3. ASSUME NEW s \in Services, NEW h \in Sockets, CloseSocket(t, s, h)
      PROVE  QueueInv'
  <2>1. /\ pc[t] = "idle" /\ pc'[t] = "erase" /\ job'[t] = <<s, h>>
        /\ UNCHANGED socketList /\ requestQueue' = [requestQueue EXCEPT ![h] = 0]
    BY <1>1, <1>3 DEF CloseSocket, Goto, TypeInv, Types
  <2>2. \A e : Erasing(e)' => Erasing(e) \/ e = <<s, h>>
    BY <1>1, <2>1 DEF Erasing
  <2>3. \A e \in Entries : e \in Entries' \/ e = <<s, h>>
    BY <2>1, <2>2 DEF Entries
  <2>4. Services' = Services /\ \A r \in Services : r # 0
    BY <1>1 DEF Services
  <2>5. \A r : \A u \in Threads : Adding(u, r) => Adding(u, r)' /\ job'[u] = job[u]
    BY <1>1, <2>1 DEF Adding
  <2>6. requestQueue \in [Sockets -> {0} \cup Services]
    BY DEF TypeInv, Types
  <2>7. ASSUME NEW g \in Sockets, NEW r \in Services, requestQueue'[g] = r
        PROVE  <<r, g>> \in Entries' \/ \E u \in Threads : Adding(u, r)' /\ relevantSocket'[job'[u]] = g
    <3>1. g # h /\ requestQueue[g] = r
      BY <2>1, <2>4, <2>6, <2>7
    <3>2. <<r, g>> # <<s, h>>
      BY <3>1
    <3> QED
      BY <1>1, <2>3, <2>5, <3>1, <3>2 DEF QueueInv
  <2> QED
    BY <2>4, <2>7 DEF QueueInv
<1> QED
  BY <1>2, <1>3

LEMMA QueueStep ==
  ASSUME TypeInv, SlotInv, SocketInv, QueueInv, [Next]_vars
  PROVE  QueueInv'
<1>1. CASE UNCHANGED vars
  <2>1. UNCHANGED <<services, requestQueue, relevantSocket, socketList, pc, job>>
    BY <1>1 DEF vars, setup, windows, lists, worker
  <2>2. Entries' = Entries
    BY <2>1 DEF Entries, Erasing
  <2> QED
    BY <2>1, <2>2, SameQueues
<1>2. CASE \E k \in Slots, ok \in BOOLEAN : AcceptExCompletes(k, ok)
  <2>1. UNCHANGED <<services, requestQueue, relevantSocket, socketList, pc, job>>
    BY <1>2 DEF AcceptExCompletes, setup, lists, worker
  <2>2. Entries' = Entries
    BY <2>1 DEF Entries, Erasing
  <2> QED
    BY <2>1, <2>2, SameQueues
<1> QED
  BY <1>1, <1>2, QueueSetup, QueueReset, QueueWorker, QueueReceives, QueueClose DEF Next, Clients, Accept

LEMMA QueueInvariant == Spec => [](TypeInv /\ QueueInv)
<1>1. Init => QueueInv
  BY DEF Init, QueueInv, Services
<1> QED
  BY <1>1, QueueStep, Invariant, PTL DEF Spec

\* No service has more request queues than it has clients.
LEMMA QueuesOfClients ==
  ASSUME TypeInv, QueueInv, NEW s \in Services
  PROVE  Queues(s) \in Nat /\ Connected(s) \in Nat /\ Queues(s) <= Connected(s)
<1>1. CASE Datagram(s)
  BY <1>1 DEF Queues, Connected
<1>2. CASE ~Datagram(s)
  <2> DEFINE Q == {h \in Sockets : requestQueue[h] = s}
             E == {e \in socketList : e[1] = s /\ ~Erasing(e)}
             W == {t \in Threads : pc[t] \in {"add", "stuck"} /\ job[t][1] = s}
             F == {e[2] : e \in E}
             V == {relevantSocket[job[t]] : t \in W}
  <2>1. Q \subseteq F \cup V
    <3>1. ASSUME NEW h \in Q PROVE h \in F \cup V
      <4>1. h \in Sockets /\ requestQueue[h] = s
        BY <3>1
      <4>2. CASE <<s, h>> \in Entries
        <5>1. <<s, h>> \in E /\ <<s, h>>[2] = h
          BY <4>2 DEF Entries
        <5> QED
          BY <5>1
      <4>3. CASE \E t \in Threads : Adding(t, s) /\ relevantSocket[job[t]] = h
        BY <4>3 DEF Adding
      <4> QED
        BY <4>1, <4>2, <4>3 DEF QueueInv
    <3> QED
      BY <3>1
  <2>2. IsFiniteSet(W)
    <3>1. W \subseteq Threads
      OBVIOUS
    <3> QED
      BY <3>1, FiniteAssumption, FS_Subset
  <2>3. IsFiniteSet(E)
    <3>1. E \subseteq Services \X Sockets
      BY DEF TypeInv, Types, Entry
    <3>2. IsFiniteSet(Services)
      BY ServicesType, FS_Interval DEF Services, TypeInv, Types
    <3>3. IsFiniteSet(Services \X Sockets)
      BY <3>2, FiniteAssumption, FS_Product
    <3> QED
      BY <3>1, <3>3, FS_Subset
  <2> HIDE DEF Q, E, W
  <2>4. IsFiniteSet(F) /\ Cardinality(F) <= Cardinality(E)
    <3> DEFINE f == [e \in E |-> e[2]]
    <3>1. DOMAIN f = E /\ f = [e \in E |-> f[e]] /\ F = {f[e] : e \in E}
      OBVIOUS
    <3> HIDE DEF f, F
    <3> QED
      BY <2>3, <3>1, ImageFits
  <2>5. IsFiniteSet(V) /\ Cardinality(V) <= Cardinality(W)
    <3> DEFINE f == [t \in W |-> relevantSocket[job[t]]]
    <3>1. DOMAIN f = W /\ f = [t \in W |-> f[t]] /\ V = {f[t] : t \in W}
      OBVIOUS
    <3> HIDE DEF f, V
    <3> QED
      BY <2>2, <3>1, ImageFits
  <2> HIDE DEF F, V
  <2>6. IsFiniteSet(Q) /\ Cardinality(Q) <= Cardinality(F) + Cardinality(V)
    BY <2>1, <2>4, <2>5, CoverFits
  <2> DEFINE q == Cardinality(Q)
             x == Cardinality(F)
             y == Cardinality(V)
             c == Cardinality(E)
             w == Cardinality(W)
  <2>7. q \in Nat /\ x \in Nat /\ y \in Nat /\ c \in Nat /\ w \in Nat
    BY <2>2, <2>3, <2>4, <2>5, <2>6, FS_CardinalityType
  <2>8. q <= x + y /\ x <= c /\ y <= w
    BY <2>4, <2>5, <2>6
  <2>9. Queues(s) = q /\ Connected(s) = c + w
    BY <1>2 DEF Queues, Connected, Q, E, W
  <2> HIDE DEF q, x, y, c, w
  <2> QED
    BY <2>7, <2>8, <2>9
<1> QED
  BY <1>1, <1>2

LEMMA TimesLess ==
  ASSUME NEW a \in Nat, NEW b \in Nat, a <= b, NEW c \in Nat
  PROVE  a * c \in Nat /\ b * c \in Nat /\ a * c <= b * c
<1>1. PICK d \in Nat : b = a + d
  <2>1. b - a \in Nat /\ b = a + (b - a)
    OBVIOUS
  <2> QED
    BY <2>1
<1>2. b * c = a * c + d * c
  BY <1>1
<1>3. a * c \in Nat /\ d * c \in Nat
  BY <1>1
<1> QED
  BY <1>2, <1>3

\* While no service would have more clients than it was counted for, there is room for
\* one more request queue of service s.
LEMMA RoomWhileCounted ==
  ASSUME TypeInv, QueueInv, NEW s \in Services, Required <= RIO_MAX_CQ_SIZE,
         \A r \in Services : Connected(r) + (IF r = s THEN 1 ELSE 0) <= services[r].maxClients
  PROVE  HasRoom(s)
<1>1. /\ \A r \in Services : services[r].maxClients \in Nat /\ Room(r) \in Nat
      /\ IsFiniteSet(Services)
  <2>1. services \in Configurations /\ Len(services) \in Nat
    BY ServicesType DEF TypeInv, Types
  <2>2. \A r \in Services : services[r] \in ServiceData
    BY <2>1, ConfigurationsAssumption DEF Services
  <2>3. \A r \in Services : /\ services[r].maxClients \in Nat
                            /\ services[r].maxReceives \in Nat /\ services[r].maxSends \in Nat
    BY <2>2 DEF ServiceData
  <2>4. IsFiniteSet(Services)
    BY <2>1, FS_Interval DEF Services
  <2> QED
    BY <2>3, <2>4 DEF Room
<1> DEFINE N(r) == Queues(r) + (IF r = s THEN 1 ELSE 0)
           f == [r \in Services |-> Queues(r) * Room(r)]
           g == [r \in Services |-> N(r) * Room(r)]
           h == [r \in Services |-> services[r].maxClients * Room(r)]
<1>2. ASSUME NEW r \in Services
      PROVE  /\ Queues(r) * Room(r) \in Int
             /\ N(r) * Room(r) = Queues(r) * Room(r) + (IF r = s THEN Room(s) ELSE 0)
             /\ N(r) * Room(r) \in Int
             /\ services[r].maxClients * Room(r) \in Int
             /\ N(r) * Room(r) <= services[r].maxClients * Room(r)
  <2> DEFINE q == Queues(r)
             n == N(r)
             c == Connected(r)
             m == services[r].maxClients
             k == Room(r)
             d == IF r = s THEN 1 ELSE 0
  <2>1. q \in Nat /\ c \in Nat /\ q <= c /\ m \in Nat /\ k \in Nat /\ d \in {0, 1} /\ c + d <= m
        /\ n = q + d
    BY <1>1, QueuesOfClients
  <2> HIDE DEF q, n, c, m, k, d
  <2>2. n \in Nat /\ n <= m
    BY <2>1
  <2>3. n * k \in Nat /\ m * k \in Nat /\ n * k <= m * k
    BY <2>1, <2>2, TimesLess
  <2>4. q * k \in Nat /\ n * k = q * k + (IF d = 1 THEN k ELSE 0)
    <3>1. CASE d = 0
      BY <2>1, <3>1
    <3>2. CASE d = 1
      <4>1. (q + 1) * k = q * k + k
        BY <2>1
      <4> QED
        BY <2>1, <3>2, <4>1
    <3> QED
      BY <2>1, <3>1, <3>2
  <2> QED
    BY <2>3, <2>4 DEF q, n, m, k, d
<1> HIDE DEF N
<1>3. /\ f \in [Services -> Int] /\ g \in [Services -> Int] /\ h \in [Services -> Int]
      /\ \A r \in Services : g[r] <= h[r]
      /\ \A r \in Services \ {s} : g[r] = f[r]
      /\ g[s] = f[s] + Room(s)
  <2>1. \A r \in Services : f[r] = Queues(r) * Room(r) /\ g[r] = N(r) * Room(r)
                            /\ h[r] = services[r].maxClients * Room(r)
    OBVIOUS
  <2>2. f \in [Services -> Int] /\ g \in [Services -> Int] /\ h \in [Services -> Int]
    BY <1>2
  <2>3. \A r \in Services : g[r] <= h[r]
    BY <1>2, <2>1
  <2>4. ASSUME NEW r \in Services, r # s PROVE g[r] = f[r]
    <3>1. f[r] \in Int /\ g[r] = f[r] + 0
      BY <1>2, <2>1, <2>4
    <3> QED
      BY <3>1
  <2>5. g[s] = f[s] + Room(s)
    BY <1>2, <2>1
  <2> QED
    BY <2>2, <2>3, <2>4, <2>5
<1>4. HasRoom(s) <=> SumFunction(f) + Room(s) <= CQSize
  BY DEF HasRoom
<1>5. CQSize = SumFunction(h)
  BY DEF CQSize, Required
<1> HIDE DEF f, g, h
<1>6. SumFunction(g) = SumFunction(f) + g[s] - f[s]
  BY <1>1, <1>3, SumChange
<1>7. SumFunction(g) <= SumFunction(h)
  BY <1>1, <1>3, SumLess
<1> DEFINE F == SumFunction(f)
           G == SumFunction(g)
           H == SumFunction(h)
           x == f[s]
           y == g[s]
           k == Room(s)
<1>8. F \in Int /\ G \in Int /\ H \in Int /\ x \in Int /\ y \in Int /\ k \in Int
  BY <1>1, <1>3, SumInt
<1>9. G = F + y - x /\ y = x + k /\ G <= H
  BY <1>3, <1>6, <1>7
<1>10. F + k <= H
  <2> HIDE DEF F, G, H, x, y, k
  <2> QED
    BY <1>8, <1>9
<1> QED
  BY <1>4, <1>5, <1>10

(* The size of the completion queue, computed by _tmain from the clients of *)
(* every service, is enough: RIOCreateRequestQueue is refused in            *)
(* CreateRIOSocket only when a service has more clients than were counted.  *)
THEOREM RoomSuffices == Spec => []RoomForClients
<1>1. ASSUME TypeInv, QueueInv, NEW t \in Threads, pc[t] = "queue", ~HasRoom(job[t][1]),
             Required <= RIO_MAX_CQ_SIZE
      PROVE  \E r \in Services :
               Connected(r) + (IF r = job[t][1] THEN 1 ELSE 0) > services[r].maxClients
  <2> DEFINE s == job[t][1]
  <2>1. s \in Services
    BY <1>1, SlotParts DEF TypeInv, Jobs, Accepting
  <2> HIDE DEF s
  <2>2. PICK r \in Services : ~(Connected(r) + (IF r = s THEN 1 ELSE 0) <= services[r].maxClients)
    BY <1>1, <2>1, RoomWhileCounted DEF s
  <2>3. Connected(r) \in Nat /\ services[r].maxClients \in Nat
    <3>1. services[r] \in ServiceData
      BY <1>1, ConfigurationsAssumption, ServicesType DEF Services, TypeInv, Types
    <3> QED
      BY <1>1, <3>1, QueuesOfClients DEF ServiceData
  <2> DEFINE c == Connected(r)
             d == IF r = s THEN 1 ELSE 0
             m == services[r].maxClients
  <2>4. c + d > m
    <3>1. c \in Nat /\ d \in Nat /\ m \in Nat /\ ~(c + d <= m)
      BY <2>2, <2>3
    <3> HIDE DEF c, d, m
    <3> QED
      BY <3>1
  <2> QED
    BY <2>4 DEF s
<1>2. TypeInv /\ QueueInv => RoomForClients
  BY <1>1 DEF RoomForClients
<1> QED
  BY <1>2, QueueInvariant, PTL
=============================================================================
