------------------------ MODULE ConnectionServerProofs ------------------------
(***************************************************************************)
(* Theorems about ConnectionServer: the invariants its run checks, and that *)
(* the server is a relay.                                                   *)
(***************************************************************************)
EXTENDS ConnectionServer, DataFacts, FiniteSetTheorems, TLAPS

-----------------------------------------------------------------------------
(* The inductive invariant.                                                 *)

Known  == 1..Len(handle)
Accept == [key : {"CK_ACCEPT"}, conn : Connections]
Packet == [key : {"CK_RIO"}, conn : {0}] \cup {p \in Accept : p.conn \in Known}

\* A completion the server can meet: of a connection that was accepted, or of a message
\* that has arrived, from the connection its receive was for.
Event ==
  {e \in Completion :
     /\ e.kind = "receive" => e.conn \in Known
     /\ e.kind = "send" => e.msg \in 1..Len(received)
     /\ Message(e) => e.msg \in 1..Len(received) /\ received[e.msg] = e.conn}

Types ==
  /\ iocp \in Seq(Packet) /\ armed \in BOOLEAN /\ cq \in Seq(Event)
  /\ handle \in Seq(Handles) /\ Known \subseteq Connections
  /\ open \subseteq Known /\ socketList \subseteq Known
  /\ received \in Seq(Known) /\ 1..Len(received) \subseteq 1..Bound.message
  /\ receives \in [Connections -> Nat] /\ \A c \in Connections : receives[c] > 0 => c \in Known
  /\ sends \subseteq [msg : 1..Len(received), to : Known]
  /\ accepts \in Nat /\ free \in Int /\ listCS \in Threads \cup {NoThread}
  /\ pc \in [Threads -> PCs] /\ old \in [Threads -> BOOLEAN]
  /\ batch \in [Threads -> Seq(Event)] /\ results \in [Threads -> Seq(Event)]
  /\ job \in [Threads -> [conn : 0..Bound.connection, left : 0..MaxReceives]]
  /\ sent \in [1..Bound.message -> Seq(Connections)]
  /\ lost \in [Connections -> Nat] /\ errors \in Nat /\ harmed \in BOOLEAN

\* What a worker has in its hands where it is.
Place(t) ==
  /\ pc[t] \in {"gqcs", "dequeue", "accept", "initial"} => batch[t] = <<>> /\ results[t] = <<>>
  /\ pc[t] = "erase" => batch[t] # <<>> /\ ~Head(batch[t]).ok
  /\ pc[t] = "send" => batch[t] = <<>> /\ results[t] # <<>> /\ Message(Head(results[t]))
  /\ pc[t] \in {"accept", "initial"} => job[t].conn \in Known
  /\ pc[t] = "accept" => job[t].left = 0
  /\ pc[t] \notin {"accept", "initial", "stuck"} => job[t] = NoJob
  /\ \A i \in 1..Len(results[t]) : results[t][i].ok
  /\ listCS = t <=> pc[t] = "erase"

TypeInv == Types /\ \A t \in Threads : Place(t)

\* Connections accepted and not in the list yet, in the port and with workers.
Waiting(p) == p.key = "CK_ACCEPT"

HandlesInv ==
  /\ \A c, d \in open : handle[c] = handle[d] => c = d
  /\ \A c, d \in socketList : handle[c] = handle[d] => c = d
  /\ \A c \in socketList \ open : listCS # NoThread /\ handle[c] = Key(Head(batch[listCS]))

WaitingInv ==
  /\ \A i \in 1..Len(iocp) : Waiting(iocp[i]) => iocp[i].conn \in open \ socketList
  /\ \A i, j \in 1..Len(iocp) :
       Waiting(iocp[i]) /\ Waiting(iocp[j]) /\ iocp[i].conn = iocp[j].conn => i = j
  /\ \A t \in Threads :
       pc[t] = "accept" =>
         /\ job[t].conn \in open \ socketList
         /\ \A i \in 1..Len(iocp) : Waiting(iocp[i]) => iocp[i].conn # job[t].conn
         /\ \A u \in Threads : pc[u] = "accept" /\ job[u].conn = job[t].conn => u = t

ListInv == HandlesInv /\ WaitingInv

\* Where each message is, and in which order.
OrderInv ==
  /\ \A t \in Threads : InOrder(Hand(t))
  /\ InOrder(cq)
  /\ \A m \in Messages(cq), n \in 1..Len(received) :
       received[n] = received[m] /\ (sent[n] # <<>> \/ \E t \in Threads : n \in Messages(Hand(t)))
         => n < m
  /\ \A t, u \in Threads : t # u => Messages(Hand(t)) \cap Messages(Hand(u)) = {}
  /\ \A t \in Threads : \A m \in Messages(Hand(t)) : sent[m] = <<>>
  /\ \A m \in 1..Bound.message : m > Len(received) => sent[m] = <<>>
  /\ \A r \in sends : sent[r.msg] # <<>>

\* Every AcceptEx is pending, completed or being followed up.
AcceptsInv ==
  accepts + CountIn(iocp, Accept) + Cardinality({t \in Threads : job[t].conn # 0}) = MaxAccepts

SegmentsInv == IsFiniteSet(sends) /\ SegmentsAccounted

\* What ReceivesKept says of one connection, and the parts of Owed.
KeptFor(c) ==
  Outstanding(c) + SumFunction([t \in Threads |-> Owed(t, c)]) + lost[c] >= MaxReceives
Due(t, c)     == IF job[t].conn = c THEN job[t].left ELSE 0
PutBack(t, c) == IF pc[t] = "send" /\ Receives(Head(results[t]), c) THEN 1 ELSE 0

QueuesKept == \A c \in Connections : Outstanding(c) <= MaxReceives

-----------------------------------------------------------------------------
(* Operators and how they change.                                           *)

LEMMA Numbers ==
  /\ Bound.connection \in Nat /\ Bound.message \in Nat
  /\ MaxReceives \in Nat \ {0} /\ MaxAccepts \in Nat /\ DequeueCount \in Nat /\ Segments \in Nat
BY CountAssumption

LEMMA ConnectionsFinite == IsFiniteSet(Connections)
<1>1. 1 \in Int /\ Bound.connection \in Int
  BY ONLY Numbers
<1> QED
  BY ONLY <1>1, FS_Interval DEF Connections

LEMMA SeqAppend ==
  ASSUME NEW S, NEW s \in Seq(S), NEW x \in S
  PROVE  Append(s, x) \in Seq(S)
OBVIOUS

LEMMA SeqWider ==
  ASSUME NEW S, NEW T, S \subseteq T, NEW s \in Seq(S)
  PROVE  s \in Seq(T)
OBVIOUS

\* What is known stays known: handles and messages are only added.
LEMMA KnownStay ==
  ASSUME Types,
         UNCHANGED handle \/ \E h : handle' = Append(handle, h),
         UNCHANGED received \/ \E c : received' = Append(received, c)
  PROVE  /\ Known \subseteq Known'
         /\ Event \subseteq Event'
         /\ Packet \subseteq Packet'
         /\ \A c \in Known : handle'[c] = handle[c]
         /\ \A m \in 1..Len(received) : m \in 1..Len(received') /\ received'[m] = received[m]
         /\ \A e \in Event : Key(e)' = Key(e)
<1>1. handle \in Seq(Handles) /\ received \in Seq(Known)
  BY DEF Types
<1>2. \A c \in 1..Len(handle) : c \in 1..Len(handle') /\ handle'[c] = handle[c]
  <2>1. CASE UNCHANGED handle
    BY <2>1
  <2>2. CASE \E h : handle' = Append(handle, h)
    BY <1>1, <2>2
  <2> QED
    BY <2>1, <2>2
<1>3. \A m \in 1..Len(received) : m \in 1..Len(received') /\ received'[m] = received[m]
  <2>1. CASE UNCHANGED received
    BY <2>1
  <2>2. CASE \E c : received' = Append(received, c)
    BY <1>1, <2>2
  <2> QED
    BY <2>1, <2>2
<1>4. Known \subseteq Known'
  BY <1>2 DEF Known
<1>5. Event \subseteq Event'
  BY <1>3, <1>4 DEF Event, Message
<1>6. Packet \subseteq Packet'
  BY <1>4 DEF Packet
<1>7. \A m \in 1..Len(received) : received[m] \in Known
  BY <1>1
<1>8. ASSUME NEW e \in Event
      PROVE  e.kind # "receive" => received[e.msg] \in Known /\ received'[e.msg] = received[e.msg]
  BY <1>3, <1>7 DEF Event, Completion
<1>9. ASSUME NEW e \in Event
      PROVE  Key(e)' = Key(e)
  <2>1. CASE e.kind = "receive"
    <3>1. e.conn \in Known
      BY <2>1 DEF Event
    <3> QED
      BY <1>2, <2>1, <3>1 DEF Key, Known
  <2>2. CASE e.kind # "receive"
    BY <1>2, <1>8, <2>2 DEF Key, Known
  <2> QED
    BY <2>1, <2>2
<1> QED
  BY <1>2, <1>3, <1>4, <1>5, <1>6, <1>9 DEF Known

-----------------------------------------------------------------------------
(* Types and places.                                                        *)

LEMMA TypeInit == Init => TypeInv
<1> SUFFICES ASSUME Init PROVE TypeInv
  OBVIOUS
<1>1. /\ Bound.connection \in Nat /\ Bound.message \in Nat
      /\ MaxAccepts \in Nat /\ MaxReceives \in Nat /\ Segments \in Nat
  BY CountAssumption
<1>2. Types
  <2>1. Known = {} /\ received = <<>> /\ 1..Len(received) = {}
    BY DEF Init, Known
  <2>2. iocp \in Seq(Packet) /\ cq \in Seq(Event)
    BY DEF Init
  <2>8. handle \in Seq(Handles) /\ received \in Seq(Known)
    BY DEF Init
  <2>9. armed \in BOOLEAN
    BY DEF Init
  <2>3. /\ batch \in [Threads -> Seq(Event)] /\ results \in [Threads -> Seq(Event)]
        /\ sent \in [1..Bound.message -> Seq(Connections)]
    BY DEF Init
  <2>4. /\ receives \in [Connections -> Nat] /\ \A c \in Connections : receives[c] = 0
        /\ lost \in [Connections -> Nat] /\ errors \in Nat /\ harmed \in BOOLEAN
    BY DEF Init
  <2>5. /\ pc \in [Threads -> PCs] /\ old \in [Threads -> BOOLEAN]
    BY DEF Init, PCs
  <2>6. job \in [Threads -> [conn : 0..Bound.connection, left : 0..MaxReceives]]
    BY <1>1 DEF Init, NoJob
  <2>7. /\ open = {} /\ socketList = {} /\ sends = {}
        /\ accepts \in Nat /\ free \in Int /\ listCS \in Threads \cup {NoThread}
    BY <1>1 DEF Init
  <2> QED
    BY <2>1, <2>2, <2>3, <2>4, <2>5, <2>6, <2>7, <2>8, <2>9 DEF Types
<1>3. ASSUME NEW t \in Threads
      PROVE  Place(t)
  BY <1>3, ThreadAssumption DEF Init, Place
<1> QED
  BY <1>2, <1>3 DEF TypeInv

\* The steps of a worker that leave handles, messages and job alone.
Frame ==
  /\ UNCHANGED <<handle, received>>
  /\ Known' = Known /\ Event' = Event /\ Packet' = Packet

LEMMA Framed ==
  ASSUME UNCHANGED <<handle, received>>
  PROVE  Frame
BY DEF Frame, Known, Event, Packet, Message

\* What a worker's step does not reach: the places of the others.
LEMMA OthersPlaces ==
  ASSUME TypeInv, NEW t \in Threads, Place(t)',
         Known \subseteq Known',
         \A u \in Threads \ {t} :
           /\ pc'[u] = pc[u] /\ batch'[u] = batch[u] /\ results'[u] = results[u]
           /\ job'[u] = job[u] /\ (listCS' = u <=> listCS = u)
  PROVE  \A u \in Threads : Place(u)'
<1>1. ASSUME NEW u \in Threads, u # t
      PROVE  Place(u)'
  <2>1. Place(u)
    BY DEF TypeInv
  <2> QED
    BY <1>1, <2>1 DEF Place, Message
<1> QED
  BY <1>1

LEMMA TypeNotify ==
  ASSUME TypeInv, NEW t \in Threads, RIONotify(t)
  PROVE  TypeInv'
<1>1. Types /\ Place(t)
  BY DEF TypeInv
<1>2. Frame
  BY Framed DEF RIONotify, sockets, history
<1>3. /\ pc[t] = "results" /\ pc' = [pc EXCEPT ![t] = "gqcs"]
      /\ batch[t] = <<>> /\ results[t] = <<>>
      /\ iocp' = iocp \/ iocp' = Append(iocp, [key |-> "CK_RIO", conn |-> 0])
      /\ armed' = (cq = <<>>)
      /\ UNCHANGED <<cq, open, socketList, receives, sends, accepts, free, listCS, old,
                     batch, results, job, sent, lost, errors, harmed>>
  BY DEF RIONotify, AtTop, Goto, sockets, requests, list, holding, history
<1>4. iocp' \in Seq(Packet)
  <2>1. [key |-> "CK_RIO", conn |-> 0] \in Packet /\ iocp \in Seq(Packet)
    BY <1>1 DEF Types, Packet
  <2>2. Append(iocp, [key |-> "CK_RIO", conn |-> 0]) \in Seq(Packet)
    BY ONLY <2>1, SeqAppend
  <2> QED
    BY ONLY <1>3, <2>1, <2>2
<1>5. armed' \in BOOLEAN
  BY <1>3
<1>6. pc' \in [Threads -> PCs]
  BY <1>1, <1>3 DEF Types, PCs
<1>7. Types'
  BY <1>1, <1>2, <1>3, <1>4, <1>5, <1>6 DEF Types, Frame
<1>8. pc \in [Threads -> PCs]
  BY <1>1 DEF Types
<1>9. Place(t)'
  BY <1>1, <1>3, <1>8 DEF Place
<1>10. \A u \in Threads : Place(u)'
  BY <1>2, <1>3, <1>8, <1>9, OthersPlaces DEF Frame
<1> QED
  BY <1>7, <1>10 DEF TypeInv

LEMMA TypeGet ==
  ASSUME TypeInv, NEW t \in Threads, GetQueuedCompletionStatus(t)
  PROVE  TypeInv'
<1>1. Types /\ Place(t)
  BY DEF TypeInv
<1>2. Frame
  BY Framed DEF GetQueuedCompletionStatus, sockets, history
<1>3. /\ pc[t] = "gqcs" /\ iocp # <<>> /\ iocp' = Tail(iocp)
      /\ UNCHANGED <<armed, cq, open, socketList, receives, sends, accepts, free, listCS, old,
                     batch, results, sent, lost, errors, harmed>>
  BY DEF GetQueuedCompletionStatus, Goto, sockets, requests, list, history
<1>4. \/ pc' = [pc EXCEPT ![t] = "dequeue"] /\ job' = job
      \/ /\ Head(iocp).key # "CK_RIO"
         /\ pc' = [pc EXCEPT ![t] = "accept"]
         /\ job' = [job EXCEPT ![t].conn = Head(iocp).conn]
  BY DEF GetQueuedCompletionStatus, Goto
<1>5. iocp' \in Seq(Packet) /\ Head(iocp) \in Packet
  BY <1>1, <1>3 DEF Types
<1>6. /\ pc \in [Threads -> PCs] /\ batch \in [Threads -> Seq(Event)]
      /\ results \in [Threads -> Seq(Event)]
      /\ job \in [Threads -> [conn : 0..Bound.connection, left : 0..MaxReceives]]
  BY <1>1 DEF Types
<1>7. pc' \in [Threads -> PCs]
  BY <1>4, <1>6 DEF PCs
<1>8. /\ job' \in [Threads -> [conn : 0..Bound.connection, left : 0..MaxReceives]]
      /\ \A u \in Threads \ {t} : job'[u] = job[u]
      /\ pc'[t] = "accept" => job'[t].conn \in Known /\ job'[t].left = 0
  <2>1. CASE job' = job /\ pc' = [pc EXCEPT ![t] = "dequeue"]
    BY <1>6, <2>1
  <2>2. CASE /\ Head(iocp).key # "CK_RIO"
             /\ pc' = [pc EXCEPT ![t] = "accept"]
             /\ job' = [job EXCEPT ![t].conn = Head(iocp).conn]
    <3>1. Head(iocp).conn \in Known /\ Head(iocp).conn \in Connections
      BY <1>1, <1>5, <2>2 DEF Packet, Types
    <3>2. job[t] = NoJob
      BY <1>1, <1>3 DEF Place
    <3>3. Head(iocp).conn \in 0..Bound.connection
      BY <3>1, CountAssumption DEF Connections
    <3>4. job'[t].left = 0 /\ job'[t].conn = Head(iocp).conn
      BY <1>6, <2>2, <3>2 DEF NoJob
    <3> QED
      BY <1>6, <2>2, <3>1, <3>3, <3>4
  <2> QED
    BY <1>4, <2>1, <2>2
<1>9. Types'
  BY <1>1, <1>2, <1>3, <1>5, <1>7, <1>8 DEF Types, Frame
<1>10. pc'[t] = "dequeue" => job'[t] = NoJob
  <2>1. job[t] = NoJob
    BY <1>1, <1>3 DEF Place
  <2> QED
    BY <1>4, <1>6, <2>1
<1>11. Place(t)'
  BY <1>1, <1>2, <1>3, <1>4, <1>6, <1>8, <1>10 DEF Place, Frame
<1>12. \A u \in Threads : Place(u)'
  BY <1>2, <1>3, <1>4, <1>6, <1>8, <1>11, OthersPlaces DEF Frame
<1> QED
  BY <1>9, <1>12 DEF TypeInv

\* A dequeue cuts the queue in two.
LEMMA DequeueCuts ==
  ASSUME TypeInv, NEW t \in Threads, Dequeue(t)
  PROVE  \E n \in 0..Len(cq) :
           /\ cq' = SubSeq(cq, n + 1, Len(cq))
           /\ batch' = [batch EXCEPT ![t] = SubSeq(cq, 1, n)]
<1> DEFINE n == IF Len(cq) <= DequeueCount THEN Len(cq) ELSE DequeueCount
<1>1. Len(cq) \in Nat /\ DequeueCount \in Nat
  BY CountAssumption DEF TypeInv, Types
<1>2. n \in 0..Len(cq)
  BY <1>1
<1>3. cq' = SubSeq(cq, n + 1, Len(cq)) /\ batch' = [batch EXCEPT ![t] = SubSeq(cq, 1, n)]
  BY DEF Dequeue
<1> HIDE DEF n
<1> QED
  BY <1>2, <1>3

LEMMA TypeDequeue ==
  ASSUME TypeInv, NEW t \in Threads, Dequeue(t)
  PROVE  TypeInv'
<1>1. Types /\ Place(t)
  BY DEF TypeInv
<1>2. Frame
  BY Framed DEF Dequeue, sockets, history
<1>3. /\ pc[t] = "dequeue" /\ pc' = [pc EXCEPT ![t] = "results"]
      /\ UNCHANGED <<iocp, armed, open, socketList, receives, sends, accepts, free, listCS,
                     results, job, sent, lost, errors>>
  BY DEF Dequeue, Goto, packets, sockets, requests, list, history
<1>4. PICK n \in 0..Len(cq) : /\ cq' = SubSeq(cq, n + 1, Len(cq))
                              /\ batch' = [batch EXCEPT ![t] = SubSeq(cq, 1, n)]
  BY DequeueCuts
<1>5. old' \in [Threads -> BOOLEAN] /\ harmed' \in BOOLEAN
  <2>1. old \in [Threads -> BOOLEAN] /\ harmed \in BOOLEAN
    BY <1>1 DEF Types
  <2>2. \/ old' = old /\ harmed' = old[t]
        \/ old' = [old EXCEPT ![t] = FALSE] /\ harmed' = harmed
    BY DEF Dequeue
  <2> QED
    BY <2>1, <2>2
<1>6. cq' \in Seq(Event) /\ SubSeq(cq, 1, n) \in Seq(Event)
  <2>1. cq \in Seq(Event)
    BY <1>1 DEF Types
  <2>2. SubSeq(cq, n + 1, Len(cq)) \in Seq(Event) /\ SubSeq(cq, 1, n) \in Seq(Event)
    BY ONLY <2>1, n \in 0..Len(cq)
  <2> QED
    BY ONLY <1>4, <2>2
<1>7. /\ pc \in [Threads -> PCs] /\ batch \in [Threads -> Seq(Event)]
      /\ results \in [Threads -> Seq(Event)]
  BY <1>1 DEF Types
<1>8. pc' \in [Threads -> PCs] /\ batch' \in [Threads -> Seq(Event)]
  BY <1>3, <1>4, <1>6, <1>7 DEF PCs
<1>9. Types'
  BY <1>1, <1>2, <1>3, <1>5, <1>6, <1>8 DEF Types, Frame
<1>10. Place(t)'
  BY <1>1, <1>3, <1>7 DEF Place
<1>11. \A u \in Threads : Place(u)'
  BY <1>2, <1>3, <1>4, <1>7, <1>10, OthersPlaces DEF Frame
<1> QED
  BY <1>9, <1>11 DEF TypeInv

LEMMA TypeKeep ==
  ASSUME TypeInv, NEW t \in Threads, Keep(t)
  PROVE  TypeInv'
<1>1. Types /\ Place(t)
  BY DEF TypeInv
<1>2. Frame
  BY Framed DEF Keep, sockets, history
<1>3. /\ pc[t] = "results" /\ batch[t] # <<>> /\ Head(batch[t]).ok
      /\ batch' = [batch EXCEPT ![t] = Tail(@)]
      /\ UNCHANGED <<iocp, armed, cq, open, socketList, receives, sends, accepts, listCS, pc,
                     job, sent, lost, errors, harmed>>
  BY DEF Keep, AtResult, NextOfBatch, packets, sockets, requests, list, history
<1>4. \/ /\ results' = [results EXCEPT ![t] = Append(@, Head(batch[t]))]
         /\ old' = [old EXCEPT ![t] = TRUE] /\ free' = free
      \/ /\ results' = results /\ old' = old /\ free' = free + 1
  BY DEF Keep
<1>5. /\ pc \in [Threads -> PCs] /\ batch \in [Threads -> Seq(Event)]
      /\ results \in [Threads -> Seq(Event)] /\ free \in Int
  BY <1>1 DEF Types
<1>6. old' \in [Threads -> BOOLEAN]
  <2>1. old \in [Threads -> BOOLEAN]
    BY <1>1 DEF Types
  <2> QED
    BY <1>4, <2>1
<1>7. /\ Head(batch[t]) \in Event /\ Tail(batch[t]) \in Seq(Event)
      /\ Append(results[t], Head(batch[t])) \in Seq(Event)
  <2>1. batch[t] \in Seq(Event) /\ results[t] \in Seq(Event)
    BY <1>5
  <2> QED
    BY <1>3, <2>1
<1>8. batch' \in [Threads -> Seq(Event)] /\ results' \in [Threads -> Seq(Event)]
  BY <1>3, <1>4, <1>5, <1>7
<1>9. free' \in Int
  BY <1>4, <1>5
<1>10. Types'
  BY <1>1, <1>2, <1>3, <1>6, <1>8, <1>9 DEF Types, Frame
<1>11. \A i \in 1..Len(results'[t]) : results'[t][i].ok
  <2>1. CASE results' = results
    BY <1>1, <2>1 DEF Place
  <2>2. CASE results' = [results EXCEPT ![t] = Append(@, Head(batch[t]))]
    <3>1. results'[t] = Append(results[t], Head(batch[t])) /\ results[t] \in Seq(Event)
      BY <1>5, <2>2
    <3>2. \A i \in 1..Len(results[t]) : results[t][i].ok
      BY <1>1 DEF Place
    <3>3. \A i \in 1..Len(results'[t]) :
            \/ i \in 1..Len(results[t]) /\ results'[t][i] = results[t][i]
            \/ results'[t][i] = Head(batch[t])
      BY <1>7, <3>1
    <3> QED
      BY <1>3, <3>2, <3>3
  <2> QED
    BY <1>4, <2>1, <2>2
<1>12. Place(t)'
  BY <1>1, <1>3, <1>11 DEF Place
<1>13. \A u \in Threads : Place(u)'
  BY <1>2, <1>3, <1>4, <1>5, <1>12, OthersPlaces DEF Frame
<1> QED
  BY <1>10, <1>13 DEF TypeInv

LEMMA TypeClose ==
  ASSUME TypeInv, NEW t \in Threads, Close(t)
  PROVE  TypeInv'
<1>1. Types /\ Place(t)
  BY DEF TypeInv
<1>2. Frame
  BY Framed DEF Close, history
<1>3. /\ pc[t] = "results" /\ batch[t] # <<>> /\ ~Head(batch[t]).ok /\ listCS = NoThread
      /\ UNCHANGED <<iocp, armed, cq, socketList, receives, sends, accepts, results, old, job,
                     sent, lost, errors, harmed>>
  BY DEF Close, AtResult, packets, requests, history
<1>4. \/ /\ batch' = [batch EXCEPT ![t] = Tail(@)] /\ free' = free + 1
         /\ UNCHANGED <<open, listCS, pc>>
      \/ /\ listCS' = t /\ pc' = [pc EXCEPT ![t] = "erase"] /\ open' \subseteq open
         /\ UNCHANGED <<batch, free>>
  BY DEF Close, Goto, NextOfBatch
<1>5. /\ pc \in [Threads -> PCs] /\ batch \in [Threads -> Seq(Event)]
      /\ results \in [Threads -> Seq(Event)] /\ free \in Int /\ listCS \in Threads \cup {NoThread}
  BY <1>1 DEF Types
<1>6. Tail(batch[t]) \in Seq(Event)
  <2>1. batch[t] \in Seq(Event)
    BY <1>5
  <2> QED
    BY <1>3, <2>1
<1>7. /\ batch' \in [Threads -> Seq(Event)] /\ pc' \in [Threads -> PCs] /\ free' \in Int
      /\ listCS' \in Threads \cup {NoThread} /\ open' \subseteq open
  <2>1. CASE /\ batch' = [batch EXCEPT ![t] = Tail(@)] /\ free' = free + 1
             /\ UNCHANGED <<open, listCS, pc>>
    BY <1>5, <1>6, <2>1
  <2>2. CASE /\ listCS' = t /\ pc' = [pc EXCEPT ![t] = "erase"] /\ open' \subseteq open
             /\ UNCHANGED <<batch, free>>
    BY <1>5, <2>2 DEF PCs
  <2> QED
    BY <1>4, <2>1, <2>2
<1>8. Types'
  BY <1>1, <1>2, <1>3, <1>7 DEF Types, Frame
<1>9. Place(t)'
  BY <1>1, <1>2, <1>3, <1>4, <1>5 DEF Place, Frame
<1>10. \A u \in Threads : Place(u)'
  BY <1>2, <1>3, <1>4, <1>5, <1>9, ThreadAssumption, OthersPlaces DEF Frame
<1> QED
  BY <1>8, <1>10 DEF TypeInv

LEMMA TypeErase ==
  ASSUME TypeInv, NEW t \in Threads, Erase(t)
  PROVE  TypeInv'
<1>1. Types /\ Place(t)
  BY DEF TypeInv
<1>2. Frame
  BY Framed DEF Erase, sockets, history
<1>3. /\ pc[t] = "erase" /\ pc' = [pc EXCEPT ![t] = "results"] /\ listCS' = NoThread
      /\ batch' = [batch EXCEPT ![t] = Tail(@)] /\ free' = free + 1
      /\ socketList' \subseteq socketList
      /\ UNCHANGED <<iocp, armed, cq, open, receives, sends, accepts, results, old, job,
                     sent, lost, errors, harmed>>
  BY DEF Erase, Goto, NextOfBatch, packets, sockets, requests, history
<1>4. /\ pc \in [Threads -> PCs] /\ batch \in [Threads -> Seq(Event)]
      /\ results \in [Threads -> Seq(Event)] /\ free \in Int
  BY <1>1 DEF Types
<1>5. batch[t] # <<>> /\ listCS = t
  BY <1>1, <1>3 DEF Place
<1>6. Tail(batch[t]) \in Seq(Event)
  <2>1. batch[t] \in Seq(Event)
    BY <1>4
  <2> QED
    BY <1>5, <2>1
<1>7. batch' \in [Threads -> Seq(Event)] /\ pc' \in [Threads -> PCs] /\ free' \in Int
  BY <1>3, <1>4, <1>6 DEF PCs
<1>8. Types'
  BY <1>1, <1>2, <1>3, <1>7 DEF Types, Frame
<1>9. Place(t)'
  BY <1>1, <1>2, <1>3, <1>4, ThreadAssumption DEF Place, Frame
<1>10. \A u \in Threads : Place(u)'
  BY <1>2, <1>3, <1>4, <1>5, <1>9, ThreadAssumption, OthersPlaces DEF Frame
<1> QED
  BY <1>8, <1>10 DEF TypeInv

\* The outcomes of PostReceive: the pool is empty or RIO refuses, the thread gets stuck
\* with a segment, or connections with that handle are posted one receive each.
LEMMA PostTypes ==
  ASSUME Types, NEW t \in Threads, NEW h, NEW l \in PCs, PostReceive(t, h, l)
  PROVE  /\ receives' \in [Connections -> Nat]
         /\ \A c \in Connections : receives'[c] > 0 => c \in Known
         /\ lost' \in [Connections -> Nat] /\ free' \in Int /\ errors' \in Nat
         /\ pc' = [pc EXCEPT ![t] = l] \/ pc' = [pc EXCEPT ![t] = "stuck"]
         /\ pc' \in [Threads -> PCs]
<1>1. /\ pc \in [Threads -> PCs] /\ free \in Int /\ lost \in [Connections -> Nat]
      /\ receives \in [Connections -> Nat] /\ \A c \in Connections : receives[c] > 0 => c \in Known
      /\ socketList \subseteq Known
  BY DEF Types
<1>0. errors' \in Nat
  BY DEF PostReceive, Types
<1>2. CASE /\ pc' = [pc EXCEPT ![t] = l]
           /\ lost' = [c \in Connections |-> lost[c] + (IF c \in Find(h) THEN 1 ELSE 0)]
           /\ receives' = receives /\ free' = free
  BY <1>0, <1>1, <1>2 DEF PCs
<1>3. CASE /\ pc' = [pc EXCEPT ![t] = "stuck"] /\ free' = free - 1
           /\ receives' = receives /\ lost' = lost
  BY <1>0, <1>1, <1>3 DEF PCs
<1>4. ASSUME NEW room, room \subseteq Find(h), pc' = [pc EXCEPT ![t] = l],
             receives' = [c \in Connections |-> receives[c] + (IF c \in room THEN 1 ELSE 0)],
             free' = free - Cardinality(room), lost' = lost
      PROVE  /\ receives' \in [Connections -> Nat]
             /\ \A c \in Connections : receives'[c] > 0 => c \in Known
             /\ lost' \in [Connections -> Nat] /\ free' \in Int
             /\ pc' \in [Threads -> PCs]
  <2>1. room \subseteq Known
    BY <1>1, <1>4 DEF Find
  <2>2. IsFiniteSet(room)
    <3>1. Len(handle) \in Nat
      BY DEF Types
    <3>2. IsFiniteSet(Known)
      BY <3>1, FS_Interval DEF Known
    <3> QED
      BY <2>1, <3>2, FS_Subset
  <2>3. Cardinality(room) \in Nat
    BY <2>2, FS_CardinalityType
  <2>4. free' \in Int
    BY <1>1, <1>4, <2>3
  <2>5. /\ receives' \in [Connections -> Nat]
        /\ \A c \in Connections : receives'[c] > 0 => c \in Known
    BY <1>1, <1>4, <2>1
  <2> QED
    BY <1>1, <1>4, <2>4, <2>5
<1> DEFINE room == {c \in Find(h) : Outstanding(c) < MaxReceives}
<1>5. room \subseteq Find(h)
  OBVIOUS
<1>6. \/ /\ pc' = [pc EXCEPT ![t] = l]
         /\ lost' = [c \in Connections |-> lost[c] + (IF c \in Find(h) THEN 1 ELSE 0)]
         /\ receives' = receives /\ free' = free
      \/ /\ pc' = [pc EXCEPT ![t] = "stuck"] /\ free' = free - 1
         /\ receives' = receives /\ lost' = lost
      \/ /\ pc' = [pc EXCEPT ![t] = l]
         /\ receives' = [c \in Connections |-> receives[c] + (IF c \in room THEN 1 ELSE 0)]
         /\ free' = free - Cardinality(room) /\ lost' = lost
  BY DEF PostReceive, Lose, Goto
<1> HIDE DEF room
<1> QED
  BY <1>0, <1>2, <1>3, <1>4, <1>5, <1>6

LEMMA TypeReceive ==
  ASSUME TypeInv, NEW t \in Threads, Receive(t)
  PROVE  TypeInv'
<1>1. Types /\ Place(t)
  BY DEF TypeInv
<1>2. Frame
  BY Framed DEF Receive, sockets
<1>3. /\ pc[t] = "results" /\ batch[t] = <<>> /\ results[t] # <<>>
      /\ Head(results[t]).kind = "receive"
      /\ UNCHANGED <<iocp, armed, cq, open, socketList, listCS, sends, accepts, batch, results,
                     old, job, sent, harmed>>
  BY DEF Receive, AtInstruction, packets, sockets, list, holding
<1>4. /\ receives' \in [Connections -> Nat]
      /\ \A c \in Connections : receives'[c] > 0 => c \in Known
      /\ lost' \in [Connections -> Nat] /\ free' \in Int /\ errors' \in Nat
      /\ pc' = [pc EXCEPT ![t] = "send"] \/ pc' = [pc EXCEPT ![t] = "stuck"]
      /\ pc' \in [Threads -> PCs]
  <2>1. PostReceive(t, Key(Head(results[t])), "send")
    BY DEF Receive
  <2>2. "send" \in PCs
    BY DEF PCs
  <2> QED
    BY <1>1, <2>1, <2>2, PostTypes
<1>5. Types'
  BY <1>1, <1>2, <1>3, <1>4 DEF Types, Frame
<1>6. pc \in [Threads -> PCs] /\ results \in [Threads -> Seq(Event)]
  BY <1>1 DEF Types
<1>7. Message(Head(results[t]))
  <2>1. results[t] \in Seq(Event)
    BY <1>6
  <2>2. 1 \in 1..Len(results[t]) /\ Head(results[t]) = results[t][1]
    BY <1>3, <2>1
  <2> QED
    BY <1>1, <1>3, <2>2 DEF Place, Message
<1>8. Place(t)'
  BY <1>1, <1>3, <1>4, <1>6, <1>7 DEF Place, Message
<1>9. \A u \in Threads : Place(u)'
  BY <1>2, <1>3, <1>4, <1>6, <1>8, OthersPlaces DEF Frame
<1> QED
  BY <1>5, <1>9 DEF TypeInv

LEMMA TypeInitialReceive ==
  ASSUME TypeInv, NEW t \in Threads, InitialReceive(t)
  PROVE  TypeInv'
<1>1. Types /\ Place(t)
  BY DEF TypeInv
<1>2. Frame
  BY Framed DEF InitialReceive, sockets
<1>3. /\ pc[t] = "initial" /\ job[t].left > 0
      /\ UNCHANGED <<iocp, armed, cq, open, socketList, listCS, sends, accepts, batch, results,
                     old, sent, harmed>>
      /\ job' = [job EXCEPT ![t].left = IF pc'[t] = "stuck" THEN @ ELSE @ - 1]
  BY DEF InitialReceive, packets, sockets, list
<1>4. /\ receives' \in [Connections -> Nat]
      /\ \A c \in Connections : receives'[c] > 0 => c \in Known
      /\ lost' \in [Connections -> Nat] /\ free' \in Int /\ errors' \in Nat
      /\ pc' = [pc EXCEPT ![t] = "initial"] \/ pc' = [pc EXCEPT ![t] = "stuck"]
      /\ pc' \in [Threads -> PCs]
  <2>1. PostReceive(t, handle[job[t].conn], "initial")
    BY DEF InitialReceive
  <2>2. "initial" \in PCs
    BY DEF PCs
  <2> QED
    BY <1>1, <2>1, <2>2, PostTypes
<1>5. /\ pc \in [Threads -> PCs]
      /\ job \in [Threads -> [conn : 0..Bound.connection, left : 0..MaxReceives]]
      /\ MaxReceives \in Nat
  BY <1>1, CountAssumption DEF Types
<1>6. /\ job' \in [Threads -> [conn : 0..Bound.connection, left : 0..MaxReceives]]
      /\ \A u \in Threads \ {t} : job'[u] = job[u]
      /\ job'[t].conn = job[t].conn
  BY <1>3, <1>5
<1>7. Types'
  BY <1>1, <1>2, <1>3, <1>4, <1>6 DEF Types, Frame
<1>8. Place(t)'
  BY <1>1, <1>2, <1>3, <1>4, <1>5, <1>6 DEF Place, Frame
<1>9. \A u \in Threads : Place(u)'
  BY <1>2, <1>3, <1>4, <1>5, <1>6, <1>8, OthersPlaces DEF Frame
<1> QED
  BY <1>7, <1>9 DEF TypeInv

\* Going past a result.
LEMMA TypePast ==
  ASSUME TypeInv, NEW t \in Threads, results[t] # <<>>, batch[t] = <<>>,
         results' = [results EXCEPT ![t] = Tail(@)], pc' = [pc EXCEPT ![t] = "results"],
         pc[t] \in {"results", "send"},
         UNCHANGED <<iocp, armed, cq, open, handle, socketList, listCS, receives, accepts, batch,
                     old, job, received, lost, errors, harmed>>,
         free' \in Int, sent' \in [1..Bound.message -> Seq(Connections)],
         sends' \subseteq [msg : 1..Len(received), to : Known]
  PROVE  TypeInv'
<1>1. Types /\ Place(t)
  BY DEF TypeInv
<1>2. Frame
  BY Framed
<1>3. pc \in [Threads -> PCs] /\ results \in [Threads -> Seq(Event)]
  BY <1>1 DEF Types
<1>4. results[t] \in Seq(Event)
  BY <1>3
<1>5. Tail(results[t]) \in Seq(Event)
  BY <1>4
<1>6. results' \in [Threads -> Seq(Event)] /\ pc' \in [Threads -> PCs]
  BY <1>3, <1>5 DEF PCs
<1>7. Types'
  BY <1>1, <1>2, <1>6 DEF Types, Frame
<1>8. \A i \in 1..Len(results'[t]) : results'[t][i].ok
  <2>1. results'[t] = Tail(results[t])
    BY <1>3
  <2>2. \A i \in 1..Len(results'[t]) : i + 1 \in 1..Len(results[t]) /\ results'[t][i] = results[t][i + 1]
    <3>1. results[t] # <<>>
      OBVIOUS
    <3> QED
      BY ONLY <1>4, <2>1, <3>1, TailMoves
  <2>3. \A i \in 1..Len(results[t]) : results[t][i].ok
    BY <1>1 DEF Place
  <2> QED
    BY <2>2, <2>3
<1>9. Place(t)'
  BY <1>1, <1>3, <1>8 DEF Place
<1>10. \A u \in Threads : Place(u)'
  BY <1>2, <1>3, <1>9, OthersPlaces DEF Frame
<1> QED
  BY <1>7, <1>10 DEF TypeInv

LEMMA TypeFreeBuffer ==
  ASSUME TypeInv, NEW t \in Threads, FreeBuffer(t)
  PROVE  TypeInv'
<1>1. /\ free \in Int /\ sent \in [1..Bound.message -> Seq(Connections)]
      /\ sends \subseteq [msg : 1..Len(received), to : Known] /\ pc \in [Threads -> PCs]
  BY DEF TypeInv, Types
<1>2. /\ pc[t] = "results" /\ batch[t] = <<>> /\ results[t] # <<>>
      /\ results' = [results EXCEPT ![t] = Tail(@)]
      /\ free' = free + 1 /\ pc' = pc
      /\ UNCHANGED <<iocp, armed, cq, open, handle, socketList, listCS, receives, sends, accepts,
                     batch, old, job, received, sent, lost, errors, harmed>>
  BY DEF FreeBuffer, AtInstruction, NextResult, packets, sockets, requests, list, history
<1>3. pc' = [pc EXCEPT ![t] = "results"]
  BY <1>1, <1>2
<1>4. free' \in Int
  BY <1>1, <1>2
<1> QED
  BY <1>1, <1>2, <1>3, <1>4, TypePast

LEMMA TypeSendDropped ==
  ASSUME TypeInv, NEW t \in Threads, SendDropped(t)
  PROVE  TypeInv'
<1>1. /\ free \in Int /\ sent \in [1..Bound.message -> Seq(Connections)]
      /\ sends \subseteq [msg : 1..Len(received), to : Known] /\ Place(t)
  BY DEF TypeInv, Types
<1>2. /\ pc[t] = "send"
      /\ results' = [results EXCEPT ![t] = Tail(@)]
      /\ free' = free + 1 /\ pc' = [pc EXCEPT ![t] = "results"]
      /\ UNCHANGED <<iocp, armed, cq, open, handle, socketList, listCS, receives, sends, accepts,
                     batch, old, job, received, sent, lost, errors, harmed>>
  BY DEF SendDropped, Goto, NextResult, packets, sockets, requests, list, history
<1>3. batch[t] = <<>> /\ results[t] # <<>>
  BY <1>1, <1>2 DEF Place
<1>4. free' \in Int
  BY <1>1, <1>2
<1> QED
  BY <1>1, <1>2, <1>3, <1>4, TypePast

\* What is sent on is the message at hand.
LEMMA AtSend ==
  ASSUME TypeInv, NEW t \in Threads, pc[t] = "send"
  PROVE  /\ results[t] \in Seq(Event) /\ results[t] # <<>> /\ batch[t] = <<>>
         /\ Head(results[t]) = results[t][1] /\ Head(results[t]) \in Event
         /\ Message(Head(results[t]))
         /\ Head(results[t]).msg \in 1..Len(received)
         /\ Head(results[t]).msg \in 1..Bound.message
<1>1. Types /\ Place(t)
  BY DEF TypeInv
<1>2. results[t] # <<>> /\ batch[t] = <<>> /\ Message(Head(results[t]))
  BY <1>1 DEF Place
<1>3. results[t] \in Seq(Event)
  BY <1>1 DEF Types
<1>4. Head(results[t]) \in Event /\ Head(results[t]) = results[t][1]
  BY <1>2, <1>3
<1>5. Head(results[t]).msg \in 1..Len(received)
  BY <1>2, <1>4 DEF Event
<1> QED
  BY <1>1, <1>2, <1>3, <1>4, <1>5 DEF Types

LEMMA TypeSend ==
  ASSUME TypeInv, NEW t \in Threads, Send(t)
  PROVE  TypeInv'
<1> DEFINE m == Head(results[t]).msg
<1>1. /\ free \in Int /\ sent \in [1..Bound.message -> Seq(Connections)]
      /\ sends \subseteq [msg : 1..Len(received), to : Known] /\ socketList \subseteq Known
      /\ Known \subseteq Connections
  BY DEF TypeInv, Types
<1>2. /\ pc[t] = "send"
      /\ results' = [results EXCEPT ![t] = Tail(@)]
      /\ pc' = [pc EXCEPT ![t] = "results"]
      /\ UNCHANGED <<iocp, armed, cq, open, handle, socketList, listCS, receives, accepts, free,
                     batch, old, job, received, lost, errors, harmed>>
  BY DEF Send, Goto, NextResult, packets, sockets, list
<1>3. PICK c \in socketList \cap open : /\ sends' = sends \cup {[msg |-> m, to |-> c]}
                                        /\ sent' = [sent EXCEPT ![m] = Append(@, c)]
  BY DEF Send
<1>4. /\ batch[t] = <<>> /\ results[t] # <<>>
      /\ m \in 1..Len(received) /\ m \in 1..Bound.message
  BY <1>2, AtSend
<1> HIDE DEF m
<1>5. sends' \subseteq [msg : 1..Len(received), to : Known]
  BY <1>1, <1>3, <1>4
<1>6. sent' \in [1..Bound.message -> Seq(Connections)]
  <2>1. sent[m] \in Seq(Connections) /\ c \in Connections
    BY <1>1, <1>4
  <2>2. Append(sent[m], c) \in Seq(Connections)
    BY <2>1
  <2> QED
    BY <1>1, <1>3, <2>2
<1>7. free' \in Int
  BY <1>1, <1>2
<1> QED
  BY <1>2, <1>4, <1>5, <1>6, <1>7, TypePast

LEMMA TypeAddEntry ==
  ASSUME TypeInv, NEW t \in Threads, AddEntry(t)
  PROVE  TypeInv'
<1>1. Types /\ Place(t)
  BY DEF TypeInv
<1>2. Frame
  BY Framed DEF AddEntry, sockets, history
<1>3. /\ pc[t] = "accept"
      /\ UNCHANGED <<iocp, armed, cq, open, receives, sends, accepts, listCS, free, batch, results,
                     old, sent, lost, errors, harmed>>
  BY DEF AddEntry, packets, sockets, requests, history
<1>4. \/ pc' = [pc EXCEPT ![t] = "stuck"] /\ socketList' = socketList /\ job' = job
      \/ /\ pc' = [pc EXCEPT ![t] = "initial"]
         /\ socketList' = socketList \cup {job[t].conn}
         /\ job' = [job EXCEPT ![t].left = MaxReceives]
  BY DEF AddEntry, Goto
<1>5. /\ pc \in [Threads -> PCs] /\ socketList \subseteq Known /\ job[t].conn \in Known
      /\ job \in [Threads -> [conn : 0..Bound.connection, left : 0..MaxReceives]]
      /\ MaxReceives \in 0..MaxReceives
  <2>1. MaxReceives \in 0..MaxReceives
    BY ONLY Numbers
  <2>2. /\ pc \in [Threads -> PCs] /\ socketList \subseteq Known
        /\ job \in [Threads -> [conn : 0..Bound.connection, left : 0..MaxReceives]]
    BY <1>1 DEF Types
  <2>3. job[t].conn \in Known
    BY <1>1, <1>3 DEF Place
  <2> QED
    BY ONLY <2>1, <2>2, <2>3
<1>6. /\ job' \in [Threads -> [conn : 0..Bound.connection, left : 0..MaxReceives]]
      /\ \A u \in Threads \ {t} : job'[u] = job[u]
      /\ job'[t].conn = job[t].conn
      /\ socketList' \subseteq Known
      /\ pc' \in [Threads -> PCs]
  <2>1. CASE pc' = [pc EXCEPT ![t] = "stuck"] /\ socketList' = socketList /\ job' = job
    BY <1>5, <2>1 DEF PCs
  <2>2. CASE /\ pc' = [pc EXCEPT ![t] = "initial"]
             /\ socketList' = socketList \cup {job[t].conn}
             /\ job' = [job EXCEPT ![t].left = MaxReceives]
    BY <1>5, <2>2 DEF PCs
  <2> QED
    BY <1>4, <2>1, <2>2
<1>7. Types'
  BY <1>1, <1>2, <1>3, <1>6 DEF Types, Frame
<1>8. Place(t)'
  BY <1>1, <1>2, <1>3, <1>4, <1>5, <1>6 DEF Place, Frame
<1>9. \A u \in Threads : Place(u)'
  BY <1>2, <1>3, <1>4, <1>5, <1>6, <1>8, OthersPlaces DEF Frame
<1> QED
  BY <1>7, <1>9 DEF TypeInv

LEMMA TypeReset ==
  ASSUME TypeInv, NEW t \in Threads, ResetAcceptCall(t)
  PROVE  TypeInv'
<1>1. Types /\ Place(t)
  BY DEF TypeInv
<1>2. Frame
  BY Framed DEF ResetAcceptCall, sockets, history
<1>3. /\ pc[t] = "initial" /\ job[t].left = 0
      /\ pc' = [pc EXCEPT ![t] = "results"] /\ job' = [job EXCEPT ![t] = NoJob]
      /\ accepts' = accepts + 1
      /\ UNCHANGED <<iocp, armed, cq, open, socketList, receives, sends, listCS, free, batch,
                     results, old, sent, lost, errors, harmed>>
  BY DEF ResetAcceptCall, Goto, packets, sockets, requests, list, history
<1>4. /\ pc \in [Threads -> PCs] /\ accepts \in Nat
      /\ job \in [Threads -> [conn : 0..Bound.connection, left : 0..MaxReceives]]
      /\ NoJob \in [conn : 0..Bound.connection, left : 0..MaxReceives]
  <2>1. NoJob \in [conn : 0..Bound.connection, left : 0..MaxReceives]
    BY ONLY Numbers DEF NoJob
  <2> QED
    BY <1>1, <2>1 DEF Types
<1>5. /\ job' \in [Threads -> [conn : 0..Bound.connection, left : 0..MaxReceives]]
      /\ job'[t] = NoJob /\ \A u \in Threads \ {t} : job'[u] = job[u]
      /\ pc' \in [Threads -> PCs] /\ accepts' \in Nat
  BY <1>3, <1>4 DEF PCs
<1>6. Types'
  BY <1>1, <1>2, <1>3, <1>5 DEF Types, Frame
<1>7. Place(t)'
  BY <1>1, <1>3, <1>4, <1>5 DEF Place
<1>8. \A u \in Threads : Place(u)'
  BY <1>2, <1>3, <1>4, <1>5, <1>7, OthersPlaces DEF Frame
<1> QED
  BY <1>6, <1>8 DEF TypeInv

\* What happens outside leaves every worker where it is.
LEMMA OutsidePlaces ==
  ASSUME TypeInv, Known \subseteq Known', UNCHANGED <<pc, batch, results, job, listCS>>
  PROVE  \A t \in Threads : Place(t)'
<1>1. ASSUME NEW t \in Threads
      PROVE  Place(t)'
  <2>1. Place(t)
    BY DEF TypeInv
  <2> QED
    BY <2>1 DEF Place, Message
<1> QED
  BY <1>1

\* Lists of what is known stay that.
LEMMA Wider ==
  ASSUME Types,
         UNCHANGED handle \/ \E h : handle' = Append(handle, h),
         UNCHANGED received \/ \E c : received' = Append(received, c)
  PROVE  /\ iocp \in Seq(Packet') /\ cq \in Seq(Event') /\ received \in Seq(Known')
         /\ batch \in [Threads -> Seq(Event')] /\ results \in [Threads -> Seq(Event')]
<1>1. Known \subseteq Known' /\ Event \subseteq Event' /\ Packet \subseteq Packet'
  BY KnownStay
<1>2. /\ iocp \in Seq(Packet) /\ cq \in Seq(Event) /\ received \in Seq(Known)
      /\ batch \in [Threads -> Seq(Event)] /\ results \in [Threads -> Seq(Event)]
  BY DEF Types
<1>3. \A t \in Threads : batch[t] \in Seq(Event) /\ results[t] \in Seq(Event)
  BY <1>2
<1>4. \A t \in Threads : batch[t] \in Seq(Event') /\ results[t] \in Seq(Event')
  BY <1>1, <1>3, SeqWider
<1>5. iocp \in Seq(Packet') /\ cq \in Seq(Event') /\ received \in Seq(Known')
  BY <1>1, <1>2, SeqWider
<1> QED
  BY <1>2, <1>4, <1>5

LEMMA TypeConnects ==
  ASSUME TypeInv, NEW h \in Handles, Connects(h)
  PROVE  TypeInv'
<1> DEFINE c == Len(handle) + 1
<1>1. Types
  BY DEF TypeInv
<1>2. /\ accepts > 0 /\ c \in Connections
      /\ accepts' = accepts - 1 /\ open' = open \cup {c} /\ handle' = Append(handle, h)
      /\ iocp' = Append(iocp, [key |-> "CK_ACCEPT", conn |-> c])
      /\ UNCHANGED <<armed, cq, receives, sends, socketList, listCS, free, pc, batch, results, old,
                     job, received, sent, lost, errors, harmed>>
  BY DEF Connects, requests, list, holding, history
<1>3. handle \in Seq(Handles) /\ handle' \in Seq(Handles) /\ Len(handle') = c
  BY <1>1, <1>2 DEF Types
<1>4. Known' = Known \cup {c}
  BY <1>3 DEF Known
<1> HIDE DEF c
<1>5. Event \subseteq Event'
  BY <1>1, <1>2, KnownStay
<1>6. /\ iocp \in Seq(Packet') /\ cq \in Seq(Event') /\ received \in Seq(Known')
      /\ batch \in [Threads -> Seq(Event')] /\ results \in [Threads -> Seq(Event')]
  BY <1>1, <1>2, Wider
<1>7. iocp' \in Seq(Packet')
  <2>1. [key |-> "CK_ACCEPT", conn |-> c] \in Packet'
    BY <1>2, <1>4 DEF Packet, Accept
  <2> QED
    BY <1>2, <1>6, <2>1
<1>8. /\ Known' \subseteq Connections /\ open' \subseteq Known' /\ socketList' \subseteq Known'
      /\ \A d \in Connections : receives'[d] > 0 => d \in Known'
      /\ sends' \subseteq [msg : 1..Len(received), to : Known'] /\ accepts' \in Nat
  BY <1>1, <1>2, <1>4 DEF Types
<1>9. Types'
  BY <1>1, <1>2, <1>3, <1>6, <1>7, <1>8 DEF Types
<1>10. \A t \in Threads : Place(t)'
  BY <1>2, <1>4, OutsidePlaces
<1> QED
  BY <1>9, <1>10 DEF TypeInv

\* A completion that can be met, and the packet it may cause.
LEMMA TypeComplete ==
  ASSUME TypeInv,
         UNCHANGED received \/ \E c \in Known : received' = Append(received, c),
         1..Len(received') \subseteq 1..Bound.message,
         NEW e \in Event', cq' = Append(cq, e),
         \/ iocp' = iocp
         \/ iocp' = Append(iocp, [key |-> "CK_RIO", conn |-> 0]),
         armed' = FALSE,
         UNCHANGED <<open, handle, accepts, socketList, listCS, free, pc, batch, results, old, job,
                     sent, lost, harmed>>,
         receives' \in [Connections -> Nat],
         \A c \in Connections : receives'[c] > 0 => receives[c] > 0,
         sends' \subseteq sends, errors' \in Nat
  PROVE  TypeInv'
<1>1. Types
  BY DEF TypeInv
<1>2. Known' = Known /\ Packet' = Packet
  BY DEF Known, Packet
<1>3. /\ iocp \in Seq(Packet') /\ cq \in Seq(Event') /\ received \in Seq(Known')
      /\ batch \in [Threads -> Seq(Event')] /\ results \in [Threads -> Seq(Event')]
  BY <1>1, Wider
<1>4. iocp' \in Seq(Packet')
  <2>1. [key |-> "CK_RIO", conn |-> 0] \in Packet'
    BY DEF Packet
  <2>2. iocp \in Seq(Packet')
    BY <1>3
  <2>3. Append(iocp, [key |-> "CK_RIO", conn |-> 0]) \in Seq(Packet')
    BY <2>1, <2>2, SeqAppend
  <2> QED
    BY <2>2, <2>3
<1>5. cq' \in Seq(Event')
  BY <1>3, SeqAppend
<1>6. received' \in Seq(Known')
  <2>1. \A d \in Known : Append(received, d) \in Seq(Known')
    BY <1>2, <1>3, SeqAppend
  <2> QED
    BY <1>3, <2>1
<1>7. 1..Len(received) \subseteq 1..Len(received')
  BY <1>1, KnownStay
<1>8. sends' \subseteq [msg : 1..Len(received'), to : Known']
  BY <1>1, <1>2, <1>7 DEF Types
<1>9. armed' \in BOOLEAN
  OBVIOUS
<1>10. Types'
  BY <1>1, <1>2, <1>3, <1>4, <1>5, <1>6, <1>8, <1>9 DEF Types
<1>11. \A t \in Threads : Place(t)'
  BY <1>2, OutsidePlaces
<1> QED
  BY <1>10, <1>11 DEF TypeInv

\* The completions outside steps put in the queue.
LEMMA ArrivesEvent ==
  ASSUME TypeInv, NEW c \in Connections, Arrives(c)
  PROVE  LET e == [kind |-> "receive", conn |-> c, msg |-> Len(received) + 1, ok |-> TRUE] IN
         /\ e \in Event' /\ cq' = Append(cq, e)
         /\ c \in Known /\ received' = Append(received, c) /\ received \in Seq(Known)
         /\ Len(received') = Len(received) + 1 /\ Len(received) \in Nat
         /\ 1..Len(received') \subseteq 1..Bound.message
<1> DEFINE e == [kind |-> "receive", conn |-> c, msg |-> Len(received) + 1, ok |-> TRUE]
<1>1. /\ c \in Known /\ received \in Seq(Known)
      /\ received' = Append(received, c) /\ Len(received) < Bound.message
      /\ cq' = Append(cq, e) /\ handle' = handle
  BY DEF TypeInv, Types, Arrives, Complete, sockets
<1>2. /\ Len(received') = Len(received) + 1 /\ Len(received) \in Nat
      /\ received'[Len(received) + 1] = c
  BY <1>1
<1>3. Known' = Known
  BY <1>1 DEF Known
<1>4. e \in Completion
  BY <1>1, <1>2, Numbers DEF Completion
<1>5. e \in Event'
  BY <1>1, <1>2, <1>3, <1>4 DEF Event, Message
<1>6. 1..Len(received') \subseteq 1..Bound.message
  BY <1>1, <1>2, Numbers
<1> QED
  BY <1>1, <1>2, <1>5, <1>6

LEMMA ReceiveFailsEvent ==
  ASSUME TypeInv, NEW c \in Connections, ReceiveFails(c)
  PROVE  LET e == [kind |-> "receive", conn |-> c, msg |-> 0, ok |-> FALSE] IN
         e \in Event /\ Event' = Event /\ cq' = Append(cq, e)
<1>1. c \in Known /\ UNCHANGED <<handle, received>>
  BY DEF TypeInv, Types, ReceiveFails, Complete, sockets
<1>2. Event' = Event
  BY <1>1, Framed DEF Frame
<1>3. [kind |-> "receive", conn |-> c, msg |-> 0, ok |-> FALSE] \in Event
  BY <1>1, Numbers DEF Event, Completion, Message
<1> QED
  BY <1>2, <1>3 DEF ReceiveFails, Complete

LEMMA SendEndsEvent ==
  ASSUME TypeInv, NEW r \in sends, NEW ok \in BOOLEAN, SendEnds(r, ok)
  PROVE  LET e == [kind |-> "send", conn |-> r.to, msg |-> r.msg, ok |-> ok] IN
         e \in Event /\ Event' = Event /\ cq' = Append(cq, e)
<1>1. /\ r.to \in Known /\ r.msg \in 1..Len(received) /\ UNCHANGED <<handle, received>>
      /\ Known \subseteq Connections /\ 1..Len(received) \subseteq 1..Bound.message
  BY DEF TypeInv, Types, SendEnds, Complete, sockets
<1>2. Event' = Event
  BY <1>1, Framed DEF Frame
<1>3. r.msg \in 0..Bound.message
  BY <1>1, Numbers
<1>4. [kind |-> "send", conn |-> r.to, msg |-> r.msg, ok |-> ok] \in Completion
  BY <1>1, <1>3 DEF Completion
<1>5. [kind |-> "send", conn |-> r.to, msg |-> r.msg, ok |-> ok] \in Event
  BY <1>1, <1>4 DEF Event, Message
<1> QED
  BY <1>2, <1>5 DEF SendEnds, Complete

LEMMA TypeArrives ==
  ASSUME TypeInv, NEW c \in Connections, Arrives(c)
  PROVE  TypeInv'
<1> DEFINE e == [kind |-> "receive", conn |-> c, msg |-> Len(received) + 1, ok |-> TRUE]
<1>1. /\ e \in Event' /\ cq' = Append(cq, e)
      /\ c \in Known /\ received' = Append(received, c)
      /\ 1..Len(received') \subseteq 1..Bound.message
  BY ArrivesEvent
<1> HIDE DEF e
<1>2. /\ iocp' = iocp \/ iocp' = Append(iocp, [key |-> "CK_RIO", conn |-> 0])
      /\ armed' = FALSE
      /\ UNCHANGED <<open, handle, accepts, socketList, listCS, free, pc, batch, results, old, job,
                     sent, lost, harmed>>
      /\ receives' = [receives EXCEPT ![c] = @ - 1] /\ receives[c] > 0
      /\ UNCHANGED <<sends, errors>>
  BY DEF Arrives, Complete, sockets, list, holding
<1>3. receives \in [Connections -> Nat] /\ errors \in Nat
  BY DEF TypeInv, Types
<1>4. /\ receives' \in [Connections -> Nat]
      /\ \A d \in Connections : receives'[d] > 0 => receives[d] > 0
      /\ sends' \subseteq sends /\ errors' \in Nat
  BY <1>2, <1>3
<1> QED
  BY <1>1, <1>2, <1>4, TypeComplete

LEMMA TypeReceiveFails ==
  ASSUME TypeInv, NEW c \in Connections, ReceiveFails(c)
  PROVE  TypeInv'
<1> DEFINE e == [kind |-> "receive", conn |-> c, msg |-> 0, ok |-> FALSE]
<1>1. e \in Event' /\ cq' = Append(cq, e)
  BY ReceiveFailsEvent
<1> HIDE DEF e
<1>2. /\ iocp' = iocp \/ iocp' = Append(iocp, [key |-> "CK_RIO", conn |-> 0])
      /\ armed' = FALSE
      /\ UNCHANGED <<open, handle, accepts, socketList, listCS, free, pc, batch, results, old, job,
                     sent, lost, harmed>>
      /\ receives' = [receives EXCEPT ![c] = @ - 1] /\ receives[c] > 0
      /\ UNCHANGED <<sends, received>>
      /\ errors' = errors \/ errors' = errors + 1
  BY DEF ReceiveFails, Complete, MayFail, sockets, list, holding
<1>3. /\ receives \in [Connections -> Nat] /\ errors \in Nat
      /\ 1..Len(received) \subseteq 1..Bound.message
  BY DEF TypeInv, Types
<1>4. /\ receives' \in [Connections -> Nat]
      /\ \A d \in Connections : receives'[d] > 0 => receives[d] > 0
      /\ sends' \subseteq sends /\ errors' \in Nat
      /\ 1..Len(received') \subseteq 1..Bound.message
  BY <1>2, <1>3
<1> QED
  BY <1>1, <1>2, <1>4, TypeComplete

LEMMA TypeSendEnds ==
  ASSUME TypeInv, NEW r \in sends, NEW ok \in BOOLEAN, SendEnds(r, ok)
  PROVE  TypeInv'
<1> DEFINE e == [kind |-> "send", conn |-> r.to, msg |-> r.msg, ok |-> ok]
<1>1. e \in Event' /\ cq' = Append(cq, e)
  BY SendEndsEvent
<1> HIDE DEF e
<1>2. /\ iocp' = iocp \/ iocp' = Append(iocp, [key |-> "CK_RIO", conn |-> 0])
      /\ armed' = FALSE
      /\ UNCHANGED <<open, handle, accepts, socketList, listCS, free, pc, batch, results, old, job,
                     sent, lost, harmed>>
      /\ sends' = sends \ {r}
      /\ UNCHANGED <<receives, received>>
      /\ errors' = errors \/ errors' = errors + 1
  BY DEF SendEnds, Complete, MayFail, sockets, list, holding
<1>3. /\ receives \in [Connections -> Nat] /\ errors \in Nat
      /\ 1..Len(received) \subseteq 1..Bound.message
  BY DEF TypeInv, Types
<1>4. /\ receives' \in [Connections -> Nat]
      /\ \A d \in Connections : receives'[d] > 0 => receives[d] > 0
      /\ sends' \subseteq sends /\ errors' \in Nat
      /\ 1..Len(received') \subseteq 1..Bound.message
  BY <1>2, <1>3
<1> QED
  BY <1>1, <1>2, <1>4, TypeComplete

LEMMA TypeNext == TypeInv /\ [Next]_vars => TypeInv'
<1> SUFFICES ASSUME TypeInv, [Next]_vars
             PROVE  TypeInv'
  OBVIOUS
<1>1. ASSUME NEW t \in Threads, Worker(t)
      PROVE  TypeInv'
  BY <1>1, TypeNotify, TypeGet, TypeDequeue, TypeKeep, TypeClose, TypeErase, TypeReceive,
     TypeFreeBuffer, TypeSendDropped, TypeSend, TypeAddEntry, TypeInitialReceive, TypeReset
     DEF Worker
<1>2. ASSUME RequestEnds
      PROVE  TypeInv'
  BY <1>2, TypeArrives, TypeReceiveFails, TypeSendEnds DEF RequestEnds
<1>3. ASSUME NEW h \in Handles, Connects(h)
      PROVE  TypeInv'
  BY <1>3, TypeConnects
<1>4. CASE UNCHANGED vars
  <2>1. UNCHANGED <<iocp, armed, cq, open, handle, receives, sends, accepts, socketList, listCS,
                    free, pc, batch, results, old, job, received, sent, lost, errors, harmed>>
    BY <1>4 DEF vars, packets, sockets, requests, list, holding, history
  <2>2. Frame
    BY <2>1, Framed
  <2>3. Types'
    BY <2>1, <2>2 DEF TypeInv, Types, Frame
  <2>4. \A t \in Threads : Place(t)'
    BY <2>1, <2>2, OutsidePlaces DEF Frame
  <2> QED
    BY <2>3, <2>4 DEF TypeInv
<1> QED
  BY <1>1, <1>2, <1>3, <1>4 DEF Next, Environment

LEMMA TypeInvariant == Spec => []TypeInv
<1> QED
  BY TypeInit, TypeNext, PTL DEF Spec

-----------------------------------------------------------------------------
(* The list and the sockets.                                                *)

LEMMA ListInit == Init => ListInv
BY DEF Init, ListInv, HandlesInv, WaitingInv

\* The head of a batch is a completion.
LEMMA BatchHead ==
  ASSUME TypeInv, NEW t \in Threads, batch[t] # <<>>
  PROVE  /\ batch[t] \in Seq(Event) /\ Head(batch[t]) = batch[t][1] /\ Head(batch[t]) \in Event
         /\ 1 \in 1..Len(batch[t])
<1>1. batch[t] \in Seq(Event)
  BY DEF TypeInv, Types
<1> QED
  BY <1>1

LEMMA HandlesFrame ==
  ASSUME TypeInv, HandlesInv,
         UNCHANGED <<open, handle, socketList, listCS>>,
         UNCHANGED received \/ \E c : received' = Append(received, c),
         \A u \in Threads : pc[u] = "erase" => batch'[u] = batch[u]
  PROVE  HandlesInv'
<1>1. \A e \in Event : Key(e)' = Key(e)
  BY KnownStay DEF TypeInv
<1>2. ASSUME NEW c \in socketList \ open
      PROVE  listCS # NoThread /\ handle[c] = Key(Head(batch[listCS]))'
  <2>1. listCS # NoThread /\ handle[c] = Key(Head(batch[listCS]))
    BY <1>2 DEF HandlesInv
  <2>2. listCS \in Threads
    BY <2>1 DEF TypeInv, Types
  <2>3. pc[listCS] = "erase" /\ batch[listCS] # <<>>
    BY <2>2 DEF TypeInv, Place
  <2>5. listCS' = listCS /\ batch'[listCS] = batch[listCS]
    BY <2>2, <2>3
  <2>6. Head(batch[listCS]) \in Event
    BY <2>2, <2>3, BatchHead
  <2>7. Key(Head(batch[listCS]))' = Key(Head(batch[listCS]))
    <3> DEFINE e == Head(batch[listCS])
    <3>1. e \in Event /\ e' = e
      BY <2>5, <2>6
    <3>2. handle[IF e.kind = "receive" THEN e.conn ELSE received[e.msg]] = Key(e)
      BY DEF Key
    <3> QED
      BY <1>1, <3>1 DEF Key
  <2> QED
    BY <2>1, <2>7
<1> QED
  BY <1>2 DEF HandlesInv

LEMMA WaitingFrame ==
  ASSUME TypeInv, WaitingInv,
         iocp' = iocp \/ \E p \in Packet : ~Waiting(p) /\ iocp' = Append(iocp, p),
         \A u \in Threads :
           pc'[u] = "accept" => pc[u] = "accept" /\ job'[u].conn = job[u].conn,
         open \ socketList \subseteq open' \ socketList'
  PROVE  WaitingInv'
<1>1. iocp \in Seq(Packet)
  BY DEF TypeInv, Types
<1>2. \A i \in 1..Len(iocp') :
        Waiting(iocp'[i]) => i \in 1..Len(iocp) /\ iocp'[i] = iocp[i]
  <2>1. CASE iocp' = iocp
    BY <2>1
  <2>2. ASSUME NEW p \in Packet, ~Waiting(p), iocp' = Append(iocp, p)
        PROVE  \A i \in 1..Len(iocp') :
                 Waiting(iocp'[i]) => i \in 1..Len(iocp) /\ iocp'[i] = iocp[i]
    <3>1. \A i \in 1..Len(iocp') :
            (i \in 1..Len(iocp) /\ iocp'[i] = iocp[i]) \/ iocp'[i] = p
      BY <1>1, <2>2
    <3> QED
      BY <2>2, <3>1
  <2> QED
    BY <2>1, <2>2
<1> QED
  BY <1>2 DEF WaitingInv, Waiting

\* Steps that touch neither the list nor the sockets.
LEMMA ListFrame ==
  ASSUME TypeInv, ListInv,
         UNCHANGED <<open, handle, socketList, listCS>>,
         UNCHANGED received \/ \E c : received' = Append(received, c),
         \A u \in Threads : pc[u] = "erase" => batch'[u] = batch[u],
         iocp' = iocp \/ \E p \in Packet : ~Waiting(p) /\ iocp' = Append(iocp, p),
         \A u \in Threads :
           pc'[u] = "accept" => pc[u] = "accept" /\ job'[u].conn = job[u].conn
  PROVE  ListInv'
<1>1. HandlesInv'
  BY HandlesFrame DEF ListInv
<1>2. WaitingInv'
  BY WaitingFrame DEF ListInv
<1> QED
  BY <1>1, <1>2 DEF ListInv

LEMMA ListGet ==
  ASSUME TypeInv, ListInv, NEW t \in Threads, GetQueuedCompletionStatus(t)
  PROVE  ListInv'
<1>1. /\ pc[t] = "gqcs" /\ iocp # <<>> /\ iocp' = Tail(iocp)
      /\ UNCHANGED <<open, handle, socketList, listCS, received, batch>>
  BY DEF GetQueuedCompletionStatus, sockets, list, history
<1>2. \/ pc' = [pc EXCEPT ![t] = "dequeue"] /\ job' = job
      \/ /\ Head(iocp).key # "CK_RIO"
         /\ pc' = [pc EXCEPT ![t] = "accept"]
         /\ job' = [job EXCEPT ![t].conn = Head(iocp).conn]
  BY DEF GetQueuedCompletionStatus, Goto
<1>3. HandlesInv'
  BY <1>1, HandlesFrame DEF ListInv
<1>4. /\ iocp \in Seq(Packet) /\ pc \in [Threads -> PCs]
      /\ job \in [Threads -> [conn : 0..Bound.connection, left : 0..MaxReceives]]
  BY DEF TypeInv, Types
<1>5. /\ Head(iocp) = iocp[1] /\ iocp[1] \in Packet
      /\ \A i \in 1..Len(iocp') : i + 1 \in 1..Len(iocp) /\ iocp'[i] = iocp[i + 1]
      /\ 1 \in 1..Len(iocp) /\ \A i \in 1..Len(iocp') : i \in Nat /\ i + 1 # 1
  <2>1. /\ Head(iocp) = iocp[1] /\ Head(iocp) \in Packet /\ Len(iocp) \in Nat /\ Len(iocp) >= 1
        /\ \A i \in 1..Len(iocp') : i + 1 \in 1..Len(iocp) /\ iocp'[i] = iocp[i + 1]
    BY <1>1, <1>4, TailMoves
  <2> QED
    BY <2>1
<1>6. WaitingInv
  BY DEF ListInv
<1>7. /\ \A i \in 1..Len(iocp') : Waiting(iocp'[i]) => iocp'[i].conn \in open' \ socketList'
      /\ \A i, j \in 1..Len(iocp') :
           Waiting(iocp'[i]) /\ Waiting(iocp'[j]) /\ iocp'[i].conn = iocp'[j].conn => i = j
  <2>1. \A i \in 1..Len(iocp') : Waiting(iocp'[i]) => iocp'[i].conn \in open' \ socketList'
    BY <1>1, <1>5, <1>6 DEF WaitingInv
  <2>2. ASSUME NEW i \in 1..Len(iocp'), NEW j \in 1..Len(iocp'),
               Waiting(iocp'[i]), Waiting(iocp'[j]), iocp'[i].conn = iocp'[j].conn
        PROVE  i = j
    <3>1. i + 1 = j + 1
      BY <1>5, <1>6, <2>2 DEF WaitingInv
    <3> QED
      BY <1>5, <3>1
  <2> QED
    BY <2>1, <2>2
<1>8. CASE pc' = [pc EXCEPT ![t] = "dequeue"] /\ job' = job
  <2>1. \A u \in Threads : pc'[u] = "accept" => pc[u] = "accept" /\ job'[u] = job[u]
    BY <1>4, <1>8
  <2> QED
    BY <1>1, <1>3, <1>5, <1>6, <1>7, <2>1 DEF WaitingInv, ListInv
<1>9. CASE /\ Head(iocp).key # "CK_RIO"
           /\ pc' = [pc EXCEPT ![t] = "accept"]
           /\ job' = [job EXCEPT ![t].conn = Head(iocp).conn]
  <2>1. Waiting(iocp[1])
    BY <1>5, <1>9 DEF Waiting, Packet, Accept
  <2>2. /\ job'[t].conn = iocp[1].conn
        /\ \A u \in Threads : u # t => pc'[u] = pc[u] /\ job'[u] = job[u]
    BY <1>4, <1>5, <1>9
  <2>3. job'[t].conn \in open' \ socketList'
    BY <1>1, <1>5, <1>6, <2>1, <2>2 DEF WaitingInv
  <2>4. \A i \in 1..Len(iocp') : Waiting(iocp'[i]) => iocp'[i].conn # job'[t].conn
    BY <1>5, <1>6, <2>1, <2>2 DEF WaitingInv
  <2>5. \A u \in Threads : u # t /\ pc[u] = "accept" => job[u].conn # iocp[1].conn
    BY <1>5, <1>6, <2>1 DEF WaitingInv
  <2>6. ASSUME NEW u \in Threads, pc'[u] = "accept"
        PROVE  /\ job'[u].conn \in open' \ socketList'
               /\ \A i \in 1..Len(iocp') : Waiting(iocp'[i]) => iocp'[i].conn # job'[u].conn
               /\ \A w \in Threads : pc'[w] = "accept" /\ job'[w].conn = job'[u].conn => w = u
    <3>1. CASE u = t
      BY <2>2, <2>3, <2>4, <2>5, <3>1
    <3>2. CASE u # t
      <4>1. pc[u] = "accept" /\ job'[u] = job[u]
        BY <2>2, <2>6, <3>2
      <4>2. /\ job[u].conn \in open \ socketList
            /\ \A i \in 1..Len(iocp) : Waiting(iocp[i]) => iocp[i].conn # job[u].conn
            /\ \A w \in Threads : pc[w] = "accept" /\ job[w].conn = job[u].conn => w = u
        BY <1>6, <4>1 DEF WaitingInv
      <4>3. \A i \in 1..Len(iocp') : Waiting(iocp'[i]) => iocp'[i].conn # job'[u].conn
        BY <1>5, <4>1, <4>2
      <4>4. \A w \in Threads : pc'[w] = "accept" /\ job'[w].conn = job'[u].conn => w = u
        BY <2>2, <2>5, <3>2, <4>1, <4>2
      <4> QED
        BY <1>1, <4>1, <4>2, <4>3, <4>4
    <3> QED
      BY <3>1, <3>2
  <2> QED
    BY <1>3, <1>7, <2>6 DEF WaitingInv, ListInv
<1> QED
  BY <1>2, <1>8, <1>9

LEMMA ListConnects ==
  ASSUME TypeInv, ListInv, NEW h \in Handles, Connects(h)
  PROVE  ListInv'
<1> DEFINE c == Len(handle) + 1
           p == [key |-> "CK_ACCEPT", conn |-> c]
<1>1. /\ \A d \in open : handle[d] # h
      /\ open' = open \cup {c} /\ handle' = Append(handle, h)
      /\ iocp' = Append(iocp, p)
      /\ UNCHANGED <<socketList, listCS, pc, batch, job, received>>
  BY DEF Connects, list, holding, history
<1>2. /\ handle \in Seq(Handles) /\ iocp \in Seq(Packet)
      /\ open \subseteq Known /\ socketList \subseteq Known
  BY DEF TypeInv, Types
<1>3. handle'[c] = h /\ c \notin Known /\ \A d \in Known : handle'[d] = handle[d]
  <2>1. Len(handle) \in Nat
    BY <1>2
  <2>2. c \notin 1..Len(handle)
    BY <2>1
  <2> QED
    BY <1>1, <1>2, <2>1, <2>2 DEF Known
<1>4. \A e \in Event : Key(e)' = Key(e)
  BY <1>1, KnownStay DEF TypeInv
<1>5. HandlesInv'
  <2> HIDE DEF c, p
  <2>4. /\ \A d \in open : handle'[d] = handle[d] /\ handle[d] # h
        /\ \A d \in socketList : handle'[d] = handle[d]
        /\ \A d \in open' : d \in open \/ d = c
        /\ socketList' = socketList
    BY <1>1, <1>2, <1>3
  <2>5. /\ \A d, e \in open : handle[d] = handle[e] => d = e
        /\ \A d, e \in socketList : handle[d] = handle[e] => d = e
    BY DEF ListInv, HandlesInv
  <2>1. \A d, e \in open' : handle'[d] = handle'[e] => d = e
    BY <1>3, <2>4, <2>5
  <2>2. \A d, e \in socketList' : handle'[d] = handle'[e] => d = e
    BY <2>4, <2>5
  <2>3. ASSUME NEW d \in socketList' \ open'
        PROVE  listCS' # NoThread /\ handle'[d] = Key(Head(batch[listCS]))'
    <3>1. d \in socketList \ open
      BY <1>1, <2>3
    <3>2. listCS # NoThread /\ handle[d] = Key(Head(batch[listCS]))
      BY <3>1 DEF ListInv, HandlesInv
    <3>3. listCS \in Threads
      BY <3>2 DEF TypeInv, Types
    <3>4. batch[listCS] # <<>>
      BY <3>3 DEF TypeInv, Place
    <3>5. Head(batch[listCS]) \in Event
      BY <3>3, <3>4, BatchHead
    <3>6. listCS' = listCS /\ batch'[listCS] = batch[listCS]
      BY <1>1
    <3>7. Key(Head(batch[listCS]))' = Key(Head(batch[listCS]))
      <4> DEFINE e == Head(batch[listCS])
      <4>1. e \in Event /\ e' = e
        BY <3>5, <3>6
      <4> QED
        BY <1>4, <4>1 DEF Key
    <3> QED
      BY <1>2, <1>3, <3>1, <3>2, <3>6, <3>7
  <2> QED
    BY <2>1, <2>2, <2>3 DEF HandlesInv
<1> HIDE DEF c
<1>6. \A i \in 1..Len(iocp') :
        (i \in 1..Len(iocp) /\ iocp'[i] = iocp[i]) \/ (i = Len(iocp) + 1 /\ iocp'[i] = p)
  BY <1>1, <1>2
<1>7. WaitingInv
  BY DEF ListInv
<1>8. c \in open' \ socketList' /\ open \ socketList \subseteq open' \ socketList' /\ c \notin open
  BY <1>1, <1>2, <1>3
<1>9. \A i \in 1..Len(iocp) : Waiting(iocp[i]) => iocp[i].conn # c
  BY <1>7, <1>8 DEF WaitingInv
<1>10. \A t \in Threads : pc[t] = "accept" => job[t].conn # c
  BY <1>7, <1>8 DEF WaitingInv
<1>11. p.conn = c
  OBVIOUS
<1> HIDE DEF p
<1>12. WaitingInv'
  <2>1. \A i \in 1..Len(iocp') : Waiting(iocp'[i]) => iocp'[i].conn \in open' \ socketList'
    BY <1>6, <1>7, <1>8, <1>11 DEF WaitingInv
  <2>2. \A i, j \in 1..Len(iocp') :
          Waiting(iocp'[i]) /\ Waiting(iocp'[j]) /\ iocp'[i].conn = iocp'[j].conn => i = j
    BY <1>6, <1>7, <1>9, <1>11 DEF WaitingInv
  <2>3. ASSUME NEW t \in Threads, pc'[t] = "accept"
        PROVE  /\ job'[t].conn \in open' \ socketList'
               /\ \A i \in 1..Len(iocp') : Waiting(iocp'[i]) => iocp'[i].conn # job'[t].conn
               /\ \A u \in Threads : pc'[u] = "accept" /\ job'[u].conn = job'[t].conn => u = t
    BY <1>1, <1>6, <1>7, <1>8, <1>10, <1>11, <2>3 DEF WaitingInv
  <2> QED
    BY <2>1, <2>2, <2>3 DEF WaitingInv
<1> QED
  BY <1>5, <1>12 DEF ListInv

\* With the section free, the listed connections are open.
LEMMA SectionFree ==
  ASSUME HandlesInv, listCS = NoThread
  PROVE  socketList \subseteq open
BY DEF HandlesInv

LEMMA ListClose ==
  ASSUME TypeInv, ListInv, NEW t \in Threads, Close(t)
  PROVE  ListInv'
<1> DEFINE h == Key(Head(batch[t]))
<1>1. /\ listCS = NoThread /\ batch[t] # <<>> /\ pc[t] = "results"
      /\ UNCHANGED <<iocp, handle, socketList, job, received>>
  BY DEF Close, AtResult, packets, history
<1>2. \/ /\ batch' = [batch EXCEPT ![t] = Tail(@)]
         /\ UNCHANGED <<open, listCS, pc>>
      \/ /\ listCS' = t /\ pc' = [pc EXCEPT ![t] = "erase"] /\ open' = open \ Find(h)
         /\ batch' = batch
  BY DEF Close, Goto, NextOfBatch
<1>3. pc \in [Threads -> PCs] /\ batch \in [Threads -> Seq(Event)]
  BY DEF TypeInv, Types
<1>4. HandlesInv /\ WaitingInv
  BY DEF ListInv
<1>5. CASE /\ batch' = [batch EXCEPT ![t] = Tail(@)]
           /\ UNCHANGED <<open, listCS, pc>>
  <2>1. \A u \in Threads : pc[u] = "erase" => batch'[u] = batch[u]
    BY <1>1, <1>3, <1>5
  <2> QED
    BY <1>1, <1>5, <2>1, ListFrame
<1>6. CASE /\ listCS' = t /\ pc' = [pc EXCEPT ![t] = "erase"] /\ open' = open \ Find(h)
           /\ batch' = batch
  <2>1. socketList \subseteq open
    BY <1>1, <1>4, SectionFree
  <2>2. Find(h) \subseteq socketList /\ \A c \in Find(h) : handle[c] = h
    BY DEF Find
  <2>3. h' = h
    BY <1>1, <1>6 DEF Key
  <2> HIDE DEF h
  <2>4. ASSUME NEW c \in socketList' \ open'
        PROVE  listCS' # NoThread /\ handle'[c] = Key(Head(batch[listCS]))'
    <3>1. c \in Find(h)
      BY <1>1, <1>6, <2>1, <2>4
    <3>2. handle'[c] = h
      BY <1>1, <2>2, <3>1
    <3>3. Key(Head(batch[listCS]))' = h'
      BY <1>6 DEF h, Key
    <3> QED
      BY <1>6, <2>3, <3>2, <3>3, ThreadAssumption
  <2>5. HandlesInv'
    BY <1>1, <1>4, <1>6, <2>4 DEF HandlesInv
  <2>6. open \ socketList \subseteq open' \ socketList'
    BY <1>1, <1>6, <2>2
  <2>7. \A u \in Threads : pc'[u] = "accept" => pc[u] = "accept" /\ job'[u].conn = job[u].conn
    BY <1>1, <1>3, <1>6
  <2>8. WaitingInv'
    BY <1>1, <1>4, <2>6, <2>7, WaitingFrame
  <2> QED
    BY <2>5, <2>8 DEF ListInv
<1> QED
  BY <1>2, <1>5, <1>6

LEMMA ListErase ==
  ASSUME TypeInv, ListInv, NEW t \in Threads, Erase(t)
  PROVE  ListInv' /\ socketList' \subseteq open'
<1> DEFINE h == Key(Head(batch[t]))
<1>1. /\ pc[t] = "erase" /\ pc' = [pc EXCEPT ![t] = "results"] /\ listCS' = NoThread
      /\ socketList' = socketList \ Find(h)
      /\ UNCHANGED <<iocp, open, handle, job, received>>
  BY DEF Erase, Goto, packets, sockets, history
<1>2. /\ pc \in [Threads -> PCs] /\ listCS = t
  BY <1>1 DEF TypeInv, Types, Place
<1>3. HandlesInv /\ WaitingInv
  BY DEF ListInv
<1>4. \A c \in socketList \ open : handle[c] = h
  BY <1>2, <1>3 DEF HandlesInv
<1> HIDE DEF h
<1>5. socketList' \subseteq open'
  BY <1>1, <1>4 DEF Find
<1>6. HandlesInv'
  BY <1>1, <1>3, <1>5 DEF HandlesInv
<1>7. open \ socketList \subseteq open' \ socketList'
  BY <1>1
<1>8. \A u \in Threads : pc'[u] = "accept" => pc[u] = "accept" /\ job'[u].conn = job[u].conn
  BY <1>1, <1>2
<1>9. WaitingInv'
  BY <1>1, <1>3, <1>7, <1>8, WaitingFrame
<1> QED
  BY <1>5, <1>6, <1>9 DEF ListInv

LEMMA ListAddEntry ==
  ASSUME TypeInv, ListInv, NEW t \in Threads, AddEntry(t)
  PROVE  ListInv'
<1>1. /\ pc[t] = "accept"
      /\ UNCHANGED <<iocp, open, handle, listCS, batch, received>>
  BY DEF AddEntry, packets, sockets, history
<1>2. \/ pc' = [pc EXCEPT ![t] = "stuck"] /\ socketList' = socketList /\ job' = job
      \/ /\ pc' = [pc EXCEPT ![t] = "initial"] /\ listCS = NoThread
         /\ socketList' = socketList \cup {job[t].conn}
         /\ job' = [job EXCEPT ![t].left = MaxReceives]
  BY DEF AddEntry, Goto
<1>3. /\ pc \in [Threads -> PCs]
      /\ job \in [Threads -> [conn : 0..Bound.connection, left : 0..MaxReceives]]
  BY DEF TypeInv, Types
<1>4. HandlesInv /\ WaitingInv
  BY DEF ListInv
<1>5. CASE pc' = [pc EXCEPT ![t] = "stuck"] /\ socketList' = socketList /\ job' = job
  <2>1. \A u \in Threads : pc'[u] = "accept" => pc[u] = "accept" /\ job'[u].conn = job[u].conn
    BY <1>3, <1>5
  <2> QED
    BY <1>1, <1>5, <2>1, ListFrame
<1>6. CASE /\ pc' = [pc EXCEPT ![t] = "initial"] /\ listCS = NoThread
           /\ socketList' = socketList \cup {job[t].conn}
           /\ job' = [job EXCEPT ![t].left = MaxReceives]
  <2> DEFINE c == job[t].conn
  <2>1. socketList \subseteq open
    BY <1>4, <1>6, SectionFree
  <2>2. c \in open \ socketList
    BY <1>1, <1>4 DEF WaitingInv
  <2>3. /\ \A i \in 1..Len(iocp) : Waiting(iocp[i]) => iocp[i].conn # c
        /\ \A u \in Threads : pc[u] = "accept" /\ job[u].conn = c => u = t
    BY <1>1, <1>4 DEF WaitingInv
  <2>4. \A u \in Threads :
          pc'[u] = "accept" => u # t /\ pc[u] = "accept" /\ job'[u] = job[u]
    BY <1>3, <1>6
  <2>5. socketList' = socketList \cup {c}
    BY <1>6
  <2> HIDE DEF c
  <2>6. HandlesInv'
    <3>1. socketList' \subseteq open'
      BY <1>1, <2>1, <2>2, <2>5
    <3>2. \A d, e \in open' : handle'[d] = handle'[e] => d = e
      BY <1>1, <1>4 DEF HandlesInv
    <3> QED
      BY <3>1, <3>2 DEF HandlesInv
  <2>7. WaitingInv'
    <3>1. \A i \in 1..Len(iocp') : Waiting(iocp'[i]) => iocp'[i].conn \in open' \ socketList'
      BY <1>1, <1>4, <2>3, <2>5 DEF WaitingInv
    <3>2. \A i, j \in 1..Len(iocp') :
            Waiting(iocp'[i]) /\ Waiting(iocp'[j]) /\ iocp'[i].conn = iocp'[j].conn => i = j
      BY <1>1, <1>4 DEF WaitingInv
    <3>3. ASSUME NEW u \in Threads, pc'[u] = "accept"
          PROVE  /\ job'[u].conn \in open' \ socketList'
                 /\ \A i \in 1..Len(iocp') : Waiting(iocp'[i]) => iocp'[i].conn # job'[u].conn
                 /\ \A w \in Threads : pc'[w] = "accept" /\ job'[w].conn = job'[u].conn => w = u
      BY <1>1, <1>4, <2>3, <2>4, <2>5, <3>3 DEF WaitingInv
    <3> QED
      BY <3>1, <3>2, <3>3 DEF WaitingInv
  <2> QED
    BY <2>6, <2>7 DEF ListInv
<1> QED
  BY <1>2, <1>5, <1>6

LEMMA RioPacket ==
  [key |-> "CK_RIO", conn |-> 0] \in Packet /\ ~Waiting([key |-> "CK_RIO", conn |-> 0])
BY DEF Packet, Waiting

\* The other steps: where packets, places and jobs change too little to matter.
LEMMA ListOther ==
  ASSUME TypeInv, ListInv, NEW t \in Threads,
         \/ RIONotify(t) \/ Dequeue(t) \/ Keep(t) \/ Receive(t) \/ FreeBuffer(t)
         \/ SendDropped(t) \/ Send(t) \/ InitialReceive(t) \/ ResetAcceptCall(t)
  PROVE  ListInv'
<1>1. /\ pc \in [Threads -> PCs] /\ batch \in [Threads -> Seq(Event)]
      /\ job \in [Threads -> [conn : 0..Bound.connection, left : 0..MaxReceives]]
  BY DEF TypeInv, Types
<1>2. /\ UNCHANGED <<open, handle, socketList, listCS, received>>
      /\ iocp' = iocp \/ iocp' = Append(iocp, [key |-> "CK_RIO", conn |-> 0])
  BY DEF RIONotify, Dequeue, Keep, Receive, FreeBuffer, SendDropped, Send, InitialReceive,
         ResetAcceptCall, packets, sockets, list, history
<1>3. iocp' = iocp \/ \E p \in Packet : ~Waiting(p) /\ iocp' = Append(iocp, p)
  BY <1>2, RioPacket
<1>4. pc[t] # "erase"
  BY DEF RIONotify, Dequeue, Keep, Receive, FreeBuffer, SendDropped, Send, InitialReceive,
         ResetAcceptCall, AtTop, AtResult, AtInstruction
<1>5. \A u \in Threads \ {t} : batch'[u] = batch[u]
  BY <1>1 DEF RIONotify, Dequeue, Keep, Receive, FreeBuffer, SendDropped, Send, InitialReceive,
         ResetAcceptCall, NextOfBatch, holding
<1>6. \A u \in Threads : pc'[u] = "accept" => pc[u] = "accept" /\ job'[u].conn = job[u].conn
  <2>1. CASE RIONotify(t) \/ Dequeue(t) \/ Keep(t) \/ FreeBuffer(t) \/ SendDropped(t) \/ Send(t)
    <3>1. job' = job /\ pc' \in {pc, [pc EXCEPT ![t] = "gqcs"], [pc EXCEPT ![t] = "results"]}
      BY <2>1 DEF RIONotify, Dequeue, Keep, FreeBuffer, SendDropped, Send, Goto, holding
    <3> QED
      BY <1>1, <3>1
  <2>2. CASE Receive(t)
    <3>1. job' = job /\ pc' \in {[pc EXCEPT ![t] = "send"], [pc EXCEPT ![t] = "stuck"]}
      BY <2>2 DEF Receive, PostReceive, Goto, holding
    <3> QED
      BY <1>1, <3>1
  <2>3. CASE InitialReceive(t)
    <3>1. /\ pc' \in {[pc EXCEPT ![t] = "initial"], [pc EXCEPT ![t] = "stuck"]}
          /\ job' = [job EXCEPT ![t].left = IF pc'[t] = "stuck" THEN @ ELSE @ - 1]
      BY <2>3 DEF InitialReceive, PostReceive, Goto
    <3> QED
      BY <1>1, <3>1
  <2>4. CASE ResetAcceptCall(t)
    <3>1. /\ pc' = [pc EXCEPT ![t] = "results"] /\ job' = [job EXCEPT ![t] = NoJob]
      BY <2>4 DEF ResetAcceptCall, Goto
    <3> QED
      BY <1>1, <3>1
  <2> QED
    BY <2>1, <2>2, <2>3, <2>4
<1>7. \A u \in Threads : pc[u] = "erase" => batch'[u] = batch[u]
  BY <1>4, <1>5
<1> QED
  BY <1>2, <1>3, <1>6, <1>7, ListFrame

LEMMA ListRequestEnds ==
  ASSUME TypeInv, ListInv, RequestEnds
  PROVE  ListInv'
<1>1. PICK kind, c, m, ok : Complete(kind, c, m, ok)
  BY DEF RequestEnds, Arrives, ReceiveFails, SendEnds
<1>2. UNCHANGED received \/ \E d : received' = Append(received, d)
  BY DEF RequestEnds, Arrives, ReceiveFails, SendEnds
<1>3. /\ UNCHANGED <<open, handle, socketList, listCS, pc, batch, job>>
      /\ iocp' = iocp \/ iocp' = Append(iocp, [key |-> "CK_RIO", conn |-> 0])
  BY <1>1 DEF Complete, sockets, list, holding
<1>4. iocp' = iocp \/ \E p \in Packet : ~Waiting(p) /\ iocp' = Append(iocp, p)
  BY <1>3, RioPacket
<1> QED
  BY <1>2, <1>3, <1>4, ListFrame

LEMMA ListNext == TypeInv /\ ListInv /\ [Next]_vars => ListInv'
<1> SUFFICES ASSUME TypeInv, ListInv, [Next]_vars
             PROVE  ListInv'
  OBVIOUS
<1>1. ASSUME NEW t \in Threads, Worker(t)
      PROVE  ListInv'
  BY <1>1, ListGet, ListClose, ListErase, ListAddEntry, ListOther DEF Worker
<1>2. ASSUME NEW h \in Handles, Connects(h)
      PROVE  ListInv'
  BY <1>2, ListConnects
<1>3. CASE UNCHANGED vars
  BY <1>3, ListFrame DEF vars, packets, sockets, list, holding, history
<1> QED
  BY <1>1, <1>2, <1>3, ListRequestEnds DEF Next, Environment

LEMMA ListInvariant == Spec => [](TypeInv /\ ListInv)
<1>1. Init => TypeInv /\ ListInv
  BY TypeInit, ListInit
<1>2. TypeInv /\ ListInv /\ [Next]_vars => (TypeInv /\ ListInv)'
  BY TypeNext, ListNext
<1> QED
  BY <1>1, <1>2, PTL DEF Spec

-----------------------------------------------------------------------------
(* The order of messages.                                                   *)

\* InOrder for any record of who sent what.
Ordered(s, from) ==
  \A i, j \in 1..Len(s) :
    i < j /\ Message(s[i]) /\ Message(s[j]) /\ from[s[i].msg] = from[s[j].msg]
      => s[i].msg < s[j].msg

\* The messages of s are some of those of r, in the order they have there.
Within(s, r) ==
  \E f \in [1..Len(s) -> Int] :
    \A i \in 1..Len(s) :
      Message(s[i]) =>
        /\ f[i] \in 1..Len(r) /\ s[i] = r[f[i]]
        /\ \A j \in 1..Len(s) : Message(s[j]) /\ i < j => f[i] < f[j]

LEMMA MessagesOf ==
  ASSUME NEW s, NEW m
  PROVE  m \in Messages(s) <=> \E i \in 1..Len(s) : Message(s[i]) /\ s[i].msg = m
BY DEF Messages

LEMMA WithinOrdered ==
  ASSUME NEW s, NEW r, NEW from, Within(s, r)
  PROVE  Messages(s) \subseteq Messages(r) /\ (Ordered(r, from) => Ordered(s, from))
<1>1. PICK f \in [1..Len(s) -> Int] :
        \A i \in 1..Len(s) :
          Message(s[i]) =>
            /\ f[i] \in 1..Len(r) /\ s[i] = r[f[i]]
            /\ \A j \in 1..Len(s) : Message(s[j]) /\ i < j => f[i] < f[j]
  BY DEF Within
<1>2. Messages(s) \subseteq Messages(r)
  BY <1>1 DEF Messages
<1>3. ASSUME Ordered(r, from), NEW i \in 1..Len(s), NEW j \in 1..Len(s),
             i < j, Message(s[i]), Message(s[j]), from[s[i].msg] = from[s[j].msg]
      PROVE  s[i].msg < s[j].msg
  <2>1. /\ f[i] \in 1..Len(r) /\ f[j] \in 1..Len(r) /\ f[i] < f[j]
        /\ s[i] = r[f[i]] /\ s[j] = r[f[j]]
    BY <1>1, <1>3
  <2> QED
    BY <1>3, <2>1 DEF Ordered
<1> QED
  BY <1>2, <1>3 DEF Ordered

\* In an ordered list no message is there twice.
LEMMA OrderedOnce ==
  ASSUME TypeInv, NEW s \in Seq(Event), NEW from, Ordered(s, from),
         NEW i \in 1..Len(s), NEW j \in 1..Len(s),
         Message(s[i]), Message(s[j]), s[i].msg = s[j].msg
  PROVE  i = j
<1>1. i \in Int /\ j \in Int /\ s[i] \in Event /\ s[j] \in Event
  OBVIOUS
<1>2. s[i].msg \in Int /\ s[j].msg \in Int
  BY <1>1, Numbers DEF Event, Completion
<1>3. from[s[i].msg] = from[s[j].msg]
  OBVIOUS
<1>4. ~(i < j) /\ ~(j < i)
  BY <1>2, <1>3 DEF Ordered
<1> QED
  BY <1>1, <1>4

LEMMA WithinSame ==
  ASSUME NEW s, Len(s) \in Nat
  PROVE  Within(s, s)
<1> DEFINE f == [i \in 1..Len(s) |-> i]
<1>1. f \in [1..Len(s) -> Int]
  OBVIOUS
<1>2. \A i \in 1..Len(s) : f[i] \in 1..Len(s) /\ s[i] = s[f[i]] /\ f[i] = i
  OBVIOUS
<1> HIDE DEF f
<1> QED
  BY <1>1, <1>2 DEF Within

\* What is in a hand, place by place.
LEMMA HandIs ==
  ASSUME NEW S, NEW r \in Seq(S), NEW b \in Seq(S)
  PROVE  /\ r \o b \in Seq(S) /\ Len(r) \in Nat /\ Len(b) \in Nat
         /\ Len(r \o b) = Len(r) + Len(b)
         /\ \A i \in 1..Len(r) : i \in 1..Len(r \o b) /\ (r \o b)[i] = r[i]
         /\ \A i \in 1..Len(b) : i + Len(r) \in 1..Len(r \o b) /\ (r \o b)[i + Len(r)] = b[i]
         /\ \A i \in 1..Len(r \o b) :
              \/ i \in 1..Len(r) /\ (r \o b)[i] = r[i]
              \/ i - Len(r) \in 1..Len(b) /\ (r \o b)[i] = b[i - Len(r)]
<1>1. /\ r \o b \in Seq(S) /\ Len(r) \in Nat /\ Len(b) \in Nat
      /\ Len(r \o b) = Len(r) + Len(b)
      /\ \A i \in 1..Len(r) : (r \o b)[i] = r[i]
      /\ \A i \in (Len(r) + 1)..(Len(r) + Len(b)) : (r \o b)[i] = b[i - Len(r)]
  OBVIOUS
<1>2. \A i \in 1..Len(b) : i + Len(r) \in (Len(r) + 1)..(Len(r) + Len(b)) /\ (i + Len(r)) - Len(r) = i
  BY <1>1
<1>3. \A i \in 1..(Len(r) + Len(b)) :
        \/ i \in 1..Len(r)
        \/ i \in (Len(r) + 1)..(Len(r) + Len(b)) /\ i - Len(r) \in 1..Len(b)
  BY <1>1
<1>4. \A i \in 1..Len(r) : i \in 1..(Len(r) + Len(b))
  BY <1>1
<1>5. \A i \in 1..Len(b) : i + Len(r) \in 1..(Len(r) + Len(b))
  BY <1>1
<1> QED
  BY <1>1, <1>2, <1>3, <1>4, <1>5

\* The changes of hands: one goes from the batch to the results, or away; the first
\* result goes.
LEMMA HandKeeps ==
  ASSUME NEW S, NEW r \in Seq(S), NEW b \in Seq(S), b # <<>>
  PROVE  Within(Append(r, Head(b)) \o Tail(b), r \o b)
<1> DEFINE s == Append(r, Head(b)) \o Tail(b)
           f == [i \in 1..Len(s) |-> i]
<1>1. /\ Tail(b) \in Seq(S) /\ Head(b) \in S /\ Head(b) = b[1] /\ Len(b) \in Nat /\ Len(b) >= 1
      /\ Len(Tail(b)) = Len(b) - 1
      /\ \A i \in 1..Len(Tail(b)) : i + 1 \in 1..Len(b) /\ Tail(b)[i] = b[i + 1]
  BY TailMoves
<1>2. /\ Append(r, Head(b)) \in Seq(S) /\ Len(Append(r, Head(b))) = Len(r) + 1 /\ Len(r) \in Nat
      /\ \A i \in 1..(Len(r) + 1) :
           Append(r, Head(b))[i] = IF i = Len(r) + 1 THEN Head(b) ELSE r[i]
  BY <1>1
<1> DEFINE a == Append(r, Head(b))
           q == Tail(b)
<1> HIDE DEF a, q
<1>3. /\ Len(a \o q) = Len(a) + Len(q)
      /\ \A i \in 1..Len(a \o q) :
              \/ i \in 1..Len(a) /\ (a \o q)[i] = a[i]
              \/ i - Len(a) \in 1..Len(q) /\ (a \o q)[i] = q[i - Len(a)]
  BY <1>1, <1>2, HandIs DEF a, q
<1>4. /\ Len(r \o b) = Len(r) + Len(b)
      /\ \A i \in 1..Len(r) : (r \o b)[i] = r[i]
      /\ \A i \in 1..Len(b) : (r \o b)[i + Len(r)] = b[i]
  BY HandIs
<1>5. Len(a) = Len(r) + 1 /\ Len(q) = Len(b) - 1
  BY <1>1, <1>2 DEF a, q
<1>6. ASSUME NEW i \in 1..Len(a \o q)
      PROVE  i \in 1..Len(r \o b) /\ (a \o q)[i] = (r \o b)[i]
  <2>1. i \in Int /\ i >= 1 /\ i <= Len(r) + Len(b)
    BY <1>1, <1>2, <1>3, <1>5
  <2>2. CASE i <= Len(r)
    <3>1. (a \o q)[i] = a[i] /\ i \in 1..Len(r)
      BY <1>2, <1>3, <1>5, <2>1, <2>2
    <3>2. a[i] = r[i]
      BY <1>2, <3>1 DEF a
    <3> QED
      BY <1>1, <1>2, <1>4, <2>1, <3>1, <3>2
  <2>3. CASE i = Len(r) + 1
    <3>1. (a \o q)[i] = a[i]
      BY <1>2, <1>3, <1>5, <2>3
    <3>2. a[i] = b[1] /\ 1 \in 1..Len(b)
      BY <1>1, <1>2, <2>3 DEF a
    <3>3. (r \o b)[1 + Len(r)] = b[1]
      BY <1>4, <3>2
    <3> QED
      BY <1>1, <1>2, <1>4, <2>1, <2>3, <3>1, <3>2, <3>3
  <2>4. CASE i > Len(r) + 1
    <3>1. i - Len(a) \in 1..Len(q) /\ (a \o q)[i] = q[i - Len(a)]
      BY <1>2, <1>3, <1>5, <2>1, <2>4
    <3>2. q[i - Len(a)] = b[(i - Len(a)) + 1] /\ (i - Len(a)) + 1 \in 1..Len(b)
      BY <1>1, <3>1 DEF q
    <3>3. (i - Len(a)) + 1 + Len(r) = i
      BY <1>2, <1>5, <2>1
    <3>4. (r \o b)[(i - Len(a)) + 1 + Len(r)] = b[(i - Len(a)) + 1]
      BY <1>4, <3>2
    <3>5. i \in 1..Len(r \o b)
      BY ONLY <1>1, <1>2, <1>4, <2>1
    <3> QED
      BY ONLY <3>1, <3>2, <3>3, <3>4, <3>5
  <2>5. Len(r) \in Int
    BY <1>2
  <2>6. i <= Len(r) \/ i = Len(r) + 1 \/ i > Len(r) + 1
    BY <2>1, <2>5
  <2> QED
    BY <2>2, <2>3, <2>4, <2>6
<1>7. s = a \o q
  BY DEF a, q
<1>8. f \in [1..Len(s) -> Int] /\ \A i \in 1..Len(s) : f[i] = i
  <2>1. Len(s) \in Nat
    BY <1>1, <1>2, <1>3, <1>5, <1>7
  <2> QED
    BY <2>1
<1> HIDE DEF s, f
<1>9. \A i \in 1..Len(s) :
        /\ f[i] \in 1..Len(r \o b) /\ s[i] = (r \o b)[f[i]]
        /\ \A j \in 1..Len(s) : i < j => f[i] < f[j]
  BY ONLY <1>6, <1>7, <1>8
<1>10. Within(s, r \o b)
  BY ONLY <1>8, <1>9 DEF Within
<1> QED
  BY ONLY <1>10 DEF s

LEMMA HandDrops ==
  ASSUME NEW S, NEW r \in Seq(S), NEW b \in Seq(S), b # <<>>
  PROVE  Within(r \o Tail(b), r \o b)
<1> DEFINE q == Tail(b)
           s == r \o q
           f == [i \in 1..Len(s) |-> IF i <= Len(r) THEN i ELSE i + 1]
<1>1. /\ q \in Seq(S) /\ Len(b) \in Nat /\ Len(b) >= 1 /\ Len(q) = Len(b) - 1 /\ Len(r) \in Nat
      /\ \A i \in 1..Len(q) : i + 1 \in 1..Len(b) /\ q[i] = b[i + 1]
  BY TailMoves
<1> HIDE DEF q
<1>2. /\ Len(s) = Len(r) + Len(q) /\ Len(s) \in Nat
      /\ \A i \in 1..Len(s) :
              \/ i \in 1..Len(r) /\ s[i] = r[i]
              \/ i - Len(r) \in 1..Len(q) /\ s[i] = q[i - Len(r)]
  BY <1>1, HandIs
<1>3. /\ Len(r \o b) = Len(r) + Len(b)
      /\ \A i \in 1..Len(r) : (r \o b)[i] = r[i]
      /\ \A i \in 1..Len(b) : (r \o b)[i + Len(r)] = b[i]
  BY HandIs
<1>4. f \in [1..Len(s) -> Int] /\ \A i \in 1..Len(s) : f[i] = IF i <= Len(r) THEN i ELSE i + 1
  BY <1>2
<1>5. \A i, j \in 1..Len(s) : i < j => f[i] < f[j]
  BY <1>1, <1>2, <1>4
<1> HIDE DEF s, f
<1>6. ASSUME NEW i \in 1..Len(s)
      PROVE  f[i] \in 1..Len(r \o b) /\ s[i] = (r \o b)[f[i]]
  <2>1. CASE i \in 1..Len(r) /\ s[i] = r[i]
    BY <1>1, <1>3, <1>4, <2>1
  <2>2. CASE i - Len(r) \in 1..Len(q) /\ s[i] = q[i - Len(r)]
    <3>5. i \in Int
      BY <1>2
    <3>6. ~(i <= Len(r))
      BY <1>1, <2>2, <3>5
    <3>1. f[i] = i + 1 /\ i \in Int
      BY <1>4, <3>5, <3>6
    <3>2. s[i] = b[(i - Len(r)) + 1] /\ (i - Len(r)) + 1 \in 1..Len(b)
      BY <1>1, <2>2
    <3>3. (r \o b)[(i - Len(r)) + 1 + Len(r)] = b[(i - Len(r)) + 1]
      BY <1>3, <3>2
    <3>4. (i - Len(r)) + 1 + Len(r) = i + 1
      BY <1>1, <3>1
    <3> QED
      BY <1>1, <1>2, <1>3, <3>1, <3>2, <3>3, <3>4
  <2> QED
    BY <1>2, <2>1, <2>2
<1> QED
  BY <1>4, <1>5, <1>6 DEF Within, s, q

LEMMA HandPasses ==
  ASSUME NEW S, NEW r \in Seq(S), r # <<>>
  PROVE  Within(Tail(r) \o <<>>, r \o <<>>)
<1> DEFINE s == Tail(r) \o <<>>
           f == [i \in 1..Len(s) |-> i + 1]
<1>1. /\ Tail(r) \in Seq(S) /\ Len(r) \in Nat
      /\ \A i \in 1..Len(Tail(r)) : i + 1 \in 1..Len(r) /\ Tail(r)[i] = r[i + 1]
  BY TailMoves
<1>2. s = Tail(r) /\ r \o <<>> = r
  BY <1>1
<1>3. f \in [1..Len(s) -> Int] /\ \A i \in 1..Len(s) : f[i] = i + 1
  <2>1. Len(s) \in Nat
    BY <1>1, <1>2
  <2> QED
    BY <2>1
<1>4. \A i, j \in 1..Len(s) : i < j => f[i] < f[j]
  BY <1>1, <1>2, <1>3
<1>5. \A i \in 1..Len(s) : f[i] \in 1..Len(r \o <<>>) /\ s[i] = (r \o <<>>)[f[i]]
  BY <1>1, <1>2, <1>3
<1> HIDE DEF s, f
<1> QED
  BY <1>3, <1>4, <1>5 DEF Within, s

LEMMA OrderInit == Init => OrderInv
<1> SUFFICES ASSUME Init PROVE OrderInv
  OBVIOUS
<1>1. cq = <<>> /\ sends = {} /\ sent = [m \in 1..Bound.message |-> <<>>]
  BY DEF Init
<1>2. ASSUME NEW t \in Threads
      PROVE  Hand(t) = <<>>
  BY DEF Init, Hand
<1>3. InOrder(<<>>) /\ Messages(<<>>) = {}
  BY DEF InOrder, Messages
<1> QED
  BY <1>1, <1>2, <1>3 DEF OrderInv

\* What lists and hands are made of.
LEMMA HandEvents ==
  ASSUME TypeInv
  PROVE  /\ cq \in Seq(Event)
         /\ \A t \in Threads : Hand(t) \in Seq(Event) /\ Messages(Hand(t)) \subseteq 1..Len(received)
         /\ Messages(cq) \subseteq 1..Len(received)
<1>1. /\ cq \in Seq(Event) /\ batch \in [Threads -> Seq(Event)]
      /\ results \in [Threads -> Seq(Event)]
  BY DEF TypeInv, Types
<1>2. ASSUME NEW s \in Seq(Event)
      PROVE  Messages(s) \subseteq 1..Len(received)
  <2>1. \A i \in 1..Len(s) : s[i] \in Event
    OBVIOUS
  <2> QED
    BY <2>1 DEF Messages, Event
<1>3. ASSUME NEW t \in Threads
      PROVE  Hand(t) \in Seq(Event)
  <2>1. batch[t] \in Seq(Event) /\ results[t] \in Seq(Event)
    BY <1>1
  <2> QED
    BY <2>1, HandIs DEF Hand
<1> QED
  BY <1>1, <1>2, <1>3

LEMMA OrderFrame ==
  ASSUME OrderInv, UNCHANGED <<received, sent>>, sends' \subseteq sends,
         Within(cq', cq), \A u \in Threads : Within(Hand(u)', Hand(u))
  PROVE  OrderInv'
<1>1. Messages(cq') \subseteq Messages(cq) /\ (Ordered(cq, received) => Ordered(cq', received))
  BY WithinOrdered
<1>2. ASSUME NEW u \in Threads
      PROVE  /\ Messages(Hand(u)') \subseteq Messages(Hand(u))
             /\ Ordered(Hand(u), received) => Ordered(Hand(u)', received)
  BY WithinOrdered
<1>3. InOrder(cq) /\ \A t \in Threads : InOrder(Hand(t))
  BY DEF OrderInv
<1>4. InOrder(cq)'
  BY <1>1, <1>3 DEF InOrder, Ordered
<1>5. ASSUME NEW t \in Threads
      PROVE  InOrder(Hand(t))'
  <2>1. Ordered(Hand(t), received)
    BY <1>3 DEF InOrder, Ordered
  <2>2. Ordered(Hand(t)', received)
    BY <1>2, <2>1
  <2> QED
    BY <2>2 DEF InOrder, Ordered
<1>6. Messages(cq)' = Messages(cq') /\ \A u \in Threads : Messages(Hand(u))' = Messages(Hand(u)')
  BY DEF Messages
<1>7. /\ \A m \in Messages(cq)', n \in 1..Len(received) :
           received[n] = received[m]
             /\ (sent[n] # <<>> \/ \E t \in Threads : n \in Messages(Hand(t))')
             => n < m
      /\ \A t, u \in Threads : t # u => Messages(Hand(t))' \cap Messages(Hand(u))' = {}
      /\ \A t \in Threads : \A m \in Messages(Hand(t))' : sent[m] = <<>>
  BY <1>1, <1>2, <1>6 DEF OrderInv
<1>8. /\ \A m \in 1..Bound.message : m > Len(received') => sent'[m] = <<>>
      /\ \A r \in sends' : sent'[r.msg] # <<>>
  BY DEF OrderInv
<1> QED
  BY <1>4, <1>5, <1>7, <1>8 DEF OrderInv

\* Adding what is not a message.
LEMMA WithinAppend ==
  ASSUME NEW S, NEW s \in Seq(S), NEW e \in S, ~Message(e)
  PROVE  Within(Append(s, e), s)
<1> DEFINE a == Append(s, e)
           f == [i \in 1..Len(a) |-> i]
<1>1. /\ Len(s) \in Nat /\ Len(a) = Len(s) + 1 /\ a[Len(s) + 1] = e
      /\ \A i \in 1..Len(s) : a[i] = s[i]
  OBVIOUS
<1>2. f \in [1..Len(a) -> Int] /\ \A i \in 1..Len(a) : f[i] = i
  BY <1>1
<1>3. \A i \in 1..Len(a) : i \in 1..Len(s) \/ i = Len(s) + 1
  BY <1>1
<1> HIDE DEF a, f
<1>4. \A i \in 1..Len(a) : Message(a[i]) => i \in 1..Len(s) /\ a[i] = s[i]
  BY <1>1, <1>3
<1> QED
  BY <1>2, <1>4 DEF Within, a

\* Steps in which no message moves but within, or out of, one worker's hands.
LEMMA OrderHand ==
  ASSUME TypeInv, OrderInv, NEW t \in Threads, UNCHANGED <<cq, received, sent>>,
         sends' \subseteq sends,
         \A u \in Threads \ {t} : batch'[u] = batch[u] /\ results'[u] = results[u],
         \/ batch'[t] = batch[t] /\ results'[t] = results[t]
         \/ /\ batch[t] # <<>> /\ batch'[t] = Tail(batch[t])
            /\ results'[t] \in {results[t], Append(results[t], Head(batch[t]))}
         \/ /\ results[t] # <<>> /\ batch[t] = <<>>
            /\ batch'[t] = batch[t] /\ results'[t] = Tail(results[t])
  PROVE  OrderInv'
<1>1. /\ cq \in Seq(Event) /\ batch[t] \in Seq(Event) /\ results[t] \in Seq(Event)
      /\ \A u \in Threads : Hand(u) \in Seq(Event)
  BY HandEvents DEF TypeInv, Types
<1>2. Within(cq', cq)
  BY <1>1, WithinSame
<1>3. ASSUME NEW u \in Threads, Hand(u)' = Hand(u)
      PROVE  Within(Hand(u)', Hand(u))
  <2>1. Len(Hand(u)) \in Nat
    BY <1>1
  <2> QED
    BY <1>3, <2>1, WithinSame
<1>4. ASSUME NEW u \in Threads, u # t
      PROVE  Hand(u)' = Hand(u)
  BY <1>4 DEF Hand
<1>5. Within(Hand(t)', Hand(t))
  <2>1. CASE batch'[t] = batch[t] /\ results'[t] = results[t]
    <3>1. Hand(t)' = Hand(t)
      BY <2>1 DEF Hand
    <3> QED
      BY <1>3, <3>1
  <2>2. CASE /\ batch[t] # <<>> /\ batch'[t] = Tail(batch[t])
             /\ results'[t] = results[t]
    BY <1>1, <2>2, HandDrops DEF Hand
  <2>3. CASE /\ batch[t] # <<>> /\ batch'[t] = Tail(batch[t])
             /\ results'[t] = Append(results[t], Head(batch[t]))
    BY <1>1, <2>3, HandKeeps DEF Hand
  <2>4. CASE /\ results[t] # <<>> /\ batch[t] = <<>>
             /\ batch'[t] = batch[t] /\ results'[t] = Tail(results[t])
    BY <1>1, <2>4, HandPasses DEF Hand
  <2> QED
    BY <2>1, <2>2, <2>3, <2>4
<1>6. \A u \in Threads : Within(Hand(u)', Hand(u))
  BY <1>3, <1>4, <1>5
<1> QED
  BY <1>2, <1>6, OrderFrame

LEMMA OrderWorker ==
  ASSUME TypeInv, OrderInv, NEW t \in Threads,
         \/ RIONotify(t) \/ GetQueuedCompletionStatus(t) \/ Keep(t) \/ Close(t) \/ Erase(t)
         \/ Receive(t) \/ FreeBuffer(t) \/ SendDropped(t) \/ AddEntry(t) \/ InitialReceive(t)
         \/ ResetAcceptCall(t)
  PROVE  OrderInv'
<1>1. /\ batch \in [Threads -> Seq(Event)] /\ results \in [Threads -> Seq(Event)] /\ Place(t)
  BY DEF TypeInv, Types
<1>2. UNCHANGED <<cq, received, sent, sends>>
  BY DEF RIONotify, GetQueuedCompletionStatus, Keep, Close, Erase, Receive, FreeBuffer,
         SendDropped, AddEntry, InitialReceive, ResetAcceptCall, requests, history
<1>3. CASE RIONotify(t) \/ GetQueuedCompletionStatus(t) \/ Receive(t) \/ AddEntry(t)
           \/ InitialReceive(t) \/ ResetAcceptCall(t)
  <2>1. batch' = batch /\ results' = results
    BY <1>3 DEF RIONotify, GetQueuedCompletionStatus, Receive, AddEntry, InitialReceive,
                ResetAcceptCall, holding
  <2> QED
    BY <1>2, <2>1, OrderHand
<1>4. CASE Keep(t) \/ Close(t) \/ Erase(t)
  <2>1. batch[t] # <<>>
    BY <1>1, <1>4 DEF Keep, Close, Erase, AtResult, Place
  <2>2. /\ batch' = batch \/ batch' = [batch EXCEPT ![t] = Tail(@)]
        /\ results' = results
           \/ (results' = [results EXCEPT ![t] = Append(@, Head(batch[t]))]
               /\ batch' = [batch EXCEPT ![t] = Tail(@)])
    BY <1>4 DEF Keep, Close, Erase, NextOfBatch
  <2>3. /\ \A u \in Threads \ {t} : batch'[u] = batch[u] /\ results'[u] = results[u]
        /\ \/ batch'[t] = batch[t] /\ results'[t] = results[t]
           \/ /\ batch'[t] = Tail(batch[t])
              /\ results'[t] \in {results[t], Append(results[t], Head(batch[t]))}
    BY <1>1, <2>2
  <2> QED
    BY <1>2, <2>1, <2>3, OrderHand
<1>5. CASE FreeBuffer(t) \/ SendDropped(t)
  <2>1. /\ batch' = batch /\ results' = [results EXCEPT ![t] = Tail(@)]
        /\ results[t] # <<>> /\ batch[t] = <<>>
    BY <1>1, <1>5 DEF FreeBuffer, SendDropped, NextResult, AtInstruction, Place
  <2>2. /\ \A u \in Threads \ {t} : batch'[u] = batch[u] /\ results'[u] = results[u]
        /\ batch'[t] = batch[t] /\ results'[t] = Tail(results[t])
    BY <1>1, <2>1
  <2> QED
    BY <1>2, <2>1, <2>2, OrderHand
<1> QED
  BY <1>3, <1>4, <1>5

\* What happens outside, but for arrivals.
LEMMA OrderOutside ==
  ASSUME TypeInv, OrderInv, UNCHANGED <<batch, results, received, sent>>, sends' \subseteq sends,
         cq' = cq \/ \E e \in Event : ~Message(e) /\ cq' = Append(cq, e)
  PROVE  OrderInv'
<1>1. cq \in Seq(Event) /\ \A u \in Threads : Hand(u) \in Seq(Event)
  BY HandEvents
<1>2. Within(cq', cq)
  <2>1. CASE cq' = cq
    <3>1. Len(cq) \in Nat
      BY <1>1
    <3> QED
      BY <2>1, <3>1, WithinSame
  <2>2. ASSUME NEW e \in Event, ~Message(e), cq' = Append(cq, e)
        PROVE  Within(cq', cq)
    BY <1>1, <2>2, WithinAppend
  <2> QED
    BY <2>1, <2>2
<1>3. ASSUME NEW u \in Threads
      PROVE  Within(Hand(u)', Hand(u))
  <2>1. Hand(u)' = Hand(u)
    BY DEF Hand
  <2>2. Len(Hand(u)) \in Nat
    BY <1>1
  <2> QED
    BY <2>1, <2>2, WithinSame
<1> QED
  BY <1>2, <1>3, OrderFrame

LEMMA OrderSend ==
  ASSUME TypeInv, OrderInv, NEW t \in Threads, Send(t)
  PROVE  OrderInv' /\ sent[Head(results[t]).msg] = <<>>
<1> DEFINE m == Head(results[t]).msg
<1>1. /\ results[t] \in Seq(Event) /\ results[t] # <<>> /\ batch[t] = <<>>
      /\ Head(results[t]) = results[t][1] /\ Message(results[t][1])
      /\ m \in 1..Len(received) /\ m \in 1..Bound.message
  BY AtSend DEF Send
<1>2. PICK c \in socketList \cap open : /\ sends' = sends \cup {[msg |-> m, to |-> c]}
                                        /\ sent' = [sent EXCEPT ![m] = Append(@, c)]
  BY DEF Send
<1>3. /\ results' = [results EXCEPT ![t] = Tail(@)] /\ batch' = batch
      /\ UNCHANGED <<cq, received>>
  BY DEF Send, NextResult
<1>4. /\ sent \in [1..Bound.message -> Seq(Connections)] /\ c \in Connections
      /\ results \in [Threads -> Seq(Event)]
  BY <1>2 DEF TypeInv, Types
<1>5. /\ Hand(t) = results[t] /\ Hand(t)' = Tail(results[t])
      /\ \A u \in Threads \ {t} : Hand(u)' = Hand(u)
  <2>1. results'[t] = Tail(results[t]) /\ Tail(results[t]) \in Seq(Event)
    BY <1>1, <1>3, <1>4
  <2>2. results[t] \o <<>> = results[t] /\ Tail(results[t]) \o <<>> = Tail(results[t])
    BY <1>1, <2>1
  <2>3. \A u \in Threads \ {t} : Hand(u)' = Hand(u)
    BY <1>3, <1>4 DEF Hand
  <2> QED
    BY <1>1, <1>3, <2>1, <2>2, <2>3 DEF Hand
<1>6. /\ \A i \in 1..Len(Tail(results[t])) :
           i + 1 \in 1..Len(results[t]) /\ Tail(results[t])[i] = results[t][i + 1] /\ i + 1 # 1
      /\ 1 \in 1..Len(results[t])
  <2>1. /\ \A i \in 1..Len(Tail(results[t])) :
             i + 1 \in 1..Len(results[t]) /\ Tail(results[t])[i] = results[t][i + 1]
        /\ Len(results[t]) \in Nat /\ Len(results[t]) >= 1
    BY <1>1, TailMoves
  <2>2. \A i \in 1..Len(Tail(results[t])) : i + 1 # 1
    OBVIOUS
  <2> QED
    BY <2>1, <2>2
<1>7. Ordered(results[t], received)
  BY <1>5 DEF OrderInv, InOrder, Ordered
<1>8. m \in Messages(Hand(t))
  BY <1>1, <1>5, <1>6, MessagesOf
<1>9. Within(Tail(results[t]), results[t])
  <2>1. Tail(results[t]) \in Seq(Event)
    BY <1>1
  <2>2. Tail(results[t]) \o <<>> = Tail(results[t]) /\ results[t] \o <<>> = results[t]
    BY <1>1, <2>1
  <2>3. Within(Tail(results[t]) \o <<>>, results[t] \o <<>>)
    BY <1>1, HandPasses
  <2> QED
    BY <2>2, <2>3
<1>10. /\ Messages(Tail(results[t])) \subseteq Messages(results[t])
       /\ Ordered(Tail(results[t]), received)
  BY <1>7, <1>9, WithinOrdered
<1>11. m \notin Messages(Tail(results[t]))
  <2>1. ASSUME NEW i \in 1..Len(Tail(results[t])), Message(Tail(results[t])[i]),
               Tail(results[t])[i].msg = m
        PROVE  FALSE
    <3>1. i + 1 \in 1..Len(results[t]) /\ Tail(results[t])[i] = results[t][i + 1] /\ i + 1 # 1
      BY <1>6
    <3>2. Message(results[t][i + 1]) /\ results[t][i + 1].msg = results[t][1].msg
      BY <1>1, <2>1, <3>1
    <3>3. i + 1 = 1
      BY <1>1, <1>6, <1>7, <3>1, <3>2, OrderedOnce
    <3> QED
      BY <3>1, <3>3
  <2> QED
    BY <2>1, MessagesOf
<1>12. sent[m] = <<>>
  BY <1>8 DEF OrderInv
<1>13. sent'[m] = <<c>> /\ sent'[m] # <<>> /\ \A n \in 1..Bound.message : n # m => sent'[n] = sent[n]
  <2>1. sent'[m] = Append(<<>>, c)
    BY <1>1, <1>2, <1>4, <1>12
  <2>2. Append(<<>>, c) = <<c>> /\ <<c>> # <<>>
    OBVIOUS
  <2> QED
    BY <1>2, <1>4, <2>1, <2>2
<1> HIDE DEF m
<1>14. \A u \in Threads : Messages(Hand(u))' \subseteq Messages(Hand(u)) /\ m \notin Messages(Hand(u))'
  <2>1. ASSUME NEW u \in Threads, u # t
        PROVE  Messages(Hand(u))' = Messages(Hand(u)) /\ m \notin Messages(Hand(u))
    <3>1. Messages(Hand(u))' = Messages(Hand(u))
      BY <1>5, <2>1 DEF Messages
    <3>2. m \notin Messages(Hand(u))
      BY <1>8, <2>1 DEF OrderInv
    <3> QED
      BY <3>1, <3>2
  <2>2. Messages(Hand(t))' = Messages(Tail(results[t]))
    BY <1>5 DEF Messages
  <2> QED
    BY <1>5, <1>10, <1>11, <2>1, <2>2
<1>15. \A u \in Threads : InOrder(Hand(u))'
  <2>1. ASSUME NEW u \in Threads, u # t
        PROVE  InOrder(Hand(u))'
    <3>1. InOrder(Hand(u))
      BY DEF OrderInv
    <3> QED
      BY <1>3, <1>5, <2>1, <3>1 DEF InOrder
  <2>2. InOrder(Hand(t))'
    BY <1>3, <1>5, <1>10 DEF InOrder, Ordered
  <2> QED
    BY <2>1, <2>2
<1>16. InOrder(cq)' /\ Messages(cq)' = Messages(cq)
  BY <1>3 DEF OrderInv, InOrder, Messages
<1>17. \A u \in Threads : Messages(Hand(u)) \subseteq 1..Len(received)
  BY HandEvents
<1>18. 1..Len(received) \subseteq 1..Bound.message
  BY DEF TypeInv, Types
<1>19. \A k \in Messages(cq)', n \in 1..Len(received') :
         received'[n] = received'[k]
           /\ (sent'[n] # <<>> \/ \E u \in Threads : n \in Messages(Hand(u))')
           => n < k
  <2>1. ASSUME NEW n \in 1..Len(received), sent'[n] # <<>>
        PROVE  sent[n] # <<>> \/ n \in Messages(Hand(t))
    <3>1. CASE n = m
      BY <1>8, <3>1
    <3>2. CASE n # m
      BY <1>13, <1>18, <2>1, <3>2
    <3> QED
      BY <3>1, <3>2
  <2> QED
    BY <1>3, <1>14, <1>16, <2>1 DEF OrderInv
<1>20. \A u, w \in Threads : u # w => Messages(Hand(u))' \cap Messages(Hand(w))' = {}
  BY <1>14 DEF OrderInv
<1>21. \A u \in Threads : \A n \in Messages(Hand(u))' : sent'[n] = <<>>
  <2>1. ASSUME NEW u \in Threads, NEW n \in Messages(Hand(u))'
        PROVE  sent'[n] = <<>>
    <3>1. n \in Messages(Hand(u)) /\ n # m /\ n \in 1..Bound.message
      BY <1>14, <1>17, <1>18, <2>1
    <3>2. sent[n] = <<>>
      BY <3>1 DEF OrderInv
    <3> QED
      BY <1>13, <3>1, <3>2
  <2> QED
    BY <2>1
<1>22. \A n \in 1..Bound.message : n > Len(received') => sent'[n] = <<>>
  <2>1. ASSUME NEW n \in 1..Bound.message, n > Len(received)
        PROVE  n # m
    BY <1>1, <2>1
  <2> QED
    BY <1>3, <1>13, <2>1 DEF OrderInv
<1>23. \A r \in sends' : sent'[r.msg] # <<>>
  <2>1. ASSUME NEW r \in sends
        PROVE  sent'[r.msg] # <<>>
    <3>1. sent[r.msg] # <<>> /\ r.msg \in 1..Bound.message
      BY <1>18, <2>1 DEF OrderInv, TypeInv, Types
    <3>2. r.msg # m
      BY <1>12, <3>1
    <3> QED
      BY <1>13, <3>1, <3>2
  <2>2. [msg |-> m, to |-> c].msg = m
    OBVIOUS
  <2> QED
    BY <1>2, <1>13, <2>1, <2>2
<1>24. OrderInv'
  BY <1>15, <1>16, <1>19, <1>20, <1>21, <1>22, <1>23 DEF OrderInv
<1> QED
  BY <1>12, <1>24 DEF m

LEMMA CutIs ==
  ASSUME NEW S, NEW s \in Seq(S), NEW n \in 0..Len(s)
  PROVE  /\ SubSeq(s, 1, n) \in Seq(S) /\ SubSeq(s, n + 1, Len(s)) \in Seq(S)
         /\ Len(SubSeq(s, 1, n)) = n /\ Len(SubSeq(s, n + 1, Len(s))) = Len(s) - n
         /\ \A i \in 1..n : i \in 1..Len(s) /\ SubSeq(s, 1, n)[i] = s[i]
         /\ \A i \in 1..(Len(s) - n) :
              i + n \in 1..Len(s) /\ SubSeq(s, n + 1, Len(s))[i] = s[i + n]
<1>1. /\ SubSeq(s, 1, n) \in Seq(S) /\ SubSeq(s, n + 1, Len(s)) \in Seq(S)
      /\ Len(SubSeq(s, 1, n)) = n /\ Len(SubSeq(s, n + 1, Len(s))) = Len(s) - n
      /\ \A i \in 1..n : SubSeq(s, 1, n)[i] = s[i]
      /\ \A i \in 1..(Len(s) - n) : SubSeq(s, n + 1, Len(s))[i] = s[i + n]
      /\ Len(s) \in Nat
  OBVIOUS
<1>2. /\ \A i \in 1..n : i \in 1..Len(s)
      /\ \A i \in 1..(Len(s) - n) : i + n \in 1..Len(s)
  BY <1>1
<1> QED
  BY <1>1, <1>2

LEMMA CutWithin ==
  ASSUME NEW S, NEW s \in Seq(S), NEW n \in 0..Len(s)
  PROVE  Within(SubSeq(s, 1, n), s) /\ Within(SubSeq(s, n + 1, Len(s)), s)
<1> DEFINE a == SubSeq(s, 1, n)
           b == SubSeq(s, n + 1, Len(s))
           f == [i \in 1..Len(a) |-> i]
           g == [i \in 1..Len(b) |-> i + n]
<1>1. /\ Len(a) = n /\ Len(b) = Len(s) - n /\ Len(s) \in Nat /\ n \in Nat
      /\ \A i \in 1..n : i \in 1..Len(s) /\ a[i] = s[i]
      /\ \A i \in 1..(Len(s) - n) : i + n \in 1..Len(s) /\ b[i] = s[i + n]
  BY CutIs
<1> HIDE DEF a, b
<1>2. f \in [1..Len(a) -> Int] /\ \A i \in 1..Len(a) : f[i] = i
  BY <1>1
<1>3. g \in [1..Len(b) -> Int] /\ \A i \in 1..Len(b) : g[i] = i + n
  BY <1>1
<1>4. \A i, j \in 1..Len(b) : i < j => g[i] < g[j]
  BY <1>1, <1>3
<1>7. \A i \in 1..Len(b) : g[i] \in 1..Len(s) /\ b[i] = s[g[i]]
  BY <1>1, <1>3
<1> HIDE DEF f, g
<1>5. Within(a, s)
  BY <1>1, <1>2 DEF Within
<1>6. Within(b, s)
  BY <1>3, <1>4, <1>7 DEF Within
<1> QED
  BY <1>5, <1>6 DEF a, b

\* What comes first in an ordered list is earlier than what comes later of the same sender.
LEMMA CutOrdered ==
  ASSUME NEW S, NEW s \in Seq(S), NEW n \in 0..Len(s), NEW from, Ordered(s, from),
         NEW k \in Messages(SubSeq(s, 1, n)), NEW m \in Messages(SubSeq(s, n + 1, Len(s))),
         from[k] = from[m]
  PROVE  k < m
<1> DEFINE a == SubSeq(s, 1, n)
           b == SubSeq(s, n + 1, Len(s))
<1>1. /\ Len(a) = n /\ Len(b) = Len(s) - n /\ Len(s) \in Nat /\ n \in Nat
      /\ \A i \in 1..n : i \in 1..Len(s) /\ a[i] = s[i]
      /\ \A i \in 1..(Len(s) - n) : i + n \in 1..Len(s) /\ b[i] = s[i + n]
  BY CutIs
<1> HIDE DEF a, b
<1>2. PICK i \in 1..Len(a) : Message(a[i]) /\ a[i].msg = k
  BY MessagesOf DEF a
<1>3. PICK j \in 1..Len(b) : Message(b[j]) /\ b[j].msg = m
  BY MessagesOf DEF b
<1>4. i \in 1..Len(s) /\ a[i] = s[i] /\ j + n \in 1..Len(s) /\ b[j] = s[j + n] /\ i < j + n
  BY <1>1
<1> QED
  BY <1>2, <1>3, <1>4 DEF Ordered

LEMMA OrderDequeue ==
  ASSUME TypeInv, OrderInv, NEW t \in Threads, Dequeue(t)
  PROVE  OrderInv'
<1>1. PICK n \in 0..Len(cq) : /\ cq' = SubSeq(cq, n + 1, Len(cq))
                              /\ batch' = [batch EXCEPT ![t] = SubSeq(cq, 1, n)]
  BY DequeueCuts
<1>2. /\ cq \in Seq(Event) /\ batch \in [Threads -> Seq(Event)] /\ batch[t] = <<>> /\ results[t] = <<>>
      /\ UNCHANGED <<results, received, sent, sends>>
  BY DEF TypeInv, Types, Place, Dequeue, requests, history
<1>3. Hand(t) = <<>> /\ Hand(t)' = SubSeq(cq, 1, n) /\ \A u \in Threads \ {t} : Hand(u)' = Hand(u)
  <2>1. batch'[t] = SubSeq(cq, 1, n) /\ \A u \in Threads \ {t} : batch'[u] = batch[u]
    BY <1>1, <1>2
  <2>2. SubSeq(cq, 1, n) \in Seq(Event)
    BY <1>2, CutIs
  <2>3. <<>> \o SubSeq(cq, 1, n) = SubSeq(cq, 1, n) /\ <<>> \o <<>> = <<>>
    BY <2>2
  <2> QED
    BY <1>2, <2>1, <2>3 DEF Hand
<1>4. Ordered(cq, received) /\ Messages(cq) \subseteq 1..Len(received)
  BY HandEvents DEF OrderInv, InOrder, Ordered
<1> DEFINE a == SubSeq(cq, 1, n)
<1>5. /\ Messages(a) \subseteq Messages(cq) /\ Ordered(a, received)
      /\ Messages(cq') \subseteq Messages(cq) /\ Ordered(cq', received)
  BY <1>1, <1>2, <1>4, CutWithin, WithinOrdered
<1>6. \A k \in Messages(a), m \in Messages(cq') : received[k] = received[m] => k < m
  BY <1>1, <1>2, <1>4, CutOrdered
<1> HIDE DEF a
<1>7. /\ Messages(cq)' = Messages(cq') /\ Messages(Hand(t))' = Messages(a)
      /\ \A u \in Threads \ {t} : Messages(Hand(u))' = Messages(Hand(u))
  BY <1>3 DEF Messages, a
<1>8. \A k \in Messages(cq), u \in Threads : k \notin Messages(Hand(u)) /\ sent[k] = <<>>
  <2>1. ASSUME NEW k \in Messages(cq)
        PROVE  k \in 1..Len(received) /\ ~(k < k)
    BY <1>4
  <2> QED
    BY <2>1 DEF OrderInv
<1>9. \A u \in Threads : InOrder(Hand(u))'
  <2>1. ASSUME NEW u \in Threads, u # t
        PROVE  InOrder(Hand(u))'
    <3>1. InOrder(Hand(u))
      BY DEF OrderInv
    <3> QED
      BY <1>2, <1>3, <2>1, <3>1 DEF InOrder
  <2>2. InOrder(Hand(t))'
    BY <1>2, <1>3, <1>5 DEF InOrder, Ordered, a
  <2> QED
    BY <2>1, <2>2
<1>10. InOrder(cq)'
  BY <1>2, <1>5 DEF InOrder, Ordered
<1>11. \A m \in Messages(cq)', k \in 1..Len(received') :
         received'[k] = received'[m]
           /\ (sent'[k] # <<>> \/ \E u \in Threads : k \in Messages(Hand(u))')
           => k < m
  <2>1. ASSUME NEW m \in Messages(cq'), NEW k \in 1..Len(received), received[k] = received[m],
               sent[k] # <<>> \/ \E u \in Threads : k \in Messages(Hand(u))'
        PROVE  k < m
    <3>1. CASE sent[k] # <<>> \/ \E u \in Threads : k \in Messages(Hand(u))
      BY <1>5, <2>1, <3>1 DEF OrderInv
    <3>2. CASE k \in Messages(a)
      BY <1>6, <2>1, <3>2
    <3> QED
      BY <1>7, <2>1, <3>1, <3>2
  <2> QED
    BY <1>2, <1>7, <2>1
<1>12. \A u, w \in Threads : u # w => Messages(Hand(u))' \cap Messages(Hand(w))' = {}
  BY <1>5, <1>7, <1>8 DEF OrderInv
<1>13. \A u \in Threads : \A m \in Messages(Hand(u))' : sent'[m] = <<>>
  BY <1>2, <1>5, <1>7, <1>8 DEF OrderInv
<1>14. /\ \A m \in 1..Bound.message : m > Len(received') => sent'[m] = <<>>
       /\ \A r \in sends' : sent'[r.msg] # <<>>
  BY <1>2 DEF OrderInv
<1> QED
  BY <1>9, <1>10, <1>11, <1>12, <1>13, <1>14 DEF OrderInv

\* A message that arrives is the latest of all.
LEMMA OrderArrives ==
  ASSUME TypeInv, OrderInv, NEW c \in Connections, Arrives(c)
  PROVE  OrderInv'
<1> DEFINE new == Len(received) + 1
           e   == [kind |-> "receive", conn |-> c, msg |-> new, ok |-> TRUE]
<1>1. /\ cq' = Append(cq, e) /\ received' = Append(received, c) /\ received \in Seq(Known)
      /\ Len(received') = new /\ Len(received) \in Nat
      /\ 1..Len(received') \subseteq 1..Bound.message
  BY ArrivesEvent
<1>2. /\ UNCHANGED <<batch, results, sent, sends>>
      /\ cq \in Seq(Event) /\ \A u \in Threads : Hand(u) \in Seq(Event)
  BY HandEvents DEF Arrives, Complete, holding
<1>3. /\ \A u \in Threads : Messages(Hand(u)) \subseteq 1..Len(received)
      /\ Messages(cq) \subseteq 1..Len(received)
  BY HandEvents
<1>4. \A u \in Threads : Hand(u)' = Hand(u) /\ Messages(Hand(u))' = Messages(Hand(u))
  BY <1>2 DEF Hand, Messages
<1>5. /\ \A n \in 1..Len(received) : received'[n] = received[n]
      /\ \A n \in 1..Len(received') : n \in 1..Len(received) \/ n = new
      /\ \A n \in 1..Len(received) : n < new
  BY <1>1
<1>6. sent[new] = <<>>
  <2>1. new \in 1..Bound.message /\ new > Len(received)
    BY <1>1
  <2> QED
    BY <2>1 DEF OrderInv
<1>7. Message(e) /\ e.msg = new
  BY DEF Message
<1>8. /\ Len(cq) \in Nat /\ Len(cq') = Len(cq) + 1 /\ cq'[Len(cq) + 1] = e
      /\ \A i \in 1..Len(cq) : cq'[i] = cq[i]
      /\ \A i \in 1..Len(cq') : i \in 1..Len(cq) \/ i = Len(cq) + 1
  <2>1. Len(cq) \in Nat
    BY <1>2
  <2> HIDE DEF e
  <2>2. /\ Len(cq') = Len(cq) + 1 /\ cq'[Len(cq) + 1] = e
        /\ \A i \in 1..Len(cq) : cq'[i] = cq[i]
    BY <1>1, <1>2
  <2> QED
    BY <2>1, <2>2
<1> HIDE DEF e, new
<1>9. Messages(cq') \subseteq Messages(cq) \cup {new}
  BY <1>7, <1>8 DEF Messages
<1>10. \A u \in Threads : InOrder(Hand(u))'
  <2>1. ASSUME NEW u \in Threads
        PROVE  InOrder(Hand(u))'
    <3>1. InOrder(Hand(u))
      BY DEF OrderInv
    <3>2. \A i \in 1..Len(Hand(u)) :
            Message(Hand(u)[i]) => received'[Hand(u)[i].msg] = received[Hand(u)[i].msg]
      BY <1>3, <1>5 DEF Messages
    <3> QED
      BY <1>4, <3>1, <3>2 DEF InOrder
  <2> QED
    BY <2>1
<1>11. InOrder(cq)'
  <2>1. ASSUME NEW i \in 1..Len(cq'), NEW j \in 1..Len(cq'), i < j,
               Message(cq'[i]), Message(cq'[j]), received'[cq'[i].msg] = received'[cq'[j].msg]
        PROVE  cq'[i].msg < cq'[j].msg
    <3>1. i \in 1..Len(cq) /\ cq'[i] = cq[i] /\ cq[i].msg \in 1..Len(received)
      <4>1. i \in 1..Len(cq) /\ cq'[i] = cq[i]
        BY <1>8, <2>1
      <4> QED
        BY <1>3, <2>1, <4>1, MessagesOf
    <3>2. CASE j \in 1..Len(cq)
      <4>1. cq'[j] = cq[j] /\ cq[j].msg \in 1..Len(received)
        BY <1>3, <1>8, <2>1, <3>2, MessagesOf
      <4>2. received[cq[i].msg] = received[cq[j].msg]
        BY <1>5, <2>1, <3>1, <4>1
      <4> QED
        BY <2>1, <3>1, <3>2, <4>1, <4>2 DEF OrderInv, InOrder
    <3>3. CASE j = Len(cq) + 1
      BY <1>5, <1>7, <1>8, <3>1, <3>3
    <3> QED
      BY <1>8, <3>2, <3>3
  <2> QED
    BY <2>1 DEF InOrder
<1>12. \A m \in Messages(cq)', k \in 1..Len(received') :
         received'[k] = received'[m]
           /\ (sent'[k] # <<>> \/ \E u \in Threads : k \in Messages(Hand(u))')
           => k < m
  <2>1. ASSUME NEW m \in Messages(cq'), NEW k \in 1..Len(received'), received'[k] = received'[m],
               sent[k] # <<>> \/ \E u \in Threads : k \in Messages(Hand(u))
        PROVE  k < m
    <3>1. k \in 1..Len(received)
      <4>1. new \notin 1..Len(received)
        BY <1>1 DEF new
      <4> QED
        BY <1>3, <1>5, <1>6, <2>1, <4>1
    <3>2. CASE m \in Messages(cq)
      <4>1. received[k] = received[m]
        BY <1>3, <1>5, <2>1, <3>1, <3>2
      <4> QED
        BY <2>1, <3>1, <3>2, <4>1 DEF OrderInv
    <3>3. CASE m = new
      BY <1>5, <3>1, <3>3
    <3> QED
      BY <1>9, <3>2, <3>3
  <2>2. Messages(cq)' = Messages(cq')
    BY DEF Messages
  <2> QED
    BY <1>2, <1>4, <2>1, <2>2
<1>13. /\ \A u, w \in Threads : u # w => Messages(Hand(u))' \cap Messages(Hand(w))' = {}
       /\ \A u \in Threads : \A m \in Messages(Hand(u))' : sent'[m] = <<>>
       /\ \A r \in sends' : sent'[r.msg] # <<>>
  BY <1>2, <1>4 DEF OrderInv
<1>14. \A m \in 1..Bound.message : m > Len(received') => sent'[m] = <<>>
  <2>1. \A m \in 1..Bound.message : m > Len(received') => m > Len(received)
    BY <1>1, Numbers DEF new
  <2> QED
    BY <1>2, <2>1 DEF OrderInv
<1> QED
  BY <1>10, <1>11, <1>12, <1>13, <1>14 DEF OrderInv

LEMMA OrderNext == TypeInv /\ OrderInv /\ [Next]_vars => OrderInv'
<1> SUFFICES ASSUME TypeInv, OrderInv, [Next]_vars
             PROVE  OrderInv'
  OBVIOUS
<1>1. ASSUME NEW t \in Threads, Worker(t)
      PROVE  OrderInv'
  BY <1>1, OrderWorker, OrderDequeue, OrderSend DEF Worker
<1>2. ASSUME NEW h \in Handles, Connects(h)
      PROVE  OrderInv'
  <2>1. UNCHANGED <<cq, batch, results, received, sent, sends>>
    BY <1>2 DEF Connects, requests, holding, history
  <2> QED
    BY <2>1, OrderOutside
<1>3. ASSUME NEW c \in Connections, ReceiveFails(c)
      PROVE  OrderInv'
  <2>1. UNCHANGED <<batch, results, received, sent, sends>>
    BY <1>3 DEF ReceiveFails, Complete, holding
  <2>2. LET e == [kind |-> "receive", conn |-> c, msg |-> 0, ok |-> FALSE] IN
        e \in Event /\ ~Message(e) /\ cq' = Append(cq, e)
    BY <1>3, ReceiveFailsEvent DEF Message
  <2> QED
    BY <2>1, <2>2, OrderOutside
<1>4. ASSUME NEW r \in sends, NEW ok \in BOOLEAN, SendEnds(r, ok)
      PROVE  OrderInv'
  <2>1. UNCHANGED <<batch, results, received, sent>> /\ sends' \subseteq sends
    BY <1>4 DEF SendEnds, Complete, holding
  <2>2. LET e == [kind |-> "send", conn |-> r.to, msg |-> r.msg, ok |-> ok] IN
        e \in Event /\ ~Message(e) /\ cq' = Append(cq, e)
    BY <1>4, SendEndsEvent DEF Message
  <2> QED
    BY <2>1, <2>2, OrderOutside
<1>5. CASE UNCHANGED vars
  <2>1. UNCHANGED <<cq, batch, results, received, sent, sends>>
    BY <1>5 DEF vars, requests, holding, history
  <2> QED
    BY <2>1, OrderOutside
<1> QED
  BY <1>1, <1>2, <1>3, <1>4, <1>5, OrderArrives DEF Next, Environment, RequestEnds

LEMMA OrderInvariant == Spec => [](TypeInv /\ OrderInv)
<1>1. Init => TypeInv /\ OrderInv
  BY TypeInit, OrderInit
<1>2. TypeInv /\ OrderInv /\ [Next]_vars => (TypeInv /\ OrderInv)'
  BY TypeNext, OrderNext
<1> QED
  BY <1>1, <1>2, PTL DEF Spec

\* Messages of one client stay in order up to where the workers divide them, whatever
\* the sizes of batches, the number of workers and the closings in between: what
\* GetCompletedResults and ProcessInstruction take from the queue is in its order.
THEOREM MessagesSentInOrder == Spec => []SentInOrder
<1>1. OrderInv => SentInOrder
  BY DEF OrderInv, SentInOrder
<1> QED
  BY <1>1, OrderInvariant, PTL

-----------------------------------------------------------------------------
(* The server is a relay.                                                   *)

LEMMA RelayWorker ==
  ASSUME TypeInv, ListInv, OrderInv, NEW t \in Threads, Worker(t)
  PROVE  [Relay!RelayNext]_(Relay!relay)
<1>1. CASE ~Close(t) /\ ~Send(t)
  <2>1. UNCHANGED <<open, received, sent>>
    BY <1>1 DEF Worker, RIONotify, GetQueuedCompletionStatus, Dequeue, Keep, Erase, Receive,
                FreeBuffer, SendDropped, AddEntry, InitialReceive, ResetAcceptCall,
                sockets, history
  <2> QED
    BY <2>1 DEF Relay!relay
<1>2. CASE Close(t)
  <2>1. UNCHANGED <<received, sent>>
    BY <1>2 DEF Close, history
  <2>2. open' = open \/ \E h : Find(h) # {} /\ open' = open \ Find(h) /\ listCS = NoThread
    BY <1>2 DEF Close
  <2>3. ASSUME NEW h, Find(h) # {}, open' = open \ Find(h), listCS = NoThread
        PROVE  Relay!RelayNext
    <3>1. PICK c \in Find(h) : TRUE
      BY <2>3
    <3>2. c \in socketList /\ c \in open /\ c \in Connections
      BY <2>3, <3>1, SectionFree DEF Find, ListInv, TypeInv, Types
    <3>3. Find(h) = {c}
      BY <3>1 DEF Find, ListInv, HandlesInv
    <3>4. Relay!Disconnect(c)
      BY <2>1, <2>3, <3>2, <3>3 DEF Relay!Disconnect
    <3> QED
      BY <3>2, <3>4 DEF Relay!RelayNext
  <2>4. CASE open' = open
    BY <2>1, <2>4 DEF Relay!relay
  <2> QED
    BY <2>2, <2>3, <2>4
<1>3. CASE Send(t)
  <2> DEFINE m == Head(results[t]).msg
  <2>1. /\ sent[m] = <<>> /\ UNCHANGED <<open, received>>
        /\ m \in 1..Len(received) /\ m \in 1..Bound.message
    BY <1>3, OrderSend, AtSend DEF Send, sockets
  <2>2. PICK c \in socketList \cap open : sent' = [sent EXCEPT ![m] = Append(@, c)]
    BY <1>3 DEF Send
  <2>3. c \in Connections /\ sent \in [1..Bound.message -> Seq(Connections)]
    BY <2>2 DEF TypeInv, Types
  <2> HIDE DEF m
  <2>4. sent' = [sent EXCEPT ![m] = <<c>>]
    <3>1. Append(<<>>, c) = <<c>>
      OBVIOUS
    <3> QED
      BY <2>1, <2>2, <2>3, <3>1
  <2>5. Relay!PassOn(m, c)
    BY <2>1, <2>2, <2>4 DEF Relay!PassOn
  <2> QED
    BY <2>1, <2>3, <2>5 DEF Relay!RelayNext
<1> QED
  BY <1>1, <1>2, <1>3

LEMMA RelayStep ==
  TypeInv /\ ListInv /\ OrderInv /\ [Next]_vars => [Relay!RelayNext]_(Relay!relay)
<1> SUFFICES ASSUME TypeInv, ListInv, OrderInv, [Next]_vars
             PROVE  [Relay!RelayNext]_(Relay!relay)
  OBVIOUS
<1>1. ASSUME NEW h \in Handles, Connects(h)
      PROVE  [Relay!RelayNext]_(Relay!relay)
  <2> DEFINE c == Len(handle) + 1
  <2>1. /\ c \in Connections /\ open' = open \cup {c} /\ UNCHANGED <<received, sent>>
    BY <1>1 DEF Connects, history
  <2>2. c \notin open
    <3>1. open \subseteq 1..Len(handle) /\ Len(handle) \in Nat
      BY DEF TypeInv, Types, Known
    <3> QED
      BY <3>1
  <2> HIDE DEF c
  <2>3. Relay!Connect(c)
    BY <2>1, <2>2 DEF Relay!Connect
  <2> QED
    BY <2>1, <2>3 DEF Relay!RelayNext
<1>2. ASSUME NEW c \in Connections, Arrives(c)
      PROVE  [Relay!RelayNext]_(Relay!relay)
  <2>1. Relay!Arrive(c)
    BY <1>2 DEF Arrives, Complete, sockets, Relay!Arrive
  <2> QED
    BY <2>1 DEF Relay!RelayNext
<1>3. ASSUME \/ \E c \in Connections : ReceiveFails(c)
             \/ \E r \in sends, ok \in BOOLEAN : SendEnds(r, ok)
             \/ UNCHANGED vars
      PROVE  [Relay!RelayNext]_(Relay!relay)
  <2>1. UNCHANGED <<open, received, sent>>
    BY <1>3 DEF ReceiveFails, SendEnds, Complete, vars, sockets, history
  <2> QED
    BY <2>1 DEF Relay!relay
<1> QED
  BY <1>1, <1>2, <1>3, RelayWorker DEF Next, Environment, RequestEnds

\* The server implements a relay: whatever batches, closings, reused handles and stuck
\* workers do, no step of it passes a message on twice, or one that has not arrived, or
\* passes one on to a connection that is not there, nor changes what arrived or who is
\* connected otherwise than by an accept, an arrival or a closing.
THEOREM ServerIsRelay == Spec => ImplementsRelay
<1>1. Init => Relay!RelayInit
  BY DEF Init, Relay!RelayInit
<1>2. TypeInv /\ ListInv /\ OrderInv /\ [Next]_vars => [Relay!RelayNext]_(Relay!relay)
  BY RelayStep
<1> QED
  BY <1>1, <1>2, ListInvariant, OrderInvariant, PTL DEF Spec, ImplementsRelay, Relay!RelaySpec

-----------------------------------------------------------------------------
(* Accepts.                                                                 *)

LEMMA JobsFinite == IsFiniteSet({t \in Threads : job[t].conn # 0})
BY ThreadAssumption, FS_Subset

LEMMA AcceptsFrame ==
  ASSUME TypeInv, AcceptsInv, accepts' = accepts,
         iocp' = iocp \/ \E p \in Packet : ~Waiting(p) /\ iocp' = Append(iocp, p),
         \A u \in Threads : job'[u].conn = job[u].conn
  PROVE  AcceptsInv'
<1>1. CountIn(iocp', Accept) = CountIn(iocp, Accept)
  <2>1. ASSUME NEW p \in Packet, ~Waiting(p), iocp' = Append(iocp, p)
        PROVE  CountIn(iocp', Accept) = CountIn(iocp, Accept)
    <3>1. p \notin Accept /\ iocp \in Seq(Packet)
      BY <2>1 DEF Accept, Waiting, TypeInv, Types
    <3>2. CountIn(Append(iocp, p), Accept) = CountIn(iocp, Accept) + 0
      BY <3>1, CountAppend
    <3>3. CountIn(iocp, Accept) \in 0..Len(iocp) /\ Len(iocp) \in Nat
      BY <3>1, PlacesInFinite
    <3> QED
      BY <2>1, <3>2, <3>3
  <2> QED
    BY <2>1
<1>2. {t \in Threads : job'[t].conn # 0} = {t \in Threads : job[t].conn # 0}
  OBVIOUS
<1>3. CountIn(iocp, Accept)' = CountIn(iocp', Accept)
  BY DEF CountIn, PlacesIn, Accept, Connections
<1> QED
  BY <1>1, <1>2, <1>3 DEF AcceptsInv

LEMMA AcceptsInit == Init => AcceptsInv
<1> SUFFICES ASSUME Init PROVE AcceptsInv
  OBVIOUS
<1>1. /\ accepts = MaxAccepts /\ CountIn(iocp, Accept) = 0
      /\ {t \in Threads : job[t].conn # 0} = {} /\ MaxAccepts \in Nat
  BY CountEmpty, Numbers DEF Init, NoJob
<1>2. Cardinality({t \in Threads : job[t].conn # 0}) = 0
  BY <1>1, FS_EmptySet
<1> QED
  BY <1>1, <1>2 DEF AcceptsInv

LEMMA AcceptsGet ==
  ASSUME TypeInv, AcceptsInv, NEW t \in Threads, GetQueuedCompletionStatus(t)
  PROVE  AcceptsInv'
<1> DEFINE J == {u \in Threads : job[u].conn # 0}
<1>1. /\ iocp \in Seq(Packet) /\ iocp # <<>> /\ iocp' = Tail(iocp) /\ accepts' = accepts
      /\ accepts \in Nat /\ job[t] = NoJob
      /\ job \in [Threads -> [conn : 0..Bound.connection, left : 0..MaxReceives]]
  BY DEF GetQueuedCompletionStatus, TypeInv, Types, Place
<1>2. Head(iocp) \in Packet /\ iocp' \in Seq(Packet)
  BY <1>1, TailMoves
<1>3. CountIn(iocp, Accept) = CountIn(iocp', Accept) + (IF Head(iocp) \in Accept THEN 1 ELSE 0)
  BY <1>1, CountTail
<1>4. CountIn(iocp', Accept) \in Nat
  <2>1. CountIn(iocp', Accept) \in 0..Len(iocp') /\ Len(iocp') \in Nat
    BY <1>2, PlacesInFinite
  <2> QED
    BY <2>1
<1>5. Cardinality(J)' = Cardinality(J) + (IF Head(iocp) \in Accept THEN 1 ELSE 0)
  <2>1. CASE Head(iocp).key = "CK_RIO"
    <3>1. Head(iocp) \notin Accept /\ job' = job
      BY <2>1 DEF Accept, GetQueuedCompletionStatus
    <3>2. Cardinality(J) \in Nat
      BY JobsFinite, FS_CardinalityType
    <3> QED
      BY <3>1, <3>2
  <2>2. CASE Head(iocp).key # "CK_RIO"
    <3>1. /\ Head(iocp) \in Accept /\ Head(iocp).conn \in Connections
          /\ job' = [job EXCEPT ![t].conn = Head(iocp).conn]
      BY <1>2, <2>2 DEF Packet, Accept, GetQueuedCompletionStatus
    <3>2. /\ job'[t].conn = Head(iocp).conn /\ Head(iocp).conn # 0 /\ job[t].conn = 0
          /\ \A u \in Threads \ {t} : job'[u] = job[u]
      BY <1>1, <3>1 DEF NoJob, Connections
    <3>3. J' = J \cup {t} /\ t \notin J
      BY <3>2
    <3>4. Cardinality(J \cup {t}) = Cardinality(J) + 1
      BY <3>3, JobsFinite, FS_AddElement
    <3> HIDE DEF J
    <3> QED
      BY <3>1, <3>3, <3>4
  <2> QED
    BY <2>1, <2>2
<1>6. Cardinality(J) \in Nat
  BY JobsFinite, FS_CardinalityType
<1>7. accepts + CountIn(iocp, Accept) + Cardinality(J) = MaxAccepts
  BY DEF AcceptsInv
<1>8. accepts + CountIn(iocp', Accept) + Cardinality(J)' = MaxAccepts
  BY <1>1, <1>3, <1>4, <1>5, <1>6, <1>7
<1>9. CountIn(iocp, Accept)' = CountIn(iocp', Accept)
  BY DEF CountIn, PlacesIn, Accept, Connections
<1> QED
  BY <1>1, <1>8, <1>9 DEF AcceptsInv

LEMMA AcceptsConnects ==
  ASSUME TypeInv, AcceptsInv, NEW h \in Handles, Connects(h)
  PROVE  AcceptsInv'
<1> DEFINE p == [key |-> "CK_ACCEPT", conn |-> Len(handle) + 1]
<1>1. /\ iocp' = Append(iocp, p) /\ p \in Accept /\ accepts' = accepts - 1 /\ job' = job
      /\ iocp \in Seq(Packet) /\ accepts \in Nat
  BY DEF Connects, Accept, holding, TypeInv, Types
<1>2. iocp \in Seq(Packet \cup Accept) /\ p \in Packet \cup Accept
  BY <1>1, SeqWider
<1>3. CountIn(iocp', Accept) = CountIn(iocp, Accept) + 1
  BY <1>1, <1>2, CountAppend
<1>4. CountIn(iocp, Accept) \in Nat
  <2>1. CountIn(iocp, Accept) \in 0..Len(iocp) /\ Len(iocp) \in Nat
    BY <1>1, PlacesInFinite
  <2> QED
    BY <2>1
<1>5. Cardinality({u \in Threads : job[u].conn # 0}) \in Nat
  BY JobsFinite, FS_CardinalityType
<1>6. CountIn(iocp, Accept)' = CountIn(iocp', Accept)
  BY DEF CountIn, PlacesIn, Accept, Connections
<1> QED
  BY <1>1, <1>3, <1>4, <1>5, <1>6 DEF AcceptsInv

LEMMA AcceptsReset ==
  ASSUME TypeInv, AcceptsInv, NEW t \in Threads, ResetAcceptCall(t)
  PROVE  AcceptsInv'
<1> DEFINE J == {u \in Threads : job[u].conn # 0}
<1>1. /\ iocp' = iocp /\ accepts' = accepts + 1 /\ job' = [job EXCEPT ![t] = NoJob]
      /\ iocp \in Seq(Packet) /\ accepts \in Nat /\ job[t].conn \in Known
      /\ job \in [Threads -> [conn : 0..Bound.connection, left : 0..MaxReceives]]
  BY DEF ResetAcceptCall, packets, TypeInv, Types, Place
<1>2. /\ job'[t].conn = 0 /\ job[t].conn # 0
      /\ \A u \in Threads \ {t} : job'[u] = job[u]
  BY <1>1 DEF NoJob, Known
<1>3. J' = J \ {t} /\ t \in J
  BY <1>2
<1>4. Cardinality(J) \in Nat /\ Cardinality(J \ {t}) = Cardinality(J) - 1
  BY <1>3, JobsFinite, FS_CardinalityType, FS_RemoveElement
<1>5. CountIn(iocp, Accept) \in Nat
  <2>1. CountIn(iocp, Accept) \in 0..Len(iocp) /\ Len(iocp) \in Nat
    BY <1>1, PlacesInFinite
  <2> QED
    BY <2>1
<1>6. CountIn(iocp, Accept)' = CountIn(iocp, Accept)
  BY <1>1 DEF CountIn, PlacesIn, Accept, Connections
<1>7. accepts + CountIn(iocp, Accept) + Cardinality(J) = MaxAccepts
  BY DEF AcceptsInv
<1>8. accepts' + CountIn(iocp, Accept)' + Cardinality(J)' = MaxAccepts
  <2> HIDE DEF J
  <2> QED
    BY <1>1, <1>3, <1>4, <1>5, <1>6, <1>7
<1> QED
  BY <1>8 DEF AcceptsInv

LEMMA AcceptsWorker ==
  ASSUME TypeInv, AcceptsInv, NEW t \in Threads, Worker(t)
  PROVE  AcceptsInv'
<1>1. job \in [Threads -> [conn : 0..Bound.connection, left : 0..MaxReceives]]
  BY DEF TypeInv, Types
<1>2. CASE RIONotify(t)
  <2>1. /\ iocp' = iocp \/ iocp' = Append(iocp, [key |-> "CK_RIO", conn |-> 0])
        /\ job' = job /\ accepts' = accepts
    BY <1>2 DEF RIONotify, holding
  <2> QED
    BY <2>1, AcceptsFrame, RioPacket
<1>3. CASE Dequeue(t) \/ Keep(t) \/ Close(t) \/ Erase(t) \/ Receive(t) \/ FreeBuffer(t)
           \/ SendDropped(t) \/ Send(t)
  <2>1. iocp' = iocp /\ job' = job /\ accepts' = accepts
    BY <1>3 DEF Dequeue, Keep, Close, Erase, Receive, FreeBuffer, SendDropped, Send, packets,
                holding
  <2> QED
    BY <2>1, AcceptsFrame
<1>4. CASE AddEntry(t)
  <2>1. iocp' = iocp /\ accepts' = accepts
        /\ (job' = job \/ job' = [job EXCEPT ![t].left = MaxReceives])
    BY <1>4 DEF AddEntry, packets
  <2>2. \A u \in Threads : job'[u].conn = job[u].conn
    BY <1>1, <2>1
  <2> QED
    BY <2>1, <2>2, AcceptsFrame
<1>5. CASE InitialReceive(t)
  <2>1. iocp' = iocp /\ accepts' = accepts /\ \E n : job' = [job EXCEPT ![t].left = n]
    BY <1>5 DEF InitialReceive, packets
  <2>2. \A u \in Threads : job'[u].conn = job[u].conn
    BY <1>1, <2>1
  <2> QED
    BY <2>1, <2>2, AcceptsFrame
<1> QED
  BY <1>2, <1>3, <1>4, <1>5, AcceptsGet, AcceptsReset DEF Worker

LEMMA AcceptsNext == TypeInv /\ AcceptsInv /\ [Next]_vars => AcceptsInv'
<1> SUFFICES ASSUME TypeInv, AcceptsInv, [Next]_vars
             PROVE  AcceptsInv'
  OBVIOUS
<1>1. ASSUME RequestEnds
      PROVE  AcceptsInv'
  <2>1. PICK kind, c, m, ok : Complete(kind, c, m, ok)
    BY <1>1 DEF RequestEnds, Arrives, ReceiveFails, SendEnds
  <2>2. /\ iocp' = iocp \/ iocp' = Append(iocp, [key |-> "CK_RIO", conn |-> 0])
        /\ job' = job /\ accepts' = accepts
    BY <2>1 DEF Complete, holding
  <2> QED
    BY <2>2, AcceptsFrame, RioPacket
<1>2. CASE UNCHANGED vars
  <2>1. iocp' = iocp /\ job' = job /\ accepts' = accepts
    BY <1>2 DEF vars, packets, holding
  <2> QED
    BY <2>1, AcceptsFrame
<1> QED
  BY <1>1, <1>2, AcceptsConnects, AcceptsWorker DEF Next, Environment

LEMMA AcceptsInvariant == Spec => [](TypeInv /\ AcceptsInv)
<1>1. Init => TypeInv /\ AcceptsInv
  BY TypeInit, AcceptsInit
<1>2. TypeInv /\ AcceptsInv /\ [Next]_vars => (TypeInv /\ AcceptsInv)'
  BY TypeNext, AcceptsNext
<1> QED
  BY <1>1, <1>2, PTL DEF Spec

-----------------------------------------------------------------------------
(* Segments.                                                                *)

\* The terms of the sum are numbers.
LEMMA Terms ==
  ASSUME TypeInv
  PROVE  /\ IsFiniteSet(Connections) /\ IsFiniteSet(Threads)
         /\ [t \in Threads |-> Held(t)] \in [Threads -> Int]
         /\ \A t \in Threads : Held(t) \in Nat /\ Len(batch[t]) \in Nat /\ Len(results[t]) \in Nat
         /\ SumFunction(receives) \in Nat /\ SumFunction([t \in Threads |-> Held(t)]) \in Nat
         /\ Len(cq) \in Nat /\ free \in Int
<1>1. /\ batch \in [Threads -> Seq(Event)] /\ results \in [Threads -> Seq(Event)]
      /\ receives \in [Connections -> Nat] /\ cq \in Seq(Event) /\ free \in Int
  BY DEF TypeInv, Types
<1>2. IsFiniteSet(Connections) /\ IsFiniteSet(Threads)
  BY ONLY ConnectionsFinite, ThreadAssumption
<1>3. ASSUME NEW t \in Threads
      PROVE  Held(t) \in Nat /\ Len(batch[t]) \in Nat /\ Len(results[t]) \in Nat
  <2>1. batch[t] \in Seq(Event) /\ results[t] \in Seq(Event)
    BY <1>1
  <2>2. Len(batch[t]) \in Nat /\ Len(results[t]) \in Nat
    BY <2>1
  <2> DEFINE x == IF pc[t] = "stuck" /\ (results[t] # <<>> \/ job[t].left > 0) THEN 1 ELSE 0
             b == Len(batch[t])
             r == Len(results[t])
  <2>3. x \in Nat /\ b \in Nat /\ r \in Nat
    BY <2>2
  <2>4. Held(t) = b + r + x
    BY DEF Held
  <2> HIDE DEF x, b, r
  <2>5. b + r + x \in Nat
    BY <2>3
  <2> QED
    BY <2>2, <2>4, <2>5
<1>4. [t \in Threads |-> Held(t)] \in [Threads -> Int]
  BY <1>3
<1>5. receives \in [Connections -> Int] /\ \A c \in Connections : receives[c] >= 0
  BY <1>1
<1>6. SumFunction(receives) \in Nat
  BY <1>2, <1>5, SumNat
<1> DEFINE f == [t \in Threads |-> Held(t)]
<1>7. f \in [Threads -> Int] /\ \A t \in Threads : f[t] >= 0
  BY <1>3
<1> HIDE DEF f
<1>8. SumFunction(f) \in Nat
  BY <1>2, <1>7, SumNat
<1>9. Len(cq) \in Nat
  BY <1>1
<1> QED
  BY <1>1, <1>2, <1>3, <1>4, <1>6, <1>8, <1>9 DEF f

LEMMA Balance ==
  ASSUME NEW a \in Int, NEW b \in Int, NEW h \in Int, NEW k \in Int, NEW s \in Int,
         b + k = a + h
  PROVE  b + (s + k - h) = a + s
OBVIOUS

\* A step of one worker, which keeps the sum if it keeps the terms it changes.
LEMMA SegmentsBy ==
  ASSUME TypeInv, SegmentsInv, NEW t \in Threads, Held(t)' \in Int,
         \A u \in Threads \ {t} :
           pc'[u] = pc[u] /\ batch'[u] = batch[u] /\ results'[u] = results[u] /\ job'[u] = job[u],
         IsFiniteSet(sends'),
         free' + SumFunction(receives') + Cardinality(sends') + Len(cq') + Held(t)'
           = free + SumFunction(receives) + Cardinality(sends) + Len(cq) + Held(t),
         free' \in Int, SumFunction(receives') \in Int, NEW S, cq' \in Seq(S)
  PROVE  SegmentsInv'
<1> DEFINE f == [u \in Threads |-> Held(u)]
           g == [u \in Threads |-> Held(u)']
<1>1. \A u \in Threads \ {t} : Held(u)' = Held(u)
  BY DEF Held
<1>2. /\ f \in [Threads -> Int] /\ g \in [Threads -> Int]
      /\ \A u \in Threads \ {t} : g[u] = f[u]
      /\ g[t] = Held(t)' /\ f[t] = Held(t)
  BY <1>1, Terms
<1> HIDE DEF f, g
<1>7. SumFunction(g) = SumFunction(f) + g[t] - f[t]
  <2>1. IsFiniteSet(Threads)
    BY ThreadAssumption
  <2>2. /\ f \in [Threads -> Int] /\ g \in [Threads -> Int] /\ t \in Threads
        /\ \A u \in Threads \ {t} : g[u] = f[u]
    BY <1>2
  <2> QED
    BY ONLY <2>1, <2>2, SumChange
<1>8. SumFunction(f) \in Int
  BY <1>2, ThreadAssumption, SumInt
<1>3. SumFunction(g) = SumFunction(f) + Held(t)' - Held(t)
  BY <1>2, <1>7
<1>4. free + SumFunction(receives) + Cardinality(sends) + Len(cq) + SumFunction(f) = Segments
  BY DEF SegmentsInv, SegmentsAccounted, f
<1>5. Cardinality(sends) \in Nat /\ Cardinality(sends') \in Nat
  BY FS_CardinalityType DEF SegmentsInv
<1>6. free' + SumFunction(receives') + Cardinality(sends') + Len(cq') + SumFunction(g) = Segments
  <2> DEFINE a == free + SumFunction(receives) + Cardinality(sends) + Len(cq)
             b == free' + SumFunction(receives') + Cardinality(sends') + Len(cq')
             h == Held(t)
             k == Held(t)'
             F == SumFunction(f)
             G == SumFunction(g)
  <2>1. free \in Int /\ SumFunction(receives) \in Int /\ Len(cq) \in Int /\ h \in Int
    BY Terms
  <2>2. a \in Int
    BY ONLY <1>5, <2>1
  <2>3. free' \in Int /\ SumFunction(receives') \in Int /\ Len(cq') \in Int
    OBVIOUS
  <2>4. b \in Int
    BY ONLY <1>5, <2>3
  <2>5. b + k = a + h /\ k \in Int /\ a + F = Segments
    BY <1>4
  <2>6. G = F + k - h /\ F \in Int
    BY <1>3, <1>8
  <2>7. b + G = Segments
    <3>1. h \in Int
      BY <2>1
    <3> HIDE DEF a, b, h, k, F, G
    <3>2. b + (F + k - h) = a + F
      BY <2>2, <2>4, <2>5, <2>6, <3>1, Balance
    <3> QED
      BY <2>5, <2>6, <3>2
  <2> QED
    BY <2>7
<1> QED
  BY <1>6 DEF SegmentsInv, SegmentsAccounted, f, g

\* The steps of a worker that leave the requests alone.
LEMMA SegmentsByHand ==
  ASSUME TypeInv, SegmentsInv, NEW t \in Threads, UNCHANGED <<receives, sends, cq>>,
         \A u \in Threads \ {t} :
           pc'[u] = pc[u] /\ batch'[u] = batch[u] /\ results'[u] = results[u] /\ job'[u] = job[u],
         Held(t)' \in Int, free' \in Int, free' + Held(t)' = free + Held(t)
  PROVE  SegmentsInv'
<1> DEFINE h == Held(t)
           k == Held(t)'
           R == SumFunction(receives)
           C == Cardinality(sends)
           L == Len(cq)
<1>1. R \in Int /\ L \in Int /\ h \in Int /\ free \in Int /\ k \in Int /\ free' \in Int
  BY Terms
<1>2. C \in Int /\ IsFiniteSet(sends')
  BY FS_CardinalityType DEF SegmentsInv
<1>3. free' + k = free + h
  OBVIOUS
<1>4. free' + R + C + L + k = free + R + C + L + h
  <2> DEFINE a == free
             b == free'
  <2>1. a \in Int /\ b \in Int /\ b + k = a + h
    BY <1>1, <1>3
  <2> HIDE DEF a, b, h, k, R, C, L
  <2>2. b + R + C + L + k = a + R + C + L + h
    BY <1>1, <1>2, <2>1
  <2> QED
    BY <2>2 DEF a, b
<1>5. cq' \in Seq(Event) /\ SumFunction(receives') \in Int
  BY <1>1 DEF TypeInv, Types
<1>6. free' + SumFunction(receives') + Cardinality(sends') + Len(cq') + Held(t)'
        = free + SumFunction(receives) + Cardinality(sends) + Len(cq) + Held(t)
  BY <1>4
<1> QED
  BY <1>2, <1>5, <1>6, SegmentsBy

LEMMA HeldIs ==
  ASSUME TypeInv, NEW t \in Threads, pc[t] # "stuck"
  PROVE  Held(t) = Len(batch[t]) + Len(results[t])
<1> DEFINE b == Len(batch[t])
           r == Len(results[t])
<1>1. b \in Nat /\ r \in Nat
  BY Terms
<1>2. Held(t) = b + r + 0
  BY DEF Held
<1> HIDE DEF b, r
<1>3. Held(t) = b + r
  BY <1>1, <1>2
<1> QED
  BY <1>3 DEF b, r

\* How the count of what a worker holds follows its hands.
LEMMA HeldMoves ==
  ASSUME TypeInv, NEW t \in Threads, pc[t] # "stuck", pc'[t] # "stuck"
  PROVE  /\ batch'[t] = batch[t] /\ results'[t] = results[t] => Held(t)' = Held(t)
         /\ batch[t] # <<>> /\ batch'[t] = Tail(batch[t])
              => /\ results'[t] = results[t] => Held(t)' = Held(t) - 1
                 /\ results'[t] = Append(results[t], Head(batch[t])) => Held(t)' = Held(t)
         /\ results[t] # <<>> /\ batch'[t] = batch[t] /\ results'[t] = Tail(results[t])
              => Held(t)' = Held(t) - 1
<1> DEFINE b == Len(batch[t])
           r == Len(results[t])
           c == Len(batch'[t])
           s == Len(results'[t])
<1>1. b \in Nat /\ r \in Nat /\ Held(t) = b + r
  BY Terms, HeldIs
<1>2. Held(t)' = c + s + 0
  BY DEF Held
<1>3. batch[t] \in Seq(Event) /\ results[t] \in Seq(Event)
  BY DEF TypeInv, Types
<1>5. batch[t] # <<>> /\ batch'[t] = Tail(batch[t]) => c = b - 1
  BY <1>3, TailMoves
<1>6. results[t] # <<>> /\ results'[t] = Tail(results[t]) => s = r - 1
  BY <1>3, TailMoves
<1>7. batch[t] # <<>> /\ results'[t] = Append(results[t], Head(batch[t])) => s = r + 1
  <2>1. batch[t] # <<>> => Head(batch[t]) \in Event
    BY <1>3
  <2> QED
    BY <1>3, <2>1
<1>8. /\ batch'[t] = batch[t] => c = b
      /\ results'[t] = results[t] => s = r
  OBVIOUS
<1>9. Held(t) \in Int
  BY Terms
<1> HIDE DEF b, c, r, s
<1>10. /\ c = b /\ s = r => Held(t)' = Held(t)
       /\ c = b - 1 /\ s = r => Held(t)' = Held(t) - 1
       /\ c = b - 1 /\ s = r + 1 => Held(t)' = Held(t)
       /\ c = b /\ s = r - 1 => Held(t)' = Held(t) - 1
  BY <1>1, <1>2
<1> QED
  BY <1>5, <1>6, <1>7, <1>8, <1>10

LEMMA HeldStuck ==
  ASSUME TypeInv, NEW t \in Threads, pc[t] # "stuck", pc'[t] = "stuck",
         batch'[t] = batch[t], results'[t] = results[t], job'[t].left = job[t].left
  PROVE  /\ results[t] # <<>> \/ job[t].left > 0 => Held(t)' = Held(t) + 1
         /\ results[t] = <<>> /\ ~(job[t].left > 0) => Held(t)' = Held(t)
<1> DEFINE b == Len(batch[t])
           r == Len(results[t])
<1>1. b \in Nat /\ r \in Nat /\ Held(t) = b + r
  BY Terms, HeldIs
<1>2. /\ results[t] # <<>> \/ job[t].left > 0 => Held(t)' = b + r + 1
      /\ results[t] = <<>> /\ ~(job[t].left > 0) => Held(t)' = b + r + 0
  BY DEF Held
<1> HIDE DEF b, r
<1> QED
  BY <1>1, <1>2

\* A handle is listed at most once.
LEMMA OneListed ==
  ASSUME ListInv, NEW h, NEW c \in Find(h)
  PROVE  Find(h) = {c} /\ c \in socketList /\ handle[c] = h
BY DEF Find, ListInv, HandlesInv

\* PostReceive takes a segment for the receive it posts, or for the worker it leaves stuck.
LEMMA PostCounts ==
  ASSUME TypeInv, ListInv, NEW t \in Threads, NEW h, NEW l, PostReceive(t, h, l)
  PROVE  \/ /\ pc' = [pc EXCEPT ![t] = l]
            /\ free' \in Int /\ SumFunction(receives') \in Int
            /\ free' + SumFunction(receives') = free + SumFunction(receives)
         \/ pc' = [pc EXCEPT ![t] = "stuck"] /\ free' = free - 1 /\ receives' = receives
<1> DEFINE R == SumFunction(receives)
           S == SumFunction(receives')
<1>1. /\ free \in Int /\ R \in Int /\ IsFiniteSet(Connections)
      /\ receives \in [Connections -> Nat] /\ receives \in [Connections -> Int]
  <2>1. receives \in [Connections -> Nat]
    BY DEF TypeInv, Types
  <2>2. receives \in [Connections -> Int]
    BY <2>1
  <2>3. free \in Int /\ R \in Int /\ IsFiniteSet(Connections)
    BY Terms
  <2> QED
    BY <2>1, <2>2, <2>3
<1>2. CASE /\ Goto(t, l) /\ UNCHANGED <<receives, free>>
  BY <1>1, <1>2 DEF Goto
<1>3. CASE /\ Goto(t, "stuck") /\ free' = free - 1 /\ UNCHANGED receives
  BY <1>3 DEF Goto
<1>4. CASE /\ Goto(t, l)
           /\ LET room == {c \in Find(h) : Outstanding(c) < MaxReceives} IN
              /\ receives' = [c \in Connections |-> receives[c] + (IF c \in room THEN 1 ELSE 0)]
              /\ free' = free - Cardinality(room)
  <2> DEFINE room == {c \in Find(h) : Outstanding(c) < MaxReceives}
  <2>1. /\ receives' = [c \in Connections |-> receives[c] + (IF c \in room THEN 1 ELSE 0)]
        /\ free' = free - Cardinality(room)
    BY <1>4
  <2>2. \A c \in room : room = {c} /\ c \in Connections
    BY OneListed DEF TypeInv, Types
  <2> HIDE DEF room
  <2>3. receives' \in [Connections -> Int]
    BY <1>1, <2>1
  <2>4. S \in Int
    BY <1>1, <2>3, SumInt
  <2>5. CASE room = {}
    <3>1. Cardinality(room) = 0
      BY <2>5, FS_EmptySet
    <3>2. receives' = receives
      BY <1>1, <2>1, <2>5
    <3>3. free' = free
      BY <1>1, <2>1, <3>1
    <3> QED
      BY <1>1, <1>4, <3>2, <3>3 DEF Goto
  <2>6. ASSUME NEW c \in room
        PROVE  free' \in Int /\ free' + S = free + R
    <3>1. room = {c} /\ c \in Connections
      BY <2>2
    <3>2. Cardinality(room) = 1
      BY <3>1, FS_Singleton
    <3>3. /\ \A d \in Connections \ {c} : receives'[d] = receives[d]
          /\ receives'[c] = receives[c] + 1 /\ receives[c] \in Int
      BY <1>1, <2>1, <3>1
    <3>4. S = R + receives'[c] - receives[c]
      BY <1>1, <2>3, <3>1, <3>3, SumChange
    <3> DEFINE x == receives[c]
               y == receives'[c]
    <3>5. S = R + y - x /\ y = x + 1 /\ x \in Int
      BY <3>3, <3>4
    <3> HIDE DEF x, y, R, S
    <3>6. S = R + 1
      BY <1>1, <3>5
    <3>7. free' = free - 1
      BY <2>1, <3>2
    <3> QED
      BY <1>1, <3>6, <3>7
  <2> QED
    BY <1>4, <2>4, <2>5, <2>6 DEF Goto
<1> QED
  BY <1>2, <1>3, <1>4 DEF PostReceive

\* A receive that is posted or not, and the sends and the queue as they were.
LEMMA SegmentsPost ==
  ASSUME TypeInv, ListInv, SegmentsInv, NEW t \in Threads, NEW h, NEW l, PostReceive(t, h, l),
         l # "stuck", pc[t] # "stuck", UNCHANGED <<sends, cq, batch, results>>,
         \A u \in Threads \ {t} : job'[u] = job[u],
         pc'[t] = "stuck" => job'[t].left = job[t].left,
         results[t] # <<>> \/ job[t].left > 0
  PROVE  SegmentsInv'
<1>1. pc \in [Threads -> PCs] /\ cq \in Seq(Event) /\ IsFiniteSet(sends)
  BY DEF TypeInv, Types, SegmentsInv
<1> DEFINE R == SumFunction(receives)
           S == SumFunction(receives')
           C == Cardinality(sends)
           L == Len(cq)
           b == Held(t)
           k == Held(t)'
<1>2. R \in Int /\ L \in Int /\ b \in Int /\ free \in Int
  BY Terms
<1>3. C \in Int
  BY <1>1, FS_CardinalityType
<1>4. CASE /\ pc' = [pc EXCEPT ![t] = l]
           /\ free' \in Int /\ S \in Int /\ free' + S = free + R
  <2>1. k = b
    BY <1>1, <1>4, HeldMoves
  <2>2. \A u \in Threads \ {t} : pc'[u] = pc[u]
    BY <1>1, <1>4
  <2>3. free' + S + C + L + k = free + R + C + L + b
    <3> DEFINE y == free'
               x == free
    <3>1. y \in Int /\ x \in Int /\ y + S = x + R /\ S \in Int
      BY <1>2, <1>4
    <3> HIDE DEF x, y, R, S, C, L, b, k
    <3>2. y + S + C + L + k = x + R + C + L + b
      BY <1>2, <1>3, <2>1, <3>1
    <3> QED
      BY <3>2 DEF x, y
  <2>4. k \in Int /\ cq' \in Seq(Event) /\ IsFiniteSet(sends')
    BY <1>1, <1>2, <2>1
  <2>5. free' + SumFunction(receives') + Cardinality(sends') + Len(cq') + Held(t)'
          = free + SumFunction(receives) + Cardinality(sends) + Len(cq) + Held(t)
    BY <2>3
  <2> QED
    BY <1>4, <2>2, <2>4, <2>5, SegmentsBy
<1>5. CASE pc' = [pc EXCEPT ![t] = "stuck"] /\ free' = free - 1 /\ receives' = receives
  <2>1. pc'[t] = "stuck" /\ \A u \in Threads \ {t} : pc'[u] = pc[u]
    BY <1>1, <1>5
  <2>2. Held(t)' = Held(t) + 1
    BY <2>1, HeldStuck
  <2>3. Held(t)' \in Int /\ free' \in Int /\ free' + Held(t)' = free + Held(t)
    <3> HIDE DEF b
    <3>1. Held(t)' = b + 1 /\ b \in Int
      BY <1>2, <2>2 DEF b
    <3>2. free' + (b + 1) = free + b /\ free' \in Int /\ b + 1 \in Int
      BY <1>2, <1>5, <3>1
    <3> QED
      BY <3>1, <3>2 DEF b
  <2> QED
    BY <1>5, <2>1, <2>3, SegmentsByHand
<1> QED
  BY <1>4, <1>5, PostCounts

LEMMA SegmentsInit == Init => SegmentsInv
<1> SUFFICES ASSUME Init PROVE SegmentsInv
  OBVIOUS
<1>1. /\ free = Segments /\ sends = {} /\ cq = <<>> /\ receives = [c \in Connections |-> 0]
      /\ Segments \in Nat
  BY Numbers DEF Init
<1>2. IsFiniteSet(sends) /\ Cardinality(sends) = 0
  BY <1>1, FS_EmptySet
<1>3. SumFunction(receives) = 0
  <2>1. IsFiniteSet(Connections)
    BY ConnectionsFinite
  <2> QED
    BY <1>1, <2>1, SumOfZeros
<1>4. SumFunction([t \in Threads |-> Held(t)]) = 0
  <2>1. ASSUME NEW t \in Threads
        PROVE  Held(t) = 0
    <3>1. batch[t] = <<>> /\ results[t] = <<>> /\ pc[t] # "stuck"
      BY DEF Init
    <3>2. Len(batch[t]) = 0 /\ Len(results[t]) = 0
      BY <3>1
    <3> QED
      BY <3>1, <3>2 DEF Held
  <2>2. [t \in Threads |-> Held(t)] = [t \in Threads |-> 0]
    BY <2>1
  <2> QED
    BY <2>2, ThreadAssumption, SumOfZeros
<1>5. Len(cq) = 0
  BY <1>1
<1> QED
  BY <1>1, <1>2, <1>3, <1>4, <1>5 DEF SegmentsInv, SegmentsAccounted

LEMMA SegmentsSame ==
  ASSUME TypeInv, SegmentsInv, NEW t \in Threads,
         RIONotify(t) \/ GetQueuedCompletionStatus(t) \/ AddEntry(t) \/ ResetAcceptCall(t)
  PROVE  SegmentsInv'
<1>1. /\ pc \in [Threads -> PCs] /\ Place(t) /\ pc[t] # "stuck"
      /\ job \in [Threads -> [conn : 0..Bound.connection, left : 0..MaxReceives]]
  BY DEF TypeInv, Types, RIONotify, AtTop, GetQueuedCompletionStatus, AddEntry, ResetAcceptCall
<1>2. UNCHANGED <<receives, sends, cq, free, batch, results>>
  BY DEF RIONotify, GetQueuedCompletionStatus, AddEntry, ResetAcceptCall, requests, holding
<1>3. \E l : pc' = [pc EXCEPT ![t] = l]
  BY DEF RIONotify, GetQueuedCompletionStatus, AddEntry, ResetAcceptCall, Goto
<1>4. \A u \in Threads \ {t} : job'[u] = job[u]
  BY <1>1 DEF RIONotify, GetQueuedCompletionStatus, AddEntry, ResetAcceptCall, holding
<1>5. \A u \in Threads \ {t} : pc'[u] = pc[u]
  BY <1>1, <1>3
<1>6. Held(t)' = Held(t)
  <2>1. CASE pc'[t] # "stuck"
    BY <1>1, <1>2, <2>1, HeldMoves
  <2>2. CASE pc'[t] = "stuck"
    <3>1. ~RIONotify(t) /\ ~GetQueuedCompletionStatus(t) /\ ~ResetAcceptCall(t)
      BY <1>1, <2>2 DEF RIONotify, GetQueuedCompletionStatus, ResetAcceptCall, Goto
    <3>2. AddEntry(t) /\ pc[t] = "accept"
      BY <3>1 DEF AddEntry
    <3>3. job'[t] = job[t]
      BY <1>1, <2>2, <3>2 DEF AddEntry, Goto
    <3>4. results[t] = <<>> /\ ~(job[t].left > 0)
      BY <1>1, <3>2 DEF Place
    <3> QED
      BY <1>1, <1>2, <2>2, <3>3, <3>4, HeldStuck
  <2> QED
    BY <2>1, <2>2
<1>7. Held(t)' \in Int /\ free' \in Int /\ free' + Held(t)' = free + Held(t)
  <2>1. Held(t) \in Int /\ free \in Int
    BY Terms
  <2> QED
    BY <1>2, <1>6, <2>1
<1> QED
  BY <1>2, <1>4, <1>5, <1>7, SegmentsByHand

\* A completion is looked at, or an instruction done: its segment is kept or freed.
LEMMA SegmentsHand ==
  ASSUME TypeInv, SegmentsInv, NEW t \in Threads,
         \/ Keep(t) \/ Close(t) \/ Erase(t) \/ FreeBuffer(t) \/ SendDropped(t)
  PROVE  SegmentsInv'
<1>1. /\ pc \in [Threads -> PCs] /\ Place(t) /\ pc[t] # "stuck"
      /\ batch \in [Threads -> Seq(Event)] /\ results \in [Threads -> Seq(Event)]
  BY DEF TypeInv, Types, Keep, Close, Erase, FreeBuffer, SendDropped, AtResult, AtInstruction
<1>2. UNCHANGED <<receives, sends, cq, job>>
  BY DEF Keep, Close, Erase, FreeBuffer, SendDropped, requests
<1>3. /\ \A u \in Threads \ {t} :
           pc'[u] = pc[u] /\ batch'[u] = batch[u] /\ results'[u] = results[u]
      /\ pc'[t] # "stuck"
  BY <1>1 DEF Keep, Close, Erase, FreeBuffer, SendDropped, NextOfBatch, NextResult, Goto
<1>4. \/ Held(t)' = Held(t) /\ free' = free
      \/ Held(t)' = Held(t) - 1 /\ free' = free + 1
  <2>1. CASE Keep(t) \/ Close(t) \/ Erase(t)
    <3>1. batch[t] # <<>>
      BY <1>1, <2>1 DEF Keep, Close, Erase, AtResult, Place
    <3>2. \/ /\ batch'[t] = Tail(batch[t]) /\ results'[t] = Append(results[t], Head(batch[t]))
             /\ free' = free
          \/ batch'[t] = Tail(batch[t]) /\ results'[t] = results[t] /\ free' = free + 1
          \/ batch'[t] = batch[t] /\ results'[t] = results[t] /\ free' = free
      <4>1. CASE Keep(t)
        BY <1>1, <4>1 DEF Keep, NextOfBatch
      <4>2. CASE Close(t)
        BY <1>1, <4>2 DEF Close, NextOfBatch
      <4>3. CASE Erase(t)
        BY <1>1, <4>3 DEF Erase, NextOfBatch
      <4> QED
        BY <2>1, <4>1, <4>2, <4>3
    <3> QED
      BY <1>1, <1>3, <3>1, <3>2, HeldMoves
  <2>2. CASE FreeBuffer(t) \/ SendDropped(t)
    <3>1. results[t] # <<>>
      BY <1>1, <2>2 DEF FreeBuffer, SendDropped, AtInstruction, Place
    <3>2. batch'[t] = batch[t] /\ results'[t] = Tail(results[t]) /\ free' = free + 1
      BY <1>1, <2>2 DEF FreeBuffer, SendDropped, NextResult
    <3> QED
      BY <1>1, <1>3, <3>1, <3>2, HeldMoves
  <2> QED
    BY <2>1, <2>2
<1>5. Held(t)' \in Int /\ free' \in Int /\ free' + Held(t)' = free + Held(t)
  <2> DEFINE h == Held(t)
             k == Held(t)'
  <2>1. h \in Int /\ free \in Int
    BY Terms
  <2>2. \/ k = h /\ free' = free
        \/ k = h - 1 /\ free' = free + 1
    BY <1>4
  <2> HIDE DEF h, k
  <2>3. k \in Int /\ free' \in Int /\ free' + k = free + h
    BY <2>1, <2>2
  <2> QED
    BY <2>3 DEF h, k
<1> QED
  BY <1>2, <1>3, <1>5, SegmentsByHand

LEMMA SegmentsReceive ==
  ASSUME TypeInv, ListInv, SegmentsInv, NEW t \in Threads, Receive(t) \/ InitialReceive(t)
  PROVE  SegmentsInv'
<1>1. /\ pc \in [Threads -> PCs] /\ UNCHANGED <<sends, cq, batch, results>>
      /\ job \in [Threads -> [conn : 0..Bound.connection, left : 0..MaxReceives]]
  BY DEF TypeInv, Types, Receive, InitialReceive, holding
<1>2. CASE Receive(t)
  <2>1. /\ PostReceive(t, Key(Head(results[t])), "send") /\ pc[t] = "results"
        /\ results[t] # <<>> /\ job' = job
    BY <1>2 DEF Receive, AtInstruction, holding
  <2> QED
    BY <1>1, <2>1, SegmentsPost
<1>3. CASE InitialReceive(t)
  <2>1. /\ PostReceive(t, handle[job[t].conn], "initial") /\ pc[t] = "initial"
        /\ job[t].left > 0
        /\ job' = [job EXCEPT ![t].left = IF pc'[t] = "stuck" THEN @ ELSE @ - 1]
    BY <1>3 DEF InitialReceive
  <2>2. /\ \A u \in Threads \ {t} : job'[u] = job[u]
        /\ pc'[t] = "stuck" => job'[t].left = job[t].left
    BY <1>1, <2>1
  <2> QED
    BY <1>1, <2>1, <2>2, SegmentsPost
<1> QED
  BY <1>2, <1>3

LEMMA SegmentsDequeue ==
  ASSUME TypeInv, SegmentsInv, NEW t \in Threads, Dequeue(t)
  PROVE  SegmentsInv'
<1>1. PICK n \in 0..Len(cq) : /\ cq' = SubSeq(cq, n + 1, Len(cq))
                              /\ batch' = [batch EXCEPT ![t] = SubSeq(cq, 1, n)]
  BY DequeueCuts
<1>2. /\ cq \in Seq(Event) /\ batch \in [Threads -> Seq(Event)]
      /\ batch[t] = <<>> /\ results[t] = <<>>
      /\ pc \in [Threads -> PCs] /\ pc' = [pc EXCEPT ![t] = "results"]
      /\ UNCHANGED <<results, job, receives, sends, free>>
  BY DEF TypeInv, Types, Place, Dequeue, Goto, requests
<1>3. /\ cq' \in Seq(Event) /\ Len(cq') = Len(cq) - n
      /\ SubSeq(cq, 1, n) \in Seq(Event) /\ Len(SubSeq(cq, 1, n)) = n
  BY <1>1, <1>2, CutIs
<1>4. /\ batch'[t] = SubSeq(cq, 1, n) /\ pc'[t] = "results" /\ pc[t] # "stuck"
      /\ \A u \in Threads \ {t} : pc'[u] = pc[u] /\ batch'[u] = batch[u]
  BY <1>1, <1>2 DEF Dequeue
<1>5. n \in Int /\ Len(batch'[t]) = n /\ Len(results'[t]) = 0 /\ Len(batch[t]) = 0 /\ Len(results[t]) = 0
  BY <1>2, <1>3, <1>4
<1>6. Held(t)' = n /\ Held(t) = 0
  <2>1. Held(t)' = n + 0 + 0
    BY <1>4, <1>5 DEF Held
  <2>2. Held(t) = 0 + 0 + 0
    BY <1>4, <1>5 DEF Held
  <2> QED
    BY <1>5, <2>1, <2>2
<1> DEFINE R == SumFunction(receives)
           C == Cardinality(sends)
           L == Len(cq)
           M == Len(cq')
<1>7. R \in Int /\ free \in Int /\ L \in Int /\ SumFunction(receives') \in Int
  BY <1>2, Terms
<1>8. C \in Int /\ IsFiniteSet(sends')
  BY <1>2, FS_CardinalityType DEF SegmentsInv
<1>9. M = L - n
  BY <1>3
<1>10. free + R + C + M + n = free + R + C + L + 0
  <2> HIDE DEF R, C, L, M
  <2> QED
    BY <1>5, <1>7, <1>8, <1>9
<1>11. free' + SumFunction(receives') + Cardinality(sends') + Len(cq') + Held(t)'
         = free + SumFunction(receives) + Cardinality(sends) + Len(cq) + Held(t)
  BY <1>2, <1>6, <1>10
<1> QED
  BY <1>2, <1>3, <1>4, <1>5, <1>6, <1>7, <1>8, <1>11, SegmentsBy

\* A message that is passed on takes its segment from the worker to RIO: it was not sent
\* already.
LEMMA SegmentsSend ==
  ASSUME TypeInv, OrderInv, SegmentsInv, NEW t \in Threads, Send(t)
  PROVE  SegmentsInv'
<1> DEFINE m == Head(results[t]).msg
<1>1. /\ results[t] # <<>> /\ sent[m] = <<>> /\ pc[t] = "send"
  BY AtSend, OrderSend DEF Send
<1>2. PICK c : sends' = sends \cup {[msg |-> m, to |-> c]}
  BY DEF Send
<1>3. [msg |-> m, to |-> c] \notin sends
  <2>1. [msg |-> m, to |-> c].msg = m
    OBVIOUS
  <2> HIDE DEF m
  <2> QED
    BY <1>1, <2>1 DEF OrderInv
<1> HIDE DEF m
<1>4. /\ IsFiniteSet(sends') /\ Cardinality(sends') = Cardinality(sends) + 1
      /\ Cardinality(sends) \in Int
  BY <1>2, <1>3, FS_AddElement, FS_CardinalityType DEF SegmentsInv
<1>5. /\ pc \in [Threads -> PCs] /\ results \in [Threads -> Seq(Event)] /\ cq \in Seq(Event)
      /\ pc' = [pc EXCEPT ![t] = "results"] /\ results' = [results EXCEPT ![t] = Tail(@)]
      /\ UNCHANGED <<batch, job, receives, free, cq>>
  BY DEF TypeInv, Types, Send, Goto, NextResult
<1>6. /\ pc'[t] = "results" /\ results'[t] = Tail(results[t])
      /\ \A u \in Threads \ {t} : pc'[u] = pc[u] /\ results'[u] = results[u]
  BY <1>5
<1>7. Held(t)' = Held(t) - 1
  BY <1>1, <1>5, <1>6, HeldMoves
<1> DEFINE R == SumFunction(receives)
           C == Cardinality(sends)
           D == Cardinality(sends')
           L == Len(cq)
           h == Held(t)
           k == Held(t)'
<1>8. R \in Int /\ free \in Int /\ L \in Int /\ SumFunction(receives') \in Int /\ h \in Int
  BY <1>5, Terms
<1>9. C \in Int /\ D = C + 1 /\ k = h - 1
  BY <1>4, <1>7
<1>10. free + R + D + L + k = free + R + C + L + h /\ k \in Int
  <2> HIDE DEF R, C, D, L, h, k
  <2> QED
    BY <1>8, <1>9
<1>11. free' + SumFunction(receives') + Cardinality(sends') + Len(cq') + Held(t)'
         = free + SumFunction(receives) + Cardinality(sends) + Len(cq) + Held(t)
  BY <1>5, <1>10
<1> QED
  BY <1>4, <1>5, <1>6, <1>8, <1>10, <1>11, SegmentsBy

\* What happens outside moves segments between requests and completions.
LEMMA SegmentsOutside ==
  ASSUME TypeInv, SegmentsInv, UNCHANGED <<pc, batch, results, job, free>>,
         IsFiniteSet(sends'), NEW S, cq' \in Seq(S), SumFunction(receives') \in Int,
         SumFunction(receives') + Cardinality(sends') + Len(cq')
           = SumFunction(receives) + Cardinality(sends) + Len(cq)
  PROVE  SegmentsInv'
<1>1. PICK t \in Threads : TRUE
  BY ThreadAssumption
<1> DEFINE R == SumFunction(receives)
           P == SumFunction(receives')
           C == Cardinality(sends)
           D == Cardinality(sends')
           L == Len(cq)
           M == Len(cq')
           h == Held(t)
           k == Held(t)'
<1>2. k = h
  BY DEF Held
<1>3. R \in Int /\ free \in Int /\ L \in Int /\ P \in Int /\ h \in Int
  BY Terms
<1>4. C \in Int /\ D \in Int /\ M \in Int
  BY FS_CardinalityType DEF SegmentsInv
<1>5. free + P + D + M + k = free + R + C + L + h /\ k \in Int
  <2>1. P + D + M = R + C + L
    OBVIOUS
  <2> HIDE DEF R, P, C, D, L, M, h, k
  <2> QED
    BY <1>2, <1>3, <1>4, <2>1
<1>6. free' + SumFunction(receives') + Cardinality(sends') + Len(cq') + Held(t)'
        = free + SumFunction(receives) + Cardinality(sends) + Len(cq) + Held(t)
  BY <1>5
<1> QED
  BY <1>3, <1>5, <1>6, SegmentsBy

LEMMA SegmentsReceiveEnds ==
  ASSUME TypeInv, SegmentsInv, NEW c \in Connections, Arrives(c) \/ ReceiveFails(c)
  PROVE  SegmentsInv'
<1>1. PICK e : cq' = Append(cq, e)
  BY DEF Arrives, ReceiveFails, Complete
<1>2. /\ receives' = [receives EXCEPT ![c] = @ - 1] /\ receives \in [Connections -> Nat]
      /\ UNCHANGED <<sends, pc, batch, results, job, free>> /\ cq \in Seq(Event)
  BY DEF Arrives, ReceiveFails, Complete, holding, TypeInv, Types
<1>3. cq' \in Seq(Event \cup {e}) /\ Len(cq') = Len(cq) + 1
  BY <1>1, <1>2
<1>4. /\ receives \in [Connections -> Int] /\ receives' \in [Connections -> Int]
      /\ receives'[c] = receives[c] - 1 /\ receives[c] \in Int
      /\ \A d \in Connections \ {c} : receives'[d] = receives[d]
  BY <1>2
<1> DEFINE R == SumFunction(receives)
           P == SumFunction(receives')
           C == Cardinality(sends)
           L == Len(cq)
           x == receives[c]
           y == receives'[c]
<1>5. R \in Int /\ L \in Int /\ IsFiniteSet(Connections)
  BY Terms
<1>6. P \in Int /\ P = R + y - x
  BY <1>4, <1>5, SumChange, SumInt
<1>7. C \in Int /\ IsFiniteSet(sends')
  BY <1>2, FS_CardinalityType DEF SegmentsInv
<1>8. y = x - 1 /\ x \in Int
  BY <1>4
<1>9. P + C + (L + 1) = R + C + L
  <2> HIDE DEF R, P, C, L, x, y
  <2> QED
    BY <1>5, <1>6, <1>7, <1>8
<1>10. SumFunction(receives') + Cardinality(sends') + Len(cq')
         = SumFunction(receives) + Cardinality(sends) + Len(cq)
  BY <1>2, <1>3, <1>9
<1> QED
  BY <1>2, <1>3, <1>6, <1>7, <1>10, SegmentsOutside

LEMMA SegmentsSendEnds ==
  ASSUME TypeInv, SegmentsInv, NEW r \in sends, NEW ok \in BOOLEAN, SendEnds(r, ok)
  PROVE  SegmentsInv'
<1>1. PICK e : cq' = Append(cq, e)
  BY DEF SendEnds, Complete
<1>2. /\ sends' = sends \ {r} /\ cq \in Seq(Event)
      /\ UNCHANGED <<receives, pc, batch, results, job, free>>
  BY DEF SendEnds, Complete, holding, TypeInv, Types
<1>3. cq' \in Seq(Event \cup {e}) /\ Len(cq') = Len(cq) + 1
  BY <1>1, <1>2
<1> DEFINE R == SumFunction(receives)
           C == Cardinality(sends)
           D == Cardinality(sends')
           L == Len(cq)
<1>4. IsFiniteSet(sends') /\ D = C - 1 /\ C \in Int
  BY <1>2, FS_RemoveElement, FS_CardinalityType DEF SegmentsInv
<1>5. R \in Int /\ L \in Int
  BY Terms
<1>6. R + D + (L + 1) = R + C + L
  <2> HIDE DEF R, C, D, L
  <2> QED
    BY <1>4, <1>5
<1>7. SumFunction(receives') + Cardinality(sends') + Len(cq')
        = SumFunction(receives) + Cardinality(sends) + Len(cq)
  BY <1>2, <1>3, <1>6
<1> QED
  BY <1>2, <1>3, <1>4, <1>5, <1>7, SegmentsOutside

LEMMA SegmentsNext ==
  TypeInv /\ ListInv /\ OrderInv /\ SegmentsInv /\ [Next]_vars => SegmentsInv'
<1> SUFFICES ASSUME TypeInv, ListInv, OrderInv, SegmentsInv, [Next]_vars
             PROVE  SegmentsInv'
  OBVIOUS
<1>1. ASSUME NEW t \in Threads, Worker(t)
      PROVE  SegmentsInv'
  BY <1>1, SegmentsSame, SegmentsHand, SegmentsReceive, SegmentsDequeue, SegmentsSend DEF Worker
<1>2. ASSUME UNCHANGED vars \/ \E h : Connects(h)
      PROVE  SegmentsInv'
  <2>1. UNCHANGED <<pc, batch, results, job, free, sends, cq, receives>>
    BY <1>2 DEF vars, Connects, requests, holding
  <2>2. IsFiniteSet(sends') /\ cq' \in Seq(Event)
    BY <2>1 DEF SegmentsInv, TypeInv, Types
  <2>3. SumFunction(receives') \in Int
    BY <2>1, Terms
  <2>4. SumFunction(receives') + Cardinality(sends') + Len(cq')
          = SumFunction(receives) + Cardinality(sends) + Len(cq)
    BY <2>1
  <2> QED
    BY <2>1, <2>2, <2>3, <2>4, SegmentsOutside
<1> QED
  BY <1>1, <1>2, SegmentsReceiveEnds, SegmentsSendEnds DEF Next, Environment, RequestEnds

LEMMA SegmentsInvariant == Spec => []SegmentsInv
<1>1. Init => SegmentsInv
  BY SegmentsInit
<1>2. TypeInv /\ ListInv /\ OrderInv /\ SegmentsInv /\ [Next]_vars => SegmentsInv'
  BY SegmentsNext
<1> QED
  BY <1>1, <1>2, ListInvariant, OrderInvariant, PTL DEF Spec

\* No segment of the pool is lost or used twice, over all connections, messages,
\* closings and stuck workers: each is free, with RIO as a receive or a send, in a
\* completion, or in the hands of a worker.
THEOREM SegmentsKept == Spec => []SegmentsAccounted
<1>1. SegmentsInv => SegmentsAccounted
  BY DEF SegmentsInv
<1> QED
  BY <1>1, SegmentsInvariant, PTL

-----------------------------------------------------------------------------
(* Receives.                                                                *)

\* The completions of the receives of one connection.
ReceivesOf(c) == {e \in Completion : Receives(e, c)}

LEMMA ReceivingIs ==
  ASSUME NEW s \in Seq(Completion), NEW c
  PROVE  Receiving(s, c) = CountIn(s, ReceivesOf(c)) /\ Receiving(s, c) \in Nat
<1>1. \A i \in 1..Len(s) : s[i] \in ReceivesOf(c) <=> Receives(s[i], c)
  BY DEF ReceivesOf
<1>2. {i \in 1..Len(s) : Receives(s[i], c)} = PlacesIn(s, ReceivesOf(c))
  BY <1>1 DEF PlacesIn
<1>3. Receiving(s, c) = CountIn(s, ReceivesOf(c))
  BY <1>2 DEF Receiving, CountIn
<1>4. CountIn(s, ReceivesOf(c)) \in 0..Len(s) /\ Len(s) \in Nat
  BY PlacesInFinite
<1> QED
  BY <1>3, <1>4

LEMMA ReceivingAppend ==
  ASSUME NEW s \in Seq(Completion), NEW e \in Completion, NEW c
  PROVE  Receiving(Append(s, e), c) = Receiving(s, c) + (IF Receives(e, c) THEN 1 ELSE 0)
<1>1. Append(s, e) \in Seq(Completion)
  OBVIOUS
<1>2. e \in ReceivesOf(c) <=> Receives(e, c)
  BY DEF ReceivesOf
<1> DEFINE a == Append(s, e)
           D == ReceivesOf(c)
<1>3. Receiving(s, c) = CountIn(s, D) /\ Receiving(a, c) = CountIn(a, D)
  BY <1>1, ReceivingIs
<1>4. CountIn(a, D) = CountIn(s, D) + (IF e \in D THEN 1 ELSE 0)
  BY CountAppend
<1> QED
  BY <1>2, <1>3, <1>4

LEMMA ReceivingTail ==
  ASSUME NEW s \in Seq(Completion), s # <<>>, NEW c
  PROVE  Receiving(s, c) = Receiving(Tail(s), c) + (IF Receives(Head(s), c) THEN 1 ELSE 0)
<1>1. Tail(s) \in Seq(Completion) /\ Head(s) \in Completion
  OBVIOUS
<1>2. Head(s) \in ReceivesOf(c) <=> Receives(Head(s), c)
  BY <1>1 DEF ReceivesOf
<1> DEFINE a == Tail(s)
           D == ReceivesOf(c)
<1>3. Receiving(s, c) = CountIn(s, D) /\ Receiving(a, c) = CountIn(a, D)
  BY <1>1, ReceivingIs
<1>4. CountIn(s, D) = CountIn(a, D) + (IF Head(s) \in D THEN 1 ELSE 0)
  BY CountTail
<1> QED
  BY <1>2, <1>3, <1>4

LEMMA ReceivingCut ==
  ASSUME NEW s \in Seq(Completion), NEW n \in 0..Len(s), NEW c
  PROVE  Receiving(s, c) = Receiving(SubSeq(s, 1, n), c) + Receiving(SubSeq(s, n + 1, Len(s)), c)
<1>1. SubSeq(s, 1, n) \in Seq(Completion) /\ SubSeq(s, n + 1, Len(s)) \in Seq(Completion)
  BY CutIs
<1> DEFINE a == SubSeq(s, 1, n)
           b == SubSeq(s, n + 1, Len(s))
           D == ReceivesOf(c)
<1>3. /\ Receiving(s, c) = CountIn(s, D) /\ Receiving(a, c) = CountIn(a, D)
      /\ Receiving(b, c) = CountIn(b, D)
  BY <1>1, ReceivingIs
<1>4. CountIn(s, D) = CountIn(a, D) + CountIn(b, D)
  BY CountCut
<1> QED
  BY <1>3, <1>4

LEMMA ReceivingNone == \A c : Receiving(<<>>, c) = 0
<1>1. <<>> \in Seq(Completion)
  OBVIOUS
<1> QED
  BY <1>1, ReceivingIs, CountEmpty

\* What lists of completions are made of, and the terms about one connection.
LEMMA ReceiveTerms ==
  ASSUME TypeInv
  PROVE  /\ cq \in Seq(Completion)
         /\ \A t \in Threads : batch[t] \in Seq(Completion) /\ results[t] \in Seq(Completion)
         /\ \A c \in Connections :
              receives[c] \in Nat /\ Receiving(cq, c) \in Nat /\ Outstanding(c) \in Nat
                /\ lost[c] \in Nat
<1>1. /\ cq \in Seq(Event) /\ batch \in [Threads -> Seq(Event)]
      /\ results \in [Threads -> Seq(Event)]
      /\ receives \in [Connections -> Nat] /\ lost \in [Connections -> Nat]
  BY DEF TypeInv, Types
<1>2. Event \subseteq Completion
  BY DEF Event
<1>3. cq \in Seq(Completion)
  BY <1>1, <1>2, SeqWider
<1>4. \A t \in Threads : batch[t] \in Seq(Completion) /\ results[t] \in Seq(Completion)
  <2>1. \A t \in Threads : batch[t] \in Seq(Event) /\ results[t] \in Seq(Event)
    BY <1>1
  <2> QED
    BY <1>2, <2>1, SeqWider
<1>5. \A c \in Connections : receives[c] \in Nat /\ lost[c] \in Nat
  BY <1>1
<1>6. \A c : Receiving(cq, c) \in Nat
  BY <1>3, ReceivingIs
<1>7. \A c \in Connections : Outstanding(c) \in Nat
  <2>1. ASSUME NEW c \in Connections
        PROVE  Outstanding(c) \in Nat
    <3> DEFINE x == receives[c]
               y == Receiving(cq, c)
    <3>1. x \in Nat /\ y \in Nat /\ Outstanding(c) = x + y
      BY <1>5, <1>6 DEF Outstanding
    <3> HIDE DEF x, y
    <3> QED
      BY <3>1
  <2> QED
    BY <2>1
<1> QED
  BY <1>3, <1>4, <1>5, <1>6, <1>7

LEMMA OwedNat == TypeInv => \A t \in Threads, c \in Connections : Owed(t, c) \in Nat
<1> SUFFICES ASSUME TypeInv, NEW t \in Threads, NEW c \in Connections
             PROVE  Owed(t, c) \in Nat
  OBVIOUS
<1> DEFINE b == Receiving(batch[t], c)
           r == Receiving(results[t], c)
           j == IF job[t].conn = c THEN job[t].left ELSE 0
           d == IF pc[t] = "send" /\ Receives(Head(results[t]), c) THEN 1 ELSE 0
<1>1. b \in Nat /\ r \in Nat /\ results[t] \in Seq(Completion)
  BY ReceiveTerms, ReceivingIs
<1>2. j \in Nat
  <2>1. job[t] \in [conn : 0..Bound.connection, left : 0..MaxReceives]
    BY DEF TypeInv, Types
  <2>2. job[t].left \in Nat
    BY <2>1, Numbers
  <2> QED
    BY <2>2
<1>3. d \in Nat /\ d <= r
  <2>1. CASE pc[t] = "send" /\ Receives(Head(results[t]), c)
    <3>1. results[t] # <<>> /\ Tail(results[t]) \in Seq(Completion)
      BY <1>1, <2>1, AtSend
    <3> DEFINE q == Receiving(Tail(results[t]), c)
    <3>2. r = q + 1 /\ q \in Nat
      BY <1>1, <2>1, <3>1, ReceivingTail, ReceivingIs
    <3>3. d = 1
      BY <2>1
    <3> HIDE DEF r, q, d
    <3> QED
      BY <3>2, <3>3
  <2>2. CASE ~(pc[t] = "send" /\ Receives(Head(results[t]), c))
    <3>1. d = 0
      BY <2>2
    <3> HIDE DEF r, d
    <3> QED
      BY <1>1, <3>1
  <2> QED
    BY <2>1, <2>2
<1>4. Owed(t, c) = b + r + j - d
  BY DEF Owed
<1> HIDE DEF b, r, j, d
<1>5. b + r + j - d \in Nat
  BY <1>1, <1>2, <1>3
<1> QED
  BY <1>4, <1>5

LEMMA OutstandingSame ==
  ASSUME NEW c, receives'[c] = receives[c], cq' = cq
  PROVE  Outstanding(c)' = Outstanding(c)
BY DEF Outstanding, Receiving, Receives

\* A receive that ends is outstanding as a completion, and a send never was.
LEMMA OutstandingReceiveEnds ==
  ASSUME TypeInv, NEW d \in Connections, Arrives(d) \/ ReceiveFails(d), NEW c \in Connections
  PROVE  Outstanding(c)' = Outstanding(c)
<1>1. PICK m, ok : cq' = Append(cq, [kind |-> "receive", conn |-> d, msg |-> m, ok |-> ok])
                   /\ [kind |-> "receive", conn |-> d, msg |-> m, ok |-> ok] \in Completion
  <2>1. CASE Arrives(d)
    BY <2>1, ArrivesEvent DEF Event, Completion, Connections
  <2>2. CASE ReceiveFails(d)
    BY <2>2, ReceiveFailsEvent DEF Event
  <2> QED
    BY <2>1, <2>2
<1> DEFINE e == [kind |-> "receive", conn |-> d, msg |-> m, ok |-> ok]
           x == receives[c]
           y == receives'[c]
           q == Receiving(cq, c)
           r == Receiving(cq', c)
<1>2. cq \in Seq(Completion) /\ x \in Nat /\ q \in Nat
  BY ReceiveTerms
<1>3. Receives(e, c) <=> c = d
  BY DEF Receives
<1>4. r = q + (IF Receives(e, c) THEN 1 ELSE 0)
  BY <1>1, <1>2, ReceivingAppend
<1>5. y = x - (IF c = d THEN 1 ELSE 0)
  <2>1. receives' = [receives EXCEPT ![d] = @ - 1] /\ receives \in [Connections -> Nat]
    BY DEF Arrives, ReceiveFails, TypeInv, Types
  <2>2. CASE c = d
    BY <2>1, <2>2
  <2>3. CASE c # d
    <3>1. y = x
      BY <2>1, <2>3
    <3> HIDE DEF x, y
    <3> QED
      BY <1>2, <2>3, <3>1
  <2> QED
    BY <2>2, <2>3
<1>6. Outstanding(c) = x + q /\ Outstanding(c)' = y + r
  BY DEF Outstanding, Receiving, Receives
<1> HIDE DEF e, x, y, q, r
<1> QED
  BY <1>2, <1>3, <1>4, <1>5, <1>6

LEMMA OutstandingSendEnds ==
  ASSUME TypeInv, NEW s \in sends, NEW ok \in BOOLEAN, SendEnds(s, ok), NEW c \in Connections
  PROVE  Outstanding(c)' = Outstanding(c)
<1> DEFINE e == [kind |-> "send", conn |-> s.to, msg |-> s.msg, ok |-> ok]
           q == Receiving(cq, c)
           r == Receiving(cq', c)
<1>1. cq' = Append(cq, e) /\ e \in Completion /\ ~Receives(e, c) /\ receives' = receives
  BY SendEndsEvent DEF Event, Receives, SendEnds
<1>2. cq \in Seq(Completion) /\ q \in Nat
  BY ReceiveTerms
<1>3. r = q + (IF Receives(e, c) THEN 1 ELSE 0)
  <2> HIDE DEF e
  <2> QED
    BY <1>1, <1>2, ReceivingAppend
<1>4. r = q
  <2> HIDE DEF e, r, q
  <2> QED
    BY <1>1, <1>2, <1>3
<1> QED
  BY <1>1, <1>4 DEF Outstanding, Receiving, Receives

LEMMA OutstandingDequeue ==
  ASSUME TypeInv, NEW t \in Threads, Dequeue(t), NEW c \in Connections
  PROVE  /\ Outstanding(c) = Outstanding(c)' + Receiving(batch'[t], c)
         /\ Outstanding(c)' \in Nat /\ Receiving(batch'[t], c) \in Nat
<1>1. PICK n \in 0..Len(cq) : /\ cq' = SubSeq(cq, n + 1, Len(cq))
                              /\ batch' = [batch EXCEPT ![t] = SubSeq(cq, 1, n)]
  BY DequeueCuts
<1>2. /\ batch'[t] = SubSeq(cq, 1, n) /\ receives' = receives
      /\ cq \in Seq(Completion) /\ receives[c] \in Nat
  BY <1>1, ReceiveTerms DEF TypeInv, Types, Dequeue, requests
<1> DEFINE x == receives[c]
           q == Receiving(cq, c)
           r == Receiving(cq', c)
           b == Receiving(batch'[t], c)
<1>3. q = b + r
  BY <1>1, <1>2, ReceivingCut
<1>4. b \in Nat /\ r \in Nat
  <2>1. batch'[t] \in Seq(Completion) /\ cq' \in Seq(Completion)
    BY <1>1, <1>2, CutIs
  <2> QED
    BY <2>1, ReceivingIs
<1>5. Outstanding(c) = x + q /\ Outstanding(c)' = x + r /\ x \in Nat
  BY <1>2 DEF Outstanding, Receiving, Receives
<1>6. /\ Outstanding(c) = Outstanding(c)' + b
      /\ Outstanding(c)' \in Nat
  <2> HIDE DEF x, q, r, b
  <2> QED
    BY <1>3, <1>4, <1>5
<1> QED
  BY <1>4, <1>6

LEMMA OutstandingPost ==
  ASSUME TypeInv, NEW t \in Threads, NEW h, NEW l, PostReceive(t, h, l), cq' = cq,
         NEW c \in Connections
  PROVE  \/ Outstanding(c)' = Outstanding(c)
         \/ Outstanding(c) < MaxReceives /\ Outstanding(c)' = Outstanding(c) + 1
<1>1. CASE receives'[c] = receives[c]
  BY <1>1, OutstandingSame
<1>2. CASE receives'[c] # receives[c]
  <2> DEFINE room == {d \in Find(h) : Outstanding(d) < MaxReceives}
  <2>1. receives' = [d \in Connections |-> receives[d] + (IF d \in room THEN 1 ELSE 0)]
    BY <1>2 DEF PostReceive
  <2>2. receives[c] \in Nat /\ Receiving(cq, c) \in Nat
    BY ReceiveTerms
  <2> HIDE DEF room
  <2>3. c \in room /\ receives'[c] = receives[c] + 1
    BY <1>2, <2>1, <2>2
  <2>4. Outstanding(c) < MaxReceives
    BY <2>3 DEF room
  <2> DEFINE x == receives[c]
             y == receives'[c]
             q == Receiving(cq, c)
  <2>5. Outstanding(c) = x + q /\ Outstanding(c)' = y + q
    BY DEF Outstanding, Receiving, Receives
  <2>6. x \in Nat /\ q \in Nat /\ y = x + 1
    BY <2>2, <2>3
  <2>7. Outstanding(c)' = Outstanding(c) + 1
    <3> HIDE DEF x, y, q
    <3> QED
      BY <2>5, <2>6
  <2> QED
    BY <2>4, <2>7
<1> QED
  BY <1>1, <1>2

LEMMA QueuesInit == Init => QueuesKept
<1> SUFFICES ASSUME Init, NEW c \in Connections
             PROVE  Outstanding(c) <= MaxReceives
  BY DEF QueuesKept
<1>1. receives[c] = 0 /\ cq = <<>>
  BY DEF Init
<1>2. Outstanding(c) = 0 + 0
  BY <1>1, ReceivingNone DEF Outstanding
<1> QED
  BY <1>2, Numbers

LEMMA QueuesNext == TypeInv /\ QueuesKept /\ [Next]_vars => QueuesKept'
<1> SUFFICES ASSUME TypeInv, QueuesKept, [Next]_vars, NEW c \in Connections
             PROVE  Outstanding(c)' <= MaxReceives
  BY DEF QueuesKept, Connections
<1>1. Outstanding(c) \in Nat /\ Outstanding(c) <= MaxReceives /\ MaxReceives \in Nat
  BY ReceiveTerms, Numbers DEF QueuesKept
<1>2. ASSUME NEW t \in Threads, Worker(t)
      PROVE  Outstanding(c)' <= MaxReceives
  <2>1. CASE Dequeue(t)
    <3> DEFINE b == Receiving(batch'[t], c)
    <3>1. Outstanding(c) = Outstanding(c)' + b /\ Outstanding(c)' \in Nat /\ b \in Nat
      BY <2>1, OutstandingDequeue
    <3> HIDE DEF b
    <3> QED
      BY <1>1, <3>1
  <2>2. CASE Receive(t) \/ InitialReceive(t)
    <3>1. cq' = cq /\ \E h, l : PostReceive(t, h, l)
      BY <2>2 DEF Receive, InitialReceive
    <3> QED
      BY <1>1, <3>1, OutstandingPost
  <2>3. CASE ~Dequeue(t) /\ ~Receive(t) /\ ~InitialReceive(t)
    <3>1. cq' = cq /\ receives' = receives
      BY <1>2, <2>3 DEF Worker, RIONotify, GetQueuedCompletionStatus, Keep, Close, Erase,
             FreeBuffer, SendDropped, Send, AddEntry, ResetAcceptCall, requests
    <3> QED
      BY <1>1, <3>1, OutstandingSame
  <2> QED
    BY <2>1, <2>2, <2>3
<1>3. ASSUME UNCHANGED vars \/ \E h : Connects(h)
      PROVE  Outstanding(c)' <= MaxReceives
  <2>1. cq' = cq /\ receives' = receives
    BY <1>3 DEF vars, Connects, requests
  <2> QED
    BY <1>1, <2>1, OutstandingSame
<1>4. CASE RequestEnds
  BY <1>1, <1>4, OutstandingReceiveEnds, OutstandingSendEnds DEF RequestEnds
<1> QED
  BY <1>2, <1>3, <1>4 DEF Next, Environment

LEMMA QueuesInvariant == Spec => [](TypeInv /\ QueuesKept)
<1>1. Init => TypeInv /\ QueuesKept
  BY TypeInit, QueuesInit
<1>2. TypeInv /\ QueuesKept /\ [Next]_vars => (TypeInv /\ QueuesKept)'
  BY TypeNext, QueuesNext
<1> QED
  BY <1>1, <1>2, PTL DEF Spec

LEMMA FreePost ==
  ASSUME TypeInv, ListInv, free >= 0, NEW t \in Threads, NEW h, NEW l, PostReceive(t, h, l)
  PROVE  free' >= 0
<1>1. free \in Int
  BY DEF TypeInv, Types
<1>2. CASE free' = free \/ (free > 0 /\ free' = free - 1)
  BY <1>1, <1>2
<1>3. ASSUME NEW room, room \subseteq Find(h), free > 0, free' = free - Cardinality(room)
      PROVE  free' >= 0
  <2>1. \A c \in room : room = {c}
    BY <1>3, OneListed
  <2>2. room = {} \/ \E c : room = {c}
    BY <2>1
  <2>3. Cardinality(room) \in {0, 1}
    BY <2>2, FS_EmptySet, FS_Singleton
  <2> QED
    BY <1>1, <1>3, <2>3
<1> QED
  BY <1>2, <1>3 DEF PostReceive

LEMMA FreeNext == TypeInv /\ ListInv /\ free >= 0 /\ [Next]_vars => free' >= 0
<1> SUFFICES ASSUME TypeInv, ListInv, free >= 0, [Next]_vars
             PROVE  free' >= 0
  OBVIOUS
<1>1. free \in Int
  BY DEF TypeInv, Types
<1>2. ASSUME NEW t \in Threads, Worker(t)
      PROVE  free' >= 0
  <2>1. CASE Receive(t) \/ InitialReceive(t)
    <3>1. \E h, l : PostReceive(t, h, l)
      BY <2>1 DEF Receive, InitialReceive
    <3> QED
      BY <3>1, FreePost
  <2>2. CASE ~Receive(t) /\ ~InitialReceive(t)
    <3>1. free' = free \/ free' = free + 1
      BY <1>2, <2>2 DEF Worker, RIONotify, GetQueuedCompletionStatus, Dequeue, Keep, Close, Erase,
             FreeBuffer, SendDropped, Send, AddEntry, ResetAcceptCall
    <3> QED
      BY <1>1, <3>1
  <2> QED
    BY <2>1, <2>2
<1>3. ASSUME UNCHANGED vars \/ Environment
      PROVE  free' >= 0
  <2>1. free' = free
    BY <1>3 DEF vars, Environment, RequestEnds, Connects, Arrives, ReceiveFails, SendEnds, Complete
  <2> QED
    BY <2>1
<1> QED
  BY <1>2, <1>3 DEF Next

LEMMA FreeInvariant == Spec => [](free >= 0)
<1>1. Init => free >= 0
  BY Numbers DEF Init
<1>2. TypeInv /\ ListInv /\ free >= 0 /\ [Next]_vars => (free >= 0)'
  BY FreeNext
<1> QED
  BY <1>1, <1>2, ListInvariant, PTL DEF Spec

\* The allowances: no more accepts are pending than serviceMaxAccepts, and no more
\* segments are free than the pool has.
LEMMA Allowances ==
  TypeInv /\ AcceptsInv /\ SegmentsInv => accepts <= MaxAccepts /\ free <= Segments
<1> SUFFICES ASSUME TypeInv, AcceptsInv, SegmentsInv
             PROVE  accepts <= MaxAccepts /\ free <= Segments
  OBVIOUS
<1>1. accepts <= MaxAccepts
  <2> DEFINE i == CountIn(iocp, Accept)
             j == Cardinality({t \in Threads : job[t].conn # 0})
  <2>1. iocp \in Seq(Packet) /\ accepts \in Nat
    BY DEF TypeInv, Types
  <2>2. i \in 0..Len(iocp) /\ Len(iocp) \in Nat
    BY <2>1, PlacesInFinite
  <2>3. j \in Nat
    BY JobsFinite, FS_CardinalityType
  <2>4. accepts + i + j = MaxAccepts
    BY DEF AcceptsInv
  <2>5. i \in Nat
    BY <2>2
  <2> HIDE DEF i, j
  <2> QED
    BY <2>1, <2>3, <2>4, <2>5
<1>2. free <= Segments
  <2> DEFINE R == SumFunction(receives)
             C == Cardinality(sends)
             L == Len(cq)
             H == SumFunction([t \in Threads |-> Held(t)])
  <2>1. R \in Nat /\ L \in Nat /\ H \in Nat /\ free \in Int
    BY Terms
  <2>2. C \in Nat
    BY FS_CardinalityType DEF SegmentsInv
  <2>3. free + R + C + L + H = Segments
    BY DEF SegmentsInv, SegmentsAccounted
  <2> HIDE DEF R, C, L, H
  <2> QED
    BY <2>1, <2>2, <2>3
<1> QED
  BY <1>1, <1>2

LEMMA TypeOKHolds ==
  TypeInv /\ ListInv /\ AcceptsInv /\ SegmentsInv /\ QueuesKept /\ free >= 0 => TypeOK
<1> SUFFICES ASSUME TypeInv, ListInv, AcceptsInv, SegmentsInv, QueuesKept, free >= 0
             PROVE  TypeOK
  OBVIOUS
<1>1. Types /\ HandlesInv /\ \A t \in Threads : Place(t)
  BY DEF TypeInv, ListInv
<1>2. iocp \in Seq([key : {"CK_RIO", "CK_ACCEPT"}, conn : 0..Bound.connection])
  <2>1. \A c \in Connections : c \in 0..Bound.connection
    BY Numbers DEF Connections
  <2>2. 0 \in 0..Bound.connection
    BY Numbers
  <2>3. Packet \subseteq [key : {"CK_RIO", "CK_ACCEPT"}, conn : 0..Bound.connection]
    BY <2>1, <2>2 DEF Packet, Accept
  <2>4. iocp \in Seq(Packet)
    BY <1>1 DEF Types
  <2> QED
    BY <2>3, <2>4, SeqWider
<1>3. armed \in BOOLEAN
  BY <1>1 DEF Types
<1>4. /\ cq \in Seq(Completion)
      /\ \A t \in Threads : batch[t] \in Seq(Completion) /\ results[t] \in Seq(Completion)
      /\ \A c \in Connections : Outstanding(c) <= MaxReceives /\ lost[c] \in Nat
  BY ReceiveTerms DEF QueuesKept
<1>5. open \subseteq 1..Len(handle) /\ handle \in Seq(Handles)
  BY <1>1 DEF Types, Known
<1>6. sends \subseteq Sending
  BY <1>1 DEF Types, Sending
<1>7. accepts \in 0..MaxAccepts /\ free \in 0..Segments
  <2>1. accepts \in Nat /\ free \in Int
    BY <1>1 DEF Types
  <2>2. accepts <= MaxAccepts /\ free <= Segments
    BY Allowances
  <2> QED
    BY <2>1, <2>2, Numbers
<1>8. \A t \in Threads : listCS = t <=> pc[t] = "erase"
  BY <1>1 DEF Place
<1>9. /\ \A c \in socketList \ open : listCS # NoThread /\ c \in Find(Key(Head(batch[listCS])))
      /\ \A c, d \in socketList : handle[c] = handle[d] => c = d
  BY <1>1 DEF HandlesInv, Find
<1>10. pc \in [Threads -> PCs] /\ old \in [Threads -> BOOLEAN]
  BY <1>1 DEF Types
<1>11. received \in Seq(Connections)
  <2>1. received \in Seq(Known) /\ Known \subseteq Connections
    BY <1>1 DEF Types
  <2> QED
    BY <2>1, SeqWider
<1>12. \A m \in DOMAIN sent : sent[m] \in Seq(Connections)
  BY <1>1 DEF Types
<1> QED
  BY <1>2, <1>3, <1>4, <1>5, <1>6, <1>7, <1>8, <1>9, <1>10, <1>11, <1>12 DEF TypeOK

\* The state keeps its shape, for every number of workers, connections, messages and
\* segments: among what that says, no receive queue is overdrawn, though a late result
\* of a closed connection posts receives for the one that has its handle; the accepts do
\* not outgrow their allowance; the section is held exactly between closing and erasing;
\* and no two listed connections have one handle.
THEOREM TypeCorrect == Spec => []TypeOK
<1>1. TypeInv /\ ListInv /\ AcceptsInv /\ SegmentsInv /\ QueuesKept /\ free >= 0 => TypeOK
  BY TypeOKHolds
<1> QED
  BY <1>1, ListInvariant, AcceptsInvariant, SegmentsInvariant, QueuesInvariant, FreeInvariant, PTL

LEMMA KeptTerms ==
  TypeInv =>
    \A c \in Connections :
      Outstanding(c) \in Nat /\ lost[c] \in Nat /\ \A t \in Threads : Owed(t, c) \in Nat
BY OwedNat, ReceiveTerms

LEMMA KeptTermsNext ==
  TypeInv' =>
    \A c \in Connections :
      Outstanding(c)' \in Nat /\ lost'[c] \in Nat /\ \A t \in Threads : Owed(t, c)' \in Nat
<1>1. TypeInv' =>
        (\A c \in Connections :
           Outstanding(c) \in Nat /\ lost[c] \in Nat /\ \A t \in Threads : Owed(t, c) \in Nat)'
  BY KeptTerms, PTL
<1> QED
  BY <1>1 DEF Connections

\* A step of one worker keeps what it keeps of the terms it changes.
LEMMA KeptBy ==
  ASSUME TypeInv, TypeInv', NEW c \in Connections, KeptFor(c), NEW t \in Threads,
         \A u \in Threads \ {t} :
           pc'[u] = pc[u] /\ batch'[u] = batch[u] /\ results'[u] = results[u] /\ job'[u] = job[u],
         Outstanding(c)' + Owed(t, c)' + lost'[c] >= Outstanding(c) + Owed(t, c) + lost[c]
  PROVE  KeptFor(c)'
<1> DEFINE f == [u \in Threads |-> Owed(u, c)]
           g == [u \in Threads |-> Owed(u, c)']
<1>1. \A u \in Threads \ {t} : Owed(u, c)' = Owed(u, c)
  <2>1. ASSUME NEW u \in Threads \ {t}
        PROVE  Owed(u, c)' = Owed(u, c)
    <3>1. pc'[u] = pc[u] /\ batch'[u] = batch[u] /\ results'[u] = results[u] /\ job'[u] = job[u]
      BY <2>1
    <3> QED
      BY ONLY <3>1 DEF Owed, Receiving, Receives
  <2> QED
    BY <2>1
<1>2. \A u \in Threads : Owed(u, c) \in Nat /\ Owed(u, c)' \in Nat
  BY KeptTerms, KeptTermsNext
<1>3. /\ f \in [Threads -> Int] /\ g \in [Threads -> Int]
      /\ \A u \in Threads \ {t} : g[u] = f[u]
      /\ g[t] = Owed(t, c)' /\ f[t] = Owed(t, c)
  BY <1>1, <1>2
<1>4. IsFiniteSet(Threads)
  BY ThreadAssumption
<1> DEFINE a == Outstanding(c)
           b == Outstanding(c)'
           k == lost[c]
           l == lost'[c]
           o == Owed(t, c)
           p == Owed(t, c)'
           F == SumFunction(f)
           G == SumFunction(g)
<1>5. a \in Int /\ b \in Int /\ k \in Int /\ l \in Int /\ o \in Int /\ p \in Int
  BY KeptTerms, KeptTermsNext
<1>6. G = F + g[t] - f[t] /\ F \in Int
  <2> HIDE DEF f, g
  <2> QED
    BY <1>3, <1>4, SumChange, SumInt
<1>7. G = F + p - o
  BY <1>3, <1>6
<1>8. a + F + k >= MaxReceives
  BY DEF KeptFor
<1>9. b + p + l >= a + o + k
  OBVIOUS
<1>10. b + G + l >= MaxReceives
  <2> HIDE DEF a, b, k, l, o, p, F, G, f, g
  <2> QED
    BY <1>5, <1>6, <1>7, <1>8, <1>9, Numbers
<1> QED
  BY <1>10 DEF KeptFor

\* One worker and the queue may have all there have to be.
LEMMA KeptFull ==
  ASSUME TypeInv', NEW c \in Connections, NEW t \in Threads,
         Outstanding(c)' + Owed(t, c)' + lost'[c] >= MaxReceives
  PROVE  KeptFor(c)'
<1> DEFINE g == [u \in Threads |-> Owed(u, c)']
<1>1. \A u \in Threads : Owed(u, c)' \in Nat
  BY KeptTermsNext
<1>2. g \in [Threads -> Int] /\ \A u \in Threads : g[u] >= 0
  BY <1>1
<1> DEFINE b == Outstanding(c)'
           l == lost'[c]
           p == Owed(t, c)'
           G == SumFunction(g)
<1>3. g[t] = p
  OBVIOUS
<1>4. G >= g[t] /\ G \in Int
  <2> HIDE DEF g
  <2> QED
    BY <1>2, ThreadAssumption, SumAtLeast, SumInt
<1>5. b \in Int /\ l \in Int /\ p \in Int
  BY KeptTermsNext
<1>6. b + p + l >= MaxReceives /\ G >= p
  BY <1>3, <1>4
<1>7. b + G + l >= MaxReceives
  <2> HIDE DEF b, l, p, G, g
  <2> QED
    BY <1>4, <1>5, <1>6, Numbers
<1> QED
  BY <1>7 DEF KeptFor

\* The change of what a worker owes, part by part.
LEMMA OwedChange ==
  ASSUME TypeInv, NEW t \in Threads, NEW c \in Connections,
         NEW db \in Int, NEW dr \in Int, NEW dj \in Int, NEW dp \in Int,
         Receiving(batch'[t], c) = Receiving(batch[t], c) + db,
         Receiving(results'[t], c) = Receiving(results[t], c) + dr,
         Due(t, c)' = Due(t, c) + dj,
         PutBack(t, c)' = PutBack(t, c) + dp
  PROVE  Owed(t, c)' = Owed(t, c) + db + dr + dj - dp /\ Owed(t, c) \in Int
<1> DEFINE b == Receiving(batch[t], c)
           r == Receiving(results[t], c)
           j == Due(t, c)
           p == PutBack(t, c)
<1>1. b \in Int /\ r \in Int
  BY ReceiveTerms, ReceivingIs
<1>2. j \in Int
  <2>1. job[t] \in [conn : 0..Bound.connection, left : 0..MaxReceives]
    BY DEF TypeInv, Types
  <2> QED
    BY <2>1 DEF Due
<1>3. p \in Int
  BY DEF PutBack
<1>4. Owed(t, c) = b + r + j - p
  BY DEF Owed, Due, PutBack
<1>5. Owed(t, c)' = (b + db) + (r + dr) + (j + dj) - (p + dp)
  BY DEF Owed, Due, PutBack, Receiving, Receives
<1> HIDE DEF b, r, j, p
<1> QED
  BY <1>1, <1>2, <1>3, <1>4, <1>5

LEMMA OwedSame ==
  ASSUME NEW t, NEW c, batch'[t] = batch[t], results'[t] = results[t],
         Due(t, c)' = Due(t, c), PutBack(t, c)' = PutBack(t, c)
  PROVE  Owed(t, c)' = Owed(t, c)
<1>1. Owed(t, c) = Receiving(batch[t], c) + Receiving(results[t], c) + Due(t, c) - PutBack(t, c)
  BY DEF Owed, Due, PutBack
<1>2. Owed(t, c)' = Receiving(batch'[t], c) + Receiving(results'[t], c) + Due(t, c)'
                      - PutBack(t, c)'
  BY DEF Owed, Due, PutBack, Receiving, Receives
<1> QED
  BY <1>1, <1>2

LEMMA KeptStays ==
  ASSUME TypeInv, TypeInv', NEW c \in Connections, KeptFor(c), NEW t \in Threads,
         \A u \in Threads \ {t} :
           pc'[u] = pc[u] /\ batch'[u] = batch[u] /\ results'[u] = results[u] /\ job'[u] = job[u],
         Outstanding(c)' = Outstanding(c), Owed(t, c)' = Owed(t, c), lost'[c] = lost[c]
  PROVE  KeptFor(c)'
<1> DEFINE a == Outstanding(c)
           o == Owed(t, c)
           k == lost[c]
<1>1. a \in Int /\ o \in Int /\ k \in Int
  BY KeptTerms
<1>2. a + o + k >= a + o + k
  <2> HIDE DEF a, o, k
  <2> QED
    BY <1>1
<1>3. Outstanding(c)' + Owed(t, c)' + lost'[c] >= Outstanding(c) + Owed(t, c) + lost[c]
  BY <1>2
<1> QED
  BY <1>3, KeptBy

LEMMA KeyListed ==
  ASSUME NEW c \in socketList, NEW e, Receives(e, c)
  PROVE  Key(e) = handle[c] /\ c \in Find(Key(e))
BY DEF Receives, Key, Find

LEMMA KeptSame ==
  ASSUME TypeInv, TypeInv', ListInv, NEW c \in Connections, KeptFor(c), c \in socketList,
         NEW t \in Threads,
         RIONotify(t) \/ GetQueuedCompletionStatus(t) \/ AddEntry(t) \/ ResetAcceptCall(t)
  PROVE  KeptFor(c)'
<1>1. /\ pc \in [Threads -> PCs] /\ Place(t) /\ pc[t] # "send"
      /\ job \in [Threads -> [conn : 0..Bound.connection, left : 0..MaxReceives]]
  BY DEF TypeInv, Types, RIONotify, AtTop, GetQueuedCompletionStatus, AddEntry, ResetAcceptCall
<1>2. UNCHANGED <<receives, cq, lost, batch, results>>
  BY DEF RIONotify, GetQueuedCompletionStatus, AddEntry, ResetAcceptCall, requests, holding, history
<1>3. \E l : pc' = [pc EXCEPT ![t] = l] /\ l # "send"
  BY DEF RIONotify, GetQueuedCompletionStatus, AddEntry, ResetAcceptCall, Goto
<1>4. \A u \in Threads \ {t} : job'[u] = job[u]
  BY <1>1 DEF RIONotify, GetQueuedCompletionStatus, AddEntry, ResetAcceptCall, holding
<1>5. pc'[t] # "send" /\ \A u \in Threads \ {t} : pc'[u] = pc[u]
  BY <1>1, <1>3
<1>6. PutBack(t, c)' = PutBack(t, c)
  BY <1>1, <1>5 DEF PutBack
<1>7. Due(t, c)' = Due(t, c)
  <2>1. CASE RIONotify(t)
    BY <2>1 DEF RIONotify, holding, Due
  <2>2. CASE GetQueuedCompletionStatus(t)
    <3>1. job[t] = NoJob /\ (job' = job \/ job' = [job EXCEPT ![t].conn = Head(iocp).conn])
      BY <1>1, <2>2 DEF GetQueuedCompletionStatus, Place
    <3>2. job[t].left = 0 /\ job'[t].left = 0
      BY <1>1, <3>1 DEF NoJob
    <3> QED
      BY <3>2 DEF Due
  <2>3. CASE AddEntry(t)
    <3>1. job[t].conn # c
      BY <2>3 DEF AddEntry, ListInv, WaitingInv
    <3>2. job'[t].conn = job[t].conn
      BY <1>1, <2>3 DEF AddEntry
    <3> QED
      BY <3>1, <3>2 DEF Due
  <2>4. CASE ResetAcceptCall(t)
    <3>1. job[t].left = 0 /\ job'[t].left = 0
      BY <1>1, <2>4 DEF ResetAcceptCall, NoJob
    <3> QED
      BY <3>1 DEF Due
  <2> QED
    BY <2>1, <2>2, <2>3, <2>4
<1>8. Owed(t, c)' = Owed(t, c)
  BY <1>2, <1>6, <1>7, OwedSame
<1>9. Outstanding(c)' = Outstanding(c)
  BY <1>2, OutstandingSame
<1> QED
  BY <1>2, <1>4, <1>5, <1>8, <1>9, KeptStays

LEMMA KeptDequeue ==
  ASSUME TypeInv, TypeInv', NEW c \in Connections, KeptFor(c), NEW t \in Threads, Dequeue(t)
  PROVE  KeptFor(c)'
<1>1. /\ batch \in [Threads -> Seq(Event)] /\ batch[t] = <<>> /\ results[t] = <<>>
      /\ pc \in [Threads -> PCs] /\ pc' = [pc EXCEPT ![t] = "results"] /\ pc[t] = "dequeue"
      /\ UNCHANGED <<results, job, lost>>
  BY DEF TypeInv, Types, Place, Dequeue, Goto, history
<1>2. /\ pc'[t] = "results"
      /\ \A u \in Threads \ {t} : pc'[u] = pc[u] /\ batch'[u] = batch[u]
  BY <1>1, DequeueCuts
<1> DEFINE a == Outstanding(c)
           b == Outstanding(c)'
           d == Receiving(batch'[t], c)
           o == Owed(t, c)
           p == Owed(t, c)'
           k == lost[c]
<1>3. a = b + d /\ b \in Int /\ d \in Int
  BY OutstandingDequeue
<1>4. p = o + d + 0 + 0 - 0 /\ o \in Int
  <2>1. Receiving(batch[t], c) = 0 /\ Receiving(batch'[t], c) = 0 + d
    BY <1>1, <1>3, ReceivingNone
  <2>2. Receiving(results'[t], c) = Receiving(results[t], c) + 0
    BY <1>1, ReceivingNone
  <2>3. Due(t, c)' = Due(t, c) + 0
    <3>1. Due(t, c) = 0 /\ Due(t, c)' = 0
      BY <1>1 DEF Due, TypeInv, Place, NoJob
    <3> QED
      BY <3>1
  <2>4. PutBack(t, c)' = PutBack(t, c) + 0
    BY <1>1, <1>2 DEF PutBack
  <2>5. Receiving(batch'[t], c) = Receiving(batch[t], c) + d
    BY <2>1
  <2> HIDE DEF d
  <2> QED
    BY <1>3, <2>2, <2>3, <2>4, <2>5, OwedChange
<1>5. k \in Int /\ lost'[c] = k
  BY <1>1, KeptTerms
<1>6. b + p + k >= a + o + k
  <2> HIDE DEF a, b, d, o, p, k
  <2> QED
    BY <1>3, <1>4, <1>5
<1>7. Outstanding(c)' + Owed(t, c)' + lost'[c] >= Outstanding(c) + Owed(t, c) + lost[c]
  BY <1>5, <1>6
<1> QED
  BY <1>1, <1>2, <1>7, KeptBy

\* A good result of a listed connection is kept, and a completion that is not is none of
\* its receives.
LEMMA KeptBatch ==
  ASSUME TypeInv, TypeInv', NEW c \in Connections, KeptFor(c), c \in socketList, c \in socketList',
         NEW t \in Threads, Keep(t) \/ Close(t) \/ Erase(t)
  PROVE  KeptFor(c)'
<1> DEFINE e == Head(batch[t])
           x == IF Receives(e, c) THEN 1 ELSE 0
           b == Receiving(batch[t], c)
           r == Receiving(results[t], c)
           q == Receiving(batch'[t], c)
           s == Receiving(results'[t], c)
<1>1. /\ pc \in [Threads -> PCs] /\ Place(t) /\ pc[t] # "send"
      /\ batch \in [Threads -> Seq(Event)] /\ results \in [Threads -> Seq(Event)]
      /\ UNCHANGED <<receives, cq, job, lost>>
  BY DEF TypeInv, Types, Keep, Close, Erase, AtResult, requests, history
<1>2. /\ \A u \in Threads \ {t} :
           pc'[u] = pc[u] /\ batch'[u] = batch[u] /\ results'[u] = results[u]
      /\ pc'[t] # "send"
  BY <1>1 DEF Keep, Close, Erase, NextOfBatch, Goto
<1>3. batch[t] # <<>> /\ batch[t] \in Seq(Completion) /\ results[t] \in Seq(Completion)
  BY <1>1, ReceiveTerms DEF Keep, Close, Erase, AtResult, Place
<1>4. \/ batch'[t] = Tail(batch[t]) /\ results'[t] = Append(results[t], e)
      \/ batch'[t] = Tail(batch[t]) /\ results'[t] = results[t] /\ ~Receives(e, c)
      \/ batch'[t] = batch[t] /\ results'[t] = results[t]
  <2>1. CASE Keep(t)
    BY <1>1, <2>1, KeyListed DEF Keep, NextOfBatch
  <2>2. CASE Close(t)
    BY <1>1, <2>2, KeyListed DEF Close, NextOfBatch
  <2>3. CASE Erase(t)
    <3>1. c \notin Find(Key(Head(batch[t])))
      BY <2>3 DEF Erase
    <3> QED
      BY <1>1, <2>3, <3>1, KeyListed DEF Erase, NextOfBatch
  <2> QED
    BY <2>1, <2>2, <2>3
<1>5. Due(t, c)' = Due(t, c) /\ PutBack(t, c)' = PutBack(t, c)
  BY <1>1, <1>2 DEF Due, PutBack
<1>6. Owed(t, c)' = Owed(t, c)
  <2>1. CASE batch'[t] = batch[t] /\ results'[t] = results[t]
    BY <1>5, <2>1, OwedSame
  <2>2. CASE /\ batch'[t] = Tail(batch[t])
             /\ \/ results'[t] = Append(results[t], e)
                \/ results'[t] = results[t] /\ ~Receives(e, c)
    <3>1. b \in Int /\ r \in Int /\ q \in Int /\ s \in Int /\ x \in Int
      <4>1. Tail(batch[t]) \in Seq(Completion) /\ e \in Completion
        BY <1>3
      <4>2. results'[t] \in Seq(Completion)
        BY <1>3, <2>2, <4>1, SeqAppend
      <4>3. batch'[t] \in Seq(Completion) /\ x \in Int
        BY <2>2, <4>1
      <4>4. b \in Int /\ r \in Int
        BY <1>3, ReceivingIs
      <4>5. q \in Int /\ s \in Int
        BY <4>2, <4>3, ReceivingIs
      <4> QED
        BY <4>3, <4>4, <4>5
    <3>2. b = q + x
      BY <1>3, <2>2, ReceivingTail
    <3>3. s = r + x
      <4>1. CASE results'[t] = Append(results[t], e)
        <5>1. e \in Completion
          BY <1>3
        <5> QED
          BY <1>3, <4>1, <5>1, ReceivingAppend
      <4>2. CASE results'[t] = results[t] /\ ~Receives(e, c)
        <5>1. s = r /\ x = 0
          BY <4>2
        <5> HIDE DEF s, r, x
        <5> QED
          BY <3>1, <5>1
      <4> QED
        BY <2>2, <4>1, <4>2
    <3>4. Owed(t, c) = b + r + Due(t, c) - PutBack(t, c)
      BY DEF Owed, Due, PutBack
    <3>5. Owed(t, c)' = q + s + Due(t, c) - PutBack(t, c)
      BY <1>5 DEF Owed, Due, PutBack, Receiving, Receives
    <3>6. b + r = q + s
      <4> HIDE DEF b, r, q, s, x
      <4> QED
        BY <3>1, <3>2, <3>3
    <3> QED
      BY <3>4, <3>5, <3>6
  <2> QED
    BY <1>4, <2>1, <2>2
<1>7. Outstanding(c)' = Outstanding(c)
  BY <1>1, OutstandingSame
<1> QED
  BY <1>1, <1>2, <1>6, <1>7, KeptStays

\* A message that was received has had its receive put back before it is gone past.
LEMMA KeptPast ==
  ASSUME TypeInv, TypeInv', NEW c \in Connections, KeptFor(c), NEW t \in Threads,
         FreeBuffer(t) \/ SendDropped(t) \/ Send(t)
  PROVE  KeptFor(c)'
<1> DEFINE e == Head(results[t])
           x == IF Receives(e, c) THEN 1 ELSE 0
           b == Receiving(batch[t], c)
           r == Receiving(results[t], c)
           s == Receiving(results'[t], c)
           j == Due(t, c)
           p == PutBack(t, c)
           w == PutBack(t, c)'
<1>1. /\ pc \in [Threads -> PCs] /\ Place(t) /\ results \in [Threads -> Seq(Event)]
      /\ results' = [results EXCEPT ![t] = Tail(@)] /\ results[t] # <<>>
      /\ UNCHANGED <<receives, cq, batch, job, lost>>
  BY DEF TypeInv, Types, FreeBuffer, SendDropped, Send, AtInstruction, Place, NextResult, requests,
         history
<1>2. /\ \A u \in Threads \ {t} : pc'[u] = pc[u] /\ results'[u] = results[u]
      /\ results'[t] = Tail(results[t]) /\ pc'[t] = "results"
  BY <1>1 DEF FreeBuffer, SendDropped, Send, AtInstruction, Goto
<1>3. /\ results[t] \in Seq(Completion) /\ Tail(results[t]) \in Seq(Completion)
      /\ batch[t] \in Seq(Completion)
  <2>1. results[t] \in Seq(Completion) /\ batch[t] \in Seq(Completion)
    BY ReceiveTerms
  <2> QED
    BY <1>1, <2>1
<1>4. r = s + x /\ r \in Int /\ s \in Int /\ b \in Int
  <2>1. r = s + x
    BY <1>1, <1>2, <1>3, ReceivingTail
  <2>2. r \in Int /\ b \in Int
    BY <1>3, ReceivingIs
  <2>3. results'[t] \in Seq(Completion)
    BY <1>2, <1>3
  <2>4. s \in Int
    BY <2>3, ReceivingIs
  <2> QED
    BY <2>1, <2>2, <2>4
<1>5. p = x /\ w = 0
  <2>1. CASE FreeBuffer(t)
    BY <1>2, <2>1 DEF FreeBuffer, AtInstruction, Receives, PutBack
  <2>2. CASE SendDropped(t) \/ Send(t)
    <3>1. pc[t] = "send"
      BY <2>2 DEF SendDropped, Send
    <3> QED
      BY <1>2, <3>1 DEF PutBack
  <2> QED
    BY <2>1, <2>2
<1>6. j \in Int
  <2>1. job[t] \in [conn : 0..Bound.connection, left : 0..MaxReceives]
    BY DEF TypeInv, Types
  <2> QED
    BY <2>1 DEF Due
<1>7. Owed(t, c) = b + r + j - p
  BY DEF Owed, Due, PutBack
<1>8. Owed(t, c)' = b + s + j - w
  BY <1>1 DEF Owed, Due, PutBack, Receiving, Receives
<1>9. x \in Int
  OBVIOUS
<1>10. Owed(t, c)' = Owed(t, c)
  <2> HIDE DEF b, r, s, j, p, w, x
  <2> QED
    BY <1>4, <1>5, <1>6, <1>7, <1>8, <1>9
<1>11. Outstanding(c)' = Outstanding(c)
  BY <1>1, OutstandingSame
<1> QED
  BY <1>1, <1>2, <1>10, <1>11, KeptStays

\* Posting a receive that is owed to a listed connection makes it outstanding, loses it
\* to an empty pool or a refusal, or finds the request queue full; a stuck worker owes it still.
LEMMA KeptPost ==
  ASSUME TypeInv, TypeInv', NEW c \in Connections, KeptFor(c), NEW t \in Threads,
         \A u \in Threads \ {t} :
           pc'[u] = pc[u] /\ batch'[u] = batch[u] /\ results'[u] = results[u] /\ job'[u] = job[u],
         NEW h, NEW l, PostReceive(t, h, l), cq' = cq,
         NEW d \in {0, 1}, Owed(t, c)' = Owed(t, c) - d, d = 1 => c \in Find(h) /\ pc'[t] # "stuck"
  PROVE  KeptFor(c)'
<1> DEFINE a == Outstanding(c)
           b == Outstanding(c)'
           k == lost[c]
           j == lost'[c]
           o == Owed(t, c)
           p == Owed(t, c)'
<1>1. /\ a \in Nat /\ b \in Nat /\ k \in Nat /\ j \in Nat /\ o \in Nat /\ p \in Nat
      /\ p = o - d
  BY KeptTerms, KeptTermsNext
<1>2. pc \in [Threads -> PCs]
  BY DEF TypeInv, Types
<1>3. (b + p + j >= a + o + k) \/ (a = b /\ a >= MaxReceives)
  <2>1. CASE /\ UNCHANGED receives
             /\ lost' = [x \in Connections |-> lost[x] + (IF x \in Find(h) THEN 1 ELSE 0)]
    <3>1. a = b
      BY <2>1, OutstandingSame
    <3>2. j = k + (IF c \in Find(h) THEN 1 ELSE 0)
      BY <2>1
    <3>3. j >= k + d
      <4> HIDE DEF j, k
      <4> QED
        BY <1>1, <3>2
    <3> HIDE DEF a, b, k, j, o, p
    <3> QED
      BY <1>1, <3>1, <3>3
  <2>2. CASE Goto(t, "stuck") /\ UNCHANGED <<receives, lost>>
    <3>1. a = b /\ j = k
      BY <2>2, OutstandingSame
    <3>2. d = 0
      BY <1>2, <2>2 DEF Goto
    <3> HIDE DEF a, b, k, j, o, p
    <3> QED
      BY <1>1, <3>1, <3>2
  <2>3. CASE /\ receives' = [x \in Connections |-> receives[x] +
                  (IF x \in {y \in Find(h) : Outstanding(y) < MaxReceives} THEN 1 ELSE 0)]
             /\ UNCHANGED lost
    <3>1. j = k /\ receives[c] \in Nat /\ Receiving(cq, c) \in Nat
      BY <2>3, ReceiveTerms
    <3>2. CASE c \notin Find(h)
      <4>1. receives'[c] = receives[c]
        BY <2>3, <3>1, <3>2
      <4>2. a = b /\ d = 0
        BY <3>2, <4>1, OutstandingSame
      <4> HIDE DEF a, b, k, j, o, p
      <4> QED
        BY <1>1, <3>1, <4>2
    <3>3. CASE c \in Find(h) /\ Outstanding(c) < MaxReceives
      <4> DEFINE x == receives[c]
                 y == receives'[c]
                 q == Receiving(cq, c)
      <4>1. y = x + 1 /\ x \in Nat /\ q \in Nat
        BY <2>3, <3>1, <3>3
      <4>2. a = x + q /\ b = y + q
        BY DEF Outstanding, Receiving, Receives
      <4>3. b = a + 1
        <5> HIDE DEF a, b, x, y, q
        <5> QED
          BY <4>1, <4>2
      <4> HIDE DEF a, b, k, j, o, p, x, y, q
      <4> QED
        BY <1>1, <3>1, <4>3
    <3>4. CASE ~(Outstanding(c) < MaxReceives)
      <4>1. receives'[c] = receives[c]
        BY <2>3, <3>1, <3>4
      <4>2. a = b /\ ~(a < MaxReceives)
        BY <3>4, <4>1, OutstandingSame
      <4> HIDE DEF a, b, k, j, o, p
      <4> QED
        BY <1>1, <4>2, Numbers
    <3> QED
      BY <3>2, <3>3, <3>4
  <2> QED
    BY <2>1, <2>2, <2>3 DEF PostReceive, Lose
<1>4. CASE b + p + j >= a + o + k
  BY <1>4, KeptBy
<1>5. CASE a = b /\ a >= MaxReceives
  <2>1. b + p + j >= MaxReceives
    <3> HIDE DEF a, b, k, j, o, p
    <3> QED
      BY <1>1, <1>5, Numbers
  <2> QED
    BY <2>1, KeptFull
<1> QED
  BY <1>3, <1>4, <1>5

LEMMA KeptReceive ==
  ASSUME TypeInv, TypeInv', NEW c \in Connections, KeptFor(c), c \in socketList,
         NEW t \in Threads, Receive(t)
  PROVE  KeptFor(c)'
<1> DEFINE e == Head(results[t])
           x == IF Receives(e, c) /\ pc'[t] # "stuck" THEN 1 ELSE 0
           h == Key(e)
<1>1. /\ pc \in [Threads -> PCs] /\ pc[t] = "results"
      /\ PostReceive(t, h, "send")
      /\ UNCHANGED <<cq, batch, results, job>>
  BY DEF TypeInv, Types, Receive, AtInstruction, holding
<1>2. /\ \A u \in Threads \ {t} : pc'[u] = pc[u]
      /\ pc'[t] \in {"send", "stuck"}
  BY <1>1 DEF PostReceive, Goto
<1>3. x = 1 => c \in Find(h) /\ pc'[t] # "stuck"
  BY KeyListed
<1>4. Owed(t, c)' = Owed(t, c) - x
  <2>1. Receiving(batch[t], c) \in Nat /\ Receiving(results[t], c) \in Nat
    BY ReceiveTerms, ReceivingIs
  <2>2. job[t] \in [conn : 0..Bound.connection, left : 0..MaxReceives]
    BY DEF TypeInv, Types
  <2>3. Due(t, c) \in Int
    BY <2>2 DEF Due
  <2> DEFINE b == Receiving(batch[t], c)
             r == Receiving(results[t], c)
             j == Due(t, c)
  <2>4. PutBack(t, c) = 0 /\ PutBack(t, c)' = x
    BY <1>1, <1>2 DEF PutBack
  <2>5. Owed(t, c) = b + r + j - 0
    BY <2>4 DEF Owed, Due, PutBack
  <2>6. Owed(t, c)' = b + r + j - PutBack(t, c)'
    BY <1>1 DEF Owed, Due, PutBack, Receiving, Receives
  <2>7. x \in Int
    OBVIOUS
  <2> HIDE DEF b, r, j, x
  <2> QED
    BY <2>1, <2>3, <2>4, <2>5, <2>6, <2>7 DEF b, r, j
<1> HIDE DEF h
<1>5. x \in {0, 1}
  OBVIOUS
<1> HIDE DEF x
<1> QED
  BY <1>1, <1>2, <1>3, <1>4, <1>5, KeptPost

LEMMA KeptInitialReceive ==
  ASSUME TypeInv, TypeInv', NEW c \in Connections, KeptFor(c), c \in socketList,
         NEW t \in Threads, InitialReceive(t)
  PROVE  KeptFor(c)'
<1> DEFINE x == IF job[t].conn = c /\ pc'[t] # "stuck" THEN 1 ELSE 0
           h == handle[job[t].conn]
<1>1. /\ pc \in [Threads -> PCs] /\ pc[t] = "initial"
      /\ job \in [Threads -> [conn : 0..Bound.connection, left : 0..MaxReceives]]
      /\ PostReceive(t, h, "initial")
      /\ UNCHANGED <<cq, batch, results>>
  BY DEF TypeInv, Types, InitialReceive
<1>2. /\ \A u \in Threads \ {t} : pc'[u] = pc[u]
      /\ pc'[t] \in {"initial", "stuck"}
  BY <1>1 DEF PostReceive, Goto
<1>3. /\ \A u \in Threads \ {t} : job'[u] = job[u]
      /\ job'[t].conn = job[t].conn
      /\ job'[t].left = IF pc'[t] = "stuck" THEN job[t].left ELSE job[t].left - 1
  BY <1>1 DEF InitialReceive
<1>4. x = 1 => c \in Find(h) /\ pc'[t] # "stuck"
  BY DEF Find
<1>5. Owed(t, c)' = Owed(t, c) - x
  <2>1. Receiving(batch[t], c) \in Nat /\ Receiving(results[t], c) \in Nat
    BY ReceiveTerms, ReceivingIs
  <2>2. job[t].left \in Int
    BY <1>1
  <2>3. Due(t, c) \in Int
    BY <2>2 DEF Due
  <2>4. Due(t, c)' = Due(t, c) - x
    <3>1. CASE job[t].conn = c
      BY <1>3, <2>2, <3>1 DEF Due
    <3>2. CASE job[t].conn # c
      BY <1>3, <2>2, <3>2 DEF Due
    <3> QED
      BY <3>1, <3>2
  <2>5. PutBack(t, c) = 0 /\ PutBack(t, c)' = 0
    BY <1>1, <1>2 DEF PutBack
  <2> DEFINE b == Receiving(batch[t], c)
             r == Receiving(results[t], c)
             j == Due(t, c)
  <2>6. Owed(t, c) = b + r + j - 0
    BY <2>5 DEF Owed, Due, PutBack
  <2>7. Owed(t, c)' = b + r + Due(t, c)' - 0
    BY <1>1, <2>5 DEF Owed, Due, PutBack, Receiving, Receives
  <2>8. x \in Int /\ Due(t, c)' = j - x /\ b \in Int /\ r \in Int /\ j \in Int
    BY <2>1, <2>3, <2>4
  <2> HIDE DEF b, r, j, x
  <2> QED
    BY <2>6, <2>7, <2>8
<1>6. x \in {0, 1}
  OBVIOUS
<1> HIDE DEF h, x
<1> QED
  BY <1>1, <1>2, <1>3, <1>4, <1>5, <1>6, KeptPost

\* A connection that has just been listed has all its receives due.
LEMMA KeptNew ==
  ASSUME TypeInv, TypeInv', NEW t \in Threads, AddEntry(t), NEW c \in Connections,
         c \in socketList', c \notin socketList
  PROVE  KeptFor(c)'
<1>1. /\ job \in [Threads -> [conn : 0..Bound.connection, left : 0..MaxReceives]]
      /\ pc \in [Threads -> PCs]
  BY DEF TypeInv, Types
<1>2. /\ c = job[t].conn /\ Goto(t, "initial")
      /\ job' = [job EXCEPT ![t].left = MaxReceives]
      /\ UNCHANGED <<batch, results>>
  BY DEF AddEntry
<1>3. Due(t, c)' = MaxReceives /\ PutBack(t, c)' = 0
  BY <1>1, <1>2 DEF Due, PutBack, Goto
<1> DEFINE b == Receiving(batch'[t], c)
           r == Receiving(results'[t], c)
           a == Outstanding(c)'
           k == lost'[c]
           o == Owed(t, c)'
<1>4. o = b + r + MaxReceives - 0
  BY <1>3 DEF Owed, Due, PutBack, Receiving, Receives
<1>5. b \in Nat /\ r \in Nat
  BY <1>2, ReceiveTerms, ReceivingIs
<1>6. a \in Nat /\ k \in Nat
  BY KeptTermsNext
<1>7. a + o + k >= MaxReceives
  <2> HIDE DEF a, b, k, o, r
  <2> QED
    BY <1>4, <1>5, <1>6, Numbers
<1> QED
  BY <1>7, KeptFull

\* What clients and network do moves receives within what is outstanding.
LEMMA KeptOutside ==
  ASSUME TypeInv, TypeInv', NEW c \in Connections, KeptFor(c), Environment \/ UNCHANGED vars
  PROVE  KeptFor(c)'
<1>1. PICK t : t \in Threads
  BY ThreadAssumption
<1>2. UNCHANGED <<pc, batch, results, job, lost>>
  BY DEF Environment, RequestEnds, Arrives, ReceiveFails, SendEnds, Connects, Complete, holding,
         history, vars
<1>3. Outstanding(c)' = Outstanding(c)
  <2>1. CASE RequestEnds
    <3>1. CASE \E d \in Connections : Arrives(d) \/ ReceiveFails(d)
      BY <3>1, OutstandingReceiveEnds
    <3>2. CASE \E r \in sends, ok \in BOOLEAN : SendEnds(r, ok)
      BY <3>2, OutstandingSendEnds
    <3> QED
      BY <2>1, <3>1, <3>2 DEF RequestEnds
  <2>2. CASE (\E h \in Handles : Connects(h)) \/ UNCHANGED vars
    <3>1. receives' = receives /\ cq' = cq
      BY <2>2 DEF Connects, requests, vars
    <3> QED
      BY <3>1, OutstandingSame
  <2> QED
    BY <2>1, <2>2 DEF Environment
<1>4. Owed(t, c)' = Owed(t, c)
  BY <1>2 DEF Owed, Receiving, Receives
<1> QED
  BY <1>1, <1>2, <1>3, <1>4, KeptStays

LEMMA KeptNext == TypeInv /\ TypeInv' /\ ListInv /\ ReceivesKept /\ [Next]_vars => ReceivesKept'
<1> SUFFICES ASSUME TypeInv, TypeInv', ListInv, ReceivesKept, [Next]_vars,
                    NEW c \in socketList', c \in open'
             PROVE  KeptFor(c)'
  BY DEF ReceivesKept, KeptFor
<1>1. /\ open \subseteq Known /\ socketList \subseteq Known /\ Known \subseteq Connections
      /\ socketList' \subseteq Known' /\ Known' \subseteq Connections
  BY DEF TypeInv, Types, Connections
<1>2. c \in Connections
  BY <1>1
<1>3. CASE Environment \/ UNCHANGED vars
  <2>1. c \in socketList
    BY <1>3 DEF Environment, RequestEnds, Arrives, ReceiveFails, SendEnds, Connects, Complete, list,
                vars
  <2>2. c \in open
    <3>1. CASE RequestEnds \/ UNCHANGED vars
      BY <3>1 DEF RequestEnds, Arrives, ReceiveFails, SendEnds, Complete, sockets, vars
    <3>2. CASE \E h \in Handles : Connects(h)
      <4>1. open' = open \cup {Len(handle) + 1}
        BY <3>2 DEF Connects
      <4>2. c # Len(handle) + 1
        BY <1>1, <2>1, <1>2 DEF Known, TypeInv, Types
      <4> QED
        BY <4>1, <4>2
    <3> QED
      BY <1>3, <3>1, <3>2 DEF Environment
  <2>3. KeptFor(c)
    BY <2>1, <2>2 DEF ReceivesKept, KeptFor
  <2> QED
    BY <1>2, <1>3, <2>3, KeptOutside
<1>4. ASSUME NEW t \in Threads, Worker(t)
      PROVE  KeptFor(c)'
  <2>1. c \in open
    BY <1>4 DEF Worker, RIONotify, GetQueuedCompletionStatus, Dequeue, Keep, Close, Erase, Receive,
                FreeBuffer, SendDropped, Send, AddEntry, InitialReceive, ResetAcceptCall, sockets
  <2>2. CASE c \notin socketList
    <3>1. AddEntry(t)
      BY <1>4, <2>2
         DEF Worker, RIONotify, GetQueuedCompletionStatus, Dequeue, Keep, Close, Erase, Receive,
             FreeBuffer, SendDropped, Send, InitialReceive, ResetAcceptCall, list
    <3> QED
      BY <1>2, <2>2, <3>1, KeptNew
  <2>3. CASE c \in socketList
    <3>1. KeptFor(c)
      BY <2>1, <2>3 DEF ReceivesKept, KeptFor
    <3>2. CASE RIONotify(t) \/ GetQueuedCompletionStatus(t) \/ AddEntry(t) \/ ResetAcceptCall(t)
      BY <1>2, <2>3, <3>1, <3>2, KeptSame
    <3>3. CASE Dequeue(t)
      BY <1>2, <3>1, <3>3, KeptDequeue
    <3>4. CASE Keep(t) \/ Close(t) \/ Erase(t)
      BY <1>2, <2>3, <3>1, <3>4, KeptBatch
    <3>5. CASE Receive(t)
      BY <1>2, <2>3, <3>1, <3>5, KeptReceive
    <3>6. CASE FreeBuffer(t) \/ SendDropped(t) \/ Send(t)
      BY <1>2, <3>1, <3>6, KeptPast
    <3>7. CASE InitialReceive(t)
      BY <1>2, <2>3, <3>1, <3>7, KeptInitialReceive
    <3> QED
      BY <1>4, <3>2, <3>3, <3>4, <3>5, <3>6, <3>7 DEF Worker
  <2> QED
    BY <2>2, <2>3
<1> QED
  BY <1>3, <1>4 DEF Next

\* A listed connection with an open socket does not go deaf: each receive it has to have
\* is outstanding, owed by a worker, or was lost to an empty pool or a refusal, through closings,
\* reused handles and request queues that are full (PostReceiveOnTCPService).
THEOREM ReceivesStayPosted == Spec => []ReceivesKept
<1>1. Init => ReceivesKept
  BY DEF Init, ReceivesKept
<1>2. TypeInv /\ TypeInv' /\ ListInv /\ ReceivesKept /\ [Next]_vars => ReceivesKept'
  BY KeptNext
<1> QED
  BY <1>1, <1>2, ListInvariant, PTL DEF Spec
=============================================================================
