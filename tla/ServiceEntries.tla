---------------------------- MODULE ServiceEntries ----------------------------
(***************************************************************************)
(* The connections of one TCP service: the socket list of                   *)
(* ConnectionServerService with its critical section, and the calls that    *)
(* use it: AddEntryToService for an accepted connection, CloseServiceEntry  *)
(* for a failed request, PostReceiveOnTCPService, the SEND case of          *)
(* ProcessInstruction, and the test of a completed result in                *)
(* GetCompletedResults.  The service is both the source and the destination *)
(* of the messages.                                                         *)
(*                                                                         *)
(* A thread takes one completion at a time here: how the threads wake and   *)
(* share a batch is module WorkerLoop.  What a thread does between two      *)
(* completions of its batch another thread may do as well.                  *)
(*                                                                         *)
(* External, from how the code uses them: sockets, whose handles Windows    *)
(* gives out again once they are closed; RIO requests, which fail when      *)
(* their socket is closed; critical sections.  A CRITICAL_SECTION copied    *)
(* while a thread is inside it is a section that nobody will ever leave.    *)
(***************************************************************************)
EXTENDS Integers, Sequences, FiniteSets

CONSTANTS Threads,
          NoThread,
          Buffers,
          NoBuffer,
          Handles,          \* values of SOCKET, the keys of the socket list
          MaxReceives,      \* serviceRQMaxReceives
          Bound             \* how often what happens outside may happen, by kind:
                            \*   connection  connections accepted
                            \*   message     messages received
                            \*   error       requests that fail on an open socket

ASSUME NullsAssumption == NoThread \notin Threads /\ NoBuffer \notin Buffers
ASSUME HandlesAssumption == 0 \notin Handles
ASSUME ServiceAssumption ==
  /\ MaxReceives \in Nat \ {0}
  /\ Bound \in [{"connection", "message", "error"} -> Nat]

VARIABLES
  (* Windows *)
  open,         \* connections whose socket is open
  handle,       \* the handle a connection has or had, 0 before it is accepted
  requests,     \* RIO requests pending: buffer, and connection posted on
  cq,           \* RIO completion queue
  (* ConnectionServerService *)
  socketList,   \* the connections whose RQ_Handler is listed under their handle
  listCS,       \* owner of socketListCriticalSection
  entryCS,      \* owner of each RQ_Handler's criticalSection
  roundRobinLocation,
  isAddressRequired,
  (* BufferManager and ExtendedRioBuf *)
  free,
  socketContext,
  operationType,
  (* per thread *)
  pc,
  job,          \* what the call under way works on, see NoJob
  (* history *)
  source,       \* connection the message in a buffer came from
  used          \* how much of Bound has been used

windows == <<open, handle, requests, cq>>
lists   == <<socketList, roundRobinLocation, isAddressRequired>>
service == <<lists, listCS, entryCS>>
buffers == <<free, socketContext, operationType, source>>
vars    == <<windows, service, buffers, pc, job, used>>

Connections == 1..Bound.connection

NoJob == [msg   |-> NoBuffer,  \* buffer of the completion being processed
          buf   |-> NoBuffer,  \* buffer of the receive being posted
          key   |-> 0,         \* handle looked up
          conn  |-> 0,         \* connection accepted, or that the completion is of
          entry |-> 0,         \* connection whose RQ_Handler was found
          held  |-> FALSE,     \* the copied critical section is held for ever
          left  |-> 0]         \* initial receives still to post

Goto(t, l) == pc' = [pc EXCEPT ![t] = l]
Become(t, j) == job' = [job EXCEPT ![t] = j]
Finish(t) == Goto(t, "idle") /\ Become(t, NoJob)

Use(k) == used[k] < Bound[k] /\ used' = [used EXCEPT ![k] = @ + 1]

\* sockList->find(h): the connection listed under handle h, as a set.
Find(h) == {c \in socketList : handle[c] = h}

\* BufferManager::FreeBuffer
FreeBuffer(b) ==
  /\ free' = free \cup {b}
  /\ socketContext' = [socketContext EXCEPT ![b] = 0]

Init ==
  /\ open = {} /\ handle = [c \in Connections |-> 0] /\ requests = {} /\ cq = <<>>
  /\ socketList = {} /\ listCS = NoThread
  /\ entryCS = [c \in Connections |-> NoThread]
  /\ roundRobinLocation = 0 /\ isAddressRequired \in BOOLEAN
  /\ free = Buffers
  /\ socketContext = [b \in Buffers |-> 0]
  /\ operationType = [b \in Buffers |-> "OP_RECEIVE"]
  /\ pc = [t \in Threads |-> "idle"]
  /\ job = [t \in Threads |-> NoJob]
  /\ source = [b \in Buffers |-> 0]
  /\ used = [k \in DOMAIN Bound |-> 0]

-----------------------------------------------------------------------------
(* Windows                                                                  *)

\* A request of an open connection transfers its message.
Transfers(r) ==
  /\ r.conn \in open
  /\ IF operationType[r.buf] = "OP_RECEIVE" THEN Use("message") ELSE UNCHANGED used
  /\ requests' = requests \ {r}
  /\ cq' = Append(cq, [buf |-> r.buf, conn |-> r.conn, ok |-> TRUE])
  /\ UNCHANGED <<open, handle, service, buffers, pc, job>>

\* A request fails or transfers no byte: the other side has closed, or the socket
\* is closed here.
Fails(r) ==
  /\ IF r.conn \in open THEN Use("error") ELSE UNCHANGED used
  /\ requests' = requests \ {r}
  /\ cq' = Append(cq, [buf |-> r.buf, conn |-> r.conn, ok |-> FALSE])
  /\ UNCHANGED <<open, handle, service, buffers, pc, job>>

-----------------------------------------------------------------------------
(* What a thread takes up.                                                  *)

\* CK_ACCEPT: CreateRIOSocket for the connection accepted on the socket with
\* handle h, one that no open socket has.
TakeAccept(t) ==
  /\ pc[t] = "idle"
  /\ Use("connection")
  /\ \E h \in Handles :
       /\ \A c \in open : handle[c] # h
       /\ open' = open \cup {used'.connection}
       /\ handle' = [handle EXCEPT ![used'.connection] = h]
       /\ Become(t, [NoJob EXCEPT !.key = h, !.conn = used'.connection, !.left = MaxReceives])
  /\ Goto(t, "add_copy")
  /\ UNCHANGED <<requests, cq, service, buffers>>

\* One result of GetCompletedResults: a failed request closes the entry that the
\* buffer names, another is tested first.
TakeResult(t) ==
  /\ pc[t] = "idle"
  /\ cq # <<>>
  /\ cq' = Tail(cq)
  /\ Become(t, [NoJob EXCEPT !.msg = Head(cq).buf, !.conn = Head(cq).conn,
                             !.key = socketContext[Head(cq).buf]])
  /\ Goto(t, IF Head(cq).ok THEN "check" ELSE "cl_enter")
  /\ UNCHANGED <<open, handle, requests, service, buffers, used>>

\* The result counts if its entry is still listed.  The list is read outside the
\* critical section, which guards no more than the copying of its address.
Check(t) ==
  /\ pc[t] = "check"
  /\ IF Find(job[t].key) # {} /\ operationType[job[t].msg] = "OP_RECEIVE"
       THEN Goto(t, "rx_get") /\ UNCHANGED <<job, buffers>>
       ELSE FreeBuffer(job[t].msg) /\ Finish(t) /\ UNCHANGED <<operationType, source>>
  /\ UNCHANGED <<windows, service, used>>

-----------------------------------------------------------------------------
(* AddEntryToService.  It copies the service with its critical section and  *)
(* enters the copy, so that the list is read and written unguarded, and the *)
(* round-robin location it sets is the copy's.                              *)

CopyService(t) == job' = [job EXCEPT ![t].held = listCS # NoThread]

AddCopy(t) ==
  /\ pc[t] = "add_copy"
  /\ CopyService(t)
  /\ Goto(t, "add_find")
  /\ UNCHANGED <<windows, service, buffers, used>>

\* A listed handle is refused: the connection stays open and unlisted.
AddFind(t) ==
  /\ pc[t] = "add_find"
  /\ ~job[t].held
  /\ IF Find(job[t].key) # {}
       THEN Finish(t)
       ELSE Goto(t, "add_insert") /\ UNCHANGED job
  /\ UNCHANGED <<windows, service, buffers, used>>

AddBegin(t) ==
  /\ pc[t] = "add_insert"
  /\ Goto(t, "add_inserting")
  /\ UNCHANGED <<windows, service, buffers, job, used>>

AddInsert(t) ==
  /\ pc[t] = "add_inserting"
  /\ socketList' = socketList \cup {job[t].conn}
  /\ Goto(t, "rx_get")
  /\ UNCHANGED <<windows, roundRobinLocation, isAddressRequired, listCS, entryCS, buffers,
                 job, used>>

-----------------------------------------------------------------------------
(* PostReceiveOnTCPService, for an initial receive of a new connection or   *)
(* for the RECEIVE instruction of a message, whose SEND is next.            *)

AfterReceive(t) ==
  LET next == [job[t] EXCEPT !.buf = NoBuffer, !.entry = 0, !.held = FALSE] IN
  CASE job[t].left > 1 -> Goto(t, "rx_get") /\ Become(t, [next EXCEPT !.left = @ - 1])
    [] job[t].left = 1 -> Finish(t)
    [] job[t].left = 0 -> Goto(t, "tx_empty") /\ Become(t, next)

ReceiveGet(t) ==
  /\ pc[t] = "rx_get"
  /\ \/ /\ free = {}
        /\ AfterReceive(t)
        /\ UNCHANGED free
     \/ \E b \in free :
          /\ free' = free \ {b}
          /\ job' = [job EXCEPT ![t].buf = b]
          /\ Goto(t, "rx_copy")
  /\ UNCHANGED <<windows, service, socketContext, operationType, source, used>>

ReceiveCopy(t) ==
  /\ pc[t] = "rx_copy"
  /\ CopyService(t)
  /\ Goto(t, "rx_find")
  /\ UNCHANGED <<windows, service, buffers, used>>

\* Mutation: the service is taken by address and its section left on one path only.
ReceiveFindKeepsLock(t) ==
  /\ pc[t] = "rx_find"
  /\ listCS = NoThread
  /\ \/ /\ Find(job[t].key) = {}
        /\ FreeBuffer(job[t].buf)
        /\ AfterReceive(t)
        /\ UNCHANGED listCS
     \/ \E c \in Find(job[t].key) :
          /\ job' = [job EXCEPT ![t].entry = c, ![t].held = entryCS[c] # NoThread]
          /\ listCS' = t
          /\ Goto(t, "rx_post")
          /\ UNCHANGED <<free, socketContext>>
  /\ UNCHANGED <<windows, lists, entryCS, operationType, source, used>>

\* The entry is copied, with its critical section.
ReceiveFind(t) ==
  /\ pc[t] = "rx_find"
  /\ ~job[t].held
  /\ \/ /\ Find(job[t].key) = {}
        /\ FreeBuffer(job[t].buf)
        /\ AfterReceive(t)
     \/ \E c \in Find(job[t].key) :
          /\ job' = [job EXCEPT ![t].entry = c, ![t].held = entryCS[c] # NoThread]
          /\ Goto(t, "rx_post")
          /\ UNCHANGED <<free, socketContext>>
  /\ UNCHANGED <<windows, service, operationType, source, used>>

ReceivePost(t) ==
  LET b == job[t].buf
      c == job[t].entry
  IN
  /\ pc[t] = "rx_post"
  /\ ~job[t].held
  /\ operationType' = [operationType EXCEPT ![b] = "OP_RECEIVE"]
  /\ source' = [source EXCEPT ![b] = c]
  /\ \/ /\ c \in open
        /\ requests' = requests \cup {[buf |-> b, conn |-> c]}
        /\ socketContext' = [socketContext EXCEPT ![b] = job[t].key]
        /\ UNCHANGED free
     \/ /\ c \notin open
        /\ FreeBuffer(b)
        /\ UNCHANGED requests
  /\ AfterReceive(t)
  /\ UNCHANGED <<open, handle, cq, service, used>>

-----------------------------------------------------------------------------
(* The SEND case of ProcessInstruction.  The address is in the message.     *)

FreeAndFinish(t) == FreeBuffer(job[t].msg) /\ Finish(t)

SendEmpty(t) ==
  /\ pc[t] = "tx_empty"
  /\ \/ /\ socketList = {}
        /\ FreeAndFinish(t)
     \/ /\ socketList # {} /\ isAddressRequired   \* and no address given
        /\ FreeAndFinish(t)
     \/ /\ socketList # {} /\ ~isAddressRequired
        /\ Goto(t, "tx_robin_enter")
        /\ UNCHANGED <<job, free, socketContext>>
     \/ /\ socketList # {}
        /\ \E h \in Handles : job' = [job EXCEPT ![t].key = h]
        /\ Goto(t, "tx_enter")
        /\ UNCHANGED <<free, socketContext>>
  /\ UNCHANGED <<windows, service, operationType, source, used>>

\* EnterCriticalSection(&service->socketListCriticalSection)
EnterList(t, from, to) ==
  /\ pc[t] = from
  /\ listCS = NoThread
  /\ listCS' = t
  /\ Goto(t, to)
  /\ UNCHANGED <<windows, lists, entryCS, buffers, job, used>>

SendEnter(t)      == EnterList(t, "tx_enter", "tx_find")
SendRobinEnter(t) == EnterList(t, "tx_robin_enter", "tx_robin")

\* Mutation: the buffer of a message without destination is not freed.
SendFindLeaks(t) ==
  /\ pc[t] = "tx_find"
  /\ listCS' = NoThread
  /\ \/ \E c \in Find(job[t].key) :
          job' = [job EXCEPT ![t].entry = c] /\ Goto(t, "tx_entry") /\ UNCHANGED free
     \/ Find(job[t].key) = {} /\ isAddressRequired /\ Finish(t) /\ UNCHANGED free
     \/ Find(job[t].key) = {} /\ ~isAddressRequired /\ Goto(t, "tx_robin_enter")
          /\ UNCHANGED <<job, free>>
  /\ UNCHANGED <<windows, lists, entryCS, socketContext,
                 operationType, source, used>>

\* The section is left before the entry found is used.
SendFind(t) ==
  /\ pc[t] = "tx_find"
  /\ listCS' = NoThread
  /\ \/ /\ \E c \in Find(job[t].key) : job' = [job EXCEPT ![t].entry = c]
        /\ Goto(t, "tx_entry")
        /\ UNCHANGED <<free, socketContext>>
     \/ /\ Find(job[t].key) = {} /\ isAddressRequired
        /\ FreeAndFinish(t)
     \/ /\ Find(job[t].key) = {} /\ ~isAddressRequired
        /\ Goto(t, "tx_robin_enter")
        /\ UNCHANGED <<job, free, socketContext>>
  /\ UNCHANGED <<windows, lists, entryCS, operationType, source, used>>

\* The entry at the round-robin location, which moves on, or the first one.  Which
\* is first and which is next is the hash table's choice.
SendRobin(t) ==
  LET here == Find(roundRobinLocation) IN
  /\ pc[t] = "tx_robin"
  /\ listCS' = NoThread
  /\ \E c \in socketList :
       /\ here # {} => c \in here
       /\ job' = [job EXCEPT ![t].entry = c]
  /\ IF here = {} THEN UNCHANGED roundRobinLocation
                  ELSE roundRobinLocation' \in {handle[c] : c \in socketList}
  /\ Goto(t, "tx_entry")
  /\ UNCHANGED <<windows, socketList, isAddressRequired, entryCS, buffers, used>>

SendEnterEntry(t) ==
  /\ pc[t] = "tx_entry"
  /\ entryCS[job[t].entry] = NoThread
  /\ entryCS' = [entryCS EXCEPT ![job[t].entry] = t]
  /\ Goto(t, "tx_send")
  /\ UNCHANGED <<windows, lists, listCS, buffers, job, used>>

SendPost(t) ==
  LET b == job[t].msg
      c == job[t].entry
  IN
  /\ pc[t] = "tx_send"
  /\ operationType' = [operationType EXCEPT ![b] = "OP_SEND"]
  /\ \/ /\ c \in open
        /\ requests' = requests \cup {[buf |-> b, conn |-> c]}
        /\ UNCHANGED <<free, socketContext>>
     \/ /\ c \notin open
        /\ FreeBuffer(b)
        /\ UNCHANGED requests
  /\ entryCS' = [entryCS EXCEPT ![c] = NoThread]
  /\ Finish(t)
  /\ UNCHANGED <<open, handle, cq, lists, listCS, source, used>>

-----------------------------------------------------------------------------
(* CloseServiceEntry, and the FreeBuffer that follows each call of it.      *)

\* Mutation: the entry is looked for outside the critical section.
CloseUnlocked(t) ==
  /\ pc[t] = "cl_enter"
  /\ Goto(t, "cl_find")
  /\ UNCHANGED <<windows, service, buffers, job, used>>

CloseEnter(t) == EnterList(t, "cl_enter", "cl_find")

\* Mutation: the section is not left when there is no entry.
CloseFindKeepsLock(t) ==
  /\ pc[t] = "cl_find"
  /\ \/ /\ \E c \in Find(job[t].key) : job' = [job EXCEPT ![t].entry = c]
        /\ Goto(t, "cl_entry")
        /\ UNCHANGED <<free, socketContext>>
     \/ Find(job[t].key) = {} /\ FreeAndFinish(t)
  /\ UNCHANGED <<windows, service, operationType, source, used>>

CloseFind(t) ==
  /\ pc[t] = "cl_find"
  /\ \/ /\ \E c \in Find(job[t].key) : job' = [job EXCEPT ![t].entry = c]
        /\ Goto(t, "cl_entry")
        /\ UNCHANGED <<listCS, free, socketContext>>
     \/ /\ Find(job[t].key) = {}
        /\ listCS' = NoThread
        /\ FreeAndFinish(t)
  /\ UNCHANGED <<windows, lists, entryCS, operationType, source, used>>

CloseEnterEntry(t) ==
  /\ pc[t] = "cl_entry"
  /\ entryCS[job[t].entry] = NoThread
  /\ entryCS' = [entryCS EXCEPT ![job[t].entry] = t]
  /\ Goto(t, "cl_close")
  /\ UNCHANGED <<windows, lists, listCS, buffers, job, used>>

\* closesocket: whatever the handle names now is closed.
CloseSocket(t) ==
  /\ pc[t] = "cl_close"
  /\ open' = {c \in open : handle[c] # job[t].key}
  /\ entryCS' = [entryCS EXCEPT ![job[t].entry] = NoThread]
  /\ Goto(t, "cl_erase")
  /\ UNCHANGED <<handle, requests, cq, lists, listCS, buffers, job, used>>

CloseBegin(t) ==
  /\ pc[t] = "cl_erase"
  /\ Goto(t, "cl_erasing")
  /\ UNCHANGED <<windows, service, buffers, job, used>>

\* Mutation: the entry closed is left in the list.
CloseKeepsEntry(t) ==
  /\ pc[t] = "cl_erasing"
  /\ listCS' = NoThread
  /\ Goto(t, "cl_dump")
  /\ UNCHANGED <<windows, lists, entryCS, buffers, job, used>>

\* Mutation: the section of the list is not left.
CloseEraseKeepsLock(t) ==
  /\ pc[t] = "cl_erasing"
  /\ socketList' = socketList \ Find(job[t].key)
  /\ Goto(t, "cl_dump")
  /\ UNCHANGED <<windows, roundRobinLocation, isAddressRequired, listCS, entryCS, buffers,
                 job, used>>

CloseErase(t) ==
  /\ pc[t] = "cl_erasing"
  /\ socketList' = socketList \ Find(job[t].key)
  /\ listCS' = NoThread
  /\ Goto(t, "cl_dump")
  /\ UNCHANGED <<windows, roundRobinLocation, isAddressRequired, entryCS, buffers, job, used>>

\* Mutation: the buffer of the failed request is not freed once its entry is closed.
CloseDumpLeaks(t) ==
  /\ pc[t] = "cl_dump"
  /\ Finish(t)
  /\ UNCHANGED <<windows, service, buffers, used>>

\* criticalSectionDump.push_back of the section of the entry just destroyed.
CloseDump(t) ==
  /\ pc[t] = "cl_dump"
  /\ FreeAndFinish(t)
  /\ UNCHANGED <<windows, service, operationType, source, used>>

-----------------------------------------------------------------------------
(* Where the code's behaviour is undefined.                                 *)

Writes(t) == pc[t] \in {"add_inserting", "cl_erasing"}
Reads(t)  == \/ pc[t] \in {"check", "tx_empty", "tx_find", "tx_robin", "cl_find"}
             \/ pc[t] \in {"add_find", "rx_find"} /\ ~job[t].held

\* The hash table is being changed while another thread is in it.
ListRace == \E t, u \in Threads : t # u /\ Writes(t) /\ (Writes(u) \/ Reads(u))

\* Two threads add to criticalSectionDump.
DumpRace == \E t, u \in Threads : t # u /\ pc[t] = "cl_dump" /\ pc[u] = "cl_dump"

\* A sender holds the address of an entry that is erased, or of none.
Dangling(t) == \/ pc[t] \in {"tx_entry", "tx_send"} /\ job[t].entry \notin socketList
               \/ pc[t] = "tx_robin" /\ socketList = {}

\* What follows such a state is not explored.
Sound == ~ListRace /\ ~DumpRace /\ \A t \in Threads : ~Dangling(t)

-----------------------------------------------------------------------------

Add(t)     == AddCopy(t) \/ AddFind(t) \/ AddBegin(t) \/ AddInsert(t)
Receive(t) == ReceiveGet(t) \/ ReceiveCopy(t) \/ ReceiveFind(t) \/ ReceivePost(t)
Send(t)    == \/ SendEmpty(t) \/ SendEnter(t) \/ SendFind(t) \/ SendRobinEnter(t)
              \/ SendRobin(t) \/ SendEnterEntry(t) \/ SendPost(t)
Close(t)   == \/ CloseEnter(t) \/ CloseFind(t) \/ CloseEnterEntry(t) \/ CloseSocket(t)
              \/ CloseBegin(t) \/ CloseErase(t) \/ CloseDump(t)

Thread(t) == TakeResult(t) \/ Check(t) \/ Add(t) \/ Receive(t) \/ Send(t) \/ Close(t)

Environment == \E r \in requests : Transfers(r) \/ Fails(r)

Next == Sound /\ (Environment \/ \E t \in Threads : TakeAccept(t) \/ Thread(t))

Spec == Init /\ [][Next]_vars

\* Every thread is scheduled again and again; clients, traffic and errors may stop.
FairSpec == Spec /\ \A t \in Threads : WF_vars(Sound /\ Thread(t))

-----------------------------------------------------------------------------
(* Properties                                                               *)

InList  == {"tx_find", "tx_robin", "cl_find", "cl_entry", "cl_close", "cl_erase", "cl_erasing"}
InEntry == {"tx_send", "cl_close"}
PCs == InList \cup InEntry \cup
       {"idle", "check", "add_copy", "add_find", "add_insert", "add_inserting",
        "rx_get", "rx_copy", "rx_find", "rx_post", "tx_empty", "tx_enter",
        "tx_robin_enter", "tx_entry", "cl_enter", "cl_dump"}

Request == [buf : Buffers, conn : Connections]
Job == [msg : Buffers \cup {NoBuffer}, buf : Buffers \cup {NoBuffer},
        key : Handles \cup {0}, conn : Connections \cup {0}, entry : Connections \cup {0},
        held : BOOLEAN, left : 0..MaxReceives]

\* Shape of the state; the sections are held exactly where the code is inside them.
TypeOK ==
  /\ open \subseteq Connections
  /\ handle \in [Connections -> Handles \cup {0}]
  /\ requests \subseteq Request
  /\ cq \in Seq([buf : Buffers, conn : Connections, ok : BOOLEAN])
  /\ socketList \subseteq Connections
  /\ roundRobinLocation \in Handles \cup {0} /\ isAddressRequired \in BOOLEAN
  /\ free \subseteq Buffers
  /\ socketContext \in [Buffers -> Handles \cup {0}]
  /\ operationType \in [Buffers -> {"OP_RECEIVE", "OP_SEND"}]
  /\ pc \in [Threads -> PCs]
  /\ job \in [Threads -> Job]
  /\ source \in [Buffers -> Connections \cup {0}]
  /\ used \in [DOMAIN Bound -> Nat]
  /\ \A t \in Threads : listCS = t <=> pc[t] \in InList
  /\ \A t \in Threads, c \in Connections :
       entryCS[c] = t <=> pc[t] \in InEntry /\ job[t].entry = c

\* The places that answer for a buffer.
Owners(b) ==
  (IF b \in free THEN {"free"} ELSE {}) \cup
  {r \in requests : r.buf = b} \cup
  {<<"cq", i>> : i \in {j \in 1..Len(cq) : cq[j].buf = b}} \cup
  {<<"msg", t>> : t \in {u \in Threads : job[u].msg = b}} \cup
  {<<"buf", t>> : t \in {u \in Threads : job[u].buf = b}}

\* Whatever way a connection ends and a message fails, each buffer has one owner:
\* the nine early returns of SEND, RECEIVE and the results' test neither lose a
\* buffer nor free it twice, and closing a socket loses none of its requests.
BuffersConserved == \A b \in Buffers : Cardinality(Owners(b)) = 1

Adding(c)  == \E t \in Threads :
                job[t].conn = c /\ pc[t] \in {"add_copy", "add_find", "add_insert", "add_inserting"}
Closing(c) == \E t \in Threads : job[t].entry = c /\ pc[t] \in {"cl_erase", "cl_erasing"}

\* The list and the sockets tell the same story: a listed connection is open or
\* being erased, an open one is listed or about to be.  AddEntryToService never
\* refuses a connection whose handle an entry not erased yet still has: its
\* thread has then copied the section while it was held, and never comes to look.
ListMatchesSockets ==
  /\ \A c \in socketList : c \in open \/ Closing(c)
  /\ \A c \in open : c \in socketList \/ Adding(c)
  /\ \A c, d \in socketList : handle[c] = handle[d] => c = d
  /\ \A t \in Threads : pc[t] = "add_find" =>
       \A c \in Find(job[t].key) : Closing(c)

\* A socket is closed by the thread that found its entry, once: the handle it
\* passes to closesocket still is that connection's and nobody else's.
ClosedOnce ==
  \A t \in Threads : pc[t] = "cl_close" =>
    /\ job[t].entry \in open
    /\ \A u \in Threads \ {t} : pc[u] = "cl_close" => job[u].key # job[t].key

\* A thread that waits for ever in a copied section is in none that others wait for:
\* through the sections the copy costs the server that thread and no other.
StuckHoldsNothing ==
  \A t \in Threads : job[t].held => listCS # t /\ \A c \in Connections : entryCS[c] # t

InSendOrClose(t) == pc[t] \in {"check", "tx_empty", "tx_enter", "tx_find", "tx_robin_enter",
  "tx_robin", "tx_entry", "tx_send", "cl_enter", "cl_find", "cl_entry", "cl_close",
  "cl_erase", "cl_erasing", "cl_dump"}

\* Sending and closing, which enter the sections themselves, come to an end, even
\* when other threads are stuck in copies: the two sections are always entered in
\* the same order, list before entry.
SendsAndClosesReturn ==
  \A t \in Threads : InSendOrClose(t) ~> ~InSendOrClose(t) \/ ~Sound

\* RIOManager.h: "Critical Section for modifying the socket list hash".  The list
\* is not changed while another thread is in it.
ListExclusive == ~ListRace

\* The comment in GetCompletedResults explains the errors that make it close an
\* entry by the other side having closed: the entry closed is the failed request's.
OwnFailureCloses == \A t \in Threads : pc[t] = "cl_close" => job[t].entry = job[t].conn
=============================================================================
