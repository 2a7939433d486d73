--------------------------- MODULE ConnectionServer ---------------------------
(***************************************************************************)
(* The running server as one system: the workers with the completion port   *)
(* and the RIO completion queue (WorkerLoop), the connections of a TCP      *)
(* service (ServiceEntries), accepting (AcceptPipeline) and the pool        *)
(* (BufferPool), each at the granularity of its whole calls, so that what   *)
(* the parts do to each other shows: a batch with results of several        *)
(* connections, closed while it is worked through; a worker stuck with the  *)
(* packet that woke it; connections that get the handle of a closed one.    *)
(*                                                                         *)
(* A call of AddEntryToService, PostReceiveOnTCPService or SEND is a step;  *)
(* CloseServiceEntry is two, for in between its section is held and the     *)
(* socket closed but listed.  Segments are counted.  What WorkerLoop shows  *)
(* of old results gone through again is not repeated: the model stops       *)
(* there (harmed), as it does not have what ServiceEntries shows of races   *)
(* within the list, and AcceptPipeline of accepts that fail.                *)
(*                                                                         *)
(* External: as in those modules.                                           *)
(***************************************************************************)
EXTENDS Integers, Sequences, FiniteSets, Functions, SequencesExt

CONSTANTS Threads, NoThread,
          Handles,
          Segments,         \* of the pool
          MaxReceives,      \* serviceRQMaxReceives
          MaxAccepts,       \* serviceMaxAccepts
          DequeueCount,
          Bound             \* how often what happens outside may happen, by kind:
                            \*   connection  clients that connect
                            \*   message     messages received, fewer than
                            \*               serviceRQMaxSends
                            \*   error       requests that fail, or are refused, on an
                            \*               open socket
                            \*   both        connections and messages together

ASSUME ThreadAssumption == Threads # {} /\ IsFiniteSet(Threads) /\ NoThread \notin Threads
ASSUME HandleAssumption == Handles \subseteq Nat \ {0}
ASSUME CountAssumption ==
  /\ {Segments, MaxReceives, MaxAccepts, DequeueCount} \subseteq Nat \ {0}
  /\ Bound \in [{"connection", "message", "error", "both"} -> Nat]

VARIABLES
  (* Windows *)
  iocp, armed, cq,
  open,         \* connections whose socket is open
  handle,       \* of each connection so far
  receives,     \* receives RIO has, per connection
  sends,        \* sends RIO has: message and connection
  accepts,      \* AcceptEx calls pending
  (* RIOManager and BufferManager *)
  socketList,
  listCS,       \* owner of socketListCriticalSection
  free,         \* free segments
  (* per worker *)
  pc,
  batch,        \* dequeued completions not looked at yet
  results,      \* those kept and not processed yet
  old,          \* the results vector is not empty
  job,          \* connection being set up, and its receives still to post
  (* history *)
  received,     \* connection each message came from
  sent,         \* whom each message was sent on to
  lost,         \* receives of each connection that found no segment or were refused
  errors,
  harmed        \* an empty dequeue has left old results to be gone through again

packets  == <<iocp, armed>>
requests == <<receives, sends>>
sockets  == <<open, handle>>
list     == <<socketList, listCS>>
holding  == <<batch, results, old, job>>
history  == <<received, sent, lost, errors>>
vars     == <<packets, cq, sockets, requests, accepts, list, free, pc, holding,
              history, harmed>>

Connections == 1..Bound.connection
OneMore     == Len(handle) + Len(received) < Bound.both
NoJob == [conn |-> 0, left |-> 0]

Goto(t, l) == pc' = [pc EXCEPT ![t] = l]
Find(h)    == {c \in socketList : handle[c] = h}

\* The handle in the buffer of a completion: a send is in the buffer its message was
\* received in.
Key(e) == handle[IF e.kind = "receive" THEN e.conn ELSE received[e.msg]]

Init ==
  /\ iocp = <<>> /\ armed = FALSE /\ cq = <<>>
  /\ open = {} /\ handle = <<>> /\ sends = {} /\ accepts = MaxAccepts
  /\ receives = [c \in Connections |-> 0]
  /\ socketList = {} /\ listCS = NoThread /\ free = Segments
  /\ pc = [t \in Threads |-> "results"]
  /\ batch = [t \in Threads |-> <<>>] /\ results = [t \in Threads |-> <<>>]
  /\ old = [t \in Threads |-> FALSE] /\ job = [t \in Threads |-> NoJob]
  /\ received = <<>> /\ sent = [m \in 1..Bound.message |-> <<>>] /\ lost = [c \in Connections |-> 0]
  /\ errors = 0 /\ harmed = FALSE

-----------------------------------------------------------------------------
(* Clients and network.                                                     *)

\* An AcceptEx completes with a socket whose handle no open socket has.  Handles are
\* numbered as they are first given out.
Connects(h) ==
  LET c == Len(handle) + 1 IN
  /\ accepts > 0 /\ c \in Connections /\ OneMore
  /\ \A d \in open : handle[d] # h
  /\ h > 1 => h - 1 \in ToSet(handle)
  /\ accepts' = accepts - 1
  /\ open' = open \cup {c} /\ handle' = Append(handle, h)
  /\ iocp' = Append(iocp, [key |-> "CK_ACCEPT", conn |-> c])
  /\ UNCHANGED <<armed, cq, requests, list, free, pc, holding, history, harmed>>

\* A request ends; the registered notification, if any, fires.
Complete(kind, c, m, ok) ==
  /\ cq' = Append(cq, [kind |-> kind, conn |-> c, msg |-> m, ok |-> ok])
  /\ iocp' = IF armed THEN Append(iocp, [key |-> "CK_RIO", conn |-> 0]) ELSE iocp
  /\ armed' = FALSE
  /\ UNCHANGED <<sockets, accepts, list, free, pc, holding, sent, lost, harmed>>

Arrives(c) ==
  /\ c \in open /\ receives[c] > 0 /\ Len(received) < Bound.message /\ OneMore
  /\ receives' = [receives EXCEPT ![c] = @ - 1]
  /\ received' = Append(received, c)
  /\ Complete("receive", c, Len(received) + 1, TRUE)
  /\ UNCHANGED <<sends, errors>>

\* The other side has closed, or the socket is closed here.
MayFail(c) ==
  IF c \in open THEN errors < Bound.error /\ errors' = errors + 1 ELSE UNCHANGED errors

ReceiveFails(c) ==
  /\ receives[c] > 0 /\ MayFail(c)
  /\ receives' = [receives EXCEPT ![c] = @ - 1]
  /\ Complete("receive", c, 0, FALSE)
  /\ UNCHANGED <<sends, received>>

SendEnds(r, ok) ==
  /\ r \in sends
  /\ IF ok THEN r.to \in open /\ UNCHANGED errors ELSE MayFail(r.to)
  /\ sends' = sends \ {r}
  /\ Complete("send", r.to, r.msg, ok)
  /\ UNCHANGED <<receives, received>>

-----------------------------------------------------------------------------
(* MainProcess.                                                             *)

\* The top of the loop: nothing is left to be done of the last packet.
AtTop(t) == pc[t] = "results" /\ batch[t] = <<>> /\ results[t] = <<>>

\* Mutation: RIONotify stands before the loop.
NotifyAtFirst(t) ==
  /\ AtTop(t) /\ Goto(t, "gqcs")
  /\ IF old[t] THEN UNCHANGED packets
     ELSE /\ armed' = (cq = <<>>)
          /\ iocp' = IF cq = <<>> THEN iocp ELSE Append(iocp, [key |-> "CK_RIO", conn |-> 0])
  /\ UNCHANGED <<cq, sockets, requests, accepts, list, free, holding, history, harmed>>

RIONotify(t) ==
  /\ AtTop(t) /\ Goto(t, "gqcs")
  /\ armed' = (cq = <<>>)
  /\ iocp' = IF cq = <<>> THEN iocp ELSE Append(iocp, [key |-> "CK_RIO", conn |-> 0])
  /\ UNCHANGED <<cq, sockets, requests, accepts, list, free, holding, history, harmed>>

GetQueuedCompletionStatus(t) ==
  /\ pc[t] = "gqcs" /\ iocp # <<>>
  /\ iocp' = Tail(iocp)
  /\ IF Head(iocp).key = "CK_RIO" THEN Goto(t, "dequeue") /\ UNCHANGED job
     ELSE /\ Goto(t, "accept")
          /\ job' = [job EXCEPT ![t].conn = Head(iocp).conn]
  /\ UNCHANGED <<armed, cq, sockets, requests, accepts, list, free, batch, results, old,
                 history, harmed>>

-----------------------------------------------------------------------------
(* GetCompletedResults.                                                     *)

Dequeue(t) ==
  LET n == IF Len(cq) <= DequeueCount THEN Len(cq) ELSE DequeueCount IN
  /\ pc[t] = "dequeue" /\ Goto(t, "results")
  /\ cq' = SubSeq(cq, n + 1, Len(cq))
  /\ batch' = [batch EXCEPT ![t] = SubSeq(cq, 1, n)]
  /\ IF n = 0 THEN harmed' = old[t] /\ UNCHANGED old
              ELSE old' = [old EXCEPT ![t] = FALSE] /\ UNCHANGED harmed
  /\ UNCHANGED <<packets, sockets, requests, accepts, list, free, results, job, history>>

AtResult(t, ok) == pc[t] = "results" /\ batch[t] # <<>> /\ Head(batch[t]).ok = ok
NextOfBatch(t)  == batch' = [batch EXCEPT ![t] = Tail(@)]

\* Mutation: results are kept last first.
KeepInFront(t) ==
  /\ AtResult(t, TRUE) /\ NextOfBatch(t)
  /\ IF Find(Key(Head(batch[t]))) # {}
       THEN /\ results' = [results EXCEPT ![t] = <<Head(batch[t])>> \o @]
            /\ old' = [old EXCEPT ![t] = TRUE]
            /\ UNCHANGED free
       ELSE free' = free + 1 /\ UNCHANGED <<results, old>>
  /\ UNCHANGED <<packets, cq, sockets, requests, accepts, list, pc, job, history, harmed>>

\* Mutation: the segment of a result that is not kept is not freed.
KeepLeaks(t) ==
  /\ AtResult(t, TRUE) /\ NextOfBatch(t)
  /\ IF Find(Key(Head(batch[t]))) # {}
       THEN /\ results' = [results EXCEPT ![t] = Append(@, Head(batch[t]))]
            /\ old' = [old EXCEPT ![t] = TRUE]
       ELSE UNCHANGED <<results, old>>
  /\ UNCHANGED <<packets, cq, sockets, requests, accepts, list, free, pc, job, history, harmed>>

\* A good result is kept if its handle is listed, for whichever connection.
Keep(t) ==
  /\ AtResult(t, TRUE) /\ NextOfBatch(t)
  /\ IF Find(Key(Head(batch[t]))) # {}
       THEN /\ results' = [results EXCEPT ![t] = Append(@, Head(batch[t]))]
            /\ old' = [old EXCEPT ![t] = TRUE]
            /\ UNCHANGED free
       ELSE free' = free + 1 /\ UNCHANGED <<results, old>>
  /\ UNCHANGED <<packets, cq, sockets, requests, accepts, list, pc, job, history, harmed>>

\* CloseServiceEntry for a failed one: whatever is listed under the handle.
Close(t) ==
  LET h == Key(Head(batch[t])) IN
  /\ AtResult(t, FALSE) /\ listCS = NoThread
  /\ IF Find(h) = {}
       THEN NextOfBatch(t) /\ free' = free + 1 /\ UNCHANGED <<open, listCS, pc>>
       ELSE /\ listCS' = t /\ Goto(t, "erase")
            /\ open' = open \ Find(h)
            /\ UNCHANGED <<batch, free>>
  /\ UNCHANGED <<packets, cq, handle, requests, accepts, socketList, results, old, job,
                 history, harmed>>

\* Mutation: the section is not left.
EraseKeepsSection(t) ==
  /\ pc[t] = "erase" /\ Goto(t, "results")
  /\ socketList' = socketList \ Find(Key(Head(batch[t])))
  /\ NextOfBatch(t) /\ free' = free + 1
  /\ UNCHANGED <<packets, cq, sockets, requests, accepts, listCS, results, old, job,
                 history, harmed>>

Erase(t) ==
  /\ pc[t] = "erase" /\ Goto(t, "results")
  /\ socketList' = socketList \ Find(Key(Head(batch[t])))
  /\ listCS' = NoThread
  /\ NextOfBatch(t) /\ free' = free + 1
  /\ UNCHANGED <<packets, cq, sockets, requests, accepts, results, old, job, history, harmed>>

-----------------------------------------------------------------------------
(* ProcessInstruction.                                                      *)

NextResult(t) == results' = [results EXCEPT ![t] = Tail(@)]

\* Another thread is inside a section of the service, or can be.
InSection(t) == listCS # NoThread \/ \E u \in Threads \ {t} : pc[u] = "send"

Receives(e, c)  == e.kind = "receive" /\ e.conn = c
Receiving(s, c) == Cardinality({i \in 1..Len(s) : Receives(s[i], c)})
Outstanding(c)  == receives[c] + Receiving(cq, c)

\* The receive that was to be posted for handle h is not.
Lose(h) == lost' = [c \in Connections |-> lost[c] + (IF c \in Find(h) THEN 1 ELSE 0)]

\* PostReceiveOnTCPService for handle h, going on at l: no segment; stuck in the copy
\* of a section another thread was inside of; RIOReceive refuses, or the request queue
\* has no room, and the segment is freed; or a receive for the connection listed now, if
\* there is one.
PostReceive(t, h, l) ==
  \/ /\ free = 0 /\ Goto(t, l)
     /\ Lose(h)
     /\ UNCHANGED <<receives, free, errors>>
  \/ /\ free > 0 /\ listCS = NoThread /\ Goto(t, l)
     /\ Find(h) # {} /\ errors < Bound.error /\ errors' = errors + 1
     /\ Lose(h)
     /\ UNCHANGED <<receives, free>>
  \/ /\ free > 0 /\ InSection(t) /\ Goto(t, "stuck")
     /\ free' = free - 1
     /\ UNCHANGED <<receives, lost, errors>>
  \/ /\ free > 0 /\ listCS = NoThread /\ Goto(t, l)
     /\ LET room == {c \in Find(h) : Outstanding(c) < MaxReceives} IN
        /\ receives' = [c \in Connections |-> receives[c] + (IF c \in room THEN 1 ELSE 0)]
        /\ free' = free - Cardinality(room)
     /\ UNCHANGED <<lost, errors>>

AtInstruction(t, kind) ==
  pc[t] = "results" /\ batch[t] = <<>> /\ results[t] # <<>> /\ Head(results[t]).kind = kind

\* Mutation: a message is sent on and its receive is not put back.
SendOnly(t) ==
  /\ AtInstruction(t, "receive") /\ Goto(t, "send")
  /\ UNCHANGED <<packets, cq, sockets, requests, accepts, list, free, holding, history, harmed>>

\* RECEIVE comes before SEND in the instructions of a message that was received.
Receive(t) ==
  /\ AtInstruction(t, "receive")
  /\ PostReceive(t, Key(Head(results[t])), "send")
  /\ UNCHANGED <<packets, cq, sockets, sends, accepts, list, holding, received, sent,
                 harmed>>

\* The only instruction of a message that was sent.
FreeBuffer(t) ==
  /\ AtInstruction(t, "send") /\ NextResult(t)
  /\ free' = free + 1
  /\ UNCHANGED <<packets, cq, sockets, requests, accepts, list, pc, batch, old, job,
                 history, harmed>>

\* No such service, an empty list, no address where one is required; or RIOSend fails,
\* for the socket of the entry that was found has been closed in the meantime.
SendDropped(t) ==
  /\ pc[t] = "send" /\ Goto(t, "results") /\ NextResult(t)
  /\ free' = free + 1
  /\ UNCHANGED <<packets, cq, sockets, requests, accepts, list, batch, old, job, history, harmed>>

\* Mutation: a message that has been sent on is not gone past.
SendAndStay(t) ==
  LET m == Head(results[t]).msg IN
  /\ pc[t] = "send" /\ Goto(t, "results")
  /\ \E c \in socketList \cap open :
       /\ sends' = sends \cup {[msg |-> m, to |-> c]}
       /\ sent' = [sent EXCEPT ![m] = Append(@, c)]
  /\ UNCHANGED <<packets, cq, sockets, receives, accepts, list, free, holding,
                 received, lost, errors, harmed>>

\* Any entry may be the one addressed or the one whose turn it is.  The step is RIOSend:
\* its entry was found in the section, which may have changed hands since.
Send(t) ==
  LET m == Head(results[t]).msg IN
  /\ pc[t] = "send" /\ Goto(t, "results") /\ NextResult(t)
  /\ \E c \in socketList \cap open :
       /\ sends' = sends \cup {[msg |-> m, to |-> c]}
       /\ sent' = [sent EXCEPT ![m] = Append(@, c)]
  /\ UNCHANGED <<packets, cq, sockets, receives, accepts, list, free, batch, old, job,
                 received, lost, errors, harmed>>

-----------------------------------------------------------------------------
(* CK_ACCEPT: AddEntryToService, the initial receives, ResetAcceptCall.     *)

AddEntry(t) ==
  /\ pc[t] = "accept"
  /\ \/ /\ InSection(t) /\ Goto(t, "stuck")
        /\ UNCHANGED <<socketList, job>>
     \/ /\ listCS = NoThread /\ Goto(t, "initial")
        /\ socketList' = socketList \cup {job[t].conn}
        /\ job' = [job EXCEPT ![t].left = MaxReceives]
  /\ UNCHANGED <<packets, cq, sockets, requests, accepts, listCS, free, batch, results, old,
                 history, harmed>>

InitialReceive(t) ==
  /\ pc[t] = "initial" /\ job[t].left > 0
  /\ PostReceive(t, handle[job[t].conn], "initial")
  /\ job' = [job EXCEPT ![t].left = IF pc'[t] = "stuck" THEN @ ELSE @ - 1]
  /\ UNCHANGED <<packets, cq, sockets, sends, accepts, list, batch, results, old,
                 received, sent, harmed>>

ResetAcceptCall(t) ==
  /\ pc[t] = "initial" /\ job[t].left = 0 /\ Goto(t, "results")
  /\ job' = [job EXCEPT ![t] = NoJob]
  /\ accepts' = accepts + 1
  /\ UNCHANGED <<packets, cq, sockets, requests, list, free, batch, results, old,
                 history, harmed>>

-----------------------------------------------------------------------------

Worker(t) ==
  \/ RIONotify(t) \/ GetQueuedCompletionStatus(t)
  \/ Dequeue(t) \/ Keep(t) \/ Close(t) \/ Erase(t)
  \/ Receive(t) \/ FreeBuffer(t) \/ SendDropped(t) \/ Send(t)
  \/ AddEntry(t) \/ InitialReceive(t) \/ ResetAcceptCall(t)

RequestEnds ==
  \/ \E c \in Connections : Arrives(c) \/ ReceiveFails(c)
  \/ \E r \in sends, ok \in BOOLEAN : SendEnds(r, ok)

Environment == RequestEnds \/ \E h \in Handles : Connects(h)

Next == ~harmed /\ (Environment \/ \E t \in Threads : Worker(t))

Spec == Init /\ [][Next]_vars

\* The requests of a closed socket fail, which Windows sees to.
ClosedRequestEnds ==
  \/ \E c \in Connections \ open : ReceiveFails(c)
  \/ \E r \in sends : r.to \notin open /\ SendEnds(r, FALSE)

\* Workers are scheduled again and again; clients may stop.
FairSpec ==
  /\ Spec
  /\ \A t \in Threads : WF_vars(~harmed /\ Worker(t))
  /\ WF_vars(~harmed /\ ClosedRequestEnds)

-----------------------------------------------------------------------------
(* Properties                                                               *)

PCs == {"results", "gqcs", "dequeue", "erase", "send", "accept",
        "initial", "stuck"}
Completion == [kind : {"receive", "send"}, conn : Connections, msg : 0..Bound.message,
               ok : BOOLEAN]
Sending    == [msg : 1..Bound.message, to : Connections]

Stuck == \E t \in Threads : pc[t] = "stuck"

\* Shape of the state: the section is held exactly between closing and erasing, the
\* list holds open connections and the one being erased, each under its own handle,
\* and no request queue or accept allowance is overdrawn.
TypeOK ==
  /\ iocp \in Seq([key : {"CK_RIO", "CK_ACCEPT"}, conn : 0..Bound.connection])
  /\ armed \in BOOLEAN /\ cq \in Seq(Completion)
  /\ open \subseteq 1..Len(handle) /\ handle \in Seq(Handles)
  /\ sends \subseteq Sending /\ accepts \in 0..MaxAccepts
  /\ \A c \in Connections : Outstanding(c) <= MaxReceives /\ lost[c] \in Nat
  /\ \A t \in Threads : listCS = t <=> pc[t] = "erase"
  /\ \A c \in socketList \ open : listCS # NoThread /\ c \in Find(Key(Head(batch[listCS])))
  /\ \A c, d \in socketList : handle[c] = handle[d] => c = d
  /\ free \in 0..Segments
  /\ pc \in [Threads -> PCs] /\ old \in [Threads -> BOOLEAN]
  /\ \A t \in Threads : batch[t] \in Seq(Completion) /\ results[t] \in Seq(Completion)
  /\ received \in Seq(Connections) /\ \A m \in DOMAIN sent : sent[m] \in Seq(Connections)

Relay == INSTANCE MessageRelay WITH connected <- open, arrived <- received,
                                       Messages <- 1..Bound.message

\* The server is a relay: whatever batches, closings and reused handles do, no message
\* is passed on twice, none that did not arrive, and none to a connection that is not
\* there any more.
ImplementsRelay == Relay!RelaySpec

\* Segments a worker has: results, and the one of a receive it is stuck with.
Held(t) ==
  Len(batch[t]) + Len(results[t]) +
    (IF pc[t] = "stuck" /\ (results[t] # <<>> \/ job[t].left > 0) THEN 1 ELSE 0)

\* Every segment is free, with RIO, completed, or in the hands of a worker, over all
\* connections and their ends: none is lost or used twice; what a stuck worker holds is
\* the only part of the pool that does not come back.
SegmentsAccounted ==
  free + SumFunction(receives) + Cardinality(sends) + Len(cq)
    + SumFunction([t \in Threads |-> Held(t)]) = Segments

\* Receives of c that a worker has still to put back, or to post at first.
Owed(t, c) ==
  Receiving(batch[t], c) + Receiving(results[t], c)
    + (IF job[t].conn = c THEN job[t].left ELSE 0)
    - (IF pc[t] = "send" /\ Receives(Head(results[t]), c) THEN 1 ELSE 0)

\* A listed connection does not go deaf: each of its receives is outstanding, owed by
\* a worker (for good, if that one is stuck), or was lost: the pool was empty, or RIO
\* refused it.  Reused handles take none away: a late result of the connection that had
\* its handle before may post one of them, and its own then finds the queue full.
ReceivesKept ==
  \A c \in socketList \cap open :
    Outstanding(c) + SumFunction([t \in Threads |-> Owed(t, c)]) + lost[c] >= MaxReceives

\* A completion that brings a message, and the messages in a list of completions.
Message(e)  == e.kind = "receive" /\ e.ok
Messages(s) == {s[i].msg : i \in {j \in 1..Len(s) : Message(s[j])}}

InOrder(s) ==
  \A i, j \in 1..Len(s) :
    i < j /\ Message(s[i]) /\ Message(s[j]) /\ received[s[i].msg] = received[s[j].msg]
      => s[i].msg < s[j].msg

\* What a worker has taken from the queue.
Hand(t) == results[t] \o batch[t]

\* Messages of one client are kept in order up to where the workers divide them: the
\* queue, and what a worker has taken of it, is in order, and a message is not passed
\* on while an earlier one of its client is still in the queue.  Only a message that
\* another worker holds can be overtaken.
SentInOrder ==
  /\ \A t \in Threads : InOrder(Hand(t))
  /\ InOrder(cq)
  /\ \A m \in Messages(cq), n \in 1..Len(received) :
       received[n] = received[m] /\ sent[n] # <<>> => n < m

InHands(m) == \E t \in Threads : m \in Messages(Hand(t))

\* A message that arrived is passed on or dropped in the end, unless a worker is stuck:
\* it is not only its own messages that such a worker holds up, for it may be the one
\* that had to call RIONotify next.
MessagesSettled ==
  \A m \in 1..Bound.message :
    m \in 1..Len(received) ~>
      \/ m \notin Messages(cq) /\ ~InHands(m)
      \/ Stuck \/ harmed

\* All that is left of a closed connection, its entry, its requests and its completions,
\* goes away in the end and its segments with it, unless a worker is stuck.
ClosedConnectionsDrain ==
  \A c \in Connections :
    c \in 1..Len(handle) /\ c \notin open ~>
      \/ /\ c \notin socketList /\ Outstanding(c) = 0
         /\ \A t \in Threads : Owed(t, c) = 0
         /\ \A r \in sends : r.to # c
      \/ Stuck \/ harmed
=============================================================================
