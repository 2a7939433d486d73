------------------------------ MODULE WorkerLoop ------------------------------
(***************************************************************************)
(* The worker threads: MainProcess in RIOConnectionServer.cpp, with what it *)
(* calls on every completion: RIOManager::GetCompletedResults,              *)
(* ProcessManager::GetInstructions and RIOManager::ProcessInstruction.      *)
(*                                                                         *)
(* The traffic is that of the packet generator: datagrams arrive on the     *)
(* receives posted for a UDP service (rq "OP_RECEIVE") and are forwarded,   *)
(* in the same buffer, on the request queue of a destination entry (rq      *)
(* "OP_SEND").  Which entry a message goes to, and whether it has one, is   *)
(* left open: the send is posted or refused.  The pool is the indivisible   *)
(* one that module BufferManager implements.                                *)
(*                                                                         *)
(* External, from how the code uses them: the RIO completion queue and      *)
(* RIONotify (at most one notification registered, fired at once when the   *)
(* queue is not empty, else by the next completion), the FIFO of the I/O    *)
(* completion port, and the limit on outstanding requests of a request      *)
(* queue, where a request is outstanding until its completion is dequeued.  *)
(***************************************************************************)
EXTENDS Integers, Sequences, FiniteSets, Functions

CONSTANTS Threads,          \* NUM_THREADS worker threads
          Buffers,          \* segments of the pool
          MaxReceives,      \* serviceRQMaxReceives of the source
          MaxSends,         \* serviceRQMaxSends of the destination
          DequeueCount,     \* dequeueCount, results taken by one dequeue
          MaxAccepts,       \* serviceMaxAccepts, AcceptEx calls pending
          Bound             \* how often what happens outside may happen, by kind:
                            \*   packet  AcceptEx calls that complete, and console
                            \*           keys that print statistics
                            \*   failed  AcceptEx calls that complete with an error
                            \*   error   requests that fail, transfer no byte, or are
                            \*           refused though their queue has room
                            \*   all     packet, failed and error together
                            \*   fault   harmful dequeues the model goes on after

ASSUME ThreadsAssumption == Threads # {} /\ IsFiniteSet(Threads)
ASSUME BuffersAssumption == IsFiniteSet(Buffers) /\ MaxReceives <= Cardinality(Buffers)
ASSUME BoundsAssumption ==
  /\ {MaxReceives, MaxSends, DequeueCount} \subseteq Nat \ {0}
  /\ MaxAccepts \in Nat
  /\ Bound \in [{"packet", "failed", "error", "all", "fault"} -> Nat]

VARIABLES
  (* Windows *)
  iocp,         \* completion port: FIFO of completion keys
  armed,        \* a RIONotify is registered and has not fired
  cq,           \* RIO completion queue
  pending,      \* requests RIO is working on: how often each buffer, per kind
  outstanding,  \* requests counted against each request queue's limit
  accepts,      \* AcceptEx calls pending
  (* RIOManager, BufferManager *)
  freeBufferIndex,
  operationType,
  (* MainProcess, per thread *)
  pc,
  batch,        \* rioResults: the entries being dequeued, then those still to sort
  results,      \* the thread's results vector; it outlives the iteration
  pos,          \* next element of results to process
  instructions, \* instructionSet of the current result
  (* _tmain *)
  main,
  (* what has been lost or gone wrong so far *)
  lost,         \* receives that will not be posted again, by cause (those for want
                \* of a buffer or refused are counted until the first harmful dequeue)
  used,         \* how much of Bound has been used
  faults        \* dequeues that overlapped another, or found the queue empty and
                \* left old results to be gone through again

windows == <<iocp, armed, cq, pending, outstanding, accepts>>
manager == <<freeBufferIndex, operationType>>
thread  == <<batch, results, pos, instructions>>
history == <<lost, used, faults>>
vars    == <<windows, manager, pc, thread, main, history>>

Kinds == {"OP_RECEIVE", "OP_SEND"}
Keys  == {"CK_RIO", "CK_ACCEPT", "CK_ACCEPT_FAILED", "CK_GETINFO", "CK_QUIT"}
Completion == [buf : Buffers, kind : Kinds, ok : BOOLEAN]

Goto(t, l) == pc' = [pc EXCEPT ![t] = l]
InQueue(k) == \E i \in 1..Len(iocp) : iocp[i] = k

Unharmed == faults.overlap + faults.stale = 0

\* What follows more than Bound.fault such dequeues is not explored.
Sane == faults.overlap + faults.stale <= Bound.fault

Use(k) ==
  /\ used[k] < Bound[k] /\ used.packet + used.failed + used.error < Bound.all
  /\ used' = [used EXCEPT ![k] = @ + 1]

\* The orders in which Initialize can list the buffers.
Orders ==
  {f \in [1..Cardinality(Buffers) -> Buffers] :
     \A i, j \in 1..Cardinality(Buffers) : f[i] = f[j] => i = j}

\* The initial receives of the service are posted; the threads have started.
Init ==
  /\ iocp = <<>> /\ armed = FALSE /\ cq = <<>>
  /\ \E order \in Orders :
       /\ pending = [k \in Kinds |-> [b \in Buffers |->
            IF k = "OP_RECEIVE" /\ \E i \in 1..MaxReceives : order[i] = b THEN 1 ELSE 0]]
       /\ freeBufferIndex = SubSeq(order, MaxReceives + 1, Cardinality(Buffers))
  /\ outstanding = [k \in Kinds |-> IF k = "OP_RECEIVE" THEN MaxReceives ELSE 0]
  /\ accepts = MaxAccepts
  /\ operationType = [b \in Buffers |-> "OP_RECEIVE"]
  /\ pc = [t \in Threads |-> "notify"]
  /\ batch = [t \in Threads |-> <<>>]
  /\ results = [t \in Threads |-> <<>>]
  /\ pos = [t \in Threads |-> 1]
  /\ instructions = [t \in Threads |-> <<>>]
  /\ main = "running"
  /\ lost = [noBuffer |-> 0, refused |-> 0, error |-> 0]
  /\ used = [k \in {"packet", "failed", "error"} |-> 0]
  /\ faults = [overlap |-> 0, stale |-> 0]

-----------------------------------------------------------------------------
(* Windows: completions, accepted connections, console keys.                *)

\* A request ends; the registered notification, if any, fires.
Complete(k, b, ok) ==
  /\ main # "closed"
  /\ pending[k][b] > 0
  /\ IF ok THEN UNCHANGED used ELSE Use("error")
  /\ pending' = [pending EXCEPT ![k][b] = @ - 1]
  /\ cq' = Append(cq, [buf |-> b, kind |-> k, ok |-> ok])
  /\ iocp' = IF armed THEN Append(iocp, "CK_RIO") ELSE iocp
  /\ armed' = FALSE
  /\ UNCHANGED <<outstanding, accepts, manager, pc, thread, main, lost, faults>>

\* A pending AcceptEx completes, or fails because the client has gone already.
AcceptCompletes(ok) ==
  /\ main # "closed"
  /\ accepts > 0
  /\ Use(IF ok THEN "packet" ELSE "failed")
  /\ accepts' = accepts - 1
  /\ iocp' = Append(iocp, IF ok THEN "CK_ACCEPT" ELSE "CK_ACCEPT_FAILED")
  /\ UNCHANGED <<armed, cq, pending, outstanding, manager, pc, thread, main, lost, faults>>

\* A key that makes a worker print statistics (CK_COUNTER and CK_BUFINFO alike).
InfoKey ==
  /\ main = "running"
  /\ Use("packet")
  /\ iocp' = Append(iocp, "CK_GETINFO")
  /\ UNCHANGED <<armed, cq, pending, outstanding, accepts, manager, pc, thread, main, lost, faults>>

EscapeKey ==
  /\ main = "running"
  /\ main' = "joining"
  /\ iocp' = Append(iocp, "CK_QUIT")
  /\ UNCHANGED <<armed, cq, pending, outstanding, accepts, manager, pc, thread, history>>

\* join() on every thread, then RIOManager::Shutdown.
JoinAndShutdown ==
  /\ main = "joining"
  /\ \A t \in Threads : pc[t] = "exited"
  /\ main' = "closed"
  /\ UNCHANGED <<windows, manager, pc, thread, history>>

-----------------------------------------------------------------------------
(* The loop of MainProcess.                                                 *)

RIONotify(t) ==
  /\ pc[t] = "notify"
  /\ Goto(t, "gqcs")
  /\ \/ /\ cq = <<>>
        /\ armed' = TRUE
        /\ UNCHANGED iocp
     \/ /\ cq # <<>>
        /\ armed' = FALSE
        /\ iocp' = Append(iocp, "CK_RIO")
  /\ UNCHANGED <<cq, pending, outstanding, accepts, manager, thread, main, history>>

\* GetQueuedCompletionStatus and the switch on the completion key.  It returns
\* FALSE both when it could take no packet and when it took the packet of an
\* operation that failed; the loop breaks on either.
GetQueuedCompletionStatus(t) ==
  /\ pc[t] = "gqcs"
  /\ iocp # <<>>
  /\ iocp' = Tail(iocp)
  /\ Goto(t, CASE Head(iocp) = "CK_RIO"           -> "dequeue"
               [] Head(iocp) = "CK_ACCEPT"        -> "accept"
               [] Head(iocp) = "CK_ACCEPT_FAILED" -> "exited"
               [] Head(iocp) = "CK_GETINFO"       -> "notify"
               [] Head(iocp) = "CK_QUIT"          -> "quit")
  /\ UNCHANGED <<armed, cq, pending, outstanding, accepts, manager, thread, main, history>>

\* Mutation: the thread that takes CK_QUIT keeps it.
QuitNotReposted(t) ==
  /\ pc[t] = "quit"
  /\ Goto(t, "exited")
  /\ UNCHANGED <<windows, manager, thread, main, history>>

\* Each thread that takes CK_QUIT posts it again for the next one.
Quit(t) ==
  /\ pc[t] = "quit"
  /\ iocp' = Append(iocp, "CK_QUIT")
  /\ Goto(t, "exited")
  /\ UNCHANGED <<armed, cq, pending, outstanding, accepts, manager, thread, main, history>>

\* Mutation: ResetAcceptCall posts the call twice.
AcceptTwice(t) ==
  /\ pc[t] = "accept"
  /\ accepts' \in {accepts, accepts + 2}
  /\ Goto(t, "notify")
  /\ UNCHANGED <<iocp, armed, cq, pending, outstanding, manager, thread, main, history>>

\* CreateRIOSocket for the new connection, then ResetAcceptCall, which posts the
\* next AcceptEx unless no socket can be made for it.  If another worker is in the
\* socket list of that service (ServiceEntries says when), CreateRIOSocket copies its
\* section as it is and the worker waits in the copy for ever.
Accept(t) ==
  /\ pc[t] = "accept"
  /\ \/ accepts' \in {accepts, accepts + 1} /\ Goto(t, "notify")
     \/ Threads # {t} /\ Goto(t, "stuck") /\ UNCHANGED accepts
  /\ UNCHANGED <<iocp, armed, cq, pending, outstanding, manager, thread, main, history>>

-----------------------------------------------------------------------------
(* GetCompletedResults.  Its critical section is a member of a CQ_Handler   *)
(* that GetMainRIOCQ returns by value: each call enters its own copy, and   *)
(* RIODequeueCompletion runs unguarded.                                     *)

Taken(n)   == SubSeq(cq, 1, n)
BatchSize  == IF Len(cq) <= DequeueCount THEN Len(cq) ELSE DequeueCount
OfKind(s, k) == Cardinality({i \in 1..Len(s) : s[i].kind = k})
Member(s, e) == \E i \in 1..Len(s) : s[i] = e

\* How many of the entries s copied out are still at the head of the queue: all,
\* unless another thread was copying the same ones out and moved the head first.
StillAhead(s) == Cardinality({i \in 1..Len(cq) : \A j \in 1..i : Member(s, cq[j])})

DequeueEnter(t) ==
  /\ pc[t] = "dequeue"
  /\ batch' = [batch EXCEPT ![t] = Taken(BatchSize)]
  /\ faults' = IF \E u \in Threads : pc[u] = "dequeuing"
                 THEN [faults EXCEPT !.overlap = @ + 1] ELSE faults
  /\ Goto(t, "dequeuing")
  /\ UNCHANGED <<windows, manager, results, pos, instructions, main, lost, used>>

\* The queue's head moves past the entries copied out.  An empty dequeue returns
\* before results.clear(), so the caller goes through its old results again.
DequeueLeave(t) ==
  LET n == StillAhead(batch[t]) IN
  /\ pc[t] = "dequeuing"
  /\ cq' = SubSeq(cq, n + 1, Len(cq))
  /\ outstanding' = [k \in Kinds |-> outstanding[k] - OfKind(Taken(n), k)]
  /\ \/ /\ batch[t] = <<>>
        /\ faults' = IF results[t] = <<>> THEN faults ELSE [faults EXCEPT !.stale = @ + 1]
        /\ Goto(t, "process")
        /\ UNCHANGED results
     \/ /\ batch[t] # <<>>
        /\ results' = [results EXCEPT ![t] = <<>>]
        /\ Goto(t, "sorting")
        /\ UNCHANGED faults
  /\ pos' = [pos EXCEPT ![t] = 1]
  /\ UNCHANGED <<iocp, armed, pending, accepts, manager, batch, instructions, main, lost, used>>

\* The next of the completions taken: the buffer of a good one becomes a result, that
\* of a failed or empty one is freed and its receive is not posted again.
Sort(t) ==
  LET e == Head(batch[t]) IN
  /\ pc[t] = "sorting"
  /\ batch' = [batch EXCEPT ![t] = Tail(@)]
  /\ \/ /\ e.ok
        /\ results' = [results EXCEPT ![t] = Append(@, e.buf)]
        /\ UNCHANGED <<freeBufferIndex, lost>>
     \/ /\ ~e.ok
        /\ freeBufferIndex' = Append(freeBufferIndex, e.buf)
        /\ lost' = IF e.kind = "OP_RECEIVE" THEN [lost EXCEPT !.error = @ + 1] ELSE lost
        /\ UNCHANGED results
  /\ Goto(t, IF Len(batch[t]) = 1 THEN "process" ELSE "sorting")
  /\ UNCHANGED <<windows, operationType, pos, instructions, main, used, faults>>

-----------------------------------------------------------------------------
(* The results, one instruction at a time.                                  *)

Receive     == [type |-> "RECEIVE"]
Send(b)     == [type |-> "SEND", buf |-> b]
FreeInst(b) == [type |-> "FREEBUFFER", buf |-> b]

\* Mutation: the message is forwarded and its receive not put back.
SendOnly(b) == IF operationType[b] = "OP_RECEIVE" THEN <<Send(b)>> ELSE <<FreeInst(b)>>

\* Mutation: a completed send has no instruction.
SendKeepsBuffer(b) == IF operationType[b] = "OP_RECEIVE" THEN <<Receive, Send(b)>> ELSE <<>>

\* GetInstructions: the receive is put back before the message is forwarded.
GetInstructions(b) ==
  IF operationType[b] = "OP_RECEIVE" THEN <<Receive, Send(b)>> ELSE <<FreeInst(b)>>

NextResult(t) ==
  /\ pc[t] = "process"
  /\ instructions[t] = <<>>
  /\ pos[t] <= Len(results[t])
  /\ instructions' = [instructions EXCEPT ![t] = GetInstructions(results[t][pos[t]])]
  /\ pos' = [pos EXCEPT ![t] = @ + 1]
  /\ UNCHANGED <<windows, manager, pc, batch, results, main, history>>

\* Mutation: RIONotify stands before the loop instead of in it.
EndWithoutNotify(t) ==
  /\ pc[t] = "process"
  /\ instructions[t] = <<>>
  /\ pos[t] > Len(results[t])
  /\ Goto(t, "gqcs")
  /\ UNCHANGED <<windows, manager, thread, main, history>>

\* Mutation: the case of CK_RIO ends with a RIONotify of its own.
EndWithNotify(t) ==
  /\ pc[t] = "process"
  /\ instructions[t] = <<>>
  /\ pos[t] > Len(results[t])
  /\ Goto(t, "notify")
  /\ IF cq = <<>> THEN armed' = TRUE /\ UNCHANGED iocp
                  ELSE armed' = FALSE /\ iocp' = Append(iocp, "CK_RIO")
  /\ UNCHANGED <<cq, pending, outstanding, accepts, manager, thread, main, history>>

EndOfResults(t) ==
  /\ pc[t] = "process"
  /\ instructions[t] = <<>>
  /\ pos[t] > Len(results[t])
  /\ Goto(t, "notify")
  /\ UNCHANGED <<windows, manager, thread, main, history>>

CurrentIs(t, type) ==
  /\ pc[t] = "process"
  /\ instructions[t] # <<>>
  /\ Head(instructions[t]).type = type

Done(t) == instructions' = [instructions EXCEPT ![t] = Tail(@)]

Limit(k) == IF k = "OP_RECEIVE" THEN MaxReceives ELSE MaxSends

\* RIOReceive or RIOSend of buffer b accepted by the request queue.
Post(k, b) ==
  /\ outstanding[k] < Limit(k)
  /\ outstanding' = [outstanding EXCEPT ![k] = @ + 1]
  /\ pending' = [pending EXCEPT ![k][b] = @ + 1]
  /\ operationType' = [operationType EXCEPT ![b] = k]

\* RIOReceive or RIOSend returns FALSE: the queue is full, or Windows has its reasons.
Refused(k) ==
  \/ outstanding[k] >= Limit(k) /\ UNCHANGED used
  \/ Use("error")

\* ProcessInstruction RECEIVE, through PostReceiveOnUDPService.
PostReceive(t) ==
  /\ CurrentIs(t, "RECEIVE")
  /\ Done(t)
  /\ \/ /\ freeBufferIndex = <<>>
        /\ lost' = IF Unharmed THEN [lost EXCEPT !.noBuffer = @ + 1] ELSE lost
        /\ UNCHANGED <<pending, outstanding, manager, used>>
     \/ /\ freeBufferIndex # <<>>
        /\ Post("OP_RECEIVE", Head(freeBufferIndex))
        /\ freeBufferIndex' = Tail(freeBufferIndex)
        /\ UNCHANGED <<lost, used>>
     \/ /\ freeBufferIndex # <<>>
        /\ Refused("OP_RECEIVE")
        /\ operationType' = [operationType EXCEPT ![Head(freeBufferIndex)] = "OP_RECEIVE"]
        /\ freeBufferIndex' = Append(Tail(freeBufferIndex), Head(freeBufferIndex))
        /\ lost' = IF Unharmed THEN [lost EXCEPT !.refused = @ + 1] ELSE lost
        /\ UNCHANGED <<pending, outstanding>>
  /\ UNCHANGED <<iocp, armed, cq, accepts, pc, batch, results, pos, main, faults>>

\* Mutation: the buffer of a refused RIOSend is not freed.
PostSendLeaks(t) ==
  LET b == Head(instructions[t]).buf IN
  /\ CurrentIs(t, "SEND")
  /\ Done(t)
  /\ \/ /\ freeBufferIndex' = Append(freeBufferIndex, b)
        /\ UNCHANGED <<pending, outstanding, operationType, used>>
     \/ /\ Refused("OP_SEND")
        /\ operationType' = [operationType EXCEPT ![b] = "OP_SEND"]
        /\ UNCHANGED <<pending, outstanding, freeBufferIndex>>
     \/ /\ Post("OP_SEND", b)
        /\ UNCHANGED <<freeBufferIndex, used>>
  /\ UNCHANGED <<iocp, armed, cq, accepts, pc, batch, results, pos, main, lost, faults>>

\* ProcessInstruction SEND: no destination, RIOSend refused, or posted.
PostSend(t) ==
  LET b == Head(instructions[t]).buf IN
  /\ CurrentIs(t, "SEND")
  /\ Done(t)
  /\ \/ /\ freeBufferIndex' = Append(freeBufferIndex, b)
        /\ UNCHANGED <<pending, outstanding, operationType, used>>
     \/ /\ Refused("OP_SEND")
        /\ operationType' = [operationType EXCEPT ![b] = "OP_SEND"]
        /\ freeBufferIndex' = Append(freeBufferIndex, b)
        /\ UNCHANGED <<pending, outstanding>>
     \/ /\ Post("OP_SEND", b)
        /\ UNCHANGED <<freeBufferIndex, used>>
  /\ UNCHANGED <<iocp, armed, cq, accepts, pc, batch, results, pos, main, lost, faults>>

FreeBuffer(t) ==
  /\ CurrentIs(t, "FREEBUFFER")
  /\ Done(t)
  /\ freeBufferIndex' = Append(freeBufferIndex, Head(instructions[t]).buf)
  /\ UNCHANGED <<windows, operationType, pc, batch, results, pos, main, history>>

-----------------------------------------------------------------------------

Worker(t) ==
  \/ RIONotify(t) \/ GetQueuedCompletionStatus(t) \/ Quit(t) \/ Accept(t)
  \/ DequeueEnter(t) \/ DequeueLeave(t) \/ Sort(t)
  \/ NextResult(t) \/ EndOfResults(t)
  \/ PostReceive(t) \/ PostSend(t) \/ FreeBuffer(t)

Environment ==
  \/ \E k \in Kinds, b \in Buffers, ok \in BOOLEAN : Complete(k, b, ok)
  \/ \E ok \in BOOLEAN : AcceptCompletes(ok)
  \/ InfoKey \/ EscapeKey

Next ==
  \/ Sane /\ (Environment \/ JoinAndShutdown \/ \E t \in Threads : Worker(t))
  \/ (main = "closed" \/ ~Sane \/ \E t \in Threads : pc[t] = "stuck") /\ UNCHANGED vars

Spec == Init /\ [][Next]_vars

\* Every thread is scheduled again and again; traffic and keys may stop.
Fairness ==
  /\ \A t \in Threads : WF_vars(Sane /\ Worker(t))
  /\ WF_vars(Sane /\ JoinAndShutdown)

FairSpec == Spec /\ Fairness

-----------------------------------------------------------------------------
(* Properties                                                               *)

PCs == {"notify", "gqcs", "dequeue", "dequeuing", "sorting", "process", "accept",
        "stuck", "quit", "exited"}

Instructions == {Receive} \cup {Send(b) : b \in Buffers} \cup {FreeInst(b) : b \in Buffers}

\* Shape of the state; no request queue or AcceptEx allowance is overdrawn, and
\* a dequeue fits the array it is given.
TypeOK ==
  /\ iocp \in Seq(Keys) /\ armed \in BOOLEAN /\ cq \in Seq(Completion)
  /\ pending \in [Kinds -> [Buffers -> Nat]]
  /\ \A k \in Kinds : outstanding[k] \in 0..Limit(k)
  /\ accepts \in 0..MaxAccepts
  /\ freeBufferIndex \in Seq(Buffers)
  /\ operationType \in [Buffers -> Kinds]
  /\ pc \in [Threads -> PCs]
  /\ \A t \in Threads :
       /\ batch[t] \in Seq(Completion) /\ Len(batch[t]) <= DequeueCount
       /\ results[t] \in Seq(Buffers)
       /\ pos[t] \in 1..(Len(results[t]) + 1)
       /\ instructions[t] \in Seq(Instructions)
  /\ main \in {"running", "joining", "closed"}
  /\ lost \in [{"noBuffer", "refused", "error"} -> Nat]
  /\ used \in [{"packet", "failed", "error"} -> Nat]
  /\ faults \in [{"overlap", "stale"} -> Nat]

\* A thread that reaches RIONotify or RIODequeueCompletion before it waits again; one
\* that accepts may get stuck instead.
Awake(t) == pc[t] \in {"notify", "dequeue", "dequeuing", "sorting", "process"}

\* No lost wakeup: whenever the RIO completion queue holds a completion, a CK_RIO
\* packet is on its way or a worker is about to ask for one.  It holds however the
\* workers interleave, because every case of the switch that stays in the loop
\* comes back to RIONotify, after overlapping and empty dequeues too, and because the
\* worker that gets stuck is never the one that has taken a CK_RIO.
NotificationPending ==
  cq # <<>> => InQueue("CK_RIO") \/ \E t \in Threads : Awake(t)

\* What makes it inductive: the notification is armed only over an empty queue,
\* and it is armed unless a packet or a worker is on its way.
NotificationInv ==
  /\ armed => cq = <<>>
  /\ armed \/ InQueue("CK_RIO") \/ \E t \in Threads : Awake(t)

Busy(t) == Awake(t) \/ pc[t] = "accept"

\* CK_RIO packets do not pile up on their own: the notifications registered, in
\* the port or in the hands of a worker are at most one per worker, plus one for
\* every other packet that sent a worker through RIONotify.
NotificationsBounded ==
  Cardinality({i \in 1..Len(iocp) : iocp[i] = "CK_RIO"})
    + Cardinality({t \in Threads : Busy(t)}) + (IF armed THEN 1 ELSE 0)
      <= Cardinality(Threads) + used.packet

\* How often worker t answers for buffer b: in the completions it has taken and not
\* sorted, in the results it has not come to, in the instructions it has not done.
Held(t, b) ==
  (IF pc[t] = "sorting" THEN Cardinality({i \in 1..Len(batch[t]) : batch[t][i].buf = b}) ELSE 0)
    + Cardinality({i \in pos[t]..Len(results[t]) : results[t][i] = b})
    + Cardinality({i \in 1..Len(instructions[t]) : instructions[t][i] \in {Send(b), FreeInst(b)}})

\* How many owners a buffer has, in the whole server.
Owners(b) ==
  Cardinality({i \in 1..Len(freeBufferIndex) : freeBufferIndex[i] = b})
    + pending["OP_RECEIVE"][b] + pending["OP_SEND"][b]
    + Cardinality({i \in 1..Len(cq) : cq[i].buf = b})
    + SumFunction([t \in Threads |-> Held(t, b)])

\* As long as no dequeue overlapped another or re-ran old results, every segment
\* has exactly one owner through its whole round trip: free list, RIO, completion
\* queue, batch, result, instruction; whichever request fails, is refused or has no
\* destination.  So a segment is never leaked, freed twice or posted twice.
Ownership == Unharmed => \A b \in Buffers : Owners(b) = 1

\* Receives worker t has dequeued whose place on the request queue it has neither
\* filled again nor given up.
ToRepost(t) ==
  (IF pc[t] = "sorting" THEN OfKind(batch[t], "OP_RECEIVE") ELSE 0)
    + Cardinality({i \in pos[t]..Len(results[t]) : operationType[results[t][i]] = "OP_RECEIVE"})
    + Cardinality({i \in 1..Len(instructions[t]) : instructions[t][i] = Receive})

\* The receives of the service are conserved: each is outstanding, about to be
\* posted again, or accounted for by one of the three ways the code loses it for
\* good: a failed or empty completion, a pool with no buffer, an RIOReceive refused.
ReceiveCredit ==
  Unharmed => outstanding["OP_RECEIVE"] + SumFunction([t \in Threads |-> ToRepost(t)])
                + lost.noBuffer + lost.refused + lost.error = MaxReceives

\* A receive that finds the pool empty is never posted again.  Each segment more than
\* the two queues have places for saves one, and the results the workers hold at once
\* are all that can cost one: in a pool of exactly MaxReceives + MaxSends segments,
\* which is what _tmain asks for, the service loses at most one receive for each, however
\* long it runs; with a segment for each it loses none.
DropsBounded ==
  Unharmed /\ lost.noBuffer > 0 =>
    lost.noBuffer + Cardinality(Buffers)
      <= MaxReceives + MaxSends + Cardinality(Threads) * DequeueCount

\* After the Escape key there is exactly one CK_QUIT, in the port or in the hand
\* of the worker that posts it again, and none before: no worker leaves early on
\* it and none is left waiting.
QuitToken ==
  Cardinality({i \in 1..Len(iocp) : iocp[i] = "CK_QUIT"})
    + Cardinality({t \in Threads : pc[t] = "quit"}) = IF main = "running" THEN 0 ELSE 1

\* A buffer's completion does not stay in the queue for ever while the server
\* runs, even if no other completion follows it, as long as one worker is left: the
\* others may have ended on a failed accept or be stuck on a good one.
CompletionsServed ==
  \A b \in Buffers :
    (\E i \in 1..Len(cq) : cq[i].buf = b) ~>
      \/ ~\E i \in 1..Len(cq) : cq[i].buf = b
      \/ main # "running" \/ ~Sane
      \/ \A t \in Threads : pc[t] \in {"exited", "stuck"}

\* One CK_QUIT is enough: after the Escape key every worker ends, those waiting,
\* working or ended by a failed accept, and the manager is shut down; only a worker stuck
\* in an accept is waited for in vain.
QuitReachesAll ==
  main = "joining" ~> main = "closed" \/ ~Sane \/ \E t \in Threads : pc[t] = "stuck"

\* _tmain computes "the number of buffers required to handle all services": with so
\* many segments, no receive finds the pool empty.  The results the workers hold are
\* not counted.
ReceivesFindBuffers == Unharmed => lost.noBuffer = 0

\* BufferManager.h calls freeBufferIndex the indexes of free buffer segments: no
\* segment listed is one RIO is working on.  Old results gone through again
\* (GetCompletedResults returns before results.clear()) free segments in flight.
FreeSegmentsAreFree ==
  \A i \in 1..Len(freeBufferIndex) : \A k \in Kinds : pending[k][freeBufferIndex[i]] = 0
=============================================================================
