---------------------------- MODULE BufferManager ----------------------------
(***************************************************************************)
(* BufferManager.cpp: the pool of registered buffer segments.  The free    *)
(* list is a std::queue of indexes guarded by a hand-written spin lock, an *)
(* std::atomic<bool> taken with compare_exchange_strong.  Threads          *)
(* interleave at every access to the shared queue and flag.                *)
(*                                                                         *)
(* A segment is named by its index in bufferPool.  Its callers (RIOManager)*)
(* are represented by  out , the segments GetBuffer has returned and no    *)
(* FreeBuffer call has been given since: a segment may be freed by another *)
(* thread than the one that got it, since it travels through the RIO       *)
(* completion queue in between.                                            *)
(***************************************************************************)
EXTENDS Integers, Sequences

CONSTANTS Threads,      \* worker threads
          BufferCount,  \* totalBufferCount
          BufferSize,   \* bufferSize, bytes of a segment
          Contexts,     \* non-zero socket contexts a caller may stamp
          NoBuffer      \* nullptr

ASSUME BufferCountAssumption == BufferCount \in Nat
ASSUME BufferSizeAssumption  == BufferSize \in Nat \ {0}
ASSUME ContextsAssumption    == 0 \notin Contexts
ASSUME NoBufferAssumption    == NoBuffer \notin 0..(BufferCount - 1)

VARIABLES isQueueInUse,     \* the spin lock
          freeBufferIndex,  \* queue of indexes of free segments
          socketContext,    \* bufferPool[i]->socketContext
          pc,               \* per thread, the next access of its call
          index,            \* per thread, the local index / bufferIndex
          out               \* segments held by callers

vars == <<isQueueInUse, freeBufferIndex, socketContext, pc, index, out>>

Index == 0..(BufferCount - 1)

\* Mutation: segments counted from one.
OffsetFromOne(b) == BufferSize * (b + 1)

\* bufferPool[b]->Offset, set once by Initialize.
Offset(b) == BufferSize * b

GetPCs  == {"get_cas", "get_size", "get_front", "get_pop", "get_return", "get_null"}
FreePCs == {"free_reset", "free_cas", "free_push", "free_return"}

\* Threads between a successful compare_exchange and isQueueInUse = false.
Locked(t) == pc[t] \in {"get_size", "get_front", "get_pop", "get_return",
                        "get_null", "free_push", "free_return"}

Goto(t, l) == pc' = [pc EXCEPT ![t] = l]

\* Initialize: every segment is pushed once, in index order.
Init ==
  /\ isQueueInUse = FALSE
  /\ freeBufferIndex = [i \in 1..BufferCount |-> i - 1]
  /\ socketContext = [b \in Index |-> 0]
  /\ pc = [t \in Threads |-> "idle"]
  /\ index = [t \in Threads |-> NoBuffer]
  /\ out = {}

-----------------------------------------------------------------------------
(* compare_exchange_strong, shared by both operations.                      *)

\* Mutation: a store instead of a compare-and-exchange.
StoreLock(t, from, to) ==
  /\ pc[t] = from
  /\ isQueueInUse' = TRUE
  /\ Goto(t, to)
  /\ UNCHANGED <<freeBufferIndex, socketContext, index, out>>

CompareExchange(t, from, to) ==
  /\ pc[t] = from
  /\ ~isQueueInUse
  /\ isQueueInUse' = TRUE
  /\ Goto(t, to)
  /\ UNCHANGED <<freeBufferIndex, socketContext, index, out>>

\* A failed exchange goes round the while (true) loop.
Spin(t) ==
  /\ pc[t] \in {"get_cas", "free_cas"}
  /\ isQueueInUse
  /\ UNCHANGED vars

-----------------------------------------------------------------------------
(* GetBuffer                                                                *)

GetCall(t) ==
  /\ pc[t] = "idle"
  /\ Goto(t, "get_cas")
  /\ UNCHANGED <<isQueueInUse, freeBufferIndex, socketContext, index, out>>

GetLock(t) == CompareExchange(t, "get_cas", "get_size")

\* Mutation: an empty queue is waited for, with the lock held.
GetSizeWaits(t) ==
  /\ pc[t] = "get_size"
  /\ Len(freeBufferIndex) > 0
  /\ Goto(t, "get_front")
  /\ UNCHANGED <<isQueueInUse, freeBufferIndex, socketContext, index, out>>

GetSize(t) ==
  /\ pc[t] = "get_size"
  /\ Goto(t, IF Len(freeBufferIndex) <= 0 THEN "get_null" ELSE "get_front")
  /\ UNCHANGED <<isQueueInUse, freeBufferIndex, socketContext, index, out>>

\* Mutation: the early return forgets isQueueInUse = false.
GetNullKeepsLock(t) ==
  /\ pc[t] = "get_null"
  /\ Goto(t, "idle")
  /\ UNCHANGED <<isQueueInUse, freeBufferIndex, socketContext, index, out>>

GetNull(t) ==
  /\ pc[t] = "get_null"
  /\ isQueueInUse' = FALSE
  /\ Goto(t, "idle")
  /\ UNCHANGED <<freeBufferIndex, socketContext, index, out>>

GetFront(t) ==
  /\ pc[t] = "get_front"
  /\ index' = [index EXCEPT ![t] = Head(freeBufferIndex)]
  /\ Goto(t, "get_pop")
  /\ UNCHANGED <<isQueueInUse, freeBufferIndex, socketContext, out>>

GetPop(t) ==
  /\ pc[t] = "get_pop"
  /\ freeBufferIndex' = Tail(freeBufferIndex)
  /\ Goto(t, "get_return")
  /\ UNCHANGED <<isQueueInUse, socketContext, index, out>>

GetReturn(t) ==
  /\ pc[t] = "get_return"
  /\ isQueueInUse' = FALSE
  /\ out' = out \cup {index[t]}
  /\ index' = [index EXCEPT ![t] = NoBuffer]
  /\ Goto(t, "idle")
  /\ UNCHANGED <<freeBufferIndex, socketContext>>

-----------------------------------------------------------------------------
(* FreeBuffer: the segment's fields are reset and its index recovered from  *)
(* its offset before the lock is taken.                                     *)

FreeCall(t, b) ==
  /\ pc[t] = "idle"
  /\ b \in out
  /\ out' = out \ {b}
  /\ index' = [index EXCEPT ![t] = b]
  /\ Goto(t, "free_reset")
  /\ UNCHANGED <<isQueueInUse, freeBufferIndex, socketContext>>

\* Mutation: the fields are left as the last user set them.
FreeKeepsContext(t) ==
  /\ pc[t] = "free_reset"
  /\ index' = [index EXCEPT ![t] = Offset(index[t]) \div BufferSize]
  /\ Goto(t, "free_cas")
  /\ UNCHANGED <<isQueueInUse, freeBufferIndex, socketContext, out>>

FreeReset(t) ==
  /\ pc[t] = "free_reset"
  /\ socketContext' = [socketContext EXCEPT ![index[t]] = 0]
  /\ index' = [index EXCEPT ![t] = Offset(index[t]) \div BufferSize]
  /\ Goto(t, "free_cas")
  /\ UNCHANGED <<isQueueInUse, freeBufferIndex, out>>

FreeLock(t) == CompareExchange(t, "free_cas", "free_push")

\* Mutation: the segment is put back at the wrong end.
FreePushFront(t) ==
  /\ pc[t] = "free_push"
  /\ freeBufferIndex' = <<index[t]>> \o freeBufferIndex
  /\ index' = [index EXCEPT ![t] = NoBuffer]
  /\ Goto(t, "free_return")
  /\ UNCHANGED <<isQueueInUse, socketContext, out>>

FreePush(t) ==
  /\ pc[t] = "free_push"
  /\ freeBufferIndex' = Append(freeBufferIndex, index[t])
  /\ index' = [index EXCEPT ![t] = NoBuffer]
  /\ Goto(t, "free_return")
  /\ UNCHANGED <<isQueueInUse, socketContext, out>>

FreeReturn(t) ==
  /\ pc[t] = "free_return"
  /\ isQueueInUse' = FALSE
  /\ Goto(t, "idle")
  /\ UNCHANGED <<freeBufferIndex, socketContext, index, out>>

-----------------------------------------------------------------------------
(* The holder of a segment stamps it before posting a TCP receive with it   *)
(* (PostReceiveOnTCPService); a UDP receive is posted without a stamp.      *)

Stamp(b, c) ==
  /\ b \in out
  /\ socketContext' = [socketContext EXCEPT ![b] = c]
  /\ UNCHANGED <<isQueueInUse, freeBufferIndex, pc, index, out>>

GetBuffer(t) ==
  GetLock(t) \/ GetSize(t) \/ GetNull(t) \/ GetFront(t) \/ GetPop(t) \/ GetReturn(t)

FreeBuffer(t) ==
  FreeReset(t) \/ FreeLock(t) \/ FreePush(t) \/ FreeReturn(t)

Next ==
  \/ \E t \in Threads :
       \/ GetCall(t) \/ GetBuffer(t) \/ FreeBuffer(t) \/ Spin(t)
       \/ \E b \in Index : FreeCall(t, b)
  \/ \E b \in Index, c \in Contexts : Stamp(b, c)

Spec == Init /\ [][Next]_vars

\* A thread inside a call keeps running; callers need not call.
Fairness == \A t \in Threads : WF_vars(GetBuffer(t) \/ FreeBuffer(t))

FairSpec == Spec /\ Fairness

-----------------------------------------------------------------------------
(* Properties                                                               *)

\* Shape of the state.
TypeOK ==
  /\ isQueueInUse \in BOOLEAN
  /\ freeBufferIndex \in Seq(Index)
  /\ socketContext \in [Index -> Contexts \cup {0}]
  /\ pc \in [Threads -> {"idle"} \cup GetPCs \cup FreePCs]
  /\ index \in [Threads -> Index \cup {NoBuffer}]
  /\ out \subseteq Index

Listed(b) == \E i \in 1..Len(freeBufferIndex) : freeBufferIndex[i] = b

\* Thread t alone knows segment b: popped and not yet returned, or given to
\* FreeBuffer and not yet pushed.
InHand(t, b) ==
  /\ pc[t] \in {"get_return", "free_reset", "free_cas", "free_push"}
  /\ index[t] = b

\* No segment is handed out twice, listed twice, or lost: at every moment each
\* one is exactly once in the free list, with the callers, or in the hand of one
\* thread inside GetBuffer or FreeBuffer, whatever the interleaving.
PoolPartition ==
  /\ \A i, j \in 1..Len(freeBufferIndex) :
        freeBufferIndex[i] = freeBufferIndex[j] => i = j
  /\ \A b \in Index :
        /\ Listed(b) \/ b \in out \/ \E t \in Threads : InHand(t, b)
        /\ ~(Listed(b) /\ b \in out)
        /\ \A t \in Threads : InHand(t, b) =>
             /\ ~Listed(b) /\ b \notin out
             /\ \A u \in Threads : InHand(u, b) => u = t

\* What the proof of the two adds: at most one thread is past the exchange, the
\* queue does not change under it between size(), front() and pop(), and a segment
\* on its way back has been reset.
LockDiscipline ==
  /\ \A t \in Threads : Locked(t) => isQueueInUse
  /\ \A t, u \in Threads : Locked(t) /\ Locked(u) => t = u
  /\ \A t \in Threads : pc[t] \in {"get_front", "get_pop"} => freeBufferIndex # <<>>
  /\ \A t \in Threads : pc[t] = "get_pop" => index[t] = Head(freeBufferIndex)
  /\ \A t \in Threads :
       pc[t] \in {"get_return", "free_reset", "free_cas", "free_push"} => index[t] \in Index
  /\ \A t \in Threads :
       pc[t] \in {"free_cas", "free_push"} => socketContext[index[t]] = 0

\* A segment leaves the pool with socketContext 0: FreeBuffer clears it before
\* the segment can be seen in the free list by another thread.  A UDP receive
\* relies on it, since it never sets the field.
FreeBuffersClean ==
  /\ \A b \in Index : Listed(b) => socketContext[b] = 0
  /\ \A t \in Threads : pc[t] \in {"get_pop", "get_return"} => socketContext[index[t]] = 0

IInv == TypeOK /\ LockDiscipline /\ PoolPartition /\ FreeBuffersClean

\* Every step of the spin-locked code is a step of the indivisible pool or
\* changes nothing its callers can see: GetBuffer takes effect at the pop (or at
\* the size test that finds the queue empty), FreeBuffer at the push.
callOf ==
  [t \in Threads |->
     CASE pc[t] = "idle"        -> [op |-> "none",  buf |-> NoBuffer]
       [] pc[t] = "get_return"  -> [op |-> "got",   buf |-> index[t]]
       [] pc[t] = "get_null"    -> [op |-> "got",   buf |-> NoBuffer]
       [] pc[t] = "free_return" -> [op |-> "freed", buf |-> NoBuffer]
       [] pc[t] \in FreePCs \ {"free_return"} -> [op |-> "free", buf |-> index[t]]
       [] OTHER                 -> [op |-> "get",   buf |-> NoBuffer]]

Pool == INSTANCE BufferPool
          WITH free <- freeBufferIndex, taken <- out, call <- callOf

ImplementsPool == Pool!PoolSpec

\* The spin lock is always given back, on the early return of an empty pool too.
LockReleased == isQueueInUse ~> ~isQueueInUse

\* When every thread is inside a call, one of them gets out: the callers cannot
\* all be caught in the compare_exchange loop.
SomeCallReturns ==
  (\A t \in Threads : pc[t] # "idle") ~> (\E t \in Threads : pc[t] = "idle")
=============================================================================
