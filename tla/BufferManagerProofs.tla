------------------------- MODULE BufferManagerProofs -------------------------
(***************************************************************************)
(* Proofs about BufferManager, for any number of threads and segments.     *)
(***************************************************************************)
EXTENDS BufferManager, DataFacts, TLAPS

(* Division undoes multiplication, by the facts that define it. *)

LEMMA TimesMonotone ==
  ASSUME NEW a \in Int, NEW b \in Int, NEW k \in Int, k > 0, a < b
  PROVE  k * a + k <= k * b
<1>1. b - a >= 1 /\ b - a \in Int
  OBVIOUS
<1>2. k * (b - a) >= k
  BY <1>1
<1>3. k * (b - a) = k * b - k * a
  OBVIOUS
<1>4. k * b \in Int /\ k * a \in Int
  OBVIOUS
<1> QED
  BY <1>2, <1>3, <1>4

LEMMA TimesDiv ==
  ASSUME NEW n \in Nat, NEW k \in Nat, k > 0
  PROVE  (k * n) \div k = n
<1> DEFINE q == (k * n) \div k
<1>1. q \in Int
  OBVIOUS
<1>2. k * q <= k * n /\ k * n < k * q + k
  OBVIOUS
<1> HIDE DEF q
<1>3. ~(q < n)
  BY <1>1, <1>2, TimesMonotone
<1>4. ~(n < q)
  BY <1>1, <1>2, TimesMonotone
<1> QED
  BY <1>1, <1>3, <1>4 DEF q

(* FreeBuffer finds the segment's own index from its offset. *)
LEMMA OffsetIndex ==
  ASSUME NEW b \in Index
  PROVE  Offset(b) \div BufferSize = b
<1>1. b \in Nat /\ BufferSize \in Nat /\ BufferSize > 0
  BY BufferSizeAssumption, BufferCountAssumption DEF Index
<1> QED
  BY <1>1, TimesDiv DEF Offset

-----------------------------------------------------------------------------
(* The pool's state, one conjunct of IInv at a time.                        *)

LEMMA InitIInv == Init => IInv
<1> SUFFICES ASSUME Init PROVE IInv
  OBVIOUS
<1> USE DEF Init
<1>1. /\ freeBufferIndex \in Seq(Index)
      /\ Len(freeBufferIndex) = BufferCount
      /\ \A i \in 1..BufferCount : freeBufferIndex[i] = i - 1
  BY BufferCountAssumption DEF Index
<1>2. \A b \in Index : b + 1 \in 1..BufferCount /\ freeBufferIndex[b + 1] = b
  BY <1>1, BufferCountAssumption DEF Index
<1>3. TypeOK
  BY <1>1 DEF TypeOK
<1>4. LockDiscipline
  BY DEF LockDiscipline, Locked
<1>5. PoolPartition
  <2>1. \A i, j \in 1..Len(freeBufferIndex) :
           freeBufferIndex[i] = freeBufferIndex[j] => i = j
    BY <1>1, BufferCountAssumption
  <2>2. \A b \in Index : Listed(b)
    BY <1>1, <1>2 DEF Listed
  <2>3. \A t \in Threads, b \in Index : ~InHand(t, b)
    BY DEF InHand
  <2> HIDE DEF Init
  <2>4. out = {}
    BY DEF Init
  <2> QED
    BY <2>1, <2>2, <2>3, <2>4 DEF PoolPartition
<1>6. FreeBuffersClean
  BY DEF FreeBuffersClean
<1> QED
  BY <1>3, <1>4, <1>5, <1>6 DEF IInv

LEMMA NextType == IInv /\ [Next]_vars => TypeOK'
<1> SUFFICES ASSUME IInv, [Next]_vars PROVE TypeOK'
  OBVIOUS
<1> USE DEF IInv, TypeOK, Goto, GetPCs, FreePCs
<1>1. ASSUME NEW t \in Threads, GetCall(t) PROVE TypeOK'
  BY <1>1 DEF GetCall
<1>2. ASSUME NEW t \in Threads, GetBuffer(t) PROVE TypeOK'
  <2>1. CASE GetLock(t)
    BY <2>1 DEF GetLock, CompareExchange
  <2>2. CASE GetSize(t)
    BY <2>2 DEF GetSize
  <2>3. CASE GetNull(t)
    BY <2>3 DEF GetNull
  <2>4. CASE GetFront(t)
    <3>1. Head(freeBufferIndex) \in Index
      BY <2>4 DEF GetFront, LockDiscipline
    <3> QED
      BY <2>4, <3>1 DEF GetFront
  <2>5. CASE GetPop(t)
    <3>1. Tail(freeBufferIndex) \in Seq(Index)
      BY <2>5 DEF GetPop, LockDiscipline
    <3> QED
      BY <2>5, <3>1 DEF GetPop
  <2>6. CASE GetReturn(t)
    BY <2>6 DEF GetReturn, LockDiscipline
  <2> QED
    BY <1>2, <2>1, <2>2, <2>3, <2>4, <2>5, <2>6 DEF GetBuffer
<1>3. ASSUME NEW t \in Threads, FreeBuffer(t) PROVE TypeOK'
  <2>1. CASE FreeReset(t)
    BY <2>1, OffsetIndex DEF FreeReset, LockDiscipline
  <2>2. CASE FreeLock(t)
    BY <2>2 DEF FreeLock, CompareExchange
  <2>3. CASE FreePush(t)
    <3>1. Append(freeBufferIndex, index[t]) \in Seq(Index)
      BY <2>3, AppendListed DEF FreePush, LockDiscipline
    <3> QED
      BY <2>3, <3>1 DEF FreePush
  <2>4. CASE FreeReturn(t)
    BY <2>4 DEF FreeReturn
  <2> QED
    BY <1>3, <2>1, <2>2, <2>3, <2>4 DEF FreeBuffer
<1>4. ASSUME NEW t \in Threads, Spin(t) PROVE TypeOK'
  BY <1>4 DEF Spin, vars
<1>5. ASSUME NEW t \in Threads, NEW b \in Index, FreeCall(t, b) PROVE TypeOK'
  BY <1>5 DEF FreeCall
<1>6. ASSUME NEW b \in Index, NEW c \in Contexts, Stamp(b, c) PROVE TypeOK'
  BY <1>6 DEF Stamp
<1>7. CASE UNCHANGED vars
  BY <1>7 DEF vars
<1> QED
  BY <1>1, <1>2, <1>3, <1>4, <1>5, <1>6, <1>7 DEF Next

LEMMA NextDiscipline == IInv /\ [Next]_vars => LockDiscipline'
<1> SUFFICES ASSUME IInv, [Next]_vars PROVE LockDiscipline'
  OBVIOUS
<1> USE DEF IInv, TypeOK, LockDiscipline, Locked, Goto
<1>1. ASSUME NEW t \in Threads, GetCall(t) PROVE LockDiscipline'
  BY <1>1 DEF GetCall
<1>2. ASSUME NEW t \in Threads, GetBuffer(t) PROVE LockDiscipline'
  <2>1. CASE GetLock(t)
    BY <2>1 DEF GetLock, CompareExchange
  <2>2. CASE GetSize(t)
    <3>1. Len(freeBufferIndex) <= 0 \/ freeBufferIndex # <<>>
      OBVIOUS
    <3> QED
      BY <2>2, <3>1 DEF GetSize
  <2>3. CASE GetNull(t)
    BY <2>3 DEF GetNull
  <2>4. CASE GetFront(t)
    BY <2>4 DEF GetFront
  <2>5. CASE GetPop(t)
    <3>1. index[t] \in Index
      BY <2>5, TailListed DEF GetPop, PoolPartition
    <3> QED
      BY <2>5, <3>1 DEF GetPop
  <2>6. CASE GetReturn(t)
    BY <2>6 DEF GetReturn
  <2> QED
    BY <1>2, <2>1, <2>2, <2>3, <2>4, <2>5, <2>6 DEF GetBuffer
<1>3. ASSUME NEW t \in Threads, FreeBuffer(t) PROVE LockDiscipline'
  <2>1. CASE FreeReset(t)
    \* Another thread's segment is not the one being reset, or it is reset too.
    <3>1. index'[t] = index[t]
      BY <2>1, OffsetIndex DEF FreeReset
    <3>2. \A u \in Threads : socketContext[index[u]] = 0 /\ index[u] \in Index
                               => socketContext'[index[u]] = 0
      BY <2>1 DEF FreeReset
    <3> QED
      BY <2>1, <3>1, <3>2 DEF FreeReset
  <2>2. CASE FreeLock(t)
    BY <2>2 DEF FreeLock, CompareExchange
  <2>3. CASE FreePush(t)
    BY <2>3 DEF FreePush
  <2>4. CASE FreeReturn(t)
    BY <2>4 DEF FreeReturn
  <2> QED
    BY <1>3, <2>1, <2>2, <2>3, <2>4 DEF FreeBuffer
<1>4. ASSUME NEW t \in Threads, Spin(t) PROVE LockDiscipline'
  BY <1>4 DEF Spin, vars
<1>5. ASSUME NEW t \in Threads, NEW b \in Index, FreeCall(t, b) PROVE LockDiscipline'
  BY <1>5 DEF FreeCall
<1>6. ASSUME NEW b \in Index, NEW c \in Contexts, Stamp(b, c) PROVE LockDiscipline'
  \* A stamped segment is a caller's, not one on its way back.
  <2>1. \A u \in Threads : pc[u] \in {"free_cas", "free_push"} => index[u] # b
    BY <1>6 DEF Stamp, PoolPartition, InHand
  <2> QED
    BY <1>6, <2>1 DEF Stamp
<1>7. CASE UNCHANGED vars
  BY <1>7 DEF vars
<1> QED
  BY <1>1, <1>2, <1>3, <1>4, <1>5, <1>6, <1>7 DEF Next

LEMMA NextPartition == IInv /\ [Next]_vars => PoolPartition'
<1> SUFFICES ASSUME IInv, [Next]_vars PROVE PoolPartition'
  OBVIOUS
<1> USE DEF IInv, TypeOK
\* A step that moves no segment.
<1>0. ASSUME UNCHANGED <<freeBufferIndex, out>>,
             \A u \in Threads, b \in Index : InHand(u, b)' <=> InHand(u, b)
      PROVE  PoolPartition'
  BY <1>0 DEF PoolPartition, Listed
<1>1. ASSUME NEW t \in Threads, GetCall(t) PROVE PoolPartition'
  BY <1>0, <1>1 DEF GetCall, Goto, InHand
<1>2. ASSUME NEW t \in Threads, GetBuffer(t) PROVE PoolPartition'
  <2>1. CASE GetLock(t)
    BY <1>0, <2>1 DEF GetLock, CompareExchange, Goto, InHand
  <2>2. CASE GetSize(t)
    BY <1>0, <2>2 DEF GetSize, Goto, InHand
  <2>3. CASE GetNull(t)
    BY <1>0, <2>3 DEF GetNull, Goto, InHand
  <2>4. CASE GetFront(t)
    BY <1>0, <2>4 DEF GetFront, Goto, InHand
  <2>5. CASE GetPop(t)
    \* The head of the list passes to the hand of t.
    <3> DEFINE h == Head(freeBufferIndex)
    <3>1. freeBufferIndex # <<>> /\ index[t] = h /\ freeBufferIndex' = Tail(freeBufferIndex)
      BY <2>5 DEF GetPop, LockDiscipline
    <3>2. /\ h \in Index /\ Listed(h)
          /\ \A b \in Index : Listed(b)' <=> Listed(b) /\ b # h
          /\ \A i, j \in 1..Len(freeBufferIndex') :
               freeBufferIndex'[i] = freeBufferIndex'[j] => i = j
      <4>1. \A i, j \in 1..Len(freeBufferIndex) :
               freeBufferIndex[i] = freeBufferIndex[j] => i = j
        BY DEF PoolPartition
      <4>2. /\ h \in Index
            /\ \E i \in 1..Len(freeBufferIndex) : freeBufferIndex[i] = h
            /\ \A b : (\E i \in 1..Len(freeBufferIndex') : freeBufferIndex'[i] = b)
                        <=> (\E i \in 1..Len(freeBufferIndex) : freeBufferIndex[i] = b) /\ b # h
            /\ \A i, j \in 1..Len(freeBufferIndex') :
                  freeBufferIndex'[i] = freeBufferIndex'[j] => i = j
        BY <3>1, <4>1, TailListed
      <4> QED
        BY <4>2 DEF Listed
    <3>3. \A u \in Threads, b \in Index :
             InHand(u, b)' <=> InHand(u, b) \/ (u = t /\ b = h)
      BY <2>5, <3>1 DEF GetPop, Goto, InHand
    <3>4. out' = out
      BY <2>5 DEF GetPop
    <3> HIDE DEF h
    <3> QED
      BY <3>2, <3>3, <3>4 DEF PoolPartition
  <2>6. CASE GetReturn(t)
    \* From the hand of t to the caller.
    <3>1. /\ index[t] \in Index /\ InHand(t, index[t])
          /\ out' = out \cup {index[t]} /\ UNCHANGED freeBufferIndex
      BY <2>6 DEF GetReturn, InHand, LockDiscipline
    <3>2. \A u \in Threads, b \in Index : InHand(u, b)' <=> InHand(u, b) /\ u # t
      BY <2>6 DEF GetReturn, Goto, InHand
    <3>3. \A b \in Index : InHand(t, b) => b = index[t]
      BY DEF InHand
    <3> QED
      BY <3>1, <3>2, <3>3 DEF PoolPartition, Listed
  <2> QED
    BY <1>2, <2>1, <2>2, <2>3, <2>4, <2>5, <2>6 DEF GetBuffer
<1>3. ASSUME NEW t \in Threads, FreeBuffer(t) PROVE PoolPartition'
  <2>1. CASE FreeReset(t)
    <3>1. index[t] \in Index
      BY <2>1 DEF FreeReset, LockDiscipline
    <3>2. index' = index
      BY <2>1, <3>1, OffsetIndex DEF FreeReset
    <3> QED
      BY <1>0, <2>1, <3>2 DEF FreeReset, Goto, InHand
  <2>2. CASE FreeLock(t)
    BY <1>0, <2>2 DEF FreeLock, CompareExchange, Goto, InHand
  <2>3. CASE FreePush(t)
    \* From the hand of t to the end of the list.
    <3>1. /\ index[t] \in Index /\ InHand(t, index[t])
          /\ freeBufferIndex' = Append(freeBufferIndex, index[t]) /\ UNCHANGED out
      BY <2>3 DEF FreePush, InHand, LockDiscipline
    <3>2. /\ \A b \in Index : Listed(b)' <=> Listed(b) \/ b = index[t]
          /\ \A i, j \in 1..Len(freeBufferIndex') :
               freeBufferIndex'[i] = freeBufferIndex'[j] => i = j
      BY <3>1, AppendListed DEF PoolPartition, Listed
    <3>3. \A u \in Threads, b \in Index : InHand(u, b)' <=> InHand(u, b) /\ u # t
      BY <2>3 DEF FreePush, Goto, InHand
    <3>4. \A b \in Index : InHand(t, b) => b = index[t]
      BY DEF InHand
    <3> QED
      BY <3>1, <3>2, <3>3, <3>4 DEF PoolPartition
  <2>4. CASE FreeReturn(t)
    BY <1>0, <2>4 DEF FreeReturn, Goto, InHand
  <2> QED
    BY <1>3, <2>1, <2>2, <2>3, <2>4 DEF FreeBuffer
<1>4. ASSUME NEW t \in Threads, Spin(t) PROVE PoolPartition'
  BY <1>0, <1>4 DEF Spin, vars, InHand
<1>5. ASSUME NEW t \in Threads, NEW b \in Index, FreeCall(t, b) PROVE PoolPartition'
  \* From the caller to the hand of t.
  <2>1. b \in out /\ out' = out \ {b} /\ UNCHANGED freeBufferIndex
    BY <1>5 DEF FreeCall
  <2>2. \A u \in Threads, c \in Index : InHand(u, c)' <=> InHand(u, c) \/ (u = t /\ c = b)
    BY <1>5 DEF FreeCall, Goto, InHand
  <2> QED
    BY <2>1, <2>2 DEF PoolPartition, Listed
<1>6. ASSUME NEW b \in Index, NEW c \in Contexts, Stamp(b, c) PROVE PoolPartition'
  BY <1>0, <1>6 DEF Stamp, InHand
<1>7. CASE UNCHANGED vars
  BY <1>0, <1>7 DEF vars, InHand
<1> QED
  BY <1>1, <1>2, <1>3, <1>4, <1>5, <1>6, <1>7 DEF Next

LEMMA NextClean == IInv /\ [Next]_vars => FreeBuffersClean'
<1> SUFFICES ASSUME IInv, [Next]_vars PROVE FreeBuffersClean'
  OBVIOUS
<1> USE DEF IInv, TypeOK
\* A step that lists nothing, sends no thread to a pop and clears contexts at most.
<1>0. ASSUME UNCHANGED freeBufferIndex,
             \A b \in Index : socketContext[b] = 0 => socketContext'[b] = 0,
             \A u \in Threads : pc'[u] \in {"get_pop", "get_return"} =>
               pc[u] \in {"get_pop", "get_return"} /\ index'[u] = index[u] /\ index[u] \in Index
      PROVE  FreeBuffersClean'
  BY <1>0 DEF FreeBuffersClean, Listed
<1>a. \A u \in Threads : pc[u] \in {"get_pop", "get_return"} => index[u] \in Index
  BY TailListed DEF LockDiscipline, PoolPartition
<1>1. ASSUME NEW t \in Threads, GetCall(t) PROVE FreeBuffersClean'
  BY <1>0, <1>a, <1>1 DEF GetCall, Goto
<1>2. ASSUME NEW t \in Threads, GetBuffer(t) PROVE FreeBuffersClean'
  <2>1. CASE GetLock(t)
    BY <1>0, <1>a, <2>1 DEF GetLock, CompareExchange, Goto
  <2>2. CASE GetSize(t)
    BY <1>0, <1>a, <2>2 DEF GetSize, Goto
  <2>3. CASE GetNull(t)
    BY <1>0, <1>a, <2>3 DEF GetNull, Goto
  <2>4. CASE GetFront(t)
    <3>1. freeBufferIndex # <<>>
      BY <2>4 DEF GetFront, LockDiscipline
    <3>2. Head(freeBufferIndex) \in Index /\ Listed(Head(freeBufferIndex))
      BY <3>1, TailListed DEF PoolPartition, Listed
    <3> QED
      BY <2>4, <3>2, <1>a DEF GetFront, Goto, FreeBuffersClean, Listed
  <2>5. CASE GetPop(t)
    <3>1. freeBufferIndex # <<>> /\ freeBufferIndex' = Tail(freeBufferIndex)
      BY <2>5 DEF GetPop, LockDiscipline
    <3>2. \A b \in Index : Listed(b)' => Listed(b)
      BY <3>1, TailListed DEF PoolPartition, Listed
    <3> QED
      BY <2>5, <3>2, <1>a DEF GetPop, Goto, FreeBuffersClean
  <2>6. CASE GetReturn(t)
    BY <1>0, <1>a, <2>6 DEF GetReturn, Goto
  <2> QED
    BY <1>2, <2>1, <2>2, <2>3, <2>4, <2>5, <2>6 DEF GetBuffer
<1>3. ASSUME NEW t \in Threads, FreeBuffer(t) PROVE FreeBuffersClean'
  <2>1. CASE FreeReset(t)
    BY <1>0, <1>a, <2>1 DEF FreeReset, Goto
  <2>2. CASE FreeLock(t)
    BY <1>0, <1>a, <2>2 DEF FreeLock, CompareExchange, Goto
  <2>3. CASE FreePush(t)
    <3>1. index[t] \in Index /\ socketContext[index[t]] = 0
      BY <2>3 DEF FreePush, LockDiscipline
    <3>2. \A b \in Index : Listed(b)' <=> Listed(b) \/ b = index[t]
      BY <2>3, <3>1, AppendListed DEF FreePush, Listed
    <3> QED
      BY <2>3, <3>1, <3>2, <1>a DEF FreePush, Goto, FreeBuffersClean
  <2>4. CASE FreeReturn(t)
    BY <1>0, <1>a, <2>4 DEF FreeReturn, Goto
  <2> QED
    BY <1>3, <2>1, <2>2, <2>3, <2>4 DEF FreeBuffer
<1>4. ASSUME NEW t \in Threads, Spin(t) PROVE FreeBuffersClean'
  BY <1>0, <1>a, <1>4 DEF Spin, vars
<1>5. ASSUME NEW t \in Threads, NEW b \in Index, FreeCall(t, b) PROVE FreeBuffersClean'
  BY <1>0, <1>a, <1>5 DEF FreeCall, Goto
<1>6. ASSUME NEW b \in Index, NEW c \in Contexts, Stamp(b, c) PROVE FreeBuffersClean'
  \* Only a caller's segment is stamped: not a listed one, nor one being handed out.
  <2>1. b \in out /\ ~Listed(b)
    BY <1>6 DEF Stamp, PoolPartition
  <2>2. \A u \in Threads : pc[u] \in {"get_pop", "get_return"} => index[u] # b
    <3>1. ASSUME NEW u \in Threads, pc[u] = "get_pop" PROVE index[u] # b
      BY <3>1, <2>1, TailListed DEF LockDiscipline, PoolPartition, Listed
    <3>2. ASSUME NEW u \in Threads, pc[u] = "get_return" PROVE index[u] # b
      BY <3>2, <2>1 DEF PoolPartition, InHand
    <3> QED
      BY <3>1, <3>2
  <2> QED
    BY <1>6, <2>1, <2>2, <1>a DEF Stamp, FreeBuffersClean, Listed
<1>7. CASE UNCHANGED vars
  BY <1>0, <1>a, <1>7 DEF vars
<1> QED
  BY <1>1, <1>2, <1>3, <1>4, <1>5, <1>6, <1>7 DEF Next

LEMMA NextIInv == IInv /\ [Next]_vars => IInv'
  BY NextType, NextDiscipline, NextPartition, NextClean DEF IInv

LEMMA Invariance == Spec => []IInv
<1>1. Init => IInv
  BY InitIInv
<1>2. IInv /\ [Next]_vars => IInv'
  BY NextIInv
<1> QED
  BY <1>1, <1>2, PTL DEF Spec

\* The state of GetBuffer and FreeBuffer keeps its shape: no thread pops an empty
\* queue, so the index it reads is always a segment's.
THEOREM TypeCorrect == Spec => []TypeOK
  BY Invariance, PTL DEF IInv

\* No interleaving of GetBuffer and FreeBuffer hands a segment out twice, lists it
\* twice or loses it, for any number of threads and segments.
THEOREM Partitioned == Spec => []PoolPartition
  BY Invariance, PTL DEF IInv

\* Every segment GetBuffer hands out has socketContext 0.
THEOREM HandsOutClean == Spec => []FreeBuffersClean
  BY Invariance, PTL DEF IInv

-----------------------------------------------------------------------------
(* BufferManager implements BufferPool.                                     *)

\* The call a program counter stands for.
CallAt(t) ==
  /\ pc[t] = "idle" => callOf[t] = Pool!NoCall
  /\ pc[t] = "get_return" => callOf[t] = Pool!Call("got", index[t])
  /\ pc[t] = "get_null" => callOf[t] = Pool!Call("got", NoBuffer)
  /\ pc[t] = "free_return" => callOf[t] = Pool!Call("freed", NoBuffer)
  /\ pc[t] \in {"free_reset", "free_cas", "free_push"} => callOf[t] = Pool!Call("free", index[t])
  /\ pc[t] \in {"get_cas", "get_size", "get_front", "get_pop"}
       => callOf[t] = Pool!Call("get", NoBuffer)

LEMMA CallOf ==
  ASSUME NEW t \in Threads
  PROVE  CallAt(t) /\ CallAt(t)'
<1>1. CallAt(t)
  BY DEF CallAt, callOf, Pool!NoCall, Pool!Call, FreePCs
<1>2. CallAt(t)'
  BY DEF CallAt, callOf, Pool!NoCall, Pool!Call, FreePCs
<1> QED
  BY <1>1, <1>2

(* A step of thread t alone answers t and leaves the other calls as they are. *)
LEMMA OneCall ==
  ASSUME NEW t \in Threads,
         \A u \in Threads \ {t} : pc'[u] = pc[u] /\ index'[u] = index[u]
  PROVE  callOf' = [callOf EXCEPT ![t] = callOf'[t]]
<1>1. \A u \in Threads \ {t} : callOf'[u] = callOf[u]
  BY DEF callOf
<1>2. callOf' = [u \in Threads |-> callOf'[u]] /\ callOf = [u \in Threads |-> callOf[u]]
  BY DEF callOf
<1> QED
  BY <1>1, <1>2

LEMMA InitPool == Init => Pool!PoolInit
<1> SUFFICES ASSUME Init PROVE Pool!PoolInit
  OBVIOUS
<1>1. TypeOK /\ PoolPartition
  BY InitIInv DEF IInv
<1>2. \A t \in Threads, b \in Index : ~InHand(t, b)
  BY DEF Init, InHand
<1>3. out = {} /\ callOf = [t \in Threads |-> Pool!NoCall]
  <2>1. \A t \in Threads : callOf[t] = Pool!NoCall
    BY CallOf DEF Init, CallAt
  <2>2. callOf = [t \in Threads |-> callOf[t]]
    BY DEF callOf
  <2> QED
    BY <2>1, <2>2 DEF Init
<1>4. \A b \in Index : \E i \in 1..Len(freeBufferIndex) : freeBufferIndex[i] = b
  BY <1>1, <1>2, <1>3 DEF PoolPartition, Listed
<1> QED
  BY <1>1, <1>3, <1>4 DEF Pool!PoolInit, TypeOK, PoolPartition

LEMMA NextPool == IInv /\ [Next]_vars => [Pool!PoolNext]_(Pool!poolVars)
<1> SUFFICES ASSUME IInv, [Next]_vars PROVE [Pool!PoolNext]_(Pool!poolVars)
  OBVIOUS
<1> USE DEF IInv, TypeOK, Pool!Answer, Goto
<1>0. ASSUME NEW t \in Threads, callOf'[t] = callOf[t], UNCHANGED <<freeBufferIndex, out>>,
             \A u \in Threads \ {t} : pc'[u] = pc[u] /\ index'[u] = index[u]
      PROVE  UNCHANGED Pool!poolVars
  <2>1. callOf' = [callOf EXCEPT ![t] = callOf[t]]
    BY <1>0, OneCall
  <2>2. callOf = [callOf EXCEPT ![t] = callOf[t]]
    BY DEF callOf
  <2> QED
    BY <1>0, <2>1, <2>2 DEF Pool!poolVars
<1>1. ASSUME NEW t \in Threads, GetCall(t) PROVE Pool!CallGet(t)
  <2>1. \A u \in Threads \ {t} : pc'[u] = pc[u] /\ index'[u] = index[u]
    BY <1>1 DEF GetCall
  <2>2. callOf[t] = Pool!NoCall /\ callOf'[t] = Pool!Call("get", NoBuffer)
    BY <1>1, CallOf DEF GetCall, CallAt
  <2> QED
    BY <1>1, <2>1, <2>2, OneCall DEF GetCall, Pool!CallGet, Pool!MayCall
<1>2. ASSUME NEW t \in Threads, GetBuffer(t)
      PROVE  Pool!Get(t) \/ Pool!GetNone(t) \/ Pool!ReturnGet(t) \/ UNCHANGED Pool!poolVars
  <2>0. \A u \in Threads \ {t} : pc'[u] = pc[u] /\ index'[u] = index[u]
    BY <1>2 DEF GetBuffer, GetLock, CompareExchange, GetSize, GetNull, GetFront, GetPop, GetReturn
  <2>1. CASE GetLock(t)
    <3>1. callOf'[t] = callOf[t]
      BY <2>1, CallOf DEF GetLock, CompareExchange, CallAt
    <3> QED
      BY <1>0, <2>0, <2>1, <3>1 DEF GetLock, CompareExchange
  <2>2. CASE GetSize(t) /\ freeBufferIndex = <<>>
    \* The answer of an empty pool takes effect at the size test.
    <3>1. callOf[t] = Pool!Call("get", NoBuffer) /\ callOf'[t] = Pool!Call("got", NoBuffer)
      BY <2>2, CallOf DEF GetSize, CallAt
    <3> QED
      BY <2>0, <2>2, <3>1, OneCall DEF GetSize, Pool!GetNone
  <2>3. CASE GetSize(t) /\ freeBufferIndex # <<>>
    <3>1. pc[t] = "get_size" /\ pc'[t] = "get_front"
      BY <2>3 DEF GetSize
    <3>2. callOf'[t] = callOf[t]
      BY <3>1, CallOf DEF CallAt
    <3> QED
      BY <1>0, <2>0, <2>3, <3>2 DEF GetSize
  <2>4. CASE GetNull(t)
    <3>1. callOf[t] = Pool!Call("got", NoBuffer) /\ callOf'[t] = Pool!NoCall
      BY <2>4, CallOf DEF GetNull, CallAt
    <3> QED
      BY <2>0, <2>4, <3>1, OneCall DEF GetNull, Pool!ReturnGet, Pool!Call
  <2>5. CASE GetFront(t)
    <3>1. callOf'[t] = callOf[t]
      BY <2>5, CallOf DEF GetFront, CallAt
    <3> QED
      BY <1>0, <2>0, <2>5, <3>1 DEF GetFront
  <2>6. CASE GetPop(t)
    \* GetBuffer takes effect at the pop.
    <3>1. /\ freeBufferIndex # <<>> /\ index[t] = Head(freeBufferIndex)
          /\ freeBufferIndex' = Tail(freeBufferIndex) /\ index' = index /\ out' = out
      BY <2>6 DEF GetPop, LockDiscipline
    <3>2. /\ callOf[t] = Pool!Call("get", NoBuffer)
          /\ callOf'[t] = Pool!Call("got", Head(freeBufferIndex))
      BY <2>6, <3>1, CallOf DEF GetPop, CallAt
    <3> QED
      BY <2>0, <3>1, <3>2, OneCall DEF Pool!Get
  <2>7. CASE GetReturn(t)
    <3>1. index[t] \in Index
      BY <2>7 DEF GetReturn, LockDiscipline
    <3>2. callOf[t] = Pool!Call("got", index[t]) /\ callOf'[t] = Pool!NoCall
      BY <2>7, CallOf DEF GetReturn, CallAt
    <3>3. callOf[t].op = "got" /\ callOf[t].buf = index[t]
      BY <3>2 DEF Pool!Call
    <3>4. out' = out \cup ({callOf[t].buf} \ {NoBuffer})
      BY <2>7, <3>1, <3>3, NoBufferAssumption DEF GetReturn, Index
    <3>5. callOf' = [callOf EXCEPT ![t] = Pool!NoCall]
      BY <2>0, <3>2, OneCall
    <3> QED
      BY <2>7, <3>3, <3>4, <3>5 DEF GetReturn, Pool!ReturnGet
  <2> QED
    BY <1>2, <2>1, <2>2, <2>3, <2>4, <2>5, <2>6, <2>7 DEF GetBuffer
<1>3. ASSUME NEW t \in Threads, FreeBuffer(t)
      PROVE  Pool!Free(t) \/ Pool!ReturnFree(t) \/ UNCHANGED Pool!poolVars
  <2>0. \A u \in Threads \ {t} : pc'[u] = pc[u] /\ index'[u] = index[u]
    BY <1>3 DEF FreeBuffer, FreeReset, FreeLock, CompareExchange, FreePush, FreeReturn
  <2>1. CASE FreeReset(t)
    <3>1. index[t] \in Index
      BY <2>1 DEF FreeReset, LockDiscipline
    <3>2. index'[t] = index[t]
      BY <2>1, <3>1, OffsetIndex DEF FreeReset
    <3>3. callOf'[t] = callOf[t]
      BY <2>1, <3>2, CallOf DEF FreeReset, CallAt
    <3> QED
      BY <1>0, <2>0, <2>1, <3>3 DEF FreeReset
  <2>2. CASE FreeLock(t)
    <3>1. callOf'[t] = callOf[t]
      BY <2>2, CallOf DEF FreeLock, CompareExchange, CallAt
    <3> QED
      BY <1>0, <2>0, <2>2, <3>1 DEF FreeLock, CompareExchange
  <2>3. CASE FreePush(t)
    \* FreeBuffer takes effect at the push.
    <3>1. callOf[t] = Pool!Call("free", index[t]) /\ callOf'[t] = Pool!Call("freed", NoBuffer)
      BY <2>3, CallOf DEF FreePush, CallAt
    <3> QED
      BY <2>0, <2>3, <3>1, OneCall DEF FreePush, Pool!Free, Pool!Call
  <2>4. CASE FreeReturn(t)
    <3>1. callOf[t] = Pool!Call("freed", NoBuffer) /\ callOf'[t] = Pool!NoCall
      BY <2>4, CallOf DEF FreeReturn, CallAt
    <3> QED
      BY <2>0, <2>4, <3>1, OneCall DEF FreeReturn, Pool!ReturnFree
  <2> QED
    BY <1>3, <2>1, <2>2, <2>3, <2>4 DEF FreeBuffer
<1>4. ASSUME NEW t \in Threads, Spin(t) PROVE UNCHANGED Pool!poolVars
  BY <1>4 DEF Spin, vars, Pool!poolVars, callOf
<1>5. ASSUME NEW t \in Threads, NEW b \in Index, FreeCall(t, b) PROVE Pool!CallFree(t, b)
  <2>1. \A u \in Threads \ {t} : pc'[u] = pc[u] /\ index'[u] = index[u]
    BY <1>5 DEF FreeCall
  <2>2. callOf[t] = Pool!NoCall /\ callOf'[t] = Pool!Call("free", b)
    BY <1>5, CallOf DEF FreeCall, CallAt
  <2> QED
    BY <1>5, <2>1, <2>2, OneCall DEF FreeCall, Pool!CallFree, Pool!MayCall
<1>6. ASSUME NEW b \in Index, NEW c \in Contexts, Stamp(b, c) PROVE UNCHANGED Pool!poolVars
  BY <1>6 DEF Stamp, Pool!poolVars, callOf
<1>7. CASE UNCHANGED vars
  BY <1>7 DEF vars, Pool!poolVars, callOf
<1> QED
  BY <1>1, <1>2, <1>3, <1>4, <1>5, <1>6, <1>7 DEF Next, Pool!PoolNext

\* GetBuffer and FreeBuffer under the spin lock are indivisible operations on a
\* FIFO pool: whatever the callers can observe, BufferPool allows.
THEOREM Refinement == Spec => ImplementsPool
<1>1. Init => Pool!PoolInit
  BY InitPool
<1>2. IInv /\ [Next]_vars => [Pool!PoolNext]_(Pool!poolVars)
  BY NextPool
<1> QED
  BY <1>1, <1>2, Invariance, PTL DEF Spec, ImplementsPool, Pool!PoolSpec
=============================================================================
