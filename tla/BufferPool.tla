------------------------------ MODULE BufferPool ------------------------------
(***************************************************************************)
(* What BufferManager promises the rest of the server, without the spin    *)
(* lock: GetBuffer takes the oldest free segment in one indivisible step   *)
(* or answers that there is none, FreeBuffer gives a segment back in one   *)
(* indivisible step.  A call is a request, an effect and a return, so the  *)
(* effect may take place anywhere between the call and its return.         *)
(***************************************************************************)
EXTENDS Naturals, Sequences

CONSTANTS Threads,   \* threads that call the pool
          Index,     \* the segments, by their index in bufferPool
          NoBuffer   \* the nullptr GetBuffer returns on an empty pool, no index

VARIABLES free,      \* free segments, oldest first
          taken,     \* segments in the callers' hands
          call       \* per thread, the call under way

poolVars == <<free, taken, call>>

NoCall       == [op |-> "none", buf |-> NoBuffer]
Call(op, b)  == [op |-> op, buf |-> b]
MayCall(t)   == call[t] = NoCall
Answer(t, c) == call' = [call EXCEPT ![t] = c]

\* Initialize frees every segment once.
PoolInit ==
  /\ free \in Seq(Index)
  /\ \A i, j \in 1..Len(free) : free[i] = free[j] => i = j
  /\ \A b \in Index : \E i \in 1..Len(free) : free[i] = b
  /\ taken = {}
  /\ call = [t \in Threads |-> NoCall]

CallGet(t) ==
  /\ MayCall(t)
  /\ Answer(t, Call("get", NoBuffer))
  /\ UNCHANGED <<free, taken>>

Get(t) ==
  /\ call[t] = Call("get", NoBuffer)
  /\ free # <<>>
  /\ Answer(t, Call("got", Head(free)))
  /\ free' = Tail(free)
  /\ UNCHANGED taken

GetNone(t) ==
  /\ call[t] = Call("get", NoBuffer)
  /\ free = <<>>
  /\ Answer(t, Call("got", NoBuffer))
  /\ UNCHANGED <<free, taken>>

ReturnGet(t) ==
  /\ call[t].op = "got"
  /\ taken' = taken \cup ({call[t].buf} \ {NoBuffer})
  /\ Answer(t, NoCall)
  /\ UNCHANGED free

CallFree(t, b) ==
  /\ MayCall(t)
  /\ b \in taken
  /\ taken' = taken \ {b}
  /\ Answer(t, Call("free", b))
  /\ UNCHANGED free

Free(t) ==
  /\ call[t].op = "free"
  /\ free' = Append(free, call[t].buf)
  /\ Answer(t, Call("freed", NoBuffer))
  /\ UNCHANGED taken

ReturnFree(t) ==
  /\ call[t] = Call("freed", NoBuffer)
  /\ Answer(t, NoCall)
  /\ UNCHANGED <<free, taken>>

PoolNext ==
  \E t \in Threads :
    \/ CallGet(t) \/ Get(t) \/ GetNone(t) \/ ReturnGet(t)
    \/ \E b \in Index : CallFree(t, b)
    \/ Free(t) \/ ReturnFree(t)

PoolSpec == PoolInit /\ [][PoolNext]_poolVars
=============================================================================
