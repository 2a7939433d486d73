----------------------------- MODULE BufferLayout -----------------------------
(***************************************************************************)
(* The sizes _tmain computes for the configured services and the way        *)
(* BufferManager cuts the memory for them into segments, in the arithmetic  *)
(* of DWORD: an int that is used as one, and every sum and product of it,   *)
(* is taken modulo Word (2^32).                                             *)
(***************************************************************************)
EXTENDS Integers, Sequences, FiniteSets, Functions

CONSTANTS Word,             \* DWORD holds 0..Word - 1
          Granularity,      \* dwAllocationGranularity
          RIO_MAX_CQ_SIZE

ASSUME WordAssumption == Word \in Nat /\ Word > 1
ASSUME GranularityAssumption == Granularity \in Nat \ {0}
ASSUME MaxSizeAssumption == RIO_MAX_CQ_SIZE \in Nat /\ RIO_MAX_CQ_SIZE < Word \div 2

DWORD   == 0..(Word - 1)
int     == -(Word \div 2)..(Word \div 2 - 1)
U(n)    == n % Word
Less(a, b) == IF a <= b THEN a ELSE b

-----------------------------------------------------------------------------
(* _tmain: segments for the outstanding requests of every client.           *)

Room(s) == s.SERVICE_RQ_MAX_RECEIVES + s.SERVICE_RQ_MAX_SENDS

numberBuffersRequired(services) ==
  U(SumFunction([i \in DOMAIN services |->
                   services[i].SERVICE_MAX_CLIENTS * Room(services[i])]))

\* Mutation: the queue is made as large as it can be.
LargestCQSize(services) == RIO_MAX_CQ_SIZE

maximumCQSize(services) == Less(numberBuffersRequired(services), RIO_MAX_CQ_SIZE)

-----------------------------------------------------------------------------
(* AllocateBufferSpace and Initialize.                                      *)

desiredSize(bufSize, bufCount) == U(bufSize * bufCount)

\* Neither correction is ever made: rounding down does not raise a size, and the
\* product is a DWORD before it is compared with UINT_MAX.
actualSize(bufSize, bufCount) ==
  LET desired == desiredSize(bufSize, bufCount)
      blocks  == desired \div Granularity
      rounded == IF desired < blocks * Granularity THEN bufSize * (blocks + 1) ELSE desired
  IN IF rounded > Word - 1 THEN ((Word - 1) \div Granularity) * Granularity ELSE rounded

totalBufferSize(bufSize, bufCount)  == U(actualSize(bufSize, bufCount))
totalBufferCount(bufSize, bufCount) == Less(bufCount, U(actualSize(bufSize, bufCount)))

\* Mutation: the segments start at one.
OffsetFromOne(bufSize, i) == U(bufSize * (i + 1))

\* Offset of segment i, and the index FreeBuffer computes from it.
Offset(bufSize, i) == U(bufSize * i)
bufferIndex(bufSize, offset) == offset \div bufSize

\* Segment i lies in the memory allocated.
Inside(bufSize, bufCount, i) ==
  Offset(bufSize, i) + bufSize <= totalBufferSize(bufSize, bufCount)

-----------------------------------------------------------------------------
(* What the layout has to give.                                             *)

\* Every segment lies in the memory, and FreeBuffer finds its index again.
SegmentsSound(bufSize, bufCount) ==
  \A i \in 0..(totalBufferCount(bufSize, bufCount) - 1) :
    /\ Inside(bufSize, bufCount, i)
    /\ bufferIndex(bufSize, Offset(bufSize, i)) = i

\* There are as many segments as were asked for.
SegmentsEnough(bufSize, bufCount) == totalBufferCount(bufSize, bufCount) = bufCount

\* The product fits in a DWORD.
NoWrap(bufSize, bufCount) == bufSize * bufCount < Word
=============================================================================
