-------------------------- MODULE BufferLayoutProofs --------------------------
(***************************************************************************)
(* When the segments of BufferLayout lie in the memory allocated for them,  *)
(* for every width of a DWORD, size and count.                              *)
(***************************************************************************)
EXTENDS BufferLayout, TLAPS

\* The wrapped value of a number is a DWORD, not above it, and it if it is one.
LEMMA Wrapped ==
  ASSUME NEW x \in Nat
  PROVE  /\ U(x) \in DWORD /\ U(x) <= x
         /\ x < Word => U(x) = x
  BY WordAssumption DEF U, DWORD

LEMMA ProductInNat ==
  ASSUME NEW a \in Nat, NEW b \in Nat
  PROVE  a * b \in Nat
  OBVIOUS

\* Neither correction in AllocateBufferSpace is ever made: the size allocated is the
\* wrapped product.
LEMMA Uncorrected ==
  ASSUME NEW size \in DWORD, NEW count \in DWORD
  PROVE  /\ actualSize(size, count) = U(size * count)
         /\ totalBufferSize(size, count) = U(size * count)
         /\ totalBufferCount(size, count) = Less(count, U(size * count))
<1> DEFINE D == U(size * count)
<1>1. size * count \in Nat
  BY ProductInNat, WordAssumption DEF DWORD
<1>2. D \in DWORD
  BY <1>1, Wrapped
<1>3. D \in Nat /\ D < Word
  BY <1>2, WordAssumption DEF DWORD
<1>4. (D \div Granularity) * Granularity <= D
  <2> HIDE DEF D
  <2>1. \A d \in Nat, g \in Nat \ {0} : (d \div g) * g <= d
    BY SMT
  <2> QED
    BY <2>1, <1>3, GranularityAssumption
<1>5. ~(D < (D \div Granularity) * Granularity)
  <2> HIDE DEF D
  <2>1. D \div Granularity \in Int
    BY <1>3, GranularityAssumption
  <2>2. (D \div Granularity) * Granularity \in Int
    BY <2>1, GranularityAssumption
  <2> QED
    BY <1>3, <1>4, <2>2
<1>6. ~(D > Word - 1)
  <2> HIDE DEF D
  <2> QED
    BY <1>3, WordAssumption
<1>7. actualSize(size, count) = D
  BY <1>5, <1>6 DEF actualSize, desiredSize
<1>8. U(D) = D
  <2> HIDE DEF D
  <2> QED
    BY <1>3, Wrapped
<1> QED
  BY <1>7, <1>8 DEF totalBufferSize, totalBufferCount

\* A segment whose index FreeBuffer finds again has an offset that did not wrap.
LEMMA IndexFound ==
  ASSUME NEW size \in Nat \ {0}, NEW i \in Nat,
         bufferIndex(size, Offset(size, i)) = i
  PROVE  size * i <= Offset(size, i)
<1>1. size * i \in Nat
  BY ProductInNat
<1>2. U(size * i) \in Nat
  BY <1>1, Wrapped, WordAssumption DEF DWORD
<1>3. \A x \in Nat, s \in Nat \ {0} : s * (x \div s) <= x
  BY SMT
<1> QED
  BY <1>2, <1>3 DEF bufferIndex, Offset

\* The last segment decides: where it is sound, size times its number is allocated.
LEMMA LastSound ==
  ASSUME NEW size \in DWORD \ {0}, NEW count \in DWORD, NEW c \in Nat \ {0},
         c = totalBufferCount(size, count), SegmentsSound(size, count)
  PROVE  size * c <= totalBufferSize(size, count)
<1> USE WordAssumption DEF DWORD
<1>1. c - 1 \in Nat /\ c - 1 \in 0..(c - 1)
  OBVIOUS
<1>2. /\ Inside(size, count, c - 1)
      /\ bufferIndex(size, Offset(size, c - 1)) = c - 1
  BY <1>1 DEF SegmentsSound
<1>3. size * (c - 1) <= Offset(size, c - 1)
  BY <1>1, <1>2, IndexFound
<1>4. size * (c - 1) \in Nat
  BY <1>1, ProductInNat
<1>5. Offset(size, c - 1) \in Nat
  BY <1>4, Wrapped DEF Offset
<1>6. size * count \in Nat
  BY ProductInNat
<1>7. totalBufferSize(size, count) \in Nat
  BY <1>6, Uncorrected, Wrapped
<1>8. Offset(size, c - 1) + size <= totalBufferSize(size, count)
  BY <1>2 DEF Inside
<1>9. size * c = size * (c - 1) + size
  BY <1>1, SMT
<1> QED
  BY <1>3, <1>4, <1>5, <1>7, <1>8, <1>9

\* As long as size times number fits in a DWORD, there are as many segments as were
\* asked for.
LEMMA AllSegments ==
  ASSUME NEW size \in DWORD \ {0}, NEW count \in DWORD, NoWrap(size, count)
  PROVE  /\ totalBufferSize(size, count) = size * count
         /\ totalBufferCount(size, count) = count
<1> USE WordAssumption DEF DWORD
<1>1. size * count \in Nat
  BY ProductInNat
<1>2. U(size * count) = size * count
  BY <1>1, Wrapped DEF NoWrap
<1>3. \A s \in Nat \ {0}, n \in Nat : n <= s * n
  BY SMT
<1>4. count <= size * count
  BY <1>3
<1> QED
  BY <1>2, <1>4, Uncorrected DEF Less

\* And each of them lies in the memory at the multiple of the size FreeBuffer divides.
LEMMA EachSound ==
  ASSUME NEW size \in DWORD \ {0}, NEW count \in DWORD, NoWrap(size, count),
         NEW i \in 0..(count - 1)
  PROVE  /\ Inside(size, count, i)
         /\ bufferIndex(size, Offset(size, i)) = i
<1> USE WordAssumption DEF DWORD
<1>1. size * count \in Nat /\ size * i \in Nat /\ size * (i + 1) \in Nat
  BY ProductInNat
<1>2. size * (i + 1) = size * i + size
  BY SMT
<1>3. \A s \in Nat, m \in Nat, n \in Nat : m <= n => s * m <= s * n
  BY SMT
<1>4. size * (i + 1) <= size * count
  BY <1>3
<1>5. size * i < Word
  BY <1>1, <1>2, <1>4 DEF NoWrap
<1>6. Offset(size, i) = size * i
  BY <1>1, <1>5, Wrapped DEF Offset
<1>7. Inside(size, count, i)
  BY <1>1, <1>2, <1>4, <1>6, AllSegments DEF Inside
<1>8. \A s \in Nat \ {0}, n \in Nat : (s * n) \div s = n
  BY SMT
<1> QED
  BY <1>6, <1>7, <1>8 DEF bufferIndex

\* AllocateBufferSpace and Initialize, when memory is allocated at all: every segment
\* lies in it, under its own index, exactly when the size asked for did not wrap, and
\* then there are as many as were asked for.
THEOREM LayoutFits ==
  ASSUME NEW size \in DWORD, NEW count \in DWORD, totalBufferSize(size, count) # 0
  PROVE  /\ SegmentsSound(size, count) <=> NoWrap(size, count)
         /\ NoWrap(size, count) => SegmentsEnough(size, count)
<1> USE WordAssumption DEF DWORD
<1> DEFINE D == totalBufferSize(size, count)
           c == totalBufferCount(size, count)
<1>1. size * count \in Nat
  BY ProductInNat
<1>2. D = U(size * count) /\ D \in Nat /\ D < Word /\ D <= size * count
  BY <1>1, Wrapped, Uncorrected
<1>3. size # 0 /\ count # 0
  BY <1>2
<1>4. c = Less(count, D)
  BY <1>2, Uncorrected
<1>5. ASSUME SegmentsSound(size, count) PROVE NoWrap(size, count)
  <2> HIDE DEF D, c
  <2>1. c \in Nat \ {0}
    BY <1>2, <1>3, <1>4 DEF Less, D
  <2>2. size * c <= D
    BY <2>1, <1>3, <1>5, LastSound DEF D, c
  <2>3. CASE count <= D
    BY <2>2, <2>3, <1>1, <1>2, <1>4 DEF Less, NoWrap
  <2>4. CASE ~(count <= D)
    <3>1. c = D /\ D # 0
      BY <2>1, <2>4, <1>4 DEF Less
    <3>2. \A s \in Nat, d \in Nat \ {0} : s * d <= d => s <= 1
      BY SMT
    <3>3. size = 1
      BY <3>1, <3>2, <2>2, <1>2, <1>3
    <3> QED
      BY <3>3 DEF NoWrap
  <2> QED
    BY <2>3, <2>4
<1>6. ASSUME NoWrap(size, count)
      PROVE SegmentsSound(size, count) /\ SegmentsEnough(size, count)
  BY <1>3, <1>6, AllSegments, EachSound DEF SegmentsSound, SegmentsEnough
<1> QED
  BY <1>5, <1>6
=============================================================================
