------------------------------ MODULE DataFacts ------------------------------
(***************************************************************************)
(* Facts about data the proofs keep needing: what Append and Tail do to the *)
(* elements of a queue, how many elements of a list are of some kind, and   *)
(* sums over finite sets.                                                   *)
(***************************************************************************)
EXTENDS Integers, Sequences, FiniteSets, Functions, FiniteSetTheorems, FunctionTheorems,
        WellFoundedInduction, TLAPS

-----------------------------------------------------------------------------
(* Queues.                                                                  *)

\* The elements after a push are those before and the new one; a queue without
\* repetition gets none from an element it did not hold.
LEMMA AppendListed ==
  ASSUME NEW S, NEW s \in Seq(S), NEW x \in S
  PROVE  /\ Append(s, x) \in Seq(S)
         /\ \A b : (\E i \in 1..Len(Append(s, x)) : Append(s, x)[i] = b)
                     <=> (\E i \in 1..Len(s) : s[i] = b) \/ b = x
         /\ (\A i, j \in 1..Len(s) : s[i] = s[j] => i = j) /\ ~(\E i \in 1..Len(s) : s[i] = x)
              => \A i, j \in 1..Len(Append(s, x)) : Append(s, x)[i] = Append(s, x)[j] => i = j
<1>1. /\ Append(s, x) \in Seq(S)
      /\ Len(Append(s, x)) = Len(s) + 1
      /\ Len(s) \in Nat
      /\ \A i \in 1..Len(s) : Append(s, x)[i] = s[i]
      /\ Append(s, x)[Len(s) + 1] = x
  OBVIOUS
<1>2. \A i \in 1..(Len(s) + 1) : i \in 1..Len(s) \/ i = Len(s) + 1
  BY <1>1
<1>3. \A i \in 1..Len(s) : i \in 1..(Len(s) + 1)
  BY <1>1
<1>4. Len(s) + 1 \in 1..(Len(s) + 1)
  BY <1>1
<1> DEFINE a == Append(s, x)
<1>5. ASSUME NEW b
      PROVE  (\E i \in 1..Len(a) : a[i] = b) <=> (\E i \in 1..Len(s) : s[i] = b) \/ b = x
  BY <1>1, <1>2, <1>3, <1>4
<1>6. ASSUME \A i, j \in 1..Len(s) : s[i] = s[j] => i = j,
             ~(\E i \in 1..Len(s) : s[i] = x)
      PROVE  \A i, j \in 1..Len(a) : a[i] = a[j] => i = j
  BY <1>1, <1>2, <1>6
<1> QED
  BY <1>1, <1>5, <1>6

\* A pop moves what is behind one place up.
LEMMA TailMoves ==
  ASSUME NEW S, NEW s \in Seq(S), s # <<>>
  PROVE  /\ Tail(s) \in Seq(S) /\ Head(s) \in S /\ Head(s) = s[1]
         /\ Len(s) \in Nat /\ Len(s) >= 1 /\ Len(Tail(s)) = Len(s) - 1
         /\ \A i \in 1..Len(Tail(s)) : i + 1 \in 1..Len(s) /\ Tail(s)[i] = s[i + 1]
<1>1. /\ Tail(s) \in Seq(S) /\ Head(s) \in S /\ Head(s) = s[1]
      /\ Len(s) \in Nat /\ Len(s) >= 1 /\ Len(Tail(s)) = Len(s) - 1
      /\ \A i \in 1..Len(Tail(s)) : Tail(s)[i] = s[i + 1]
  OBVIOUS
<1>2. \A i \in 1..Len(Tail(s)) : i + 1 \in 1..Len(s)
  BY <1>1
<1> QED
  BY <1>1, <1>2

\* A pop takes away the first element at most.
LEMMA TailMembers ==
  ASSUME NEW S, NEW s \in Seq(S), s # <<>>
  PROVE  /\ Tail(s) \in Seq(S)
         /\ Head(s) \in S
         /\ \A b : (\E i \in 1..Len(s) : s[i] = b) =>
                     b = Head(s) \/ \E i \in 1..Len(Tail(s)) : Tail(s)[i] = b
<1> DEFINE r == Tail(s)
<1>1. /\ r \in Seq(S)
      /\ Len(s) \in Nat /\ Len(s) >= 1
      /\ Len(r) = Len(s) - 1
      /\ \A i \in 1..Len(r) : r[i] = s[i + 1]
      /\ Head(s) = s[1]
      /\ s[1] \in S
  OBVIOUS
<1>2. \A i \in 1..Len(s) : i = 1 \/ (i - 1 \in 1..Len(r) /\ (i - 1) + 1 = i)
  BY <1>1
<1>3. ASSUME NEW b, NEW i \in 1..Len(s), s[i] = b, b # Head(s)
      PROVE  \E j \in 1..Len(r) : r[j] = b
  <2>1. i - 1 \in 1..Len(r) /\ (i - 1) + 1 = i
    BY <1>1, <1>2, <1>3
  <2> QED
    BY <1>1, <1>3, <2>1
<1> QED
  BY <1>1, <1>3

\* A pop from a queue without repetition takes away exactly the first element.
LEMMA TailListed ==
  ASSUME NEW S, NEW s \in Seq(S), s # <<>>,
         \A i, j \in 1..Len(s) : s[i] = s[j] => i = j
  PROVE  /\ Tail(s) \in Seq(S)
         /\ Head(s) \in S
         /\ \E i \in 1..Len(s) : s[i] = Head(s)
         /\ \A b : (\E i \in 1..Len(Tail(s)) : Tail(s)[i] = b)
                     <=> (\E i \in 1..Len(s) : s[i] = b) /\ b # Head(s)
         /\ \A i, j \in 1..Len(Tail(s)) : Tail(s)[i] = Tail(s)[j] => i = j
<1> DEFINE r == Tail(s)
<1>1. /\ r \in Seq(S)
      /\ Len(s) \in Nat /\ Len(s) >= 1
      /\ Len(r) = Len(s) - 1
      /\ \A i \in 1..Len(r) : r[i] = s[i + 1]
      /\ Head(s) = s[1]
      /\ s[1] \in S
  OBVIOUS
<1>2. /\ 1 \in 1..Len(s)
      /\ \A i \in 1..Len(r) : i + 1 \in 1..Len(s) /\ i + 1 # 1
      /\ \A i \in 1..Len(s) : i = 1 \/ (i - 1 \in 1..Len(r) /\ (i - 1) + 1 = i)
  BY <1>1
<1>3. ASSUME NEW b, NEW i \in 1..Len(s), s[i] = b, b # Head(s)
      PROVE  \E j \in 1..Len(r) : r[j] = b
  <2>1. i - 1 \in 1..Len(r) /\ (i - 1) + 1 = i
    BY <1>1, <1>2, <1>3
  <2> QED
    BY <1>1, <1>3, <2>1
<1>4. ASSUME NEW b, NEW i \in 1..Len(r), r[i] = b
      PROVE  (\E j \in 1..Len(s) : s[j] = b) /\ b # Head(s)
  BY <1>1, <1>2, <1>4
<1>5. ASSUME NEW i \in 1..Len(r), NEW j \in 1..Len(r), r[i] = r[j]
      PROVE  i = j
  <2>1. i + 1 = j + 1
    BY <1>1, <1>2, <1>5
  <2> QED
    BY <2>1, <1>1
<1> QED
  BY <1>1, <1>2, <1>3, <1>4, <1>5

\* Where an element is after a push and after a pop.
LEMMA AppendPlaces ==
  ASSUME NEW S, NEW s \in Seq(S), NEW x \in S, NEW y
  PROVE  {i \in 1..Len(Append(s, x)) : Append(s, x)[i] = y}
           = {i \in 1..Len(s) : s[i] = y} \cup (IF x = y THEN {Len(s) + 1} ELSE {})
<1>1. /\ Len(Append(s, x)) = Len(s) + 1
      /\ Len(s) \in Nat
      /\ \A i \in 1..Len(s) : Append(s, x)[i] = s[i]
      /\ Append(s, x)[Len(s) + 1] = x
  OBVIOUS
<1>2. /\ \A i \in 1..(Len(s) + 1) : i \in 1..Len(s) \/ i = Len(s) + 1
      /\ \A i \in 1..Len(s) : i \in 1..(Len(s) + 1)
      /\ Len(s) + 1 \in 1..(Len(s) + 1)
  BY <1>1
<1> QED
  BY <1>1, <1>2

LEMMA TailPlaces ==
  ASSUME NEW S, NEW s \in Seq(S), s # <<>>, NEW y
  PROVE  {i \in 1..Len(Tail(s)) : Tail(s)[i] = y}
           = {i - 1 : i \in {j \in 1..Len(s) : s[j] = y} \ {1}}
<1> DEFINE r == Tail(s)
<1>1. /\ Len(s) \in Nat /\ Len(s) >= 1
      /\ Len(r) = Len(s) - 1
      /\ \A i \in 1..Len(r) : r[i] = s[i + 1]
  OBVIOUS
<1>2. ASSUME NEW i \in 1..Len(r), r[i] = y
      PROVE  i \in {j - 1 : j \in {j \in 1..Len(s) : s[j] = y} \ {1}}
  <2>1. i + 1 \in 1..Len(s) /\ i + 1 # 1 /\ (i + 1) - 1 = i /\ s[i + 1] = y
    BY <1>1, <1>2
  <2> QED
    BY <2>1
<1>3. ASSUME NEW j \in 1..Len(s), s[j] = y, j # 1
      PROVE  j - 1 \in 1..Len(r) /\ r[j - 1] = y
  <2>1. j - 1 \in 1..Len(r) /\ (j - 1) + 1 = j
    BY <1>1, <1>3
  <2> QED
    BY <1>1, <1>3, <2>1
<1> QED
  BY <1>2, <1>3

-----------------------------------------------------------------------------
(* Counts.                                                                  *)

\* The places in a list of what belongs to a set, and how many there are.
PlacesIn(s, D) == {i \in 1..Len(s) : s[i] \in D}
CountIn(s, D)  == Cardinality(PlacesIn(s, D))

LEMMA PlacesInFinite ==
  ASSUME NEW S, NEW s \in Seq(S), NEW D
  PROVE  IsFiniteSet(PlacesIn(s, D)) /\ CountIn(s, D) \in 0..Len(s)
<1>1. Len(s) \in Nat
  OBVIOUS
<1>2. IsFiniteSet(1..Len(s)) /\ Cardinality(1..Len(s)) = Len(s)
  BY <1>1, FS_Interval
<1>3. PlacesIn(s, D) \subseteq 1..Len(s)
  BY DEF PlacesIn
<1>4. /\ IsFiniteSet(PlacesIn(s, D))
      /\ Cardinality(PlacesIn(s, D)) <= Len(s)
  BY <1>2, <1>3, FS_Subset
<1>5. Cardinality(PlacesIn(s, D)) \in Nat
  BY <1>4, FS_CardinalityType
<1> QED
  BY <1>1, <1>4, <1>5 DEF CountIn

\* Moving places does not change their number.
LEMMA Moved ==
  ASSUME NEW P, P \subseteq Int, IsFiniteSet(P), NEW d \in Int
  PROVE  /\ IsFiniteSet({i + d : i \in P})
         /\ Cardinality({i + d : i \in P}) = Cardinality(P)
<1> DEFINE Q == {i + d : i \in P}
           f == [i \in P |-> i + d]
<1>1. f \in [P -> Q]
  OBVIOUS
<1>2. \A i, j \in P : f[i] = f[j] => i = j
  OBVIOUS
<1>3. \A q \in Q : \E i \in P : f[i] = q
  OBVIOUS
<1> HIDE DEF f, Q
<1>4. f \in Bijection(P, Q)
  BY <1>1, <1>2, <1>3, Fun_IsBij
<1>5. ExistsBijection(P, Q)
  BY <1>4 DEF ExistsBijection
<1>6. IsFiniteSet(Q) /\ Cardinality(Q) = Cardinality(P)
  BY <1>5, FS_Bijection
<1> QED
  BY <1>6 DEF Q

\* What a function makes of a finite set is no larger, nor is a set that two finite ones
\* cover larger than both.
LEMMA ImageFits ==
  ASSUME NEW S, IsFiniteSet(S), NEW f, DOMAIN f = S, f = [x \in S |-> f[x]], NEW T, T = {f[x] : x \in S}
  PROVE  IsFiniteSet(T) /\ Cardinality(T) <= Cardinality(S)
<1>1. f \in [S -> T]
  OBVIOUS
<1>2. \A y \in T : \E x \in S : f[x] = y
  OBVIOUS
<1>3. f \in Surjection(S, T)
  BY <1>1, <1>2, Fun_IsSurj
<1> QED
  BY <1>3, FS_Surjection

LEMMA CoverFits ==
  ASSUME NEW P, IsFiniteSet(P), NEW Q, IsFiniteSet(Q), NEW R, R \subseteq P \cup Q
  PROVE  IsFiniteSet(R) /\ Cardinality(R) <= Cardinality(P) + Cardinality(Q)
<1>1. /\ IsFiniteSet(P \cup Q)
      /\ Cardinality(P \cup Q) = Cardinality(P) + Cardinality(Q) - Cardinality(P \cap Q)
  BY FS_Union
<1>2. IsFiniteSet(P \cap Q) /\ IsFiniteSet(R) /\ Cardinality(R) <= Cardinality(P \cup Q)
  <2>1. P \cap Q \subseteq P
    OBVIOUS
  <2> QED
    BY <1>1, <2>1, FS_Subset
<1> DEFINE p == Cardinality(P)
           q == Cardinality(Q)
           b == Cardinality(P \cap Q)
           u == Cardinality(P \cup Q)
           r == Cardinality(R)
<1>3. p \in Nat /\ q \in Nat /\ b \in Nat /\ u \in Nat /\ r \in Nat
  BY <1>1, <1>2, FS_CardinalityType
<1>4. u = p + q - b /\ r <= u
  BY <1>1, <1>2
<1>5. r <= p + q
  <2> HIDE DEF p, q, b, u, r
  <2> QED
    BY <1>3, <1>4
<1> QED
  BY <1>2, <1>5

LEMMA CountAppend ==
  ASSUME NEW S, NEW s \in Seq(S), NEW x \in S, NEW D
  PROVE  CountIn(Append(s, x), D) = CountIn(s, D) + (IF x \in D THEN 1 ELSE 0)
<1>1. /\ Append(s, x) \in Seq(S)
      /\ Len(Append(s, x)) = Len(s) + 1
      /\ Len(s) \in Nat
      /\ \A i \in 1..Len(s) : Append(s, x)[i] = s[i]
      /\ Append(s, x)[Len(s) + 1] = x
  OBVIOUS
<1>2. 1..(Len(s) + 1) = 1..Len(s) \cup {Len(s) + 1} /\ Len(s) + 1 \notin 1..Len(s)
  BY <1>1
<1>3. PlacesIn(Append(s, x), D) = PlacesIn(s, D) \cup (IF x \in D THEN {Len(s) + 1} ELSE {})
  BY <1>1, <1>2 DEF PlacesIn
<1>4. Len(s) + 1 \notin PlacesIn(s, D)
  BY <1>2 DEF PlacesIn
<1>5. IsFiniteSet(PlacesIn(s, D)) /\ CountIn(s, D) \in 0..Len(s)
  BY PlacesInFinite
<1>6. CASE x \in D
  <2>1. PlacesIn(Append(s, x), D) = PlacesIn(s, D) \cup {Len(s) + 1}
    BY <1>3, <1>6
  <2>2. Cardinality(PlacesIn(s, D) \cup {Len(s) + 1}) = Cardinality(PlacesIn(s, D)) + 1
    BY <1>4, <1>5, FS_AddElement
  <2> QED
    BY <1>6, <2>1, <2>2 DEF CountIn
<1>7. CASE x \notin D
  <2>1. PlacesIn(Append(s, x), D) = PlacesIn(s, D)
    BY <1>3, <1>7
  <2> QED
    BY <1>1, <1>5, <1>7, <2>1 DEF CountIn
<1> QED
  BY <1>6, <1>7

\* A list cut in two: what is counted is in one part or the other.
LEMMA CountCut ==
  ASSUME NEW S, NEW s \in Seq(S), NEW n \in 0..Len(s), NEW D
  PROVE  CountIn(s, D) = CountIn(SubSeq(s, 1, n), D) + CountIn(SubSeq(s, n + 1, Len(s)), D)
<1> DEFINE a == SubSeq(s, 1, n)
           b == SubSeq(s, n + 1, Len(s))
<1>1. /\ a \in Seq(S) /\ b \in Seq(S)
      /\ Len(s) \in Nat /\ n \in Nat /\ n <= Len(s)
      /\ Len(a) = n
      /\ Len(b) = Len(s) - n
      /\ \A i \in 1..n : a[i] = s[i]
      /\ \A i \in 1..(Len(s) - n) : b[i] = s[i + n]
  OBVIOUS
<1> DEFINE Q == {i + n : i \in PlacesIn(b, D)}
<1> HIDE DEF a, b
<1>2. PlacesIn(a, D) = {i \in 1..n : s[i] \in D}
  BY <1>1 DEF PlacesIn
<1>3. Q = {i \in (n + 1)..Len(s) : s[i] \in D}
  <2>1. ASSUME NEW i \in (n + 1)..Len(s), s[i] \in D
        PROVE  i \in Q
    <3>1. i - n \in 1..(Len(s) - n) /\ (i - n) + n = i
      BY <1>1
    <3>2. i - n \in PlacesIn(b, D)
      BY <1>1, <2>1, <3>1 DEF PlacesIn
    <3> QED
      BY <3>1, <3>2
  <2>2. ASSUME NEW i \in PlacesIn(b, D)
        PROVE  i + n \in (n + 1)..Len(s) /\ s[i + n] \in D
    BY <1>1 DEF PlacesIn
  <2> QED
    BY <2>1, <2>2
<1>4. PlacesIn(s, D) = PlacesIn(a, D) \cup Q /\ PlacesIn(a, D) \cap Q = {}
  <2>1. 1..Len(s) = 1..n \cup (n + 1)..Len(s) /\ 1..n \cap (n + 1)..Len(s) = {}
    BY <1>1
  <2> HIDE DEF Q
  <2> QED
    BY <1>2, <1>3, <2>1 DEF PlacesIn
<1>5. IsFiniteSet(PlacesIn(a, D)) /\ IsFiniteSet(PlacesIn(b, D))
  BY <1>1, PlacesInFinite
<1>6. IsFiniteSet(Q) /\ Cardinality(Q) = Cardinality(PlacesIn(b, D))
  <2>1. PlacesIn(b, D) \subseteq Int /\ n \in Int
    BY <1>1 DEF PlacesIn
  <2> QED
    BY <1>5, <2>1, Moved
<1> HIDE DEF Q
<1>7. Cardinality(PlacesIn(a, D) \cup Q) = Cardinality(PlacesIn(a, D)) + Cardinality(Q)
  <2>1. Cardinality(PlacesIn(a, D) \cup Q)
          = Cardinality(PlacesIn(a, D)) + Cardinality(Q) - Cardinality(PlacesIn(a, D) \cap Q)
    BY <1>5, <1>6, FS_Union
  <2>2. Cardinality(PlacesIn(a, D) \cap Q) = 0
    BY <1>4, FS_EmptySet
  <2>3. Cardinality(PlacesIn(a, D)) \in Nat /\ Cardinality(Q) \in Nat
    BY <1>5, <1>6, FS_CardinalityType
  <2> QED
    BY <2>1, <2>2, <2>3
<1> QED
  BY <1>4, <1>6, <1>7 DEF CountIn, a, b

LEMMA CountEmpty ==
  ASSUME NEW D
  PROVE  CountIn(<<>>, D) = 0
<1>1. PlacesIn(<<>>, D) = {}
  BY DEF PlacesIn
<1> QED
  BY <1>1, FS_EmptySet DEF CountIn

LEMMA CountTail ==
  ASSUME NEW S, NEW s \in Seq(S), s # <<>>, NEW D
  PROVE  CountIn(s, D) = CountIn(Tail(s), D) + (IF Head(s) \in D THEN 1 ELSE 0)
<1> DEFINE b == Tail(s)
           Q == {i + 1 : i \in PlacesIn(b, D)}
<1>1. /\ Len(s) \in Nat /\ Len(s) >= 1
      /\ Head(s) = s[1]
      /\ b \in Seq(S) /\ Len(b) = Len(s) - 1
      /\ \A i \in 1..(Len(s) - 1) : b[i] = s[i + 1]
  OBVIOUS
<1> HIDE DEF b
<1>2. Q = {i \in 2..Len(s) : s[i] \in D}
  <2>1. ASSUME NEW i \in 2..Len(s), s[i] \in D
        PROVE  i \in Q
    <3>1. i - 1 \in 1..(Len(s) - 1) /\ (i - 1) + 1 = i
      BY <1>1
    <3>2. i - 1 \in PlacesIn(b, D)
      BY <1>1, <2>1, <3>1 DEF PlacesIn
    <3> QED
      BY <3>1, <3>2
  <2>2. ASSUME NEW i \in PlacesIn(b, D)
        PROVE  i + 1 \in 2..Len(s) /\ s[i + 1] \in D
    BY <1>1 DEF PlacesIn
  <2> QED
    BY <2>1, <2>2
<1>3. IsFiniteSet(PlacesIn(b, D)) /\ PlacesIn(b, D) \subseteq Int
  <2>1. IsFiniteSet(PlacesIn(b, D))
    BY <1>1, PlacesInFinite
  <2>2. PlacesIn(b, D) \subseteq Int
    BY DEF PlacesIn
  <2> QED
    BY <2>1, <2>2
<1>4. IsFiniteSet(Q) /\ Cardinality(Q) = Cardinality(PlacesIn(b, D))
  <2>1. 1 \in Int
    OBVIOUS
  <2> QED
    BY <1>3, <2>1, Moved
<1>5. 1..Len(s) = {1} \cup 2..Len(s) /\ 1 \notin 2..Len(s)
  BY <1>1
<1>6. 1 \notin Q
  BY <1>2, <1>5
<1> HIDE DEF Q
<1>7. Cardinality(PlacesIn(b, D)) \in Nat
  BY <1>3, FS_CardinalityType
<1>8. CASE Head(s) \in D
  <2>1. PlacesIn(s, D) = Q \cup {1}
    BY <1>1, <1>2, <1>5, <1>8 DEF PlacesIn
  <2>2. Cardinality(Q \cup {1}) = Cardinality(Q) + 1
    BY <1>4, <1>6, FS_AddElement
  <2> QED
    BY <1>4, <1>8, <2>1, <2>2 DEF CountIn, b
<1>9. CASE Head(s) \notin D
  <2>1. PlacesIn(s, D) = Q
    BY <1>1, <1>2, <1>5, <1>9 DEF PlacesIn
  <2> QED
    BY <1>4, <1>7, <1>9, <2>1 DEF CountIn, b
<1> QED
  BY <1>8, <1>9

-----------------------------------------------------------------------------
(* Sums.  No theorem of induction can be used for them, as it would take an  *)
(* operator for an argument; a smallest counterexample does instead.         *)

\* A set of finite sets has a smallest one, by which a fact about all of them is proved
\* from there being no smallest counterexample.
LEMMA SmallestSet ==
  ASSUME NEW S, IsFiniteSet(S), NEW C, C \subseteq SUBSET S, C # {}
  PROVE  \E x \in C : \A y \in C : y \subseteq x => y = x
<1>1. C \subseteq FiniteSubsetsOf(S)
  BY FS_Subset DEF FiniteSubsetsOf
<1>2. IsWellFoundedOn(StrictSubsetOrdering(S), FiniteSubsetsOf(S))
  BY FS_StrictSubsetOrderingWellFounded
<1>3. PICK x \in C : \A y \in C : ~ (<<y, x>> \in StrictSubsetOrdering(S))
  BY <1>1, <1>2, WFMin
<1>4. \A y \in C : y \subseteq x => y = x
  BY <1>3 DEF StrictSubsetOrdering
<1> QED
  BY <1>4

\* How the community modules sum a function over a set: element by element.
Chosen(s)        == CHOOSE x \in s : TRUE
SumTable(f, S, g) == g = [s \in SUBSET S |-> IF s = {} THEN 0 ELSE f[Chosen(s)] + g[s \ {Chosen(s)}]]

LEMMA SumIs ==
  ASSUME NEW f, NEW S
  PROVE  SumFunctionOnSet(f, S) = (CHOOSE g : SumTable(f, S, g))[S]
BY DEF SumFunctionOnSet, FoldFunctionOnSet, MapThenFoldSet, Chosen, SumTable

LEMMA SumTableAt ==
  ASSUME NEW f, NEW S, NEW g, SumTable(f, S, g), NEW s \in SUBSET S
  PROVE  g[s] = IF s = {} THEN 0 ELSE f[Chosen(s)] + g[s \ {Chosen(s)}]
BY DEF SumTable

LEMMA ChosenOf ==
  ASSUME NEW s, s # {}
  PROVE  /\ Chosen(s) \in s
         /\ s \ {Chosen(s)} \subseteq s
         /\ s \ {Chosen(s)} # s
<1>1. Chosen(s) \in s
  BY DEF Chosen
<1> QED
  BY <1>1

\* Two such tables agree where both are defined.
LEMMA SumTablesAgree ==
  ASSUME NEW f, NEW S, NEW T, NEW g, NEW h, SumTable(f, S, g), SumTable(f, T, h),
         NEW U, U \subseteq S, U \subseteq T, IsFiniteSet(U)
  PROVE  g[U] = h[U]
<1> DEFINE C == {s \in SUBSET U : g[s] # h[s]}
<1>1. ASSUME C # {}
      PROVE  FALSE
  <2>1. PICK x \in C : \A y \in C : y \subseteq x => y = x
    <3>1. C \subseteq SUBSET U
      OBVIOUS
    <3> HIDE DEF C
    <3> QED
      BY <1>1, <3>1, SmallestSet
  <2>2. x \in SUBSET S /\ x \in SUBSET T /\ x \subseteq U /\ g[x] # h[x]
    OBVIOUS
  <2>3. /\ g[x] = IF x = {} THEN 0 ELSE f[Chosen(x)] + g[x \ {Chosen(x)}]
        /\ h[x] = IF x = {} THEN 0 ELSE f[Chosen(x)] + h[x \ {Chosen(x)}]
    BY <2>2, SumTableAt
  <2>4. x # {}
    BY <2>2, <2>3
  <2>5. /\ x \ {Chosen(x)} \subseteq x
        /\ x \ {Chosen(x)} # x
    BY <2>4, ChosenOf
  <2>6. x \ {Chosen(x)} \notin C
    BY <2>1, <2>5
  <2>7. g[x \ {Chosen(x)}] = h[x \ {Chosen(x)}]
    BY <2>2, <2>5, <2>6
  <2> QED
    BY <2>2, <2>3, <2>4, <2>7
<1> QED
  BY <1>1

\* There is one for every finite set.
LEMMA SumTableExists ==
  ASSUME NEW f, NEW S, IsFiniteSet(S)
  PROVE  \E g : SumTable(f, S, g)
<1> DEFINE C == {s \in SUBSET S : ~ \E g : SumTable(f, s, g)}
<1>1. ASSUME C # {}
      PROVE  FALSE
  <2>1. PICK x \in C : \A y \in C : y \subseteq x => y = x
    <3>1. C \subseteq SUBSET S
      OBVIOUS
    <3> HIDE DEF C
    <3> QED
      BY <1>1, <3>1, SmallestSet
  <2>2. x \subseteq S /\ ~ \E g : SumTable(f, x, g)
    OBVIOUS
  <2> DEFINE G(U) == CHOOSE g : SumTable(f, U, g)
             K(U) == G(U)[U]
             h    == [s \in SUBSET x |-> IF s = {} THEN 0 ELSE f[Chosen(s)] + K(s \ {Chosen(s)})]
  <2>3. ASSUME NEW U, U \subseteq x, U # x
        PROVE  SumTable(f, U, G(U))
    <3>1. U \notin C
      BY <2>1, <2>3
    <3>2. U \in SUBSET S
      BY <2>2, <2>3
    <3>3. \E g : SumTable(f, U, g)
      BY <3>1, <3>2
    <3> QED
      BY <3>3
  <2>4. ASSUME NEW U, U \subseteq x, U # x
        PROVE  K(U) = IF U = {} THEN 0 ELSE f[Chosen(U)] + K(U \ {Chosen(U)})
    <3>1. SumTable(f, U, G(U))
      BY <2>3, <2>4
    <3>2. K(U) = IF U = {} THEN 0 ELSE f[Chosen(U)] + G(U)[U \ {Chosen(U)}]
      <4>1. U \in SUBSET U /\ K(U) = G(U)[U]
        OBVIOUS
      <4> HIDE DEF G, K
      <4>2. G(U)[U] = IF U = {} THEN 0 ELSE f[Chosen(U)] + G(U)[U \ {Chosen(U)}]
        BY <3>1, <4>1, SumTableAt
      <4> QED
        BY <4>1, <4>2
    <3>3. CASE U = {}
      <4> HIDE DEF G, K
      <4> QED
        BY <3>2, <3>3
    <3>4. CASE U # {}
      <4> DEFINE V == U \ {Chosen(U)}
      <4>1. V \subseteq U /\ V # U
        BY <3>4, ChosenOf
      <4>2. V \subseteq x /\ V # x
        BY <2>4, <4>1
      <4>3. SumTable(f, V, G(V))
        BY <2>3, <4>2
      <4>4. IsFiniteSet(V)
        BY <2>2, <4>2, FS_Subset
      <4>5. G(U)[V] = G(V)[V]
        <5> HIDE DEF G, V
        <5> QED
          BY <3>1, <4>1, <4>3, <4>4, SumTablesAgree
      <4> HIDE DEF G
      <4> QED
        BY <3>2, <3>4, <4>5
    <3> QED
      BY <3>3, <3>4
  <2>5. ASSUME NEW s \in SUBSET x, s # {}
        PROVE  h[s \ {Chosen(s)}] = K(s \ {Chosen(s)})
    <3> DEFINE U == s \ {Chosen(s)}
    <3>1. U \subseteq s /\ U # s
      BY <2>5, ChosenOf
    <3>2. U \subseteq x /\ U # x
      BY <3>1
    <3>3. K(U) = IF U = {} THEN 0 ELSE f[Chosen(U)] + K(U \ {Chosen(U)})
      <4> HIDE DEF U, K
      <4> QED
        BY <2>4, <3>2
    <3>4. h[U] = IF U = {} THEN 0 ELSE f[Chosen(U)] + K(U \ {Chosen(U)})
      <4> HIDE DEF U, K
      <4> QED
        BY <3>2
    <3> QED
      BY <3>3, <3>4
  <2>6. SumTable(f, x, h)
    <3>1. \A s \in SUBSET x : (IF s = {} THEN 0 ELSE f[Chosen(s)] + h[s \ {Chosen(s)}])
                              = (IF s = {} THEN 0 ELSE f[Chosen(s)] + K(s \ {Chosen(s)}))
      <4> HIDE DEF K, h
      <4> QED
        BY <2>5
    <3> HIDE DEF K
    <3>2. h = [s \in SUBSET x |-> IF s = {} THEN 0 ELSE f[Chosen(s)] + h[s \ {Chosen(s)}]]
      BY <3>1
    <3> QED
      BY <3>2 DEF SumTable
  <2> QED
    BY <2>2, <2>6
<1>2. S \in SUBSET S
  OBVIOUS
<1> QED
  BY <1>1, <1>2

\* A sum is empty, or the first element taken and the sum of the others.
LEMMA SumStep ==
  ASSUME NEW f, NEW S, IsFiniteSet(S)
  PROVE  SumFunctionOnSet(f, S) =
           IF S = {} THEN 0 ELSE f[Chosen(S)] + SumFunctionOnSet(f, S \ {Chosen(S)})
<1> DEFINE G(U) == CHOOSE g : SumTable(f, U, g)
<1>1. ASSUME NEW U, IsFiniteSet(U)
      PROVE  SumTable(f, U, G(U))
  BY <1>1, SumTableExists
<1>2. \A U : SumFunctionOnSet(f, U) = G(U)[U]
  BY SumIs
<1> HIDE DEF G
<1>3. SumTable(f, S, G(S)) /\ S \in SUBSET S
  BY <1>1
<1>4. G(S)[S] = IF S = {} THEN 0 ELSE f[Chosen(S)] + G(S)[S \ {Chosen(S)}]
  BY <1>3, SumTableAt
<1>5. ASSUME S # {}
      PROVE  G(S)[S \ {Chosen(S)}] = G(S \ {Chosen(S)})[S \ {Chosen(S)}]
  <2> DEFINE V == S \ {Chosen(S)}
  <2>1. V \subseteq S
    OBVIOUS
  <2>2. IsFiniteSet(V)
    BY <2>1, FS_Subset
  <2>3. SumTable(f, V, G(V))
    BY <1>1, <2>2
  <2> HIDE DEF V
  <2>4. G(S)[V] = G(V)[V]
    BY <1>3, <2>1, <2>2, <2>3, SumTablesAgree
  <2> QED
    BY <2>4 DEF V
<1> QED
  BY <1>2, <1>4, <1>5

-----------------------------------------------------------------------------

\* Any element may be taken out of a sum of integers, which is one.
LEMMA SumType ==
  ASSUME NEW S, IsFiniteSet(S), NEW f, \A x \in S : f[x] \in Int
  PROVE  SumFunctionOnSet(f, S) \in Int
<1> DEFINE C == {s \in SUBSET S : SumFunctionOnSet(f, s) \notin Int}
<1>1. ASSUME C # {}
      PROVE  FALSE
  <2>1. PICK x \in C : \A y \in C : y \subseteq x => y = x
    <3>1. C \subseteq SUBSET S
      OBVIOUS
    <3> HIDE DEF C
    <3> QED
      BY <1>1, <3>1, SmallestSet
  <2>2. x \subseteq S /\ IsFiniteSet(x) /\ SumFunctionOnSet(f, x) \notin Int
    BY FS_Subset
  <2>3. SumFunctionOnSet(f, x) =
          IF x = {} THEN 0 ELSE f[Chosen(x)] + SumFunctionOnSet(f, x \ {Chosen(x)})
    BY <2>2, SumStep
  <2>4. x # {}
    BY <2>2, <2>3
  <2>5. Chosen(x) \in x /\ x \ {Chosen(x)} \subseteq x /\ x \ {Chosen(x)} # x
    BY <2>4, ChosenOf
  <2>6. x \ {Chosen(x)} \notin C
    BY <2>1, <2>5
  <2>7. SumFunctionOnSet(f, x \ {Chosen(x)}) \in Int
    BY <2>2, <2>5, <2>6
  <2>8. f[Chosen(x)] \in Int
    BY <2>2, <2>5
  <2> QED
    BY <2>2, <2>3, <2>4, <2>7, <2>8
<1> QED
  BY <1>1

LEMMA SumOut ==
  ASSUME NEW S, IsFiniteSet(S), NEW f, \A y \in S : f[y] \in Int, NEW x \in S
  PROVE  SumFunctionOnSet(f, S) = f[x] + SumFunctionOnSet(f, S \ {x})
<1> DEFINE O(s, e) == SumFunctionOnSet(f, s) = f[e] + SumFunctionOnSet(f, s \ {e})
           C == {s \in SUBSET S : \E e \in s : ~O(s, e)}
<1>1. ASSUME C # {}
      PROVE  FALSE
  <2>1. PICK s \in C : \A u \in C : u \subseteq s => u = s
    <3>1. C \subseteq SUBSET S
      OBVIOUS
    <3> HIDE DEF C
    <3> QED
      BY <1>1, <3>1, SmallestSet
  <2>2. PICK e \in s : ~O(s, e)
    OBVIOUS
  <2>3. s \subseteq S
    OBVIOUS
  <2> DEFINE d == Chosen(s)
  <2>4. d \in s /\ s # {}
    BY <2>2, ChosenOf
  <2>5. \A u \in SUBSET s : IsFiniteSet(u) /\ SumFunctionOnSet(f, u) \in Int
    <3>1. \A u \in SUBSET s : IsFiniteSet(u) /\ u \subseteq S
      BY <2>3, FS_Subset
    <3>2. \A u \in SUBSET s : \A y \in u : f[y] \in Int
      BY <2>3
    <3> QED
      BY <3>1, <3>2, SumType
  <2>6. SumFunctionOnSet(f, s) = f[d] + SumFunctionOnSet(f, s \ {d})
    BY <2>4, <2>5, SumStep
  <2>7. d # e
    BY <2>2, <2>6
  <2> HIDE DEF d
  <2>8. s \ {d} \notin C /\ s \ {e} \notin C
    <3>1. s \ {d} # s /\ s \ {e} # s
      BY <2>2, <2>4
    <3> HIDE DEF C
    <3> QED
      BY <2>1, <3>1
  <2>9. O(s \ {d}, e) /\ O(s \ {e}, d)
    <3>1. s \ {d} \in SUBSET S /\ s \ {e} \in SUBSET S /\ e \in s \ {d} /\ d \in s \ {e}
      BY <2>2, <2>3, <2>4, <2>7
    <3> HIDE DEF O
    <3> QED
      BY <2>8, <3>1
  <2>10. (s \ {d}) \ {e} = (s \ {e}) \ {d}
    OBVIOUS
  <2>11. /\ f[e] \in Int /\ f[d] \in Int
         /\ SumFunctionOnSet(f, (s \ {d}) \ {e}) \in Int
         /\ SumFunctionOnSet(f, s \ {d}) \in Int
         /\ SumFunctionOnSet(f, s \ {e}) \in Int
    <3>1. (s \ {d}) \ {e} \in SUBSET s /\ s \ {d} \in SUBSET s /\ s \ {e} \in SUBSET s
      OBVIOUS
    <3> QED
      BY <2>2, <2>3, <2>4, <2>5, <3>1
  <2>12. /\ SumFunctionOnSet(f, s \ {d}) = f[e] + SumFunctionOnSet(f, (s \ {d}) \ {e})
         /\ SumFunctionOnSet(f, s \ {e}) = f[d] + SumFunctionOnSet(f, (s \ {d}) \ {e})
    BY <2>9, <2>10
  <2>13. SumFunctionOnSet(f, s) = f[e] + SumFunctionOnSet(f, s \ {e})
    BY <2>6, <2>11, <2>12
  <2> QED
    BY <2>2, <2>13
<1>2. S \in SUBSET S
  OBVIOUS
<1>3. O(S, x)
  <2> HIDE DEF O
  <2> QED
    BY <1>1, <1>2
<1> QED
  BY <1>3

\* Where one function is at most another, so is its sum.
LEMMA SumAtMost ==
  ASSUME NEW S, IsFiniteSet(S), NEW f, NEW g,
         \A x \in S : f[x] \in Int /\ g[x] \in Int /\ f[x] <= g[x]
  PROVE  SumFunctionOnSet(f, S) <= SumFunctionOnSet(g, S)
<1> DEFINE C == {s \in SUBSET S : ~(SumFunctionOnSet(f, s) <= SumFunctionOnSet(g, s))}
<1>1. ASSUME C # {}
      PROVE  FALSE
  <2>1. PICK x \in C : \A y \in C : y \subseteq x => y = x
    <3>1. C \subseteq SUBSET S
      OBVIOUS
    <3> HIDE DEF C
    <3> QED
      BY <1>1, <3>1, SmallestSet
  <2>2. x \subseteq S /\ ~(SumFunctionOnSet(f, x) <= SumFunctionOnSet(g, x))
    OBVIOUS
  <2>3. IsFiniteSet(x)
    BY <2>2, FS_Subset
  <2> DEFINE y == x \ {Chosen(x)}
  <2>4. /\ SumFunctionOnSet(f, x) = IF x = {} THEN 0 ELSE f[Chosen(x)] + SumFunctionOnSet(f, y)
        /\ SumFunctionOnSet(g, x) = IF x = {} THEN 0 ELSE g[Chosen(x)] + SumFunctionOnSet(g, y)
    BY <2>3, SumStep
  <2>5. x # {}
    BY <2>2, <2>4
  <2>6. Chosen(x) \in x /\ y \subseteq x /\ y # x
    BY <2>5, ChosenOf
  <2>7. y \notin C
    BY <2>1, <2>6
  <2>8. SumFunctionOnSet(f, y) <= SumFunctionOnSet(g, y)
    BY <2>2, <2>6, <2>7
  <2>9. SumFunctionOnSet(f, y) \in Int /\ SumFunctionOnSet(g, y) \in Int
    <3>1. IsFiniteSet(y) /\ \A z \in y : f[z] \in Int /\ g[z] \in Int
      BY <2>2, <2>3, <2>6, FS_Subset
    <3> HIDE DEF y
    <3> QED
      BY <3>1, SumType
  <2>10. /\ f[Chosen(x)] \in Int /\ g[Chosen(x)] \in Int
         /\ f[Chosen(x)] <= g[Chosen(x)]
    BY <2>2, <2>6
  <2> HIDE DEF y, C
  <2> QED
    BY <2>2, <2>4, <2>5, <2>8, <2>9, <2>10
<1> QED
  BY <1>1

\* Functions that agree have the same sum, and one that is nowhere negative none below 0.
LEMMA SumSame ==
  ASSUME NEW S, IsFiniteSet(S), NEW f, NEW g,
         \A x \in S : f[x] \in Int /\ g[x] = f[x]
  PROVE  SumFunctionOnSet(g, S) = SumFunctionOnSet(f, S)
<1>1. SumFunctionOnSet(f, S) <= SumFunctionOnSet(g, S)
  <2>1. \A x \in S : f[x] \in Int /\ g[x] \in Int /\ f[x] <= g[x]
    OBVIOUS
  <2> QED
    BY <2>1, SumAtMost
<1>2. SumFunctionOnSet(g, S) <= SumFunctionOnSet(f, S)
  <2>1. \A x \in S : g[x] \in Int /\ f[x] \in Int /\ g[x] <= f[x]
    OBVIOUS
  <2> QED
    BY <2>1, SumAtMost
<1>3. SumFunctionOnSet(f, S) \in Int /\ SumFunctionOnSet(g, S) \in Int
  BY SumType
<1> QED
  BY <1>1, <1>2, <1>3

LEMMA SumZero ==
  ASSUME NEW S, IsFiniteSet(S)
  PROVE  SumFunctionOnSet([x \in S |-> 0], S) = 0
<1> DEFINE z == [x \in S |-> 0]
           C == {s \in SUBSET S : SumFunctionOnSet(z, s) # 0}
<1>1. ASSUME C # {}
      PROVE  FALSE
  <2>1. PICK x \in C : \A y \in C : y \subseteq x => y = x
    <3>1. C \subseteq SUBSET S
      OBVIOUS
    <3> HIDE DEF C
    <3> QED
      BY <1>1, <3>1, SmallestSet
  <2>2. x \subseteq S /\ SumFunctionOnSet(z, x) # 0
    OBVIOUS
  <2>3. IsFiniteSet(x)
    BY <2>2, FS_Subset
  <2>4. SumFunctionOnSet(z, x) =
          IF x = {} THEN 0 ELSE z[Chosen(x)] + SumFunctionOnSet(z, x \ {Chosen(x)})
    <3> HIDE DEF z
    <3> QED
      BY <2>3, SumStep
  <2>5. x # {}
    BY <2>2, <2>4
  <2>6. Chosen(x) \in x /\ x \ {Chosen(x)} \subseteq x /\ x \ {Chosen(x)} # x
    BY <2>5, ChosenOf
  <2>7. x \ {Chosen(x)} \notin C
    BY <2>1, <2>6
  <2>8. SumFunctionOnSet(z, x \ {Chosen(x)}) = 0
    BY <2>2, <2>6, <2>7
  <2>9. z[Chosen(x)] = 0
    BY <2>2, <2>6
  <2> HIDE DEF z, C
  <2> QED
    BY <2>2, <2>4, <2>5, <2>8, <2>9
<1>2. S \in SUBSET S
  OBVIOUS
<1> QED
  BY <1>1, <1>2

\* The forms the proofs use.
LEMMA SumInt ==
  ASSUME NEW S, IsFiniteSet(S), NEW f \in [S -> Int]
  PROVE  SumFunction(f) \in Int
<1>1. \A x \in S : f[x] \in Int
  OBVIOUS
<1> QED
  BY <1>1, SumType DEF SumFunction

LEMMA SumOfZeros ==
  ASSUME NEW S, IsFiniteSet(S)
  PROVE  SumFunction([x \in S |-> 0]) = 0
<1>1. DOMAIN [x \in S |-> 0] = S
  OBVIOUS
<1> QED
  BY <1>1, SumZero DEF SumFunction

LEMMA SumNat ==
  ASSUME NEW S, IsFiniteSet(S), NEW f \in [S -> Int], \A x \in S : f[x] >= 0
  PROVE  SumFunction(f) \in Nat
<1> DEFINE z == [x \in S |-> 0]
<1>1. \A x \in S : z[x] \in Int /\ f[x] \in Int /\ z[x] <= f[x]
  OBVIOUS
<1>2. SumFunctionOnSet(z, S) = 0
  BY SumZero
<1> HIDE DEF z
<1>3. SumFunctionOnSet(z, S) <= SumFunctionOnSet(f, S)
  BY <1>1, SumAtMost
<1>4. SumFunctionOnSet(f, S) \in Int
  BY <1>1, SumType
<1> QED
  BY <1>2, <1>3, <1>4 DEF SumFunction

LEMMA SumAtLeast ==
  ASSUME NEW S, IsFiniteSet(S), NEW f \in [S -> Int], \A x \in S : f[x] >= 0, NEW x \in S
  PROVE  SumFunction(f) >= f[x]
<1>1. SumFunctionOnSet(f, S) = f[x] + SumFunctionOnSet(f, S \ {x})
  <2>1. \A y \in S : f[y] \in Int
    OBVIOUS
  <2> QED
    BY <2>1, SumOut
<1> DEFINE T == S \ {x}
           g == [y \in T |-> f[y]]
<1>2. IsFiniteSet(T)
  <2>1. T \subseteq S
    OBVIOUS
  <2> QED
    BY <2>1, FS_Subset
<1>3. g \in [T -> Int] /\ \A y \in T : g[y] >= 0 /\ g[y] \in Int /\ f[y] = g[y]
  OBVIOUS
<1> HIDE DEF g, T
<1>4. SumFunction(g) \in Nat
  BY <1>2, <1>3, SumNat
<1>5. SumFunctionOnSet(f, T) = SumFunctionOnSet(g, T)
  BY <1>2, <1>3, SumSame
<1>6. SumFunctionOnSet(f, T) \in Nat
  <2>1. DOMAIN g = T
    BY <1>3
  <2> QED
    BY <1>4, <1>5, <2>1 DEF SumFunction
<1> QED
  <2>1. SumFunctionOnSet(f, S) = f[x] + SumFunctionOnSet(f, T)
    BY <1>1 DEF T
  <2> QED
    BY <1>6, <2>1 DEF SumFunction

\* Changing a function at one place changes its sum by as much.
LEMMA SumChange ==
  ASSUME NEW S, IsFiniteSet(S), NEW f \in [S -> Int], NEW g \in [S -> Int],
         NEW x \in S, \A y \in S \ {x} : g[y] = f[y]
  PROVE  SumFunction(g) = SumFunction(f) + g[x] - f[x]
<1> DEFINE T == S \ {x}
<1>1. SumFunctionOnSet(f, S) = f[x] + SumFunctionOnSet(f, T)
  <2>1. \A y \in S : f[y] \in Int
    OBVIOUS
  <2> QED
    BY <2>1, SumOut
<1>2. SumFunctionOnSet(g, S) = g[x] + SumFunctionOnSet(g, T)
  <2>1. \A y \in S : g[y] \in Int
    OBVIOUS
  <2> QED
    BY <2>1, SumOut
<1>3. IsFiniteSet(T) /\ \A y \in T : f[y] \in Int /\ g[y] = f[y]
  <2>1. T \subseteq S
    OBVIOUS
  <2> QED
    BY <2>1, FS_Subset
<1> HIDE DEF T
<1>4. SumFunctionOnSet(f, T) \in Int /\ SumFunctionOnSet(g, T) = SumFunctionOnSet(f, T)
  BY <1>3, SumType, SumSame
<1>5. DOMAIN f = S /\ DOMAIN g = S /\ f[x] \in Int /\ g[x] \in Int
  OBVIOUS
<1> QED
  BY <1>1, <1>2, <1>4, <1>5 DEF SumFunction

LEMMA SumLess ==
  ASSUME NEW S, IsFiniteSet(S), NEW f \in [S -> Int], NEW g \in [S -> Int],
         \A x \in S : f[x] <= g[x]
  PROVE  SumFunction(f) <= SumFunction(g)
<1>1. \A x \in S : f[x] \in Int /\ g[x] \in Int /\ f[x] <= g[x]
  OBVIOUS
<1>2. DOMAIN f = S /\ DOMAIN g = S
  OBVIOUS
<1> QED
  BY <1>1, <1>2, SumAtMost DEF SumFunction

\* Two elements of a sum of naturals do not exceed it together.
LEMMA SumAtLeastTwo ==
  ASSUME NEW S, IsFiniteSet(S), NEW f \in [S -> Int], \A x \in S : f[x] >= 0,
         NEW x \in S, NEW y \in S, x # y
  PROVE  SumFunction(f) >= f[x] + f[y]
<1> DEFINE g == [f EXCEPT ![x] = 0]
<1>1. /\ g \in [S -> Int] /\ \A z \in S : g[z] >= 0
      /\ g[x] = 0 /\ g[y] = f[y] /\ \A z \in S \ {x} : g[z] = f[z]
  OBVIOUS
<1> HIDE DEF g
<1>2. SumFunction(g) = SumFunction(f) + g[x] - f[x]
  BY <1>1, SumChange
<1>3. SumFunction(g) >= g[y]
  BY <1>1, SumAtLeast
<1>4. SumFunction(f) \in Int /\ f[x] \in Int /\ f[y] \in Int
  BY SumInt
<1> DEFINE a == SumFunction(f)
           b == SumFunction(g)
           c == f[x]
           d == f[y]
<1>5. a \in Int /\ c \in Int /\ d \in Int /\ b = a + 0 - c /\ b >= d
  BY <1>1, <1>2, <1>3, <1>4
<1> HIDE DEF a, b, c, d
<1>6. a >= c + d
  BY <1>5
<1> QED
  BY <1>6 DEF a, c, d

\* A set counted as the sum of its members, one for each.
LEMMA SumOfMembers ==
  ASSUME NEW S, IsFiniteSet(S), NEW T \in SUBSET S
  PROVE  SumFunction([x \in S |-> IF x \in T THEN 1 ELSE 0]) = Cardinality(T)
<1> DEFINE F(U) == [x \in S |-> IF x \in U THEN 1 ELSE 0]
           C == {U \in SUBSET S : SumFunction(F(U)) # Cardinality(U)}
<1>1. ASSUME C # {}
      PROVE  FALSE
  <2>1. PICK U \in C : \A V \in C : V \subseteq U => V = U
    <3>1. C \subseteq SUBSET S
      OBVIOUS
    <3> HIDE DEF C
    <3> QED
      BY <1>1, <3>1, SmallestSet
  <2>2. U \subseteq S /\ SumFunction(F(U)) # Cardinality(U) /\ IsFiniteSet(U)
    BY FS_Subset
  <2>3. CASE U = {}
    <3>1. F(U) = [x \in S |-> 0]
      BY <2>3
    <3> HIDE DEF F
    <3> QED
      BY <2>2, <2>3, <3>1, SumOfZeros, FS_EmptySet
  <2>4. CASE U # {}
    <3>1. PICK x : x \in U
      BY <2>4
    <3> DEFINE V == U \ {x}
    <3>2. V \subseteq U /\ V # U /\ V \subseteq S /\ x \in S /\ U = V \cup {x} /\ x \notin V
      BY <2>2, <3>1
    <3>3. V \notin C
      BY <2>1, <3>2
    <3>4. SumFunction(F(V)) = Cardinality(V)
      BY <3>2, <3>3
    <3>5. IsFiniteSet(V) /\ Cardinality(U) = Cardinality(V) + 1
      <4>1. IsFiniteSet(V)
        BY <2>2, <3>2, FS_Subset
      <4> HIDE DEF V
      <4> QED
        BY <3>2, <4>1, FS_AddElement
    <3>6. /\ F(U) \in [S -> Int] /\ F(V) \in [S -> Int]
          /\ F(U)[x] = 1 /\ F(V)[x] = 0
          /\ \A y \in S \ {x} : F(U)[y] = F(V)[y]
      BY <3>1, <3>2
    <3> HIDE DEF F, V
    <3>7. SumFunction(F(U)) = SumFunction(F(V)) + F(U)[x] - F(V)[x]
      <4> DEFINE f == F(V)
                 g == F(U)
      <4>1. f \in [S -> Int] /\ g \in [S -> Int] /\ x \in S /\ \A y \in S \ {x} : g[y] = f[y]
        BY <3>2, <3>6
      <4> HIDE DEF f, g
      <4>2. SumFunction(g) = SumFunction(f) + g[x] - f[x]
        BY <4>1, SumChange
      <4> QED
        BY <4>2 DEF f, g
    <3>8. SumFunction(F(V)) \in Int
      BY <3>6, SumInt
    <3> QED
      BY <2>2, <3>4, <3>5, <3>6, <3>7, <3>8
  <2> QED
    BY <2>3, <2>4
<1>2. T \notin C
  BY <1>1
<1> QED
  BY <1>2

\* As many times one number.
LEMMA SumOfSame ==
  ASSUME NEW S, IsFiniteSet(S), NEW c \in Nat
  PROVE  SumFunction([x \in S |-> c]) = c * Cardinality(S)
<1> DEFINE F(U) == [x \in S |-> IF x \in U THEN c ELSE 0]
           C == {U \in SUBSET S : SumFunction(F(U)) # c * Cardinality(U)}
<1>1. ASSUME C # {}
      PROVE  FALSE
  <2>1. PICK U \in C : \A V \in C : V \subseteq U => V = U
    <3>1. C \subseteq SUBSET S
      OBVIOUS
    <3> HIDE DEF C
    <3> QED
      BY <1>1, <3>1, SmallestSet
  <2>2. U \subseteq S /\ SumFunction(F(U)) # c * Cardinality(U) /\ IsFiniteSet(U)
    BY FS_Subset
  <2>3. CASE U = {}
    <3>1. F(U) = [x \in S |-> 0]
      BY <2>3
    <3>2. Cardinality(U) = 0
      BY <2>3, FS_EmptySet
    <3>3. c * Cardinality(U) = 0
      BY <3>2
    <3> HIDE DEF F
    <3> QED
      BY <2>2, <3>1, <3>3, SumOfZeros
  <2>4. CASE U # {}
    <3>1. PICK x : x \in U
      BY <2>4
    <3> DEFINE V == U \ {x}
    <3>2. V \subseteq U /\ V # U /\ V \subseteq S /\ x \in S /\ U = V \cup {x} /\ x \notin V
      BY <2>2, <3>1
    <3>3. V \notin C
      BY <2>1, <3>2
    <3>4. SumFunction(F(V)) = c * Cardinality(V)
      BY <3>2, <3>3
    <3>5. Cardinality(V) \in Nat /\ Cardinality(U) = Cardinality(V) + 1
      <4>1. IsFiniteSet(V)
        BY <2>2, <3>2, FS_Subset
      <4> HIDE DEF V
      <4> QED
        BY <3>2, <4>1, FS_AddElement, FS_CardinalityType
    <3>6. /\ F(U) \in [S -> Int] /\ F(V) \in [S -> Int]
          /\ F(U)[x] = c /\ F(V)[x] = 0
          /\ \A y \in S \ {x} : F(U)[y] = F(V)[y]
      BY <3>1, <3>2
    <3> HIDE DEF F, V
    <3>7. SumFunction(F(U)) = SumFunction(F(V)) + F(U)[x] - F(V)[x]
      <4> DEFINE f == F(V)
                 g == F(U)
      <4>1. f \in [S -> Int] /\ g \in [S -> Int] /\ x \in S /\ \A y \in S \ {x} : g[y] = f[y]
        BY <3>2, <3>6
      <4> HIDE DEF f, g
      <4>2. SumFunction(g) = SumFunction(f) + g[x] - f[x]
        BY <4>1, SumChange
      <4> QED
        BY <4>2 DEF f, g
    <3>8. SumFunction(F(V)) \in Int
      BY <3>6, SumInt
    <3>9. c * Cardinality(U) = c * Cardinality(V) + c
      BY <3>5
    <3> QED
      BY <2>2, <3>4, <3>6, <3>7, <3>8, <3>9
  <2> QED
    BY <2>3, <2>4
<1>2. S \notin C
  BY <1>1
<1>3. F(S) = [x \in S |-> c]
  OBVIOUS
<1> QED
  BY <1>2, <1>3

-----------------------------------------------------------------------------
(* Counts in the rest of a list, from a place on.                           *)

PlacesFrom(s, p, D) == {i \in p..Len(s) : s[i] \in D}
CountFrom(s, p, D)  == Cardinality(PlacesFrom(s, p, D))

LEMMA CountFromType ==
  ASSUME NEW S, NEW s \in Seq(S), NEW p \in Nat, p >= 1, NEW D
  PROVE  CountFrom(s, p, D) \in Nat /\ IsFiniteSet(PlacesFrom(s, p, D))
<1>1. PlacesFrom(s, p, D) \subseteq PlacesIn(s, D)
  BY DEF PlacesFrom, PlacesIn
<1>2. IsFiniteSet(PlacesFrom(s, p, D))
  BY <1>1, PlacesInFinite, FS_Subset
<1> QED
  BY <1>2, FS_CardinalityType DEF CountFrom

LEMMA CountFromStart ==
  ASSUME NEW s, NEW D
  PROVE  CountFrom(s, 1, D) = CountIn(s, D)
BY DEF CountFrom, CountIn, PlacesFrom, PlacesIn

LEMMA CountFromEnd ==
  ASSUME NEW S, NEW s \in Seq(S), NEW p \in Nat, p > Len(s), NEW D
  PROVE  CountFrom(s, p, D) = 0
<1>1. PlacesFrom(s, p, D) = {}
  BY DEF PlacesFrom
<1> QED
  BY <1>1, FS_EmptySet DEF CountFrom

LEMMA CountFromNext ==
  ASSUME NEW S, NEW s \in Seq(S), NEW p \in Nat, p >= 1, p <= Len(s), NEW D
  PROVE  CountFrom(s, p, D) = CountFrom(s, p + 1, D) + (IF s[p] \in D THEN 1 ELSE 0)
<1> DEFINE P == PlacesFrom(s, p, D)
           Q == PlacesFrom(s, p + 1, D)
<1>1. IsFiniteSet(Q) /\ Cardinality(Q) \in Nat
  <2>1. p + 1 \in Nat /\ p + 1 >= 1
    OBVIOUS
  <2> QED
    BY <2>1, CountFromType DEF CountFrom
<1>2. CASE s[p] \in D
  <2>1. P = Q \cup {p} /\ p \notin Q
    BY <1>2 DEF PlacesFrom
  <2> HIDE DEF P, Q
  <2>2. Cardinality(P) = Cardinality(Q) + 1
    BY <1>1, <2>1, FS_AddElement
  <2> QED
    BY <1>2, <2>2 DEF CountFrom, P, Q
<1>3. CASE s[p] \notin D
  <2>1. P = Q
    BY <1>3 DEF PlacesFrom
  <2>2. Cardinality(P) = Cardinality(Q) + 0
    <3> HIDE DEF P, Q
    <3> QED
      BY <1>1, <2>1
  <2> QED
    BY <1>3, <2>2 DEF CountFrom
<1> QED
  BY <1>2, <1>3

\* A place counted makes the count at least one, two places make it at least two.
LEMMA CountOne ==
  ASSUME NEW S, NEW s \in Seq(S), NEW D, NEW i \in 1..Len(s), s[i] \in D
  PROVE  CountIn(s, D) >= 1
<1>1. i \in PlacesIn(s, D)
  BY DEF PlacesIn
<1>2. {i} \subseteq PlacesIn(s, D) /\ IsFiniteSet(PlacesIn(s, D))
  BY <1>1, PlacesInFinite
<1>3. Cardinality({i}) = 1 /\ Cardinality({i}) <= Cardinality(PlacesIn(s, D))
  BY <1>2, FS_Subset, FS_Singleton
<1>4. Cardinality(PlacesIn(s, D)) \in Nat
  BY <1>2, FS_CardinalityType
<1> QED
  BY <1>3, <1>4 DEF CountIn

LEMMA CountTwo ==
  ASSUME NEW S, NEW s \in Seq(S), NEW D,
         NEW i \in 1..Len(s), NEW j \in 1..Len(s), i # j, s[i] \in D, s[j] \in D
  PROVE  CountIn(s, D) >= 2
<1>1. {i, j} \subseteq PlacesIn(s, D) /\ IsFiniteSet(PlacesIn(s, D))
  BY PlacesInFinite DEF PlacesIn
<1>2. Cardinality({i, j}) = 2
  <2> DEFINE I == {i}
             J == {i, j}
  <2>1. IsFiniteSet(I) /\ Cardinality(I) = 1
    BY FS_Singleton
  <2>2. J = I \cup {j} /\ j \notin I
    OBVIOUS
  <2> HIDE DEF I, J
  <2>3. Cardinality(J) = 1 + 1
    BY <2>1, <2>2, FS_AddElement
  <2>4. 1 + 1 = 2
    OBVIOUS
  <2> QED
    BY <2>3, <2>4 DEF J
<1>3. Cardinality({i, j}) <= Cardinality(PlacesIn(s, D))
  BY <1>1, FS_Subset
<1>4. Cardinality(PlacesIn(s, D)) \in Nat
  BY <1>1, FS_CardinalityType
<1> QED
  BY <1>2, <1>3, <1>4 DEF CountIn

LEMMA CountFromOne ==
  ASSUME NEW S, NEW s \in Seq(S), NEW p \in Nat, p >= 1, NEW D, NEW i \in p..Len(s), s[i] \in D
  PROVE  CountFrom(s, p, D) >= 1
<1>1. i \in PlacesFrom(s, p, D)
  BY DEF PlacesFrom
<1>2. {i} \subseteq PlacesFrom(s, p, D) /\ IsFiniteSet(PlacesFrom(s, p, D))
  BY <1>1, CountFromType
<1>3. Cardinality({i}) = 1 /\ Cardinality({i}) <= Cardinality(PlacesFrom(s, p, D))
  BY <1>2, FS_Subset, FS_Singleton
<1>4. Cardinality(PlacesFrom(s, p, D)) \in Nat
  BY <1>2, FS_CardinalityType
<1> QED
  BY <1>3, <1>4 DEF CountFrom

\* Lists of one and of two elements.
LEMMA CountShort ==
  ASSUME NEW S, NEW x \in S, NEW y \in S, NEW D
  PROVE  /\ CountIn(<<x>>, D) = IF x \in D THEN 1 ELSE 0
         /\ CountIn(<<x, y>>, D) = (IF x \in D THEN 1 ELSE 0) + (IF y \in D THEN 1 ELSE 0)
<1>1. CountIn(<<>>, D) = 0
  BY CountEmpty
<1>2. /\ <<x, y>> \in Seq(S) /\ <<x, y>> # <<>> /\ Head(<<x, y>>) = x /\ Tail(<<x, y>>) = <<y>>
  OBVIOUS
<1>3. ASSUME NEW z \in S PROVE CountIn(<<z>>, D) = CountIn(<<>>, D) + (IF z \in D THEN 1 ELSE 0)
  <2> DEFINE s == <<z>>
  <2>1. s \in Seq(S) /\ s # <<>> /\ Head(s) = z /\ Tail(s) = <<>>
    OBVIOUS
  <2> HIDE DEF s
  <2>2. CountIn(s, D) = CountIn(Tail(s), D) + (IF Head(s) \in D THEN 1 ELSE 0)
    BY <2>1, CountTail
  <2> QED
    BY <2>1, <2>2 DEF s
<1>5. CountIn(<<x, y>>, D) = CountIn(<<y>>, D) + (IF x \in D THEN 1 ELSE 0)
  <2> DEFINE s == <<x, y>>
  <2>1. s \in Seq(S) /\ s # <<>> /\ Head(s) = x /\ Tail(s) = <<y>>
    BY <1>2
  <2> HIDE DEF s
  <2>2. CountIn(s, D) = CountIn(Tail(s), D) + (IF Head(s) \in D THEN 1 ELSE 0)
    BY <2>1, CountTail
  <2> QED
    BY <2>1, <2>2 DEF s
<1> QED
  BY <1>1, <1>3, <1>5

\* Two sets that share nothing and hold everything on the list split its length.
LEMMA CountSplit ==
  ASSUME NEW S, NEW s \in Seq(S), NEW D, NEW E, D \cap E = {}, S \subseteq D \cup E
  PROVE  CountIn(s, D) + CountIn(s, E) = Len(s)
<1> DEFINE P == PlacesIn(s, D)
           Q == PlacesIn(s, E)
           n == Len(s)
<1>1. IsFiniteSet(P) /\ IsFiniteSet(Q)
  BY PlacesInFinite
<1>2. P \cup Q = 1..n
  <2>1. \A i \in 1..n : s[i] \in D \/ s[i] \in E
    OBVIOUS
  <2> QED
    BY <2>1 DEF PlacesIn
<1>3. P \cap Q = {}
  BY DEF PlacesIn
<1>4. n \in Nat
  OBVIOUS
<1>5. Cardinality(P) \in Nat /\ Cardinality(Q) \in Nat
  BY <1>1, FS_CardinalityType
<1> HIDE DEF P, Q, n
<1>6. Cardinality(1..n) = n
  <2>1. 1 \in Int /\ n \in Int
    BY <1>4
  <2>2. Cardinality(1..n) = IF 1 > n THEN 0 ELSE n - 1 + 1
    BY <2>1, FS_Interval
  <2> QED
    BY <1>4, <2>2
<1>7. Cardinality(P \cup Q) = Cardinality(P) + Cardinality(Q) - Cardinality(P \cap Q)
  BY <1>1, FS_Union
<1>8. Cardinality(P \cap Q) = 0
  BY <1>3, FS_EmptySet
<1>9. n = Cardinality(P) + Cardinality(Q)
  <2> DEFINE a == Cardinality(P)
             b == Cardinality(Q)
  <2>1. n = a + b - 0
    BY <1>2, <1>6, <1>7, <1>8
  <2>2. a \in Nat /\ b \in Nat
    BY <1>5
  <2> HIDE DEF a, b
  <2> QED
    BY <2>1, <2>2 DEF a, b
<1> QED
  BY <1>9 DEF P, Q, n, CountIn
=============================================================================
