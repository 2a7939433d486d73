---------------------------- MODULE LifeCycleProofs ----------------------------
(***************************************************************************)
(* Theorems about LifeCycle: what is read from the file, the memory of every *)
(* start-up, what a running server has, its first receives, and the order   *)
(* of every shutdown, for any files, widths and number of connections.      *)
(***************************************************************************)
EXTENDS LifeCycle, BufferLayoutProofs, DataFacts

-----------------------------------------------------------------------------
(* The reader keeps the shape of what it has read.                          *)

Converts(S) == S \cup {Unset}

\* A service as far as it has been read, and as it is used.  The number of receives is
\* the one field whose width matters later.
Fields == {s \in [ServiceKeys -> Converts(Int)] : s.SERVICE_RQ_MAX_RECEIVES \in Converts(int)}
Filled == {s \in [ServiceKeys -> Int] : s.SERVICE_RQ_MAX_RECEIVES \in int}

\* A service is complete when the next one begins, or the file ends.
LoadInv ==
  /\ file \in Files /\ line \in Nat /\ line <= Len(file)
  /\ rioMainConfig \in [MainKeys -> Converts(Int)]
  /\ serviceData \in Fields /\ services \in Seq(Fields)
  /\ serviceCount \in Nat /\ serviceCount <= line
  /\ loading # "loaded" =>
       Len(services) = IF serviceCount = 0 THEN 0 ELSE serviceCount - 1
  /\ loading = "loaded" =>
       Len(services) = IF serviceCount = 0 THEN 1 ELSE serviceCount

LEMMA ElementAt ==
  ASSUME NEW S, NEW q \in Seq(S), NEW n \in Nat, n < Len(q)
  PROVE  q[n + 1] \in S
OBVIOUS

LEMMA FileShape ==
  ASSUME NEW f \in Files
  PROVE  /\ f \in Seq([key : STRING, value : Int \cup {NoEquals, NoValue}])
         /\ Len(f) \in Nat /\ DOMAIN f = 1..Len(f)
<1>1. f \in Seq([key : STRING, value : Int \cup {NoEquals, NoValue}])
  BY FilesAssumption
<1>2. \A S : f \in Seq(S) => Len(f) \in Nat /\ DOMAIN f = 1..Len(f)
  OBVIOUS
<1> QED
  BY <1>1, <1>2

LEMMA ZeroIsInt == 0 \in int /\ int \subseteq Int
BY WordAssumption DEF int

\* A line that is read: atoi gives an int, and the flag is 0 or 1.
LEMMA ValueIsInt ==
  ASSUME file \in Files, line \in Nat, line < Len(file), HasValue
  PROVE  Value \in Int /\ (Key # "SERVICE_ADDRESS_REQUIRED" => Value \in int)
<1>1. line + 1 \in DOMAIN file
  BY FileShape
<1>2. file[line + 1].value \in int \cup {NoEquals}
  BY <1>1, NumbersAssumption DEF HasValue
<1> QED
  BY <1>2, ZeroIsInt DEF Value, Converted

LEMMA LoadBegins == LoadInit => LoadInv
<1> SUFFICES ASSUME LoadInit PROVE LoadInv
  OBVIOUS
<1>1. NewServiceData \in Fields
  BY DEF NewServiceData, Fields, Converts, ServiceKeys
<1>2. <<>> \in Seq(Fields)
  OBVIOUS
<1>3. 0 <= Len(file)
  BY FileShape DEF LoadInit
<1> QED
  BY <1>1, <1>2, <1>3 DEF LoadInit, LoadInv, NewRIOMainConfig, Converts

LEMMA LoadStep ==
  ASSUME LoadInv, LoadNext
  PROVE  LoadInv'
<1> USE DEF LoadInv
<1>0. Len(file) \in Nat /\ Len(services) \in Nat
  BY FileShape
<1>1. CASE OpenFile
  BY <1>1 DEF OpenFile, configuration
<1>2. CASE SkipLine
  <2>1. line' = line + 1 /\ line < Len(file) /\ UNCHANGED <<file, configuration, loading>>
    BY <1>2 DEF SkipLine, Reads, HasValue
  <2> QED
    BY <1>0, <2>1 DEF configuration
<1>3. CASE SubstrThrows
  BY <1>3 DEF SubstrThrows, configuration
<1>4. CASE SetMain
  <2>1. line < Len(file) /\ HasValue /\ Key \in MainKeys
    BY <1>4 DEF SetMain, Reads
  <2>2. Value \in Int
    BY <2>1, ValueIsInt
  <2>3. rioMainConfig' \in [MainKeys -> Converts(Int)]
    BY <1>4, <2>1, <2>2 DEF SetMain, Converts
  <2> QED
    BY <1>0, <1>4, <2>1, <2>3 DEF SetMain, Reads, HasValue
<1>5. CASE SetService
  <2>1. line < Len(file) /\ HasValue /\ Key \in ServiceKeys
    BY <1>5 DEF SetService, Reads
  <2>2. Value \in Int /\ (Key # "SERVICE_ADDRESS_REQUIRED" => Value \in int)
    BY <2>1, ValueIsInt
  <2>3. serviceData' = [serviceData EXCEPT ![Key] = Value]
    BY <1>5 DEF SetService
  <2>4. serviceData' \in Fields
    BY <2>1, <2>2, <2>3 DEF Fields, Converts, ServiceKeys
  <2> QED
    BY <1>0, <1>5, <2>1, <2>4 DEF SetService, Reads, HasValue
<1>6. CASE NewService
  <2>1. line < Len(file) /\ line' = line + 1 /\ serviceCount' = serviceCount + 1
        /\ UNCHANGED <<file, rioMainConfig, loading>> /\ loading = "reading"
    BY <1>6 DEF NewService, Reads, HasValue
  <2>2. serviceData' \in Fields
    BY <1>6 DEF NewService, NewServiceData, Fields, Converts, ServiceKeys
  <2>3. services' = IF serviceCount > 0 THEN Append(services, serviceData) ELSE services
    BY <1>6 DEF NewService
  <2>4. services' \in Seq(Fields)
        /\ Len(services') = IF serviceCount > 0 THEN Len(services) + 1 ELSE Len(services)
    BY <2>3
  <2> QED
    BY <1>0, <2>1, <2>2, <2>4
<1>7. CASE EndOfFile
  <2>1. services' = Append(services, serviceData) /\ loading = "reading"
        /\ loading' = "loaded"
        /\ UNCHANGED <<file, line, rioMainConfig, serviceData, serviceCount>>
    BY <1>7 DEF EndOfFile
  <2>2. services' \in Seq(Fields) /\ Len(services') = Len(services) + 1
    BY <2>1
  <2> QED
    BY <1>0, <2>1, <2>2
<1> QED
  BY <1>1, <1>2, <1>3, <1>4, <1>5, <1>6, <1>7 DEF LoadNext

\* LoadInv does not look at the rest of the main thread.
LEMMA LoadSame ==
  ASSUME LoadInv, UNCHANGED loader
  PROVE  LoadInv'
BY DEF LoadInv, loader, configuration

-----------------------------------------------------------------------------
(* The configuration in use, and the memory for it.                         *)

Places == Ends \cup {"load", "initialize", "port", "queue", "create", "post", "running",
  "CloseAllSockets", "CloseCQs", "CloseIOCPHandles", "dump", "ShutdownCleanup", "return"}
LaidOut == Places \ {"load", "initialize", "exited"}

\* What is used is what was read, and all numbers; and no start-up that goes on has asked
\* for memory of size 0.
ConfigInv ==
  /\ LoadInv /\ main \in Places
  /\ config.services \in Seq(Filled)
  /\ main \notin {"load", "exited"} =>
       /\ loading = "loaded" /\ Len(config.services) = Len(services)
       /\ config.main \in [MainKeys -> Int]
  /\ main \in LaidOut => totalBufferSize(bufferSize, bufferCount) # 0

LEMMA ConfigBegins == Init => ConfigInv
<1> SUFFICES ASSUME Init PROVE ConfigInv
  OBVIOUS
<1>1. <<>> \in Seq(Filled)
  OBVIOUS
<1> QED
  BY <1>1, LoadBegins DEF Init, ConfigInv, Places, LaidOut

\* Garbage in a field makes a number of it.
LEMMA GarbageFills ==
  ASSUME LoadInv, NEW g \in Garbage, NEW c,
         c = [main |-> [k \in DOMAIN rioMainConfig |->
                          IF rioMainConfig[k] = Unset THEN g ELSE rioMainConfig[k]],
              services |-> [i \in DOMAIN services |->
                 [k \in DOMAIN services[i] |->
                    IF services[i][k] = Unset THEN g ELSE services[i][k]]]]
  PROVE  /\ c.main \in [MainKeys -> Int]
         /\ c.services \in Seq(Filled) /\ Len(c.services) = Len(services)
<1>1. g \in int /\ g \in Int
  BY GarbageAssumption, ZeroIsInt
<1>2. rioMainConfig \in [MainKeys -> Converts(Int)] /\ services \in Seq(Fields)
  BY DEF LoadInv
<1>3. c.main \in [MainKeys -> Int]
  BY <1>1, <1>2 DEF Converts
<1>4. ASSUME NEW s \in Fields
      PROVE  [k \in DOMAIN s |-> IF s[k] = Unset THEN g ELSE s[k]] \in Filled
  <2>1. s \in [ServiceKeys -> Converts(Int)] /\ s["SERVICE_RQ_MAX_RECEIVES"] \in Converts(int)
    BY DEF Fields
  <2>2. "SERVICE_RQ_MAX_RECEIVES" \in ServiceKeys
    BY DEF ServiceKeys
  <2> QED
    BY <1>1, <2>1, <2>2 DEF Filled, Converts
<1> DEFINE full == [i \in DOMAIN services |->
                      [k \in DOMAIN services[i] |->
                         IF services[i][k] = Unset THEN g ELSE services[i][k]]]
<1>5. \A i \in DOMAIN services : full[i] \in Filled
  BY <1>2, <1>4
<1>6. DOMAIN full = 1..Len(services) /\ Len(services) \in Nat
  BY <1>2
<1>7. c.services = full
  OBVIOUS
<1> HIDE DEF full
<1>8. full \in [1..Len(services) -> Filled]
  <2>1. full = [i \in 1..Len(services) |-> full[i]]
    BY <1>6 DEF full
  <2>2. \A i \in 1..Len(services) : full[i] \in Filled
    BY <1>5, <1>6 DEF full
  <2> QED
    BY <2>1, <2>2
<1>9. full \in Seq(Filled) /\ Len(full) = Len(services)
  BY <1>6, <1>8
<1> QED
  BY <1>3, <1>7, <1>9

\* Every step but three goes on with the same configuration, past the start-up of
\* RIO or to the end.
LEMMA ConfigStays ==
  ASSUME ConfigInv, UNCHANGED <<loader, config>>, main' \in Places,
         \/ main' = "exited"
         \/ main' = main
         \/ main \in LaidOut /\ main' # "load"
  PROVE  ConfigInv'
<1>1. LoadInv'
  BY LoadSame DEF ConfigInv
<1> QED
  BY <1>1 DEF ConfigInv, LaidOut, loader, configuration, bufferSize, bufferCount

LEMMA ConfigStep ==
  ASSUME ConfigInv, [Next]_vars
  PROVE  ConfigInv'
<1>1. CASE Load
  <2>1. LoadNext /\ UNCHANGED <<main, config>> /\ LoadInv'
    BY <1>1, LoadStep DEF Load, tmain, ConfigInv
  <2>2. loading = "loaded" => FALSE
    BY <2>1 DEF LoadNext, OpenFile, SkipLine, Reads, SubstrThrows, SetMain, SetService, NewService,
       EndOfFile
  <2> QED
    BY <2>1, <2>2 DEF ConfigInv, LaidOut, bufferSize, bufferCount
<1>2. CASE Loaded
  <2>0. UNCHANGED loader /\ LoadInv'
    BY <1>2, LoadSame DEF Loaded, ConfigInv
  <2>1. CASE loading \in {"failed", "threw"}
    BY <1>2, <2>0, <2>1, ConfigStays DEF Loaded, Places, Ends
  <2>2. CASE loading = "loaded"
    <3>1. /\ main' = "initialize"
          /\ \E g \in Garbage :
               config' = [main |-> [k \in DOMAIN rioMainConfig |->
                                      IF rioMainConfig[k] = Unset THEN g ELSE rioMainConfig[k]],
                          services |-> [i \in DOMAIN services |->
                             [k \in DOMAIN services[i] |->
                                IF services[i][k] = Unset THEN g ELSE services[i][k]]]]
      BY <1>2, <2>2 DEF Loaded
    <3>2. /\ config'.main \in [MainKeys -> Int]
          /\ config'.services \in Seq(Filled) /\ Len(config'.services) = Len(services)
      BY <3>1, GarbageFills DEF ConfigInv
    <3>3. loading' = "loaded" /\ services' = services
      BY <2>0, <2>2 DEF loader, configuration
    <3> QED
      BY <2>0, <3>1, <3>2, <3>3 DEF ConfigInv, LaidOut, Places, Ends
  <2> QED
    BY <1>2, <2>1, <2>2 DEF Loaded
<1>3. CASE InitializeRIO
  <2>1. LoadInv'
    BY <1>3, LoadSame DEF InitializeRIO, ConfigInv
  <2> QED
    BY <1>3, <2>1 DEF InitializeRIO, ConfigInv, Places, LaidOut, Ends, loader, configuration,
       bufferSize, bufferCount
<1>4. CASE Fail
  BY <1>4, ConfigStays DEF Fail, Exit, Places, Ends
<1>5. CASE \/ CreateIOCP \/ CreateCQ \/ CreateDatagram \/ ReceivesPosted \/ CreateThreads
  BY <1>5, ConfigStays DEF CreateIOCP, CreateCQ, CreateDatagram, ReceivesPosted, CreateThreads,
     Places, LaidOut, Ends
<1>6. CASE PostReceive \/ CreateListener \/ AddEntryToService \/ CloseServiceEntry
  BY <1>6, ConfigStays DEF PostReceive, CreateListener, AddEntryToService, CloseServiceEntry,
     ConfigInv
<1>7. CASE EscapeAndJoin
  BY <1>7, ConfigStays DEF EscapeAndJoin, Places, LaidOut, Ends
<1>8. CASE \/ CloseAllSockets \/ CloseCQs \/ CloseIOCPHandles \/ DeleteDump
           \/ ShutdownCleanup \/ Destruct
  BY <1>8, ConfigStays DEF CloseAllSockets, CloseCQs, CloseIOCPHandles, DeleteDump,
     ShutdownCleanup, Destruct, Places, LaidOut, Ends
<1>9. CASE UNCHANGED vars
  BY <1>9, ConfigStays DEF vars, tmain, ConfigInv
<1> QED
  BY <1>1, <1>2, <1>3, <1>4, <1>5, <1>6, <1>7, <1>8, <1>9 DEF Next

LEMMA ConfigInvariant == Spec => []ConfigInv
<1>1. Init => ConfigInv
  BY ConfigBegins
<1>2. ConfigInv /\ [Next]_vars => ConfigInv'
  BY ConfigStep
<1> QED
  BY <1>1, <1>2, PTL DEF Spec

\* A DWORD is what is made of any integer.
LEMMA Unsigned == \A n \in Int : U(n) \in DWORD
BY WordAssumption DEF U, DWORD

LEMMA CountIsDWORD ==
  ASSUME config.services \in Seq(Filled)
  PROVE  bufferCount \in DWORD
<1> DEFINE S == config.services
           f == [i \in DOMAIN S |-> S[i].SERVICE_MAX_CLIENTS * Room(S[i])]
<1>1. \A i \in DOMAIN S : f[i] \in Int
  <2> SUFFICES ASSUME NEW i \in DOMAIN S PROVE f[i] \in Int
    OBVIOUS
  <2>1. S[i] \in [ServiceKeys -> Int]
    BY DEF Filled
  <2>2. S[i].SERVICE_MAX_CLIENTS \in Int /\ Room(S[i]) \in Int
    BY <2>1 DEF Room, ServiceKeys
  <2> QED
    BY <2>2
<1>2. IsFiniteSet(DOMAIN S)
  BY FS_Interval
<1>3. f \in [DOMAIN S -> Int]
  BY <1>1
<1>4. bufferCount = U(SumFunction(f))
  BY DEF bufferCount, numberBuffersRequired
<1> HIDE DEF f, S
<1>5. SumFunction(f) \in Int
  BY <1>2, <1>3, SumInt
<1> QED
  BY <1>4, <1>5, Unsigned

LEMMA SizesAreDWORDs ==
  ASSUME ConfigInv, main \notin {"load", "exited"}
  PROVE  bufferSize \in DWORD /\ bufferCount \in DWORD
<1>1. config.main \in [MainKeys -> Int]
  BY DEF ConfigInv
<1>2. config.main.BUFFER_SIZE \in Int
  BY <1>1 DEF MainKeys
<1> QED
  BY <1>2, Unsigned, CountIsDWORD DEF bufferSize, ConfigInv

\* SegmentsFit for every configuration: once memory is laid out, every segment lies in
\* it exactly when the size asked for did not wrap.
THEOREM MemoryLaidOut == Spec => []SegmentsFit
<1>1. ConfigInv => SegmentsFit
  <2> SUFFICES ASSUME ConfigInv, main \in LaidOut
               PROVE  /\ SegmentsSound(bufferSize, bufferCount)
                           <=> NoWrap(bufferSize, bufferCount)
                      /\ NoWrap(bufferSize, bufferCount)
                           => SegmentsEnough(bufferSize, bufferCount)
    BY DEF SegmentsFit, LaidOut, ConfigInv
  <2> QED
    BY SizesAreDWORDs, LayoutFits DEF ConfigInv, LaidOut
<1> QED
  BY <1>1, ConfigInvariant, PTL

-----------------------------------------------------------------------------
(* What has been read is what the lines so far say.  Lines, LastOf and       *)
(* Section of a file f, and what they make of it.                           *)

LinesIn(f, k) == {i \in DOMAIN f : f[i].key = k}
Heads(f, n)   == {h \in LinesIn(f, "NEW_SERVICE") : h <= n}
Headed(f, n)  == Cardinality(Heads(f, n))
Part(f, i)    == {n \in DOMAIN f : Headed(f, n) = i}

LastIn(f, k, lines) ==
  IF LinesIn(f, k) \cap lines = {} THEN Unset
  ELSE Converted(k, f[Max(LinesIn(f, k) \cap lines)].value)

MainOf(f, lines) == [k \in MainKeys |-> LastIn(f, k, lines)]
DataOf(f, lines) == [k \in ServiceKeys |-> LastIn(f, k, lines)]

\* The section that is being read is cut off at the line reached; the sections before it
\* are complete.
ReadInv ==
  /\ serviceCount = Headed(file, line)
  /\ rioMainConfig = MainOf(file, 1..line)
  /\ serviceData = DataOf(file, Part(file, serviceCount) \cap 1..line)
  /\ loading # "loaded" =>
       services = [i \in 1..(serviceCount - 1) |-> DataOf(file, Part(file, i))]
  /\ loading = "loaded" =>
       /\ line = Len(file)
       /\ services = IF serviceCount = 0 THEN <<DataOf(file, Part(file, 0))>>
                     ELSE [i \in 1..serviceCount |-> DataOf(file, Part(file, i))]
  /\ loading = "threw" => \E i \in DOMAIN file : file[i].key # "" /\ file[i].value = NoValue

LEMMA HeadsFinite ==
  ASSUME NEW f \in Files, NEW n \in Nat
  PROVE  IsFiniteSet(Heads(f, n)) /\ Headed(f, n) \in Nat
<1>1. IsFiniteSet(1..n)
  BY FS_Interval
<1>2. DOMAIN f \subseteq Nat \ {0}
  BY FileShape
<1>3. Heads(f, n) \in SUBSET (1..n)
  BY <1>2 DEF Heads, LinesIn
<1> QED
  BY <1>1, <1>3, FS_Subset, FS_CardinalityType DEF Headed

\* One more line is one more service if it is NEW_SERVICE.
LEMMA HeadedNext ==
  ASSUME NEW f \in Files, NEW n \in Nat, n < Len(f)
  PROVE  Headed(f, n + 1) = Headed(f, n) + IF f[n + 1].key = "NEW_SERVICE" THEN 1 ELSE 0
<1>1. \A h \in LinesIn(f, "NEW_SERVICE") : h \in Nat /\ (h <= n + 1 <=> h <= n \/ h = n + 1)
  BY FileShape DEF LinesIn
<1>2. n + 1 \in DOMAIN f /\ ~(n + 1 <= n)
  BY FileShape
<1>3. CASE f[n + 1].key = "NEW_SERVICE"
  <2>1. Heads(f, n + 1) = Heads(f, n) \cup {n + 1} /\ n + 1 \notin Heads(f, n)
    BY <1>1, <1>2, <1>3 DEF Heads, LinesIn
  <2>2. Headed(f, n + 1) = Headed(f, n) + 1
    BY <2>1, HeadsFinite, FS_AddElement DEF Headed
  <2> QED
    BY <1>3, <2>2
<1>4. CASE f[n + 1].key # "NEW_SERVICE"
  <2>1. Heads(f, n + 1) = Heads(f, n)
    BY <1>1, <1>2, <1>4 DEF Heads, LinesIn
  <2> QED
    BY <1>4, <2>1, HeadsFinite DEF Headed
<1> QED
  BY <1>3, <1>4

LEMMA HeadedGrows ==
  ASSUME NEW f \in Files, NEW m \in Nat, NEW n \in Nat, m <= n
  PROVE  Headed(f, m) <= Headed(f, n)
<1>1. Heads(f, m) \in SUBSET Heads(f, n)
  BY FileShape DEF Heads, LinesIn
<1> QED
  BY <1>1, HeadsFinite, FS_Subset DEF Headed

\* The last line of a set decides if it has the key, and only then.
LEMMA LastAdded ==
  ASSUME NEW f \in Files, NEW n \in Nat, n < Len(f), NEW k, NEW lines \in SUBSET (1..n)
  PROVE  LastIn(f, k, lines \cup {n + 1}) =
           IF f[n + 1].key = k THEN Converted(k, f[n + 1].value) ELSE LastIn(f, k, lines)
<1>1. n + 1 \in DOMAIN f
  BY FileShape
<1>2. CASE f[n + 1].key = k
  <2> DEFINE S == LinesIn(f, k) \cap (lines \cup {n + 1})
  <2>1. n + 1 \in S /\ \A m \in S : m \in Nat /\ m <= n + 1
    BY <1>1, <1>2 DEF LinesIn
  <2> HIDE DEF S
  <2>2. \A x \in S : (\A y \in S : x >= y) => x = n + 1
    BY <2>1
  <2>3. \A y \in S : n + 1 >= y
    BY <2>1
  <2>4. Max(S) = n + 1
    BY <2>1, <2>2, <2>3 DEF Max
  <2>5. S # {}
    BY <2>1
  <2> QED
    BY <1>2, <2>4, <2>5 DEF LastIn, S
<1>3. CASE f[n + 1].key # k
  <2>1. LinesIn(f, k) \cap (lines \cup {n + 1}) = LinesIn(f, k) \cap lines
    BY <1>3 DEF LinesIn
  <2> QED
    BY <1>3, <2>1 DEF LastIn
<1> QED
  BY <1>2, <1>3

LEMMA ReadBegins == LoadInit => ReadInv
<1> SUFFICES ASSUME LoadInit PROVE ReadInv
  OBVIOUS
<1>1. file \in Files /\ line = 0 /\ serviceCount = 0 /\ 1..line = {}
  BY DEF LoadInit
<1>2. Heads(file, 0) = {}
  BY <1>1, FileShape DEF Heads, LinesIn
<1>3. Headed(file, line) = 0
  BY <1>1, <1>2, FS_EmptySet DEF Headed
<1>4. \A k : /\ LastIn(file, k, 1..line) = Unset
             /\ LastIn(file, k, Part(file, serviceCount) \cap 1..line) = Unset
  BY <1>1 DEF LastIn
<1>5. services = [i \in 1..(serviceCount - 1) |-> DataOf(file, Part(file, i))]
  <2>1. 1..(serviceCount - 1) = {} /\ services = <<>>
    BY <1>1 DEF LoadInit
  <2> QED
    BY <2>1
<1> QED
  BY <1>1, <1>3, <1>4, <1>5
     DEF LoadInit, ReadInv, MainOf, DataOf, NewRIOMainConfig, NewServiceData

\* The section of the line reached, cut off there and one line later.
LEMMA PartNext ==
  ASSUME NEW f \in Files, NEW n \in Nat, n < Len(f), NEW c \in Nat, c = Headed(f, n)
  PROVE  /\ 1..(n + 1) = 1..n \cup {n + 1}
         /\ f[n + 1].key # "NEW_SERVICE" =>
              /\ Headed(f, n + 1) = c
              /\ Part(f, c) \cap 1..(n + 1) = (Part(f, c) \cap 1..n) \cup {n + 1}
         /\ f[n + 1].key = "NEW_SERVICE" =>
              /\ Headed(f, n + 1) = c + 1
              /\ Part(f, c + 1) \cap 1..(n + 1) = {n + 1}
              /\ Part(f, c) \cap 1..n = Part(f, c)
<1>0. 1..(n + 1) = 1..n \cup {n + 1} /\ n + 1 \in DOMAIN f /\ DOMAIN f \subseteq Nat
  BY FileShape
<1>1. CASE f[n + 1].key # "NEW_SERVICE"
  <2>1. Headed(f, n + 1) = c
    <3>1. Headed(f, n + 1) = Headed(f, n) + 0
      BY <1>1, HeadedNext
    <3> QED
      BY <3>1
  <2>2. n + 1 \in Part(f, c)
    BY <1>0, <2>1 DEF Part
  <2> QED
    BY <1>0, <1>1, <2>1, <2>2
<1>2. CASE f[n + 1].key = "NEW_SERVICE"
  <2>1. Headed(f, n + 1) = c + 1
    BY <1>2, HeadedNext
  <2>2. n + 1 \in Part(f, c + 1)
    BY <1>0, <2>1 DEF Part
  <2>3. \A m \in 1..n : Headed(f, m) # c + 1
    <3> SUFFICES ASSUME NEW m \in 1..n PROVE Headed(f, m) # c + 1
      OBVIOUS
    <3>1. m \in Nat /\ m <= n
      OBVIOUS
    <3>2. Headed(f, m) <= c /\ Headed(f, m) \in Nat
      BY <3>1, HeadedGrows, HeadsFinite
    <3> QED
      BY <3>2
  <2>4. \A m \in DOMAIN f : Headed(f, m) = c => m \in 1..n
    <3> SUFFICES ASSUME NEW m \in DOMAIN f, m \notin 1..n PROVE Headed(f, m) # c
      OBVIOUS
    <3>1. m \in Nat /\ n + 1 <= m /\ n + 1 \in Nat
      BY FileShape
    <3>2. Headed(f, n + 1) <= Headed(f, m) /\ Headed(f, m) \in Nat
      BY <3>1, HeadedGrows, HeadsFinite
    <3> QED
      BY <2>1, <3>2
  <2>5. Part(f, c + 1) \cap 1..(n + 1) = {n + 1}
    BY <1>0, <2>2, <2>3 DEF Part
  <2>6. Part(f, c) \cap 1..n = Part(f, c)
    BY <2>4 DEF Part
  <2> QED
    BY <1>0, <1>2, <2>1, <2>5, <2>6
<1> QED
  BY <1>1, <1>2

\* What a line adds to what the lines before it say.
LEMMA SaysMore ==
  ASSUME NEW f \in Files, NEW n \in Nat, n < Len(f), NEW lines \in SUBSET (1..n)
  PROVE  /\ MainOf(f, lines \cup {n + 1}) =
              [k \in MainKeys |-> IF f[n + 1].key = k THEN Converted(k, f[n + 1].value)
                                  ELSE MainOf(f, lines)[k]]
         /\ DataOf(f, lines \cup {n + 1}) =
              [k \in ServiceKeys |-> IF f[n + 1].key = k THEN Converted(k, f[n + 1].value)
                                     ELSE DataOf(f, lines)[k]]
BY LastAdded DEF MainOf, DataOf

\* NEW_SERVICE gives no field a value.
LEMMA HeadSaysNothing ==
  ASSUME NEW f, NEW n, f[n].key = "NEW_SERVICE"
  PROVE  DataOf(f, {n}) = NewServiceData
<1>1. \A k \in ServiceKeys : LinesIn(f, k) \cap {n} = {}
  BY DEF LinesIn, ServiceKeys
<1> QED
  BY <1>1 DEF DataOf, LastIn, NewServiceData

LEMMA AppendService ==
  ASSUME NEW c \in Nat \ {0}, NEW D(_), NEW q, q = [i \in 1..(c - 1) |-> D(i)]
  PROVE  Append(q, D(c)) = [i \in 1..c |-> D(i)]
<1>1. q \in Seq({D(i) : i \in 1..c}) /\ Len(q) = c - 1
  OBVIOUS
<1> QED
  BY <1>1

\* A line that is not NEW_SERVICE belongs to the section being read.
LEMMA LineRead ==
  ASSUME LoadInv, ReadInv, loading = "reading", line < Len(file), Key # "NEW_SERVICE",
         line' = line + 1, UNCHANGED <<file, services, serviceCount, loading>>,
         rioMainConfig' = [k \in MainKeys |-> IF Key = k THEN Value ELSE rioMainConfig[k]],
         serviceData' = [k \in ServiceKeys |-> IF Key = k THEN Value ELSE serviceData[k]]
  PROVE  ReadInv'
<1> DEFINE c == serviceCount
           P == Part(file, c) \cap 1..line
<1>0. file \in Files /\ line \in Nat /\ c \in Nat /\ c = Headed(file, line)
  BY DEF LoadInv, ReadInv
<1>1. /\ 1..(line + 1) = 1..line \cup {line + 1}
      /\ Headed(file, line + 1) = c
      /\ Part(file, c) \cap 1..(line + 1) = P \cup {line + 1}
  BY <1>0, PartNext DEF Key
<1>2. rioMainConfig = MainOf(file, 1..line) /\ serviceData = DataOf(file, P)
  BY DEF ReadInv
<1>3. P \in SUBSET (1..line) /\ 1..line \in SUBSET (1..line)
  OBVIOUS
<1> HIDE DEF P
<1>4. rioMainConfig' = MainOf(file, 1..line \cup {line + 1})
  <2>1. MainOf(file, 1..line \cup {line + 1}) =
          [k \in MainKeys |-> IF file[line + 1].key = k
                                THEN Converted(k, file[line + 1].value)
                                ELSE MainOf(file, 1..line)[k]]
    <3>1. line < Len(file)
      OBVIOUS
    <3> QED
      BY ONLY <1>0, <1>3, <3>1, SaysMore
  <2> QED
    BY <1>2, <2>1 DEF Key, Value
<1>5. serviceData' = DataOf(file, P \cup {line + 1})
  <2>1. DataOf(file, P \cup {line + 1}) =
          [k \in ServiceKeys |-> IF file[line + 1].key = k
                                   THEN Converted(k, file[line + 1].value)
                                   ELSE DataOf(file, P)[k]]
    BY <1>0, <1>3, SaysMore
  <2> QED
    BY <1>2, <2>1 DEF Key, Value
<1> QED
  BY <1>1, <1>4, <1>5 DEF ReadInv

LEMMA NewServiceRead ==
  ASSUME LoadInv, ReadInv, NewService
  PROVE  ReadInv'
<1> DEFINE c == serviceCount
<1>0. file \in Files /\ line \in Nat /\ c \in Nat /\ c = Headed(file, line)
  BY DEF LoadInv, ReadInv
<1>1. /\ line < Len(file) /\ file[line + 1].key = "NEW_SERVICE" /\ line' = line + 1
      /\ c' = c + 1 /\ serviceData' = NewServiceData
      /\ UNCHANGED <<file, rioMainConfig, loading>> /\ loading = "reading"
      /\ services' = IF c > 0 THEN Append(services, serviceData) ELSE services
  BY DEF NewService, Reads, HasValue, Key
<1>2. /\ 1..(line + 1) = 1..line \cup {line + 1}
      /\ Headed(file, line + 1) = c + 1
      /\ Part(file, c + 1) \cap 1..(line + 1) = {line + 1}
      /\ Part(file, c) \cap 1..line = Part(file, c)
  BY <1>0, <1>1, PartNext
<1>3. /\ rioMainConfig = MainOf(file, 1..line)
      /\ serviceData = DataOf(file, Part(file, c))
      /\ services = [i \in 1..(c - 1) |-> DataOf(file, Part(file, i))]
  BY <1>1, <1>2 DEF ReadInv
<1>4. rioMainConfig = MainOf(file, 1..(line + 1))
  <2>1. MainOf(file, 1..line \cup {line + 1}) =
          [k \in MainKeys |-> IF file[line + 1].key = k
                                THEN Converted(k, file[line + 1].value)
                                ELSE MainOf(file, 1..line)[k]]
    <3>1. 1..line \in SUBSET (1..line)
      OBVIOUS
    <3> QED
      BY <1>0, <1>1, <3>1, SaysMore
  <2>2. \A k \in MainKeys : file[line + 1].key # k
    BY <1>1 DEF MainKeys
  <2> QED
    BY <1>2, <1>3, <2>1, <2>2 DEF MainOf
<1>5. serviceData' = DataOf(file, Part(file, c + 1) \cap 1..(line + 1))
  BY <1>1, <1>2, HeadSaysNothing
<1>6. services' = [i \in 1..c |-> DataOf(file, Part(file, i))]
  <2>1. CASE c = 0
    <3>1. 1..(c - 1) = {} /\ 1..c = {}
      BY <2>1
    <3> QED
      BY <1>1, <1>3, <2>1, <3>1
  <2>2. CASE c # 0
    <3> DEFINE D == [i \in 1..c |-> DataOf(file, Part(file, i))]
    <3>1. c \in Nat \ {0} /\ c > 0 /\ 1..(c - 1) \subseteq 1..c /\ c \in 1..c
      BY <1>0, <2>2
    <3>2. services = [i \in 1..(c - 1) |-> D[i]] /\ serviceData = D[c]
      BY <1>3, <3>1
    <3>3. D = [i \in 1..c |-> D[i]]
      OBVIOUS
    <3> HIDE DEF D
    <3>4. Append(services, serviceData) = D
      BY <3>1, <3>2, <3>3, AppendService
    <3> QED
      BY <1>1, <3>1, <3>4 DEF D
  <2> QED
    BY <2>1, <2>2
<1>7. 1..(c' - 1) = 1..c
  BY <1>0, <1>1
<1> QED
  BY <1>1, <1>2, <1>4, <1>5, <1>6, <1>7 DEF ReadInv

LEMMA FileEnds ==
  ASSUME LoadInv, ReadInv, EndOfFile
  PROVE  ReadInv'
<1> DEFINE c == serviceCount
<1>0. file \in Files /\ line \in Nat /\ c \in Nat /\ c = Headed(file, line)
  BY DEF LoadInv, ReadInv
<1>1. /\ line = Len(file) /\ loading = "reading" /\ loading' = "loaded"
      /\ services' = Append(services, serviceData)
      /\ UNCHANGED <<file, line, rioMainConfig, serviceData, serviceCount>>
  BY DEF EndOfFile
<1>2. Part(file, c) \cap 1..line = Part(file, c)
  BY <1>0, <1>1, FileShape DEF Part
<1>3. /\ serviceData = DataOf(file, Part(file, c))
      /\ services = [i \in 1..(c - 1) |-> DataOf(file, Part(file, i))]
  BY <1>1, <1>2 DEF ReadInv
<1>4. services' = IF c = 0 THEN <<DataOf(file, Part(file, 0))>>
                  ELSE [i \in 1..c |-> DataOf(file, Part(file, i))]
  <2>1. CASE c = 0
    <3>1. 1..(c - 1) = {}
      BY <2>1
    <3>2. services = <<>>
      BY <1>3, <3>1
    <3>3. \A x : Append(<<>>, x) = <<x>>
      OBVIOUS
    <3> QED
      BY <1>1, <1>3, <2>1, <3>2, <3>3
  <2>2. CASE c # 0
    <3> DEFINE D == [i \in 1..c |-> DataOf(file, Part(file, i))]
    <3>1. c \in Nat \ {0} /\ 1..(c - 1) \subseteq 1..c /\ c \in 1..c
      BY <1>0, <2>2
    <3>2. services = [i \in 1..(c - 1) |-> D[i]] /\ serviceData = D[c]
      BY <1>3, <3>1
    <3>3. D = [i \in 1..c |-> D[i]]
      OBVIOUS
    <3> HIDE DEF D
    <3>4. Append(services, serviceData) = D
      BY <3>1, <3>2, <3>3, AppendService
    <3> QED
      BY <1>1, <2>2, <3>4 DEF D
  <2> QED
    BY <2>1, <2>2
<1> QED
  BY <1>1, <1>4 DEF ReadInv

LEMMA ReadStep ==
  ASSUME LoadInv, ReadInv, LoadNext
  PROVE  ReadInv'
<1>0. /\ rioMainConfig = [k \in MainKeys |-> rioMainConfig[k]]
      /\ serviceData = [k \in ServiceKeys |-> serviceData[k]]
  BY DEF LoadInv, Fields
<1>1. CASE OpenFile
  BY <1>1 DEF OpenFile, configuration, ReadInv
<1>2. CASE SkipLine
  <2>1. /\ loading = "reading" /\ line < Len(file) /\ line' = line + 1
        /\ Key \notin configMap /\ UNCHANGED <<file, configuration, loading>>
    BY <1>2 DEF SkipLine, Reads, HasValue, configMap, MainKeys, ServiceKeys
  <2>2. /\ Key # "NEW_SERVICE" /\ \A k \in MainKeys \cup ServiceKeys : Key # k
    BY <2>1 DEF configMap
  <2>3. /\ rioMainConfig' = [k \in MainKeys |-> IF Key = k THEN Value ELSE rioMainConfig[k]]
        /\ serviceData' = [k \in ServiceKeys |-> IF Key = k THEN Value ELSE serviceData[k]]
    BY <1>0, <2>1, <2>2 DEF configuration
  <2> QED
    BY <2>1, <2>2, <2>3, LineRead DEF configuration
<1>3. CASE SubstrThrows
  <2>1. /\ Key # "" /\ file[line + 1].value = NoValue /\ loading = "reading"
        /\ loading' = "threw" /\ line < Len(file) /\ UNCHANGED <<file, line, configuration>>
    BY <1>3 DEF SubstrThrows
  <2>2. line + 1 \in DOMAIN file
    <3>1. file \in Files /\ line \in Nat /\ line < Len(file)
      BY <1>3 DEF LoadInv, SubstrThrows
    <3>2. Len(file) \in Nat /\ DOMAIN file = 1..Len(file)
      BY <3>1, FileShape
    <3> QED
      BY <3>1, <3>2
  <2> QED
    BY <2>1, <2>2 DEF configuration, Key, ReadInv
<1>4. CASE SetMain
  <2>1. /\ loading = "reading" /\ line < Len(file) /\ line' = line + 1 /\ Key \in MainKeys
        /\ UNCHANGED <<file, loading, serviceData, serviceCount, services>>
        /\ rioMainConfig' = [rioMainConfig EXCEPT ![Key] = Value]
    BY <1>4 DEF SetMain, Reads, HasValue
  <2>2. /\ Key # "NEW_SERVICE" /\ \A k \in ServiceKeys : Key # k
    BY <2>1 DEF MainKeys, ServiceKeys
  <2>3. /\ rioMainConfig' = [k \in MainKeys |-> IF Key = k THEN Value ELSE rioMainConfig[k]]
        /\ serviceData' = [k \in ServiceKeys |-> IF Key = k THEN Value ELSE serviceData[k]]
    BY <1>0, <2>1, <2>2
  <2> QED
    BY <2>1, <2>2, <2>3, LineRead
<1>5. CASE SetService
  <2>1. /\ loading = "reading" /\ line < Len(file) /\ line' = line + 1 /\ Key \in ServiceKeys
        /\ UNCHANGED <<file, loading, rioMainConfig, serviceCount, services>>
        /\ serviceData' = [serviceData EXCEPT ![Key] = Value]
    BY <1>5 DEF SetService, Reads, HasValue
  <2>2. /\ Key # "NEW_SERVICE" /\ \A k \in MainKeys : Key # k
    BY <2>1 DEF MainKeys, ServiceKeys
  <2>3. /\ rioMainConfig' = [k \in MainKeys |-> IF Key = k THEN Value ELSE rioMainConfig[k]]
        /\ serviceData' = [k \in ServiceKeys |-> IF Key = k THEN Value ELSE serviceData[k]]
    BY <1>0, <2>1, <2>2
  <2> QED
    BY <2>1, <2>2, <2>3, LineRead
<1>6. CASE NewService
  BY <1>6, NewServiceRead
<1>7. CASE EndOfFile
  BY <1>7, FileEnds
<1> QED
  BY <1>1, <1>2, <1>3, <1>4, <1>5, <1>6, <1>7 DEF LoadNext

\* ServicesAsWritten for every file: however its lines are ordered, the services are those
\* of its sections, with the last value each section gives a key, and nothing else.
THEOREM ServicesLoaded == Spec => []ServicesAsWritten
<1>1. Init => ReadInv
  BY ReadBegins DEF Init
<1>2. ConfigInv /\ ReadInv /\ [Next]_vars => ReadInv'
  <2> SUFFICES ASSUME ConfigInv, ReadInv, [Next]_vars PROVE ReadInv'
    OBVIOUS
  <2>1. CASE Load
    BY <2>1, ReadStep DEF Load, ConfigInv
  <2>2. CASE UNCHANGED loader
    BY <2>2 DEF loader, configuration, ReadInv
  <2> QED
    BY <2>1, <2>2 DEF Next, vars, Loaded, InitializeRIO, CreateIOCP, CreateCQ, CreateDatagram,
       PostReceive, ReceivesPosted, CreateListener, Fail, Exit, CreateThreads,
       AddEntryToService, CloseServiceEntry, EscapeAndJoin, CloseAllSockets, CloseCQs,
       CloseIOCPHandles, DeleteDump, ShutdownCleanup, Destruct
<1>3. ConfigInv /\ ReadInv => ServicesAsWritten
  <2> SUFFICES ASSUME ConfigInv, ReadInv PROVE ServicesAsWritten
    OBVIOUS
  <2>0. file \in Files
    BY DEF ConfigInv, LoadInv
  <2> DEFINE n == Cardinality(Lines("NEW_SERVICE"))
  <2>1. \A k, lines : LastOf(k, lines) = LastIn(file, k, lines)
    BY DEF LastOf, LastIn, Lines, LinesIn
  <2>2. \A i : Section(i) = Part(file, i)
    BY DEF Section, Part, Headed, Heads, Lines, LinesIn
  <2>3. ASSUME loading = "loaded"
        PROVE  /\ rioMainConfig = [k \in MainKeys |-> LastOf(k, DOMAIN file)]
               /\ services = IF n = 0 THEN <<[k \in ServiceKeys |-> LastOf(k, DOMAIN file)]>>
                             ELSE [i \in 1..n |-> [k \in ServiceKeys |-> LastOf(k, Section(i))]]
    <3>1. line = Len(file) /\ DOMAIN file = 1..line /\ line \in Nat
      BY <2>0, <2>3, FileShape DEF ReadInv
    <3>2. rioMainConfig = [k \in MainKeys |-> LastOf(k, DOMAIN file)]
      BY <2>1, <3>1 DEF ReadInv, MainOf
    <3>3. n = Headed(file, line)
      <4>1. Heads(file, line) = Lines("NEW_SERVICE")
        BY <3>1 DEF Heads, LinesIn, Lines
      <4> QED
        BY <4>1 DEF Headed
    <3>4. n = 0 => Part(file, 0) = DOMAIN file
      <4> SUFFICES ASSUME n = 0, NEW m \in DOMAIN file PROVE Headed(file, m) = 0
        BY DEF Part
      <4>1. m \in Nat /\ m <= line
        BY <3>1
      <4>2. Headed(file, m) <= Headed(file, line) /\ Headed(file, m) \in Nat
        BY <2>0, <3>1, <4>1, HeadedGrows, HeadsFinite
      <4> QED
        BY <3>3, <4>2
    <3>5. services = IF n = 0 THEN <<DataOf(file, Part(file, 0))>>
                     ELSE [i \in 1..n |-> DataOf(file, Part(file, i))]
      BY <2>3, <3>3 DEF ReadInv
    <3>6. \A lines : DataOf(file, lines) = [k \in ServiceKeys |-> LastOf(k, lines)]
      BY <2>1 DEF DataOf
    <3> HIDE DEF n
    <3>7. CASE n = 0
      BY <3>2, <3>4, <3>5, <3>6, <3>7
    <3>8. CASE n # 0
      BY <2>2, <3>2, <3>5, <3>6, <3>8
    <3> QED
      BY <3>7, <3>8
  <2>4. loading = "threw" => \E i \in DOMAIN file : file[i].key # "" /\ file[i].value = NoValue
    BY DEF ReadInv
  <2> QED
    BY <2>3, <2>4 DEF ServicesAsWritten
<1> QED
  BY <1>1, <1>2, <1>3, ConfigInvariant, PTL DEF Spec

-----------------------------------------------------------------------------
(* Shutdown.                                                                *)

\* Places from which a call of Shutdown has been made.
Returned         == {"returned"}
CleanedUp        == {"return"} \cup Returned
DumpDeleted      == {"ShutdownCleanup"} \cup CleanedUp
PortsClosed      == {"dump"} \cup DumpDeleted
QueuesClosed     == {"CloseIOCPHandles"} \cup PortsClosed
SocketsClosed    == {"CloseCQs"} \cup QueuesClosed

\* What is closed or deregistered says how far Shutdown has come, and the other way
\* round for request queues and the completion queue.
OrderInv ==
  /\ main \in Places /\ created \in Nat
  /\ requestQueues \subseteq {<<"service", s>> : s \in 1..created}
                             \cup {<<"entry", c>> : c \in DOMAIN entries}
  /\ main \in SocketsClosed => requestQueues = {}
  /\ queue = "closed" => main \in QueuesClosed
  /\ main \in QueuesClosed => queue = "closed"
  /\ port = "closed" => main \in PortsClosed
  /\ memory \in {"deregistered", "freed"} => main \in CleanedUp

\* Each connection that was closed is in the dump at one place.
DumpInv ==
  /\ accepted \in 0..MaxConnections /\ DOMAIN entries \subseteq 1..accepted
  /\ criticalSectionDump \in Seq((1..accepted) \ DOMAIN entries)
  /\ \A c \in (1..accepted) \ DOMAIN entries :
       \E i \in DOMAIN criticalSectionDump : criticalSectionDump[i] = c
  /\ \A i, j \in DOMAIN criticalSectionDump :
       criticalSectionDump[i] = criticalSectionDump[j] => i = j

\* The sections deleted at each stage: none, those listed, all.
DeletedInv ==
  deleted = [c \in Connections |->
    IF \/ main \in DumpDeleted /\ c \in 1..accepted
       \/ main \in SocketsClosed /\ c \in DOMAIN entries
    THEN 1 ELSE 0]

ShutdownInv == OrderInv /\ DumpInv /\ DeletedInv

LEMMA OrderStep ==
  ASSUME OrderInv, accepted \in Nat, [Next]_vars
  PROVE  OrderInv'
<1> USE DEF OrderInv, Places, Ends, Returned, CleanedUp, DumpDeleted, PortsClosed,
        QueuesClosed, SocketsClosed
<1>1. CASE Load \/ UNCHANGED vars
  BY <1>1 DEF Load, vars, tmain, setup, creation, running
<1>2. CASE Loaded \/ Fail
  BY <1>2 DEF Loaded, Fail, Exit, setup, creation, running
<1>3. CASE InitializeRIO \/ CreateIOCP \/ CreateCQ
  BY <1>3 DEF InitializeRIO, CreateIOCP, CreateCQ, creation, running
<1>4. CASE CreateDatagram
  BY <1>4 DEF CreateDatagram, setup
<1>5. CASE PostReceive \/ ReceivesPosted \/ CreateListener \/ CreateThreads \/ EscapeAndJoin
  BY <1>5 DEF PostReceive, ReceivesPosted, CreateListener, CreateThreads, EscapeAndJoin,
     setup, creation, running
<1>6. CASE AddEntryToService
  BY <1>6 DEF AddEntryToService, Working, setup, creation
<1>7. CASE CloseServiceEntry
  BY <1>7 DEF CloseServiceEntry, Working, setup, creation
<1>8. CASE CloseAllSockets
  BY <1>8 DEF CloseAllSockets, setup, creation
<1>9. CASE \/ CloseCQs \/ CloseIOCPHandles \/ DeleteDump \/ ShutdownCleanup \/ Destruct
  BY <1>9 DEF CloseCQs, CloseIOCPHandles, DeleteDump, ShutdownCleanup, Destruct, setup,
     creation, running
<1> QED
  BY <1>1, <1>2, <1>3, <1>4, <1>5, <1>6, <1>7, <1>8, <1>9 DEF Next

LEMMA DumpStep ==
  ASSUME DumpInv, [Next]_vars
  PROVE  DumpInv'
<1> USE DEF DumpInv
<1>1. CASE AddEntryToService
  <2>1. /\ accepted' = accepted + 1 /\ accepted' \in 0..MaxConnections
        /\ DOMAIN entries' = DOMAIN entries \cup {accepted + 1}
        /\ UNCHANGED criticalSectionDump
    BY <1>1, MaxConnectionsAssumption DEF AddEntryToService
  <2>2. (1..accepted') \ DOMAIN entries' = (1..accepted) \ DOMAIN entries
    BY <2>1, MaxConnectionsAssumption
  <2>3. DOMAIN entries' \subseteq 1..accepted'
    BY <2>1, MaxConnectionsAssumption
  <2> QED
    BY <2>1, <2>2, <2>3
<1>2. CASE CloseServiceEntry
  <2>1. PICK c \in DOMAIN entries :
          /\ entries' = [d \in DOMAIN entries \ {c} |-> entries[d]]
          /\ criticalSectionDump' = Append(criticalSectionDump, c)
    BY <1>2 DEF CloseServiceEntry
  <2>2. /\ UNCHANGED accepted /\ c \in 1..accepted
        /\ DOMAIN entries' = DOMAIN entries \ {c}
    BY <1>2, <2>1 DEF CloseServiceEntry
  <2> DEFINE Old == (1..accepted) \ DOMAIN entries
             New == (1..accepted) \ DOMAIN entries'
  <2>3. New = Old \cup {c} /\ c \notin Old
    BY <2>2
  <2> HIDE DEF Old, New
  <2>4. criticalSectionDump \in Seq(Old)
    BY DEF Old
  <2>5. criticalSectionDump' \in Seq(New)
    BY <2>1, <2>3, <2>4
  <2>6. \A d \in New : \E i \in DOMAIN criticalSectionDump' : criticalSectionDump'[i] = d
    <3> SUFFICES ASSUME NEW d \in New
                 PROVE  \E i \in DOMAIN criticalSectionDump' : criticalSectionDump'[i] = d
      OBVIOUS
    <3>1. CASE d = c
      BY <2>1, <2>4, <3>1
    <3>2. CASE d \in Old
      <4>1. PICK i \in DOMAIN criticalSectionDump : criticalSectionDump[i] = d
        BY <3>2 DEF Old
      <4>2. i \in DOMAIN criticalSectionDump' /\ criticalSectionDump'[i] = d
        BY <2>1, <2>4, <4>1
      <4> QED
        BY <4>2
    <3> QED
      BY <2>3, <3>1, <3>2
  <2>7. \A i, j \in DOMAIN criticalSectionDump' :
          criticalSectionDump'[i] = criticalSectionDump'[j] => i = j
    BY <2>1, <2>3, <2>4
  <2> QED
    BY <2>2, <2>5, <2>6, <2>7 DEF New
<1>3. CASE UNCHANGED <<accepted, entries, criticalSectionDump>>
  BY <1>3
<1>4. CASE Load \/ UNCHANGED vars
  BY <1>4 DEF Load, vars, tmain, running
<1>5. CASE \/ Loaded \/ InitializeRIO \/ CreateIOCP \/ CreateCQ \/ Fail
  BY <1>3, <1>5 DEF Loaded, InitializeRIO, CreateIOCP, CreateCQ, Fail, Exit, running
<1>6. CASE \/ CreateDatagram \/ PostReceive \/ ReceivesPosted \/ CreateListener
           \/ CreateThreads \/ EscapeAndJoin
  BY <1>3, <1>6 DEF CreateDatagram, PostReceive, ReceivesPosted, CreateListener,
     CreateThreads, EscapeAndJoin, running
<1>7. CASE \/ CloseAllSockets \/ CloseCQs \/ CloseIOCPHandles \/ DeleteDump
           \/ ShutdownCleanup \/ Destruct
  BY <1>3, <1>7 DEF CloseAllSockets, CloseCQs, CloseIOCPHandles, DeleteDump,
     ShutdownCleanup, Destruct, running
<1> QED
  BY <1>1, <1>2, <1>4, <1>5, <1>6, <1>7 DEF Next

\* How often DeleteDump deletes the section of a connection.
LEMMA DumpedOnce ==
  ASSUME DumpInv, NEW c \in Connections
  PROVE  Cardinality({i \in DOMAIN criticalSectionDump : criticalSectionDump[i] = c})
           = IF c \in (1..accepted) \ DOMAIN entries THEN 1 ELSE 0
<1> DEFINE At == {i \in DOMAIN criticalSectionDump : criticalSectionDump[i] = c}
<1>1. CASE c \in (1..accepted) \ DOMAIN entries
  <2>1. PICK i \in DOMAIN criticalSectionDump : criticalSectionDump[i] = c
    BY <1>1 DEF DumpInv
  <2>2. At = {i}
    BY <2>1 DEF DumpInv
  <2> QED
    BY <1>1, <2>2, FS_Singleton
<1>2. CASE c \notin (1..accepted) \ DOMAIN entries
  <2>1. \A i \in DOMAIN criticalSectionDump :
          criticalSectionDump[i] \in (1..accepted) \ DOMAIN entries
    BY DEF DumpInv
  <2>2. At = {}
    BY <1>2, <2>1
  <2> QED
    BY <1>2, <2>2, FS_EmptySet
<1> QED
  BY <1>1, <1>2

LEMMA DeletedStep ==
  ASSUME OrderInv, DumpInv, DeletedInv, [Next]_vars
  PROVE  DeletedInv'
<1> USE DEF DeletedInv, Returned, CleanedUp, DumpDeleted, PortsClosed, QueuesClosed,
        SocketsClosed
<1>1. CASE Load \/ UNCHANGED vars
  BY <1>1 DEF Load, vars, tmain, running
<1>2. CASE \/ Loaded \/ InitializeRIO \/ CreateIOCP \/ CreateCQ \/ Fail
  BY <1>2 DEF Loaded, InitializeRIO, CreateIOCP, CreateCQ, Fail, Exit, running
<1>3. CASE \/ CreateDatagram \/ PostReceive \/ ReceivesPosted \/ CreateListener
           \/ CreateThreads \/ EscapeAndJoin
  BY <1>3 DEF CreateDatagram, PostReceive, ReceivesPosted, CreateListener, CreateThreads,
     EscapeAndJoin, running
<1>4. CASE AddEntryToService \/ CloseServiceEntry
  BY <1>4 DEF AddEntryToService, CloseServiceEntry, Working
<1>5. CASE CloseAllSockets
  BY <1>5 DEF CloseAllSockets
<1>6. CASE DeleteDump
  <2>1. /\ main = "dump" /\ main' = "ShutdownCleanup" /\ UNCHANGED <<accepted, entries>>
        /\ deleted' = [c \in Connections |-> deleted[c] +
             Cardinality({i \in DOMAIN criticalSectionDump : criticalSectionDump[i] = c})]
    BY <1>6 DEF DeleteDump
  <2>2. \A c \in Connections :
          deleted'[c] = deleted[c] + IF c \in (1..accepted) \ DOMAIN entries THEN 1 ELSE 0
    BY <2>1, DumpedOnce
  <2>3. \A c \in Connections : deleted[c] = IF c \in DOMAIN entries THEN 1 ELSE 0
    BY <2>1
  <2>4. \A c \in Connections : deleted'[c] = IF c \in 1..accepted THEN 1 ELSE 0
    BY <2>2, <2>3 DEF DumpInv
  <2>5. deleted' = [c \in Connections |-> IF c \in 1..accepted THEN 1 ELSE 0]
    BY <2>1, <2>4
  <2> QED
    BY <2>1, <2>5 DEF DumpInv
<1>7. CASE CloseCQs \/ CloseIOCPHandles \/ ShutdownCleanup \/ Destruct
  BY <1>7 DEF CloseCQs, CloseIOCPHandles, ShutdownCleanup, Destruct, running
<1> QED
  BY <1>1, <1>2, <1>3, <1>4, <1>5, <1>6, <1>7 DEF Next

\* ShutdownInOrder for every configuration and any number of connections: nothing is
\* given back before what rests on it, and the section of each connection, closed
\* earlier or still listed, is deleted once.
THEOREM ShutdownOrdered == Spec => []ShutdownInOrder
<1>1. Init => ShutdownInv
  <2> SUFFICES ASSUME Init PROVE ShutdownInv
    OBVIOUS
  <2>1. OrderInv
    BY DEF Init, OrderInv, Places, Ends, Returned, CleanedUp, DumpDeleted, PortsClosed,
       QueuesClosed, SocketsClosed
  <2>2. DumpInv
    BY MaxConnectionsAssumption DEF Init, DumpInv
  <2>3. DeletedInv
    BY DEF Init, DeletedInv, Returned, CleanedUp, DumpDeleted, PortsClosed, QueuesClosed,
       SocketsClosed
  <2> QED
    BY <2>1, <2>2, <2>3 DEF ShutdownInv
<1>2. ShutdownInv /\ [Next]_vars => ShutdownInv'
  <2>1. DumpInv => accepted \in Nat
    BY MaxConnectionsAssumption DEF DumpInv
  <2> QED
    BY <2>1, OrderStep, DumpStep, DeletedStep DEF ShutdownInv
<1>3. ShutdownInv => ShutdownInOrder
  <2> USE DEF OrderInv, Returned, CleanedUp, DumpDeleted, PortsClosed, QueuesClosed,
          SocketsClosed
  <2> SUFFICES ASSUME ShutdownInv PROVE ShutdownInOrder
    OBVIOUS
  <2>1. \A c \in Connections : deleted[c] \in {0, 1}
    BY DEF ShutdownInv, DeletedInv
  <2>2. main = "returned" => \A c \in 1..accepted : deleted[c] = 1
    BY MaxConnectionsAssumption DEF ShutdownInv, DumpInv, DeletedInv, Connections
  <2> QED
    BY <2>1, <2>2 DEF ShutdownInv, ShutdownInOrder
<1> QED
  BY <1>1, <1>2, <1>3, PTL DEF Spec

-----------------------------------------------------------------------------
(* The services that have been created, and what they stand on.             *)

Codes    == {s.SERVICE_CODE : s \in Created}
Creating == {"create", "post", "running"}
Settled  == LaidOut \ {"port", "queue", "create", "post"}

\* A server creates services with a port, a queue and memory, and when it runs, it has
\* created all.
SetupInv ==
  /\ memory \in {"none", "registered", "refused", "deregistered", "freed"}
  /\ port \in {"none", "open", "closed"} /\ queue \in {"none", "open", "closed"}
  /\ main \in LaidOut => memory # "none"
  /\ main \in Creating => port = "open" /\ queue = "open"
  /\ freeBufferIndex \in Seq(DWORD)
  /\ posted \in Seq(Int) /\ left \in Int
  /\ created = Len(posted) /\ created <= Len(config.services)
  /\ main \in {"load", "initialize"} => created = 0
  /\ main \in Settled => created = Len(config.services)

\* Each has a code of its own.
CodesInv ==
  /\ IsFiniteSet(Codes) /\ Cardinality(Codes) = created
  /\ \A s \in Created : s.SERVICE_TYPE \in {UDPSocket, TCPListener}

\* No segment is without memory, and there is one at least.
LEMMA SegmentsType ==
  ASSUME ConfigInv, main \notin {"load", "exited"}, totalBufferSize(bufferSize, bufferCount) # 0
  PROVE  Segments \in DWORD \ {0} /\ bufferSize \in DWORD \ {0}
<1> USE WordAssumption DEF DWORD
<1>1. bufferSize \in DWORD /\ bufferCount \in DWORD
  BY SizesAreDWORDs
<1> DEFINE D == U(bufferSize * bufferCount)
<1>2. totalBufferSize(bufferSize, bufferCount) = D /\ Segments = Less(bufferCount, D)
  BY <1>1, Uncorrected DEF Segments
<1>3. D # 0
  BY <1>2
<1>4. U(0) = 0
  BY DEF U
<1>5. bufferSize # 0 /\ bufferCount # 0
  <2>1. bufferSize = 0 \/ bufferCount = 0 => bufferSize * bufferCount = 0
    BY <1>1
  <2> QED
    BY <1>3, <1>4, <2>1
<1>6. D \in DWORD
  BY <1>1, ProductInNat, Unsigned
<1> HIDE DEF D
<1> QED
  BY <1>1, <1>2, <1>3, <1>5, <1>6 DEF Less

LEMMA IndexType ==
  ASSUME NEW size \in DWORD \ {0}, NEW i \in DWORD
  PROVE  bufferIndex(size, Offset(size, i)) \in DWORD
<1>1. size * i \in Nat
  BY ProductInNat, WordAssumption DEF DWORD
<1>2. Offset(size, i) \in DWORD
  BY <1>1, Wrapped DEF Offset
<1>3. \A x \in DWORD : x \div size \in DWORD
  BY WordAssumption DEF DWORD
<1> QED
  BY <1>2, <1>3 DEF bufferIndex

LEMMA NextService ==
  ASSUME ConfigInv, SetupInv, created < Len(config.services)
  PROVE  /\ Next1 \in Filled /\ created \in Nat /\ created + 1 <= Len(config.services)
         /\ Created \cup {Next1} = {config.services[i] : i \in 1..(created + 1)}
<1>1. created \in Nat /\ config.services \in Seq(Filled) /\ Len(config.services) \in Nat
  BY DEF ConfigInv, SetupInv
<1>2. Next1 \in Filled
  BY <1>1, ElementAt DEF Next1
<1>3. 1..(created + 1) = 1..created \cup {created + 1}
  BY <1>1
<1> QED
  BY <1>1, <1>2, <1>3 DEF Created, Next1

LEMMA SetupBegins == Init => SetupInv /\ CodesInv
<1> SUFFICES ASSUME Init PROVE SetupInv /\ CodesInv
  OBVIOUS
<1>1. freeBufferIndex \in Seq(DWORD) /\ posted \in Seq(Int) /\ Len(posted) = 0
      /\ Len(config.services) = 0 /\ created = 0
  BY DEF Init
<1>2. Codes = {} /\ Created = {}
  BY <1>1 DEF Codes, Created
<1> QED
  BY <1>1, <1>2, FS_EmptySet DEF Init, SetupInv, CodesInv, LaidOut, Creating, Settled

\* What a service that is created adds.
LEMMA ServiceAdded ==
  ASSUME ConfigInv, SetupInv, CodesInv, created < Len(config.services), IsNewCode,
         Next1.SERVICE_TYPE \in {UDPSocket, TCPListener},
         created' = created + 1, posted' = Append(posted, 0), UNCHANGED config
  PROVE  /\ posted' \in Seq(Int) /\ created' = Len(posted') /\ created' <= Len(config.services)
         /\ CodesInv'
<1>1. Created' = Created \cup {Next1}
  BY NextService DEF Created
<1>2. Codes' = Codes \cup {Next1.SERVICE_CODE} /\ Next1.SERVICE_CODE \notin Codes
  BY <1>1 DEF Codes, IsNewCode
<1>3. IsFiniteSet(Codes') /\ Cardinality(Codes') = created + 1
  BY <1>2, FS_AddElement DEF CodesInv
<1>4. CodesInv'
  BY <1>1, <1>3 DEF CodesInv
<1>5. posted' \in Seq(Int) /\ Len(posted') = Len(posted) + 1
  BY DEF SetupInv
<1> QED
  BY <1>4, <1>5, NextService DEF SetupInv

LEMMA CodesSame ==
  ASSUME CodesInv, UNCHANGED <<config, created>>
  PROVE  CodesInv'
BY DEF CodesInv, Codes, Created

LEMMA SetupSame ==
  ASSUME SetupInv, CodesInv, UNCHANGED <<config, setup, creation>>,
         \/ main' = "exited"
         \/ main' = main
         \/ main \in Settled /\ main' \in Settled \ Creating
  PROVE  SetupInv' /\ CodesInv'
<1>1. CodesInv'
  BY CodesSame DEF creation
<1> QED
  BY <1>1 DEF SetupInv, setup, creation, LaidOut, Creating, Settled

LEMMA SetupPostReceive ==
  ASSUME ConfigInv, SetupInv, CodesInv, PostReceive
  PROVE  SetupInv' /\ CodesInv'
<1>1. /\ main = "post" /\ left' = left - 1
      /\ UNCHANGED <<main, config, memory, port, queue, created>>
  BY DEF PostReceive
<1>2. CodesInv'
  BY <1>1, CodesSame
<1>3. freeBufferIndex \in Seq(DWORD) /\ posted \in Seq(Int) /\ left \in Int
  BY DEF SetupInv
<1>4. posted' \in Seq(Int) /\ Len(posted') = Len(posted)
  <2>1. posted' = posted \/ posted' = [posted EXCEPT ![created] = @ + 1]
    BY DEF PostReceive
  <2>2. CASE posted' = posted
    BY <1>3, <2>2
  <2>3. CASE posted' = [posted EXCEPT ![created] = @ + 1]
    <3>1. \A i \in 1..Len(posted) : posted[i] \in Int
      BY <1>3
    <3>2. DOMAIN posted = 1..Len(posted) /\ Len(posted) \in Nat
      BY <1>3
    <3>3. posted' = [i \in DOMAIN posted |-> IF i = created THEN posted[i] + 1 ELSE posted[i]]
      BY <2>3
    <3> DEFINE n == Len(posted)
    <3> HIDE DEF n
    <3>4. posted' = [i \in 1..n |-> IF i = created THEN posted[i] + 1 ELSE posted[i]]
      BY <3>2, <3>3 DEF n
    <3>5. \A i \in 1..n : (IF i = created THEN posted[i] + 1 ELSE posted[i]) \in Int
      BY <3>1 DEF n
    <3>6. posted' \in [1..n -> Int] /\ n \in Nat
      BY <3>2, <3>4, <3>5 DEF n
    <3> QED
      BY <3>6 DEF n
  <2> QED
    BY <2>1, <2>2, <2>3
<1>5. freeBufferIndex' \in Seq(DWORD)
  <2>1. CASE freeBufferIndex' = freeBufferIndex
    BY <1>3, <2>1
  <2>2. CASE freeBufferIndex # <<>> /\ freeBufferIndex' = Tail(freeBufferIndex)
    BY <1>3, <2>2
  <2>3. CASE /\ freeBufferIndex # <<>>
             /\ freeBufferIndex' = Append(Tail(freeBufferIndex),
                  bufferIndex(bufferSize, Offset(bufferSize, Head(freeBufferIndex))))
    <3>1. bufferSize \in DWORD \ {0}
      BY <1>1, SegmentsType DEF ConfigInv, LaidOut, Places
    <3>2. Head(freeBufferIndex) \in DWORD /\ Tail(freeBufferIndex) \in Seq(DWORD)
      BY <1>3, <2>3
    <3> QED
      BY <2>3, <3>1, <3>2, IndexType
  <2> QED
    BY <2>1, <2>2, <2>3 DEF PostReceive
<1>6. left' \in Int
  BY <1>1, <1>3
<1> QED
  BY <1>1, <1>2, <1>4, <1>5, <1>6 DEF SetupInv

LEMMA SetupStep ==
  ASSUME ConfigInv, ConfigInv', SetupInv, CodesInv, [Next]_vars
  PROVE  SetupInv' /\ CodesInv'
<1>1. CASE Load \/ UNCHANGED vars
  BY <1>1, SetupSame DEF Load, vars, tmain
<1>2. CASE Loaded
  <2>1. /\ main = "load" /\ main' \in {"exited", "initialize"} /\ created = 0
        /\ UNCHANGED <<setup, creation>> /\ created' = 0
    BY <1>2 DEF Loaded, SetupInv, creation
  <2>2. Codes' = {} /\ Created' = {}
    BY <2>1 DEF Codes, Created
  <2>3. created' <= Len(config'.services)
    <3>1. Len(config'.services) \in Nat
      BY DEF ConfigInv
    <3> QED
      BY <2>1, <3>1
  <2>4. CodesInv'
    BY <2>1, <2>2, FS_EmptySet DEF CodesInv
  <2>5. UNCHANGED <<memory, freeBufferIndex, port, queue, created, posted, left>>
    BY <2>1 DEF setup, creation
  <2>6. main' \notin LaidOut /\ main' \notin Creating /\ main' \notin Settled
    BY <2>1 DEF LaidOut, Creating, Settled
  <2>7. SetupInv'
    BY <2>1, <2>3, <2>5, <2>6 DEF SetupInv
  <2> QED
    BY <2>4, <2>7
<1>3. CASE InitializeRIO
  <2>1. /\ main = "initialize" /\ main' = "port"
        /\ memory' \in {"registered", "refused"}
        /\ freeBufferIndex' = [i \in 1..Segments |-> i - 1]
        /\ UNCHANGED <<config, port, queue, creation>>
        /\ totalBufferSize(bufferSize, bufferCount) # 0
    BY <1>3 DEF InitializeRIO
  <2>2. Segments \in DWORD
    BY <2>1, SegmentsType
  <2>3. freeBufferIndex' \in Seq(DWORD)
    <3> DEFINE n == Segments
    <3>1. n \in Nat /\ n <= Word - 1
      BY <2>2, WordAssumption DEF DWORD
    <3>2. freeBufferIndex' = [i \in 1..n |-> i - 1]
      BY <2>1
    <3> HIDE DEF n
    <3>3. \A i \in 1..n : i - 1 \in DWORD
      BY <3>1, WordAssumption DEF DWORD
    <3> QED
      BY <3>1, <3>2, <3>3
  <2>4. CodesInv'
    BY <2>1, CodesSame DEF creation
  <2> QED
    BY <2>1, <2>3, <2>4 DEF SetupInv, creation, LaidOut, Creating, Settled
<1>4. CASE CreateIOCP \/ CreateCQ
  <2>1. CodesInv'
    BY <1>4, CodesSame DEF CreateIOCP, CreateCQ, creation
  <2> QED
    BY <1>4, <2>1 DEF CreateIOCP, CreateCQ, SetupInv, creation, LaidOut, Places, Creating, Settled
<1>5. CASE CreateDatagram
  <2>1. /\ main = "create" /\ created < Len(config.services) /\ main' = "post"
        /\ Next1.SERVICE_TYPE \in {UDPSocket, TCPListener} /\ IsNewCode
        /\ created' = created + 1 /\ posted' = Append(posted, 0)
        /\ left' = Next1.SERVICE_RQ_MAX_RECEIVES /\ UNCHANGED <<config, setup>>
    BY <1>5 DEF CreateDatagram
  <2>2. left' \in Int
    BY <2>1, NextService DEF Filled, ServiceKeys
  <2> QED
    BY <2>1, <2>2, ServiceAdded DEF SetupInv, setup, LaidOut, Places, Creating, Settled
<1>6. CASE PostReceive
  BY <1>6, SetupPostReceive
<1>7. CASE ReceivesPosted
  <2>1. CodesInv'
    BY <1>7, CodesSame DEF ReceivesPosted, creation
  <2> QED
    BY <1>7, <2>1 DEF ReceivesPosted, SetupInv, setup, creation, LaidOut, Places, Creating, Settled
<1>8. CASE CreateListener
  <2>1. /\ main = "create" /\ created < Len(config.services) /\ UNCHANGED <<main, left>>
        /\ Next1.SERVICE_TYPE \in {UDPSocket, TCPListener} /\ IsNewCode
        /\ created' = created + 1 /\ posted' = Append(posted, 0) /\ UNCHANGED <<config, setup>>
    BY <1>8 DEF CreateListener
  <2> QED
    BY <2>1, ServiceAdded DEF SetupInv, setup, LaidOut, Places, Creating, Settled
<1>9. CASE Fail
  BY <1>9, SetupSame DEF Fail, Exit
<1>10. CASE CreateThreads
  <2>1. CodesInv'
    BY <1>10, CodesSame DEF CreateThreads, creation
  <2> QED
    BY <1>10, <2>1 DEF CreateThreads, SetupInv, setup, creation, LaidOut, Places, Creating, Settled
<1>11. CASE AddEntryToService \/ CloseServiceEntry
  BY <1>11, SetupSame DEF AddEntryToService, CloseServiceEntry
<1>12. CASE EscapeAndJoin \/ CloseAllSockets \/ DeleteDump
  BY <1>12, SetupSame DEF EscapeAndJoin, CloseAllSockets, DeleteDump, LaidOut, Places, Ends,
     Creating, Settled
<1>13. CASE CloseCQs \/ CloseIOCPHandles \/ ShutdownCleanup \/ Destruct
  <2>1. CodesInv'
    BY <1>13, CodesSame DEF CloseCQs, CloseIOCPHandles, ShutdownCleanup, Destruct, creation
  <2> QED
    BY <1>13, <2>1 DEF CloseCQs, CloseIOCPHandles, ShutdownCleanup, Destruct, SetupInv,
       creation, LaidOut, Places, Ends, Creating, Settled
<1> QED
  BY <1>1, <1>2, <1>3, <1>4, <1>5, <1>6, <1>7, <1>8, <1>9, <1>10, <1>11, <1>12, <1>13 DEF Next

LEMMA SetupInvariant == Spec => [](SetupInv /\ CodesInv)
<1>1. Init => SetupInv /\ CodesInv
  BY SetupBegins
<1>2. ConfigInv /\ ConfigInv' /\ SetupInv /\ CodesInv /\ [Next]_vars => (SetupInv /\ CodesInv)'
  BY SetupStep
<1> QED
  BY <1>1, <1>2, ConfigInvariant, PTL DEF Spec

\* RunningComplete for every file: a server runs only with a port, a queue, memory with at
\* least one segment, and each service of the file created under a code of its own.
THEOREM RunsComplete == Spec => []RunningComplete
<1>1. ConfigInv /\ SetupInv /\ CodesInv => RunningComplete
  <2> SUFFICES ASSUME ConfigInv, SetupInv, CodesInv, main = "running"
               PROVE  /\ port = "open" /\ queue = "open" /\ memory # "none" /\ Segments > 0
                      /\ Len(config.services) = Len(services)
                      /\ Cardinality(Codes) = Len(services)
                      /\ \A s \in Created : s.SERVICE_TYPE \in {UDPSocket, TCPListener}
    BY DEF RunningComplete, Codes
  <2>1. main \in LaidOut /\ main \in Creating /\ main \in Settled
    BY DEF LaidOut, Places, Creating, Settled
  <2>2. Segments > 0
    <3>1. Segments \in DWORD \ {0}
      BY <2>1, SegmentsType DEF ConfigInv, LaidOut
    <3> QED
      BY <3>1, WordAssumption DEF DWORD
  <2>3. Len(config.services) = Len(services) /\ created = Len(config.services)
    BY <2>1 DEF ConfigInv, SetupInv
  <2> QED
    BY <2>1, <2>2, <2>3 DEF SetupInv, CodesInv
<1> QED
  BY <1>1, ConfigInvariant, SetupInvariant, PTL

LEMMA DumpInvariant == Spec => []DumpInv
<1>1. Init => DumpInv
  BY MaxConnectionsAssumption DEF Init, DumpInv
<1>2. DumpInv /\ [Next]_vars => DumpInv'
  BY DumpStep
<1> QED
  BY <1>1, <1>2, PTL DEF Spec

\* TypeOK of the main thread: the reader stays in the file, segments have indexes that are
\* DWORDs, and there are as many counts of receives as services created.
THEOREM TypeCorrect == Spec => []TypeOK
<1>1. ConfigInv /\ SetupInv /\ DumpInv => TypeOK
  <2> SUFFICES ASSUME ConfigInv, SetupInv, DumpInv PROVE TypeOK
    OBVIOUS
  <2>1. line \in 0..Len(file) /\ serviceCount \in 0..line
    <3>1. line \in Nat /\ line <= Len(file) /\ serviceCount \in Nat /\ serviceCount <= line
          /\ file \in Files
      BY DEF ConfigInv, LoadInv
    <3>2. Len(file) \in Nat
      BY <3>1, FileShape
    <3> QED
      BY <3>1, <3>2
  <2>2. Len(services) <= IF serviceCount = 0 THEN 1 ELSE serviceCount
    <3>1. serviceCount \in Nat /\ Len(services) \in Nat
          /\ \/ Len(services) = IF serviceCount = 0 THEN 0 ELSE serviceCount - 1
             \/ Len(services) = IF serviceCount = 0 THEN 1 ELSE serviceCount
      BY DEF ConfigInv, LoadInv
    <3> DEFINE n == Len(services)
    <3> HIDE DEF n
    <3>2. \/ n = IF serviceCount = 0 THEN 0 ELSE serviceCount - 1
          \/ n = IF serviceCount = 0 THEN 1 ELSE serviceCount
      BY <3>1 DEF n
    <3>3. CASE serviceCount = 0
      <4>1. n <= 1
        BY <3>2, <3>3
      <4> QED
        BY <3>3, <4>1 DEF n
    <3>4. CASE serviceCount # 0
      <4>1. n <= serviceCount
        BY <3>1, <3>2, <3>4
      <4> QED
        BY <3>4, <4>1 DEF n
    <3> QED
      BY <3>3, <3>4
  <2>3. criticalSectionDump \in Seq(1..accepted)
    BY DEF DumpInv
  <2>4. main \in Places
    BY DEF ConfigInv
  <2> QED
    BY <2>1, <2>2, <2>3, <2>4 DEF TypeOK, SetupInv, DumpInv, Places
<1> QED
  BY <1>1, ConfigInvariant, SetupInvariant, DumpInvariant, PTL

-----------------------------------------------------------------------------
(* The receives of the datagram services.                                   *)

Datagram(i) == config.services[i].SERVICE_TYPE = UDPSocket
Wanted(i)   == config.services[i].SERVICE_RQ_MAX_RECEIVES
Fits        == memory = "registered" /\ NoWrap(bufferSize, bufferCount)

PostedSum == SumFunction([i \in 1..created |-> posted[i]])
TakenSum  == SumFunction([i \in 1..created |-> Taken(i)])

\* Where the receives of service i stand.
PostedFor(i) ==
  /\ posted[i] >= 0
  /\ ~Datagram(i) => posted[i] = 0
  /\ Datagram(i) =>
       /\ posted[i] <= Wanted(i) /\ Wanted(i) <= Taken(i)
       /\ main = "post" /\ i = created => posted[i] + left = Wanted(i)
       /\ main # "post" \/ i # created => posted[i] = Wanted(i)

\* A segment is free or posted, and the completion queue, which is no larger than the
\* pool, has room for all receives that have been or will be posted.
PostInv ==
  main \in LaidOut /\ Fits =>
    /\ freeBufferIndex \in Seq(0..(Segments - 1))
    /\ Len(freeBufferIndex) + PostedSum = Segments
    /\ TakenSum <= bufferCount
    /\ \A i \in 1..created : PostedFor(i)
    /\ main = "post" => created > 0 /\ Datagram(created)

LEMMA SumOneMore ==
  ASSUME NEW n \in Nat, NEW f \in [1..(n + 1) -> Int]
  PROVE  SumFunction(f) = SumFunction([i \in 1..n |-> f[i]]) + f[n + 1]
<1> DEFINE S == 1..(n + 1)
           g == [i \in 1..n |-> f[i]]
<1>1. IsFiniteSet(S) /\ IsFiniteSet(1..n)
  BY FS_Interval
<1>2. n + 1 \in S /\ S \ {n + 1} = 1..n
  OBVIOUS
<1>3. \A x \in S : f[x] \in Int
  OBVIOUS
<1>4. DOMAIN f = S /\ DOMAIN g = 1..n
  OBVIOUS
<1> HIDE DEF S
<1>5. SumFunctionOnSet(f, S) = f[n + 1] + SumFunctionOnSet(f, 1..n)
  BY <1>1, <1>2, <1>3, SumOut
<1>6. \A x \in 1..n : f[x] \in Int /\ g[x] = f[x]
  BY <1>2, <1>3
<1> HIDE DEF g
<1>7. SumFunctionOnSet(g, 1..n) = SumFunctionOnSet(f, 1..n)
  BY <1>1, <1>6, SumSame
<1>8. SumFunctionOnSet(f, 1..n) \in Int
  BY <1>1, <1>6, SumType
<1>9. SumFunction(f) = f[n + 1] + SumFunctionOnSet(f, 1..n) /\ f[n + 1] \in Int
  BY <1>2, <1>3, <1>4, <1>5 DEF SumFunction
<1>10. SumFunction(g) = SumFunctionOnSet(f, 1..n)
  BY <1>4, <1>7 DEF SumFunction
<1> QED
  BY <1>8, <1>9, <1>10 DEF g

\* A small ULONG is a number that is not negative.
LEMMA SmallIsNatural ==
  ASSUME NEW n \in int, U(n) < Word \div 2
  PROVE  n \in Nat /\ U(n) = n
<1> DEFINE h == Word \div 2
<1>1. h \in Nat /\ 2 * h <= Word /\ n \in Int /\ -h <= n /\ n < h
  BY WordAssumption DEF int
<1>2. Word \in Nat /\ U(n) < h
  BY WordAssumption
<1> HIDE DEF h
<1>3. CASE n >= 0
  BY <1>1, <1>2, <1>3, Wrapped
<1>4. CASE n < 0
  <2>1. n + Word \in Nat /\ n + Word < Word
    BY <1>1, <1>2, <1>4
  <2>2. (n + Word) % Word = n + Word
    BY <2>1, Wrapped DEF U
  <2>3. n % Word = (n + Word) % Word
    BY <1>1, WordAssumption
  <2>4. U(n) = n + Word
    BY <2>2, <2>3 DEF U
  <2> QED
    BY <1>1, <1>2, <2>4
<1> QED
  BY <1>1, <1>3, <1>4

LEMMA TakenType ==
  ASSUME ConfigInv, SetupInv, NEW i \in 1..Len(config.services)
  PROVE  Taken(i) \in Nat /\ Wanted(i) \in int
<1>1. config.services[i] \in Filled
  BY DEF ConfigInv
<1>2. config.services[i] \in [ServiceKeys -> Int] /\ Wanted(i) \in int
  BY <1>1 DEF Filled, Wanted
<1>3. config.services[i].SERVICE_RQ_MAX_RECEIVES \in Int
      /\ config.services[i].SERVICE_RQ_MAX_SENDS \in Int
  BY <1>2 DEF ServiceKeys
<1>4. QueueRoom(config.services[i]) \in Nat
  <2> DEFINE a == U(config.services[i].SERVICE_RQ_MAX_RECEIVES)
             b == U(config.services[i].SERVICE_RQ_MAX_SENDS)
  <2>1. a \in DWORD /\ b \in DWORD
    BY <1>3, Unsigned
  <2> HIDE DEF a, b
  <2>2. a + b \in Nat
    BY <2>1, WordAssumption DEF DWORD
  <2> QED
    BY <2>2 DEF QueueRoom, a, b
<1>5. Taken(i) = QueueRoom(config.services[i]) \/ Taken(i) = 0
  BY DEF Taken
<1> QED
  BY <1>2, <1>4, <1>5

LEMMA SumTypes ==
  ASSUME ConfigInv, SetupInv
  PROVE  /\ created \in Nat /\ created <= Len(config.services) /\ Len(config.services) \in Nat
         /\ [i \in 1..created |-> Taken(i)] \in [1..created -> Int] /\ TakenSum \in Nat
         /\ [i \in 1..created |-> posted[i]] \in [1..created -> Int] /\ PostedSum \in Int
<1>1. created \in Nat /\ created <= Len(config.services) /\ Len(config.services) \in Nat
  BY DEF ConfigInv, SetupInv
<1>2. IsFiniteSet(1..created)
  BY <1>1, FS_Interval
<1> DEFINE f == [i \in 1..created |-> Taken(i)]
           g == [i \in 1..created |-> posted[i]]
<1>3. \A i \in 1..created : Taken(i) \in Nat
  BY <1>1, TakenType
<1>4. f \in [1..created -> Int] /\ \A i \in 1..created : f[i] >= 0
  BY <1>3
<1>5. g \in [1..created -> Int]
  BY DEF SetupInv
<1> HIDE DEF f, g
<1>6. SumFunction(f) \in Nat
  BY <1>2, <1>4, SumNat
<1>7. SumFunction(g) \in Int
  BY <1>2, <1>5, SumInt
<1> QED
  BY <1>1, <1>4, <1>5, <1>6, <1>7 DEF f, g, TakenSum, PostedSum

\* Under a product that fits, every segment is in memory, and there are as many as asked for.
LEMMA SegmentsInMemory ==
  ASSUME ConfigInv, main \in LaidOut, Fits
  PROVE  /\ Segments = bufferCount /\ Segments \in Nat
         /\ \A i \in 0..(Segments - 1) : Accepts(i)
<1>1. bufferSize \in DWORD /\ bufferCount \in DWORD
  BY SizesAreDWORDs DEF LaidOut
<1>2. SegmentsSound(bufferSize, bufferCount) /\ SegmentsEnough(bufferSize, bufferCount)
  BY <1>1, LayoutFits DEF ConfigInv, Fits
<1> QED
  BY <1>1, <1>2, WordAssumption DEF SegmentsSound, SegmentsEnough, Segments, Accepts, Fits, DWORD

\* Steps that post nothing.
LEMMA PostSame ==
  ASSUME PostInv, UNCHANGED <<config, freeBufferIndex, created, posted, left>>,
         memory' = "registered" => memory = "registered",
         \/ main' \notin LaidOut
         \/ main \in LaidOut /\ (main' = main \/ (main # "post" /\ main' # "post"))
  PROVE  PostInv'
BY DEF PostInv, Fits, PostedFor, PostedSum, TakenSum, Taken, Datagram, Wanted, Segments, bufferSize,
       bufferCount

LEMMA PostInitialize ==
  ASSUME ConfigInv, SetupInv, InitializeRIO
  PROVE  PostInv'
<1>1. /\ main = "initialize" /\ main' = "port" /\ created = 0 /\ UNCHANGED <<config, creation>>
      /\ freeBufferIndex' = [i \in 1..Segments |-> i - 1]
      /\ totalBufferSize(bufferSize, bufferCount) # 0
  BY DEF InitializeRIO, SetupInv
<1>2. Segments \in Nat
  BY <1>1, SegmentsType, WordAssumption DEF DWORD
<1> DEFINE n == Segments
<1>3. freeBufferIndex' \in Seq(0..(n - 1)) /\ Len(freeBufferIndex') = n
  <2> HIDE DEF n
  <2>1. freeBufferIndex' = [i \in 1..n |-> i - 1] /\ n \in Nat
    BY <1>1, <1>2 DEF n
  <2> QED
    BY <2>1
<1>4. Segments' = n /\ bufferCount' = bufferCount
  BY <1>1 DEF Segments, bufferSize, bufferCount
<1>5. created' = 0 /\ 1..created' = {}
  BY <1>1 DEF creation
<1>6. PostedSum' = 0 /\ TakenSum' = 0
  <2>1. SumFunction([i \in {} |-> 0]) = 0
    BY FS_EmptySet, SumOfZeros
  <2>2. /\ [i \in 1..created' |-> posted'[i]] = [i \in {} |-> 0]
        /\ [i \in 1..created' |-> Taken(i)'] = [i \in {} |-> 0]
    BY <1>5
  <2> QED
    BY <2>1, <2>2 DEF PostedSum, TakenSum
<1>7. bufferCount \in Nat
  BY <1>1, SizesAreDWORDs, WordAssumption DEF DWORD
<1> HIDE DEF n
<1> QED
  BY <1>1, <1>2, <1>3, <1>4, <1>5, <1>6, <1>7 DEF PostInv, n


\* A service more: its receives are still to be posted.
LEMMA ServiceAppended ==
  ASSUME ConfigInv, SetupInv, created < Len(config.services),
         created' = created + 1, posted' = Append(posted, 0), config' = config
  PROVE  /\ PostedSum' = PostedSum /\ TakenSum' = TakenSum + Taken(created + 1)
         /\ \A i \in 1..created : posted'[i] = posted[i]
         /\ posted'[created + 1] = 0
         /\ created' \in 1..Len(config.services)
<1>1. /\ created \in Nat /\ created' \in 1..Len(config.services)
      /\ Len(config.services) \in Nat /\ created = Len(posted) /\ posted \in Seq(Int)
      /\ TakenSum \in Nat /\ PostedSum \in Int
  BY SumTypes DEF SetupInv
<1>2. (\A i \in 1..created : posted'[i] = posted[i]) /\ posted'[created + 1] = 0
  BY <1>1
<1> DEFINE f == [i \in 1..(created + 1) |-> Taken(i)]
           g == [i \in 1..(created + 1) |-> posted'[i]]
<1>3. f \in [1..(created + 1) -> Int]
  <2>1. \A i \in 1..(created + 1) : Taken(i) \in Nat
    BY <1>1, TakenType
  <2> QED
    BY <2>1
<1>4. g \in [1..(created + 1) -> Int]
  BY <1>1
<1>5. TakenSum' = SumFunction(f) /\ PostedSum' = SumFunction(g)
  BY DEF TakenSum, PostedSum, Taken
<1>6. /\ f[created + 1] = Taken(created + 1) /\ g[created + 1] = 0
      /\ [i \in 1..created |-> f[i]] = [i \in 1..created |-> Taken(i)]
      /\ [i \in 1..created |-> g[i]] = [i \in 1..created |-> posted[i]]
  BY <1>1, <1>2
<1> HIDE DEF f, g
<1>7. SumFunction(f) = SumFunction([i \in 1..created |-> f[i]]) + f[created + 1]
  BY <1>1, <1>3, SumOneMore
<1>8. SumFunction(g) = SumFunction([i \in 1..created |-> g[i]]) + g[created + 1]
  BY <1>1, <1>4, SumOneMore
<1>9. TakenSum' = TakenSum + Taken(created + 1)
  BY <1>5, <1>6, <1>7 DEF TakenSum
<1>10. PostedSum' = PostedSum + 0
  BY <1>5, <1>6, <1>8 DEF PostedSum
<1> QED
  BY <1>1, <1>2, <1>9, <1>10

LEMMA PostCreateDatagram ==
  ASSUME ConfigInv, SetupInv, PostInv, CreateDatagram, main' \in LaidOut, Fits'
  PROVE  PostInv'
<1>0. PICK k : k = created + 1
  OBVIOUS
<1>1. /\ main = "create" /\ main' = "post" /\ created < Len(config.services)
      /\ created' = k /\ posted' = Append(posted, 0) /\ left' = Wanted(k)
      /\ config.services[k].SERVICE_TYPE = UDPSocket
      /\ UNCHANGED <<config, memory, freeBufferIndex>>
      /\ HasRoom
  BY <1>0 DEF CreateDatagram, Next1, Wanted, setup
<1>2. /\ PostedSum' = PostedSum /\ TakenSum' = TakenSum + Taken(k)
      /\ \A i \in 1..created : posted'[i] = posted[i]
      /\ posted'[k] = 0 /\ k \in 1..Len(config.services)
  <2> QED
    BY <1>0, <1>1, ServiceAppended
<1>3. /\ created \in Nat /\ TakenSum \in Nat /\ PostedSum \in Int
      /\ \A i \in 1..created : Taken(i) \in Nat /\ Wanted(i) \in int
  BY SumTypes, TakenType
<1>4. main \in LaidOut /\ Fits /\ main \in Places
  BY <1>1 DEF Fits, bufferSize, bufferCount, LaidOut, Places, Ends
<1>5. /\ bufferCount \in DWORD /\ bufferCount' = bufferCount /\ Segments' = Segments
  BY <1>1, <1>4, SizesAreDWORDs DEF LaidOut, bufferSize, bufferCount, Segments
<1>6. Taken(k) = QueueRoom(config.services[k]) /\ Taken(k) \in Nat /\ Wanted(k) \in int
  BY <1>1, <1>2, TakenType DEF Taken
<1> DEFINE r == U(Wanted(k))
           s == U(config.services[k].SERVICE_RQ_MAX_SENDS)
<1>7. r \in Nat /\ s \in Nat /\ Taken(k) = r + s
  <2>1. config.services[k] \in [ServiceKeys -> Int]
    BY <1>2 DEF ConfigInv, Filled
  <2>2. Wanted(k) \in Int /\ config.services[k].SERVICE_RQ_MAX_SENDS \in Int
    BY <2>1 DEF ServiceKeys, Wanted
  <2>3. Taken(k) = r + s
    BY <1>6 DEF QueueRoom, Wanted
  <2>4. r \in DWORD /\ s \in DWORD
    BY <2>2, Unsigned
  <2> HIDE DEF r, s
  <2> QED
    BY <2>3, <2>4, WordAssumption DEF DWORD
<1>8. TakenSum + Taken(k) <= Less(bufferCount, RIO_MAX_CQ_SIZE)
  BY <1>0, <1>1, <1>6 DEF HasRoom, Next1, TakenSum, maximumCQSize, bufferCount
<1>9. TakenSum + Taken(k) <= bufferCount /\ TakenSum + Taken(k) <= RIO_MAX_CQ_SIZE
  <2> DEFINE t == TakenSum + Taken(k)
  <2>1. t \in Nat /\ t <= Less(bufferCount, RIO_MAX_CQ_SIZE)
    BY <1>3, <1>6, <1>8
  <2> HIDE DEF t
  <2>2. t <= bufferCount /\ t <= RIO_MAX_CQ_SIZE
    BY <2>1, <1>5, WordAssumption, MaxSizeAssumption DEF Less, DWORD
  <2> QED
    BY <2>2 DEF t
<1>10. r < Word \div 2 /\ r <= Taken(k)
  <2> DEFINE t == TakenSum
             q == Taken(k)
             h == Word \div 2
  <2>1. t \in Nat /\ q = r + s /\ t + q <= RIO_MAX_CQ_SIZE
    BY <1>3, <1>7, <1>9
  <2>2. RIO_MAX_CQ_SIZE \in Nat /\ RIO_MAX_CQ_SIZE < h /\ h \in Nat
    BY MaxSizeAssumption, WordAssumption
  <2>3. r \in Nat /\ s \in Nat
    BY <1>7
  <2> HIDE DEF t, q, r, s, h
  <2>4. r < h /\ r <= q
    BY <2>1, <2>2, <2>3
  <2> QED
    BY <2>4 DEF q, h
<1>11. Wanted(k) \in Nat /\ r = Wanted(k)
  BY <1>6, <1>10, SmallIsNatural
<1>12. Wanted(k) <= Taken(k) /\ Wanted(k) >= 0 /\ 0 + Wanted(k) = Wanted(k)
  BY <1>10, <1>11
<1>13. PostedFor(k)'
  <2>1. posted'[k] = 0 /\ left' = Wanted(k) /\ Wanted(k)' = Wanted(k) /\ Taken(k)' = Taken(k)
        /\ Datagram(k)' /\ created' = k /\ main' = "post"
    BY <1>1, <1>2 DEF Wanted, Taken, Datagram
  <2> HIDE DEF r, s
  <2> QED
    BY <1>12, <2>1 DEF PostedFor
<1>14. ASSUME NEW i \in 1..created PROVE PostedFor(i)'
  <2>1. PostedFor(i) /\ i # k /\ posted'[i] = posted[i]
    BY <1>0, <1>2, <1>3, <1>4 DEF PostInv
  <2>2. Wanted(i)' = Wanted(i) /\ Taken(i)' = Taken(i) /\ Datagram(i)' = Datagram(i)
    BY <1>1 DEF Wanted, Taken, Datagram
  <2> QED
    BY <1>1, <2>1, <2>2 DEF PostedFor
<1>15. \A i \in 1..created' : i \in 1..created \/ i = k
  BY <1>0, <1>1, <1>3
<1>16. created' > 0 /\ Datagram(k)
  BY <1>0, <1>1, <1>3 DEF Datagram
<1> HIDE DEF r, s
<1>17. \A i \in 1..created' : PostedFor(i)'
  BY <1>13, <1>14, <1>15
<1>18. TakenSum' <= bufferCount'
  BY <1>2, <1>5, <1>9
<1>19. freeBufferIndex' \in Seq(0..(Segments' - 1)) /\ Len(freeBufferIndex') + PostedSum' = Segments'
  BY <1>1, <1>2, <1>4, <1>5 DEF PostInv
<1>20. Datagram(created)'
  BY <1>1, <1>16 DEF Datagram
<1> QED
  BY <1>16, <1>17, <1>18, <1>19, <1>20 DEF PostInv

LEMMA PostCreateListener ==
  ASSUME ConfigInv, SetupInv, PostInv, CreateListener, main' \in LaidOut, Fits'
  PROVE  PostInv'
<1>0. PICK k : k = created + 1
  OBVIOUS
<1>1. /\ main = "create" /\ main' = "create" /\ created < Len(config.services)
      /\ created' = k /\ posted' = Append(posted, 0)
      /\ config.services[k].SERVICE_TYPE = TCPListener
      /\ UNCHANGED <<config, memory, freeBufferIndex>>
  BY <1>0 DEF CreateListener, Next1, setup
<1>2. /\ PostedSum' = PostedSum /\ TakenSum' = TakenSum + Taken(k)
      /\ \A i \in 1..created : posted'[i] = posted[i]
      /\ posted'[k] = 0 /\ k \in 1..Len(config.services)
  <2> QED
    BY <1>0, <1>1, ServiceAppended
<1>3. created \in Nat /\ TakenSum \in Nat /\ TakenSum' = TakenSum /\ ~Datagram(k)
  <2>1. Taken(k) = 0 /\ ~Datagram(k)
    BY <1>1 DEF Taken, Datagram, UDPSocket, TCPListener
  <2>2. TakenSum \in Nat /\ created \in Nat
    BY SumTypes
  <2> QED
    BY <1>2, <2>1, <2>2
<1>4. main \in LaidOut /\ Fits
  BY <1>1 DEF Fits, bufferSize, bufferCount
<1>5. bufferCount' = bufferCount /\ Segments' = Segments
  BY <1>1 DEF bufferSize, bufferCount, Segments
<1>6. PostedFor(k)'
  <2>1. posted'[k] = 0 /\ ~Datagram(k)'
    BY <1>1, <1>2, <1>3 DEF Datagram
  <2> QED
    BY <2>1 DEF PostedFor
<1>7. ASSUME NEW i \in 1..created PROVE PostedFor(i)'
  <2>1. PostedFor(i) /\ i # k /\ posted'[i] = posted[i]
    BY <1>0, <1>2, <1>3, <1>4 DEF PostInv
  <2>2. Wanted(i)' = Wanted(i) /\ Taken(i)' = Taken(i) /\ Datagram(i)' = Datagram(i)
    BY <1>1 DEF Wanted, Taken, Datagram
  <2> QED
    BY <1>1, <2>1, <2>2 DEF PostedFor
<1>8. \A i \in 1..created' : i \in 1..created \/ i = k
  BY <1>0, <1>1, <1>3
<1>9. \A i \in 1..created' : PostedFor(i)'
  BY <1>6, <1>7, <1>8
<1>10. TakenSum' <= bufferCount'
  BY <1>3, <1>4, <1>5 DEF PostInv
<1>11. freeBufferIndex' \in Seq(0..(Segments' - 1)) /\ Len(freeBufferIndex') + PostedSum' = Segments'
  BY <1>1, <1>2, <1>4, <1>5 DEF PostInv
<1> QED
  BY <1>1, <1>9, <1>10, <1>11 DEF PostInv

\* There is a segment for each receive still to be posted, and RIO takes it.
LEMMA PostPostReceive ==
  ASSUME ConfigInv, SetupInv, PostInv, PostReceive, main' \in LaidOut, Fits'
  PROVE  PostInv'
<1>0. PICK k : k = created
  OBVIOUS
<1>1. /\ main = "post" /\ main' = "post" /\ left > 0 /\ left' = left - 1
      /\ UNCHANGED <<config, memory, created>>
  BY DEF PostReceive
<1>2. main \in LaidOut /\ Fits
  BY <1>1 DEF Fits, bufferSize, bufferCount
<1>3. /\ Segments = bufferCount /\ Segments \in Nat
      /\ \A i \in 0..(Segments - 1) : Accepts(i)
  BY <1>2, SegmentsInMemory
<1>4. /\ freeBufferIndex \in Seq(0..(Segments - 1))
      /\ Len(freeBufferIndex) + PostedSum = Segments /\ TakenSum <= bufferCount
      /\ k > 0 /\ Datagram(k) /\ \A i \in 1..created : PostedFor(i)
  BY <1>0, <1>1, <1>2 DEF PostInv
<1>5. /\ created \in Nat /\ TakenSum \in Nat /\ PostedSum \in Int /\ k \in 1..created
      /\ left \in Int /\ posted \in Seq(Int) /\ Len(posted) = created
      /\ \A i \in 1..created : Taken(i) \in Nat /\ Wanted(i) \in int /\ posted[i] \in Int
  <2>1. /\ created \in Nat /\ TakenSum \in Nat /\ PostedSum \in Int
        /\ \A i \in 1..created : Taken(i) \in Nat /\ Wanted(i) \in int
    BY SumTypes, TakenType
  <2>2. left \in Int /\ posted \in Seq(Int) /\ Len(posted) = created
    BY DEF SetupInv
  <2>3. \A i \in 1..created : posted[i] \in Int
    BY <2>2
  <2> QED
    BY <1>0, <1>4, <2>1, <2>2, <2>3
<1>6. posted[k] + left = Wanted(k) /\ Wanted(k) <= Taken(k) /\ posted[k] >= 0
  BY <1>0, <1>1, <1>4, <1>5 DEF PostedFor
<1>7. Wanted(k) \in Int /\ Taken(k) \in Nat /\ posted[k] \in Int
  BY <1>5 DEF int
<1>8. posted[k] + 1 <= Wanted(k) /\ posted[k] + 1 <= Taken(k) /\ posted[k] + 1 >= 0
  <2> DEFINE p == posted[k]
             w == Wanted(k)
             t == Taken(k)
  <2>1. p + left = w /\ w <= t /\ p >= 0 /\ p \in Int /\ w \in Int /\ t \in Nat
    BY <1>6, <1>7
  <2> HIDE DEF p, w, t
  <2>2. p + 1 <= w /\ p + 1 <= t /\ p + 1 >= 0
    BY <1>1, <1>5, <2>1
  <2> QED
    BY <2>2 DEF p, w, t
<1> DEFINE f == [i \in 1..created |-> Taken(i)]
           g == [i \in 1..created |-> posted[i]]
           n == [i \in 1..created |-> IF i = k THEN posted[i] + 1 ELSE posted[i]]
<1>9. f \in [1..created -> Int] /\ g \in [1..created -> Int] /\ n \in [1..created -> Int]
  BY <1>5
<1>10. /\ g[k] = posted[k] /\ n[k] = posted[k] + 1
       /\ \A i \in (1..created) \ {k} : n[i] = g[i]
  BY <1>5
<1>11. ASSUME NEW i \in 1..created PROVE n[i] <= f[i]
  <2>1. CASE i = k
    BY <1>8, <2>1
  <2>2. CASE i # k
    <3>1. posted[i] <= Taken(i)
      <4>1. PostedFor(i) /\ posted[i] \in Int /\ Taken(i) \in Nat /\ Wanted(i) \in Int
        BY <1>4, <1>5 DEF int
      <4>2. CASE Datagram(i)
        <5>1. posted[i] <= Wanted(i) /\ Wanted(i) <= Taken(i)
          BY <4>1, <4>2 DEF PostedFor
        <5> QED
          BY <4>1, <5>1
      <4>3. CASE ~Datagram(i)
        <5>1. posted[i] = 0
          BY <4>1, <4>3 DEF PostedFor
        <5> QED
          BY <4>1, <5>1
      <4> QED
        BY <4>2, <4>3
    <3> QED
      BY <2>2, <3>1
  <2> QED
    BY <2>1, <2>2
<1>12. IsFiniteSet(1..created)
  BY <1>5, FS_Interval
<1>13. PostedSum = SumFunction(g) /\ TakenSum = SumFunction(f)
  BY DEF PostedSum, TakenSum
<1> HIDE DEF f, g, n
<1>14. SumFunction(n) = SumFunction(g) + n[k] - g[k]
  <2> DEFINE S == 1..created
  <2>1. /\ IsFiniteSet(S) /\ g \in [S -> Int] /\ n \in [S -> Int] /\ k \in S
        /\ \A i \in S \ {k} : n[i] = g[i]
    BY <1>5, <1>9, <1>10, <1>12
  <2> HIDE DEF S
  <2> QED
    BY <2>1, SumChange
<1>15. SumFunction(n) <= SumFunction(f)
  BY <1>9, <1>11, <1>12, SumLess
<1>16. SumFunction(n) = PostedSum + 1
  <2> DEFINE p == posted[k]
             s == PostedSum
  <2>1. p \in Int /\ s \in Int /\ SumFunction(n) = s + (p + 1) - p
    BY <1>5, <1>7, <1>10, <1>13, <1>14
  <2> HIDE DEF p, s
  <2>2. SumFunction(n) = s + 1
    BY <2>1
  <2> QED
    BY <2>2 DEF s
<1>17. PostedSum + 1 <= Segments
  <2> DEFINE s == PostedSum
             t == TakenSum
             c == Segments
  <2>1. s + 1 <= t /\ t <= c /\ s \in Int /\ t \in Nat /\ c \in Nat
    BY <1>3, <1>4, <1>5, <1>13, <1>15, <1>16
  <2> HIDE DEF s, t, c
  <2>2. s + 1 <= c
    BY <2>1
  <2> QED
    BY <2>2 DEF s, c
<1> DEFINE q == freeBufferIndex
<1>18. q \in Seq(0..(Segments - 1)) /\ Len(q) \in Nat /\ Len(q) > 0
  <2> DEFINE s == PostedSum
             c == Segments
             l == Len(q)
  <2>1. l \in Nat /\ l + s = c /\ s + 1 <= c /\ s \in Int /\ c \in Nat
    BY <1>3, <1>4, <1>5, <1>17
  <2> HIDE DEF s, c, l
  <2>2. l > 0
    BY <2>1
  <2> QED
    BY <1>4, <2>1, <2>2 DEF l
<1>19. q # <<>> /\ Head(q) \in 0..(Segments - 1)
       /\ Tail(q) \in Seq(0..(Segments - 1)) /\ Len(Tail(q)) = Len(q) - 1
  <2> DEFINE D == 0..(Segments - 1)
  <2>1. q \in Seq(D) /\ Len(q) > 0
    BY <1>18
  <2> HIDE DEF D, q
  <2>2. q # <<>> /\ Head(q) \in D /\ Tail(q) \in Seq(D) /\ Len(Tail(q)) = Len(q) - 1
    BY <2>1
  <2> QED
    BY <2>2 DEF D
<1>20. posted' = [posted EXCEPT ![k] = @ + 1] /\ freeBufferIndex' = Tail(q)
  <2>1. Accepts(Head(q))
    BY <1>3, <1>19
  <2> QED
    BY <1>0, <1>19, <2>1 DEF PostReceive
<1>21. \A i \in 1..created : posted'[i] = IF i = k THEN posted[i] + 1 ELSE posted[i]
  BY <1>5, <1>20
<1>22. PostedSum' = PostedSum + 1
  <2>1. [i \in 1..created |-> posted'[i]] = n
    BY <1>21 DEF n
  <2> QED
    BY <1>1, <1>16, <2>1 DEF PostedSum
<1>23. /\ Segments' = Segments /\ bufferCount' = bufferCount /\ TakenSum' = TakenSum
  BY <1>1 DEF bufferSize, bufferCount, Segments, TakenSum, Taken
<1>24. Len(freeBufferIndex') + PostedSum' = Segments'
  <2> DEFINE s == PostedSum
             l == Len(q)
  <2>1. s \in Int /\ l \in Nat /\ l + s = Segments
        /\ Len(freeBufferIndex') = l - 1 /\ PostedSum' = s + 1
    BY <1>4, <1>5, <1>18, <1>19, <1>20, <1>22
  <2> HIDE DEF s, l
  <2>2. (l - 1) + (s + 1) = l + s
    BY <2>1
  <2> QED
    BY <1>23, <2>1, <2>2
<1>25. ASSUME NEW i \in 1..created PROVE PostedFor(i)'
  <2>1. Wanted(i)' = Wanted(i) /\ Taken(i)' = Taken(i) /\ Datagram(i)' = Datagram(i)
    BY <1>1 DEF Wanted, Taken, Datagram
  <2>2. PostedFor(i)
    BY <1>4
  <2>3. CASE i # k
    BY <1>0, <1>1, <1>21, <2>1, <2>2, <2>3 DEF PostedFor
  <2>4. CASE i = k
    <3> DEFINE p == posted[k]
               w == Wanted(k)
    <3>1. p + left = w /\ p + 1 <= w /\ p + 1 >= 0 /\ p \in Int /\ left \in Int /\ w \in Int
      BY <1>5, <1>6, <1>7, <1>8
    <3>2. posted'[i] = p + 1 /\ left' = left - 1
      BY <1>1, <1>21, <2>4
    <3> HIDE DEF p, w
    <3>3. (p + 1) + (left - 1) = w
      BY <3>1
    <3>4. posted'[i] + left' = w /\ posted'[i] <= w /\ posted'[i] >= 0
      BY <3>1, <3>2, <3>3
    <3>5. Datagram(i)' /\ Wanted(i)' = w /\ Wanted(i)' <= Taken(i)' /\ main' = "post"
          /\ created' = i
      BY <1>0, <1>1, <1>4, <1>6, <2>1, <2>4 DEF w
    <3> QED
      BY <3>4, <3>5 DEF PostedFor
  <2> QED
    BY <2>3, <2>4
<1>26. created' > 0 /\ Datagram(created)'
  BY <1>0, <1>1, <1>4 DEF Datagram
<1>27. TakenSum' <= bufferCount' /\ freeBufferIndex' \in Seq(0..(Segments' - 1))
  BY <1>4, <1>19, <1>20, <1>23
<1> HIDE DEF q
<1> QED
  BY <1>1, <1>24, <1>25, <1>26, <1>27 DEF PostInv

LEMMA PostReceivesPosted ==
  ASSUME ConfigInv, SetupInv, PostInv, ReceivesPosted, main' \in LaidOut, Fits'
  PROVE  PostInv'
<1>1. /\ main = "post" /\ main' = "create" /\ left <= 0
      /\ UNCHANGED <<config, setup, creation>>
  BY DEF ReceivesPosted
<1>2. main \in LaidOut /\ Fits
  BY <1>1 DEF Fits, bufferSize, bufferCount, LaidOut, Places, setup
<1>3. /\ freeBufferIndex \in Seq(0..(Segments - 1))
      /\ Len(freeBufferIndex) + PostedSum = Segments /\ TakenSum <= bufferCount
      /\ \A i \in 1..created : PostedFor(i)
  BY <1>1, <1>2 DEF PostInv
<1>4. ASSUME NEW i \in 1..created PROVE PostedFor(i)'
  <2>1. /\ Wanted(i)' = Wanted(i) /\ Taken(i)' = Taken(i) /\ Datagram(i)' = Datagram(i)
        /\ posted'[i] = posted[i] /\ main' # "post"
    BY <1>1 DEF Wanted, Taken, Datagram, creation
  <2>2. Datagram(i) => posted[i] = Wanted(i)
    <3>1. CASE i # created
      BY <1>3, <3>1 DEF PostedFor
    <3>2. CASE i = created /\ Datagram(i)
      <4> DEFINE p == posted[i]
                 w == Wanted(i)
      <4>1. p <= w /\ p + left = w
        BY <1>1, <1>3, <3>2 DEF PostedFor
      <4>2. p \in Int /\ left \in Int /\ w \in Int
        <5>1. created <= Len(config.services) /\ created \in Nat /\ Len(config.services) \in Nat
          BY SumTypes
        <5>2. w \in int
          BY <5>1, TakenType
        <5>3. posted \in Seq(Int) /\ left \in Int /\ created = Len(posted)
          BY DEF SetupInv
        <5> QED
          BY <5>2, <5>3 DEF int
      <4> HIDE DEF p, w
      <4>3. p = w
        BY <1>1, <4>1, <4>2
      <4> QED
        BY <4>3 DEF p, w
    <3> QED
      BY <3>1, <3>2
  <2>3. PostedFor(i)
    BY <1>3
  <2>4. posted'[i] >= 0 /\ (~Datagram(i)' => posted'[i] = 0)
        /\ (Datagram(i)' => posted'[i] <= Wanted(i)' /\ Wanted(i)' <= Taken(i)')
    BY <2>1, <2>3 DEF PostedFor
  <2> QED
    BY <2>1, <2>2, <2>4 DEF PostedFor
<1>5. /\ Segments' = Segments /\ bufferCount' = bufferCount /\ TakenSum' = TakenSum
      /\ PostedSum' = PostedSum /\ freeBufferIndex' = freeBufferIndex /\ created' = created
  BY <1>1 DEF bufferSize, bufferCount, Segments, TakenSum, Taken, PostedSum, setup, creation
<1> QED
  BY <1>1, <1>3, <1>4, <1>5 DEF PostInv

LEMMA PostStep ==
  ASSUME ConfigInv, SetupInv, PostInv, [Next]_vars
  PROVE  PostInv'
<1> SUFFICES ASSUME main' \in LaidOut, Fits' PROVE PostInv'
  BY DEF PostInv
<1>1. CASE UNCHANGED vars \/ Load
  BY <1>1, PostSame DEF vars, Load, tmain, setup, creation
<1>2. CASE Loaded \/ Fail
  BY <1>2 DEF Loaded, Fail, Exit, LaidOut
<1>3. CASE InitializeRIO
  BY <1>3, PostInitialize
<1>4. CASE CreateIOCP \/ CreateCQ
  BY <1>4, PostSame DEF CreateIOCP, CreateCQ, creation, LaidOut, Places
<1>5. CASE CreateDatagram
  BY <1>5, PostCreateDatagram
<1>6. CASE PostReceive
  BY <1>6, PostPostReceive
<1>7. CASE ReceivesPosted
  BY <1>7, PostReceivesPosted
<1>8. CASE CreateListener
  BY <1>8, PostCreateListener
<1>9. CASE CreateThreads \/ AddEntryToService \/ CloseServiceEntry \/ EscapeAndJoin
  BY <1>9, PostSame DEF CreateThreads, AddEntryToService, CloseServiceEntry, EscapeAndJoin,
     setup, creation, Working, LaidOut, Places
<1>10. CASE CloseAllSockets \/ CloseCQs \/ CloseIOCPHandles \/ DeleteDump
  BY <1>10, PostSame DEF CloseAllSockets, CloseCQs, CloseIOCPHandles, DeleteDump,
     setup, creation, LaidOut, Places
<1>11. CASE ShutdownCleanup \/ Destruct
  BY <1>11 DEF ShutdownCleanup, Destruct, Fits
<1> QED
  BY <1>1, <1>2, <1>3, <1>4, <1>5, <1>6, <1>7, <1>8, <1>9, <1>10, <1>11 DEF Next

\* InitialReceivesPosted for every configuration: a server that runs has posted every
\* receive of its datagram services, though nobody looks at whether they were.
THEOREM ReceivesPostedAtStart == Spec => []InitialReceivesPosted
<1>1. Init => PostInv
  BY DEF Init, PostInv, LaidOut
<1>2. ConfigInv /\ SetupInv /\ PostInv /\ [Next]_vars => PostInv'
  BY PostStep
<1>3. PostInv => InitialReceivesPosted
  <2> SUFFICES ASSUME PostInv, main = "running", Fits,
                      NEW i \in 1..created, Datagram(i)
               PROVE  posted[i] = Wanted(i)
    BY DEF InitialReceivesPosted, Fits, Datagram, Wanted
  <2>1. main \in LaidOut
    BY DEF LaidOut, Places
  <2> QED
    BY <2>1 DEF PostInv, PostedFor
<1> QED
  BY <1>1, <1>2, <1>3, ConfigInvariant, SetupInvariant, PTL DEF Spec
=============================================================================
