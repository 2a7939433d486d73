------------------------- MODULE ServiceEntriesProofs -------------------------
(***************************************************************************)
(* Theorems about ServiceEntries, for any number of threads, buffers,       *)
(* handles and connections.                                                 *)
(***************************************************************************)
EXTENDS ServiceEntries, DataFacts, FiniteSetTheorems, TLAPS

AddPCs   == {"add_copy", "add_find", "add_insert", "add_inserting"}
RxPCs    == {"rx_get", "rx_copy", "rx_find", "rx_post"}
HasBuf   == {"rx_copy", "rx_find", "rx_post"}
ClosePCs == {"cl_entry", "cl_close", "cl_erase", "cl_erasing"}
HasEntry == ClosePCs \cup {"rx_post", "tx_entry", "tx_send"}
MayWait  == {"add_find", "rx_find", "rx_post"}

Completion == [buf : Buffers, conn : Connections, ok : BOOLEAN]

(* The types that TypeOK states, and those of the owners of the sections.   *)
World ==
  /\ open \subseteq Connections
  /\ handle \in [Connections -> Handles \cup {0}]
  /\ requests \subseteq Request
  /\ cq \in Seq(Completion)
  /\ socketList \subseteq Connections
  /\ roundRobinLocation \in Handles \cup {0} /\ isAddressRequired \in BOOLEAN
  /\ free \subseteq Buffers
  /\ socketContext \in [Buffers -> Handles \cup {0}]
  /\ operationType \in [Buffers -> {"OP_RECEIVE", "OP_SEND"}]
  /\ source \in [Buffers -> Connections \cup {0}]
  /\ used \in [DOMAIN Bound -> Nat] /\ used["connection"] <= Bound["connection"]
  /\ listCS \in Threads \cup {NoThread}
  /\ entryCS \in [Connections -> Threads \cup {NoThread}]

Shape == World /\ pc \in [Threads -> PCs] /\ job \in [Threads -> Job]

(* What a thread works on, by where it is: on a message exactly when it is  *)
(* not setting up a connection, with a buffer for a receive exactly between *)
(* GetBuffer and the post, and in a copied section only where it has one.   *)
JobAt(l, j) ==
  /\ l = "idle" => j = NoJob
  /\ j.msg \in Buffers <=> l # "idle" /\ j.left = 0
  /\ j.buf \in Buffers <=> l \in HasBuf
  /\ l \notin AddPCs \cup RxPCs => j.left = 0
  /\ l \in AddPCs => j.left # 0 /\ j.conn \in Connections
  /\ l \in HasEntry => j.entry \in Connections
  /\ j.held => l \in MayWait

Jobs == \A t \in Threads : JobAt(pc[t], job[t])

(* A section is held by a thread exactly where the code is inside it.       *)
Sections ==
  /\ \A t \in Threads : listCS = t <=> pc[t] \in InList
  /\ \A t \in Threads, c \in Connections :
       entryCS[c] = t <=> pc[t] \in InEntry /\ job[t].entry = c

TypeInv == Shape /\ Jobs /\ Sections

(* The list, the sockets and the threads that add to the one or close the   *)
(* other.                                                                   *)
Distinct(C) == \A c, d \in C : handle[c] = handle[d] => c = d

AddingAt(t) ==
  pc[t] \in AddPCs =>
    /\ job[t].conn \in open \ socketList
    /\ job[t].key = handle[job[t].conn]
    /\ pc[t] # "add_copy" /\ ~job[t].held => Find(job[t].key) = {}

ClosingAt(t) ==
  pc[t] \in ClosePCs =>
    /\ job[t].entry \in socketList
    /\ job[t].key = handle[job[t].entry]
    /\ job[t].entry \in open <=> pc[t] \in {"cl_entry", "cl_close"}

ListInv ==
  /\ open \cup socketList \subseteq 1..used["connection"]
  /\ Distinct(open) /\ Distinct(socketList)
  /\ \A c \in socketList : c \in open \/ Closing(c)
  /\ \A c \in open : c \in socketList \/ Adding(c)
  /\ \A t \in Threads : AddingAt(t) /\ ClosingAt(t)
  /\ \A t, u \in Threads :
       pc[t] \in AddPCs /\ pc[u] \in AddPCs /\ job[t].conn = job[u].conn => t = u

(* Each buffer has an owner, and no two.                                    *)
Queued(b) == \E i \in 1..Len(cq) : cq[i].buf = b

Owned(b) ==
  \/ b \in free
  \/ \E r \in requests : r.buf = b
  \/ Queued(b)
  \/ \E t \in Threads : job[t].msg = b
  \/ \E t \in Threads : job[t].buf = b

OwnersInv ==
  /\ \A b \in Buffers : Owned(b)
  /\ \A r, s \in requests : r.buf = s.buf => r = s
  /\ \A i, j \in 1..Len(cq) : cq[i].buf = cq[j].buf => i = j
  /\ \A t, u \in Threads : job[t].msg = job[u].msg /\ job[t].msg \in Buffers => t = u
  /\ \A t, u \in Threads : job[t].buf = job[u].buf /\ job[t].buf \in Buffers => t = u
  /\ \A r \in requests : r.buf \notin free /\ ~Queued(r.buf)
  /\ \A i \in 1..Len(cq) : cq[i].buf \notin free
  /\ \A t \in Threads :
       /\ job[t].msg \notin free /\ job[t].buf \notin free
       /\ ~Queued(job[t].msg) /\ ~Queued(job[t].buf)
       /\ \A r \in requests : r.buf # job[t].msg /\ r.buf # job[t].buf
       /\ \A u \in Threads : job[t].msg = job[u].buf => job[t].msg = NoBuffer

-----------------------------------------------------------------------------

LEMMA InitType == Init => TypeInv
<1> SUFFICES ASSUME Init PROVE TypeInv
  OBVIOUS
<1> USE DEF Init
<1>1. Shape
  BY ServiceAssumption DEF Shape, World, NoJob, Job, PCs
<1>2. Jobs
  BY NullsAssumption DEF Jobs, JobAt, NoJob, AddPCs, RxPCs, HasBuf, HasEntry, ClosePCs
<1>3. Sections
  BY NullsAssumption DEF Sections, InList, InEntry
<1> QED
  BY <1>1, <1>2, <1>3 DEF TypeInv

(* A step of thread t, which goes on at l with job j: what it does to each  *)
(* section, and to the owner of a buffer.                                   *)
Moves(t, l, j) ==
  /\ l \in PCs /\ j \in Job /\ JobAt(l, j)
  /\ pc' = [pc EXCEPT ![t] = l] /\ job' = [job EXCEPT ![t] = j]

ListSection(t, l) ==
  \/ UNCHANGED listCS /\ (l \in InList <=> pc[t] \in InList)
  \/ listCS = NoThread /\ listCS' = t /\ l \in InList
  \/ pc[t] \in InList /\ listCS' = NoThread /\ l \notin InList

EntrySection(t, l, j) ==
  \/ UNCHANGED entryCS /\ {l, pc[t]} \cap InEntry = {}
  \/ /\ pc[t] \notin InEntry /\ l \in InEntry
     /\ entryCS[j.entry] = NoThread /\ entryCS' = [entryCS EXCEPT ![j.entry] = t]
  \/ /\ pc[t] \in InEntry /\ l \notin InEntry
     /\ entryCS' = [entryCS EXCEPT ![job[t].entry] = NoThread]

\* The buffers of the thread are the same, or it gave up one of them.
Keeps(t, j)      == j.msg = job[t].msg /\ j.buf = job[t].buf
DropsMsg(t, j)   == job[t].msg \in Buffers /\ j.msg = NoBuffer /\ j.buf = job[t].buf
DropsBuf(t, j)   == job[t].buf \in Buffers /\ j.buf = NoBuffer /\ j.msg = job[t].msg
Posts(b)         == \E c \in Connections :
                      requests' = requests \cup {[buf |-> b, conn |-> c]}

OwnerStep(t, j) ==
  \/ Keeps(t, j) /\ UNCHANGED <<free, requests, cq>>
  \/ DropsMsg(t, j) /\ free' = free \cup {job[t].msg} /\ UNCHANGED <<requests, cq>>
  \/ DropsBuf(t, j) /\ free' = free \cup {job[t].buf} /\ UNCHANGED <<requests, cq>>
  \/ DropsMsg(t, j) /\ Posts(job[t].msg) /\ UNCHANGED <<free, cq>>
  \/ DropsBuf(t, j) /\ Posts(job[t].buf) /\ UNCHANGED <<free, cq>>
  \/ \E b \in free : /\ j.buf = b /\ j.msg = job[t].msg /\ job[t].buf = NoBuffer
                      /\ free' = free \ {b} /\ UNCHANGED <<requests, cq>>
  \/ /\ cq # <<>> /\ cq' = Tail(cq) /\ UNCHANGED <<free, requests>>
     /\ job[t].msg = NoBuffer /\ j.msg = Head(cq).buf /\ j.buf = job[t].buf

Effect(t, l, j) ==
  World' /\ Moves(t, l, j) /\ ListSection(t, l) /\ EntrySection(t, l, j) /\ OwnerStep(t, j)

(* The types and the sections after any such step.                          *)
LEMMA EffectTypes ==
  ASSUME TypeInv, NEW t \in Threads, NEW l, NEW j, Effect(t, l, j)
  PROVE  /\ TypeInv'
         /\ pc'[t] = l /\ job'[t] = j
         /\ \A u \in Threads \ {t} : pc'[u] = pc[u] /\ job'[u] = job[u]
<1> USE DEF Effect, TypeInv
<1>1. /\ pc'[t] = l /\ job'[t] = j
      /\ \A u \in Threads \ {t} : pc'[u] = pc[u] /\ job'[u] = job[u]
  BY DEF Shape, Moves
<1>2. Shape'
  BY DEF Shape, Moves
<1>3. Jobs'
  BY <1>1 DEF Jobs, Moves
<1>4. \A u \in Threads : listCS' = u <=> pc'[u] \in InList
  BY <1>1, NullsAssumption DEF Sections, ListSection
<1>5. \A u \in Threads, c \in Connections :
        entryCS'[c] = u <=> pc'[u] \in InEntry /\ job'[u].entry = c
  <2>1. CASE UNCHANGED entryCS /\ {l, pc[t]} \cap InEntry = {}
    BY <1>1, <2>1 DEF Sections
  <2>2. CASE /\ pc[t] \notin InEntry /\ l \in InEntry
             /\ entryCS[j.entry] = NoThread /\ entryCS' = [entryCS EXCEPT ![j.entry] = t]
    BY <1>1, <2>2, NullsAssumption DEF Sections, Shape, World
  <2>3. CASE /\ pc[t] \in InEntry /\ l \notin InEntry
             /\ entryCS' = [entryCS EXCEPT ![job[t].entry] = NoThread]
    <3>1. job[t].entry \in Connections
      BY <2>3 DEF Shape, Jobs, JobAt, InEntry, HasEntry, ClosePCs
    <3>2. entryCS[job[t].entry] = t
      BY <2>3, <3>1 DEF Sections
    <3>3. \A u \in Threads \ {t} : ~(pc[u] \in InEntry /\ job[u].entry = job[t].entry)
      BY <3>1, <3>2 DEF Sections
    <3>4. entryCS'[job[t].entry] = NoThread
          /\ \A c \in Connections \ {job[t].entry} : entryCS'[c] = entryCS[c]
      BY <2>3, <3>1 DEF Shape, World
    <3>5. \A c \in Connections \ {job[t].entry} : entryCS[c] # t
      BY <3>2 DEF Sections
    <3> QED
      BY <1>1, <2>3, <3>1, <3>3, <3>4, <3>5, NullsAssumption DEF Sections
  <2> QED
    BY <2>1, <2>2, <2>3 DEF EntrySection
<1> QED
  BY <1>1, <1>2, <1>3, <1>4, <1>5 DEF Sections

-----------------------------------------------------------------------------
(* The steps of a thread.                                                   *)

LEMMA Now ==
  ASSUME TypeInv, NEW t \in Threads
  PROVE  /\ job[t] \in Job /\ JobAt(pc[t], job[t])
         /\ pc[t] \in PCs /\ job[t].left \in Nat
         /\ job[t].msg \in Buffers \cup {NoBuffer} /\ job[t].buf \in Buffers \cup {NoBuffer}
         /\ UNCHANGED job => job' = [job EXCEPT ![t] = job[t]]
BY ServiceAssumption DEF TypeInv, Shape, Jobs, Job

LEMMA Finishes ==
  ASSUME TypeInv, NEW t \in Threads, World', Finish(t),
         ListSection(t, "idle"), EntrySection(t, "idle", NoJob), OwnerStep(t, NoJob)
  PROVE  Effect(t, "idle", NoJob)
<1>1. NoJob \in Job /\ JobAt("idle", NoJob)
  BY NullsAssumption, ServiceAssumption DEF NoJob, Job, JobAt, AddPCs, RxPCs, HasBuf, HasEntry,
     ClosePCs
<1> QED
  BY <1>1 DEF Effect, Moves, Finish, Goto, Become, PCs

\* The buffer of the message is freed.
LEMMA FreesAndFinishes ==
  ASSUME TypeInv, NEW t \in Threads, pc[t] # "idle", job[t].left = 0, pc[t] \notin HasBuf,
         FreeAndFinish(t), UNCHANGED <<windows, operationType, source, used, lists>>,
         listCS' \in Threads \cup {NoThread}, entryCS' \in [Connections -> Threads \cup {NoThread}],
         ListSection(t, "idle"), EntrySection(t, "idle", NoJob)
  PROVE  Effect(t, "idle", NoJob)
<1>1. job[t].msg \in Buffers /\ job[t].buf = NoBuffer
  BY Now DEF JobAt
<1>2. World'
  BY <1>1 DEF FreeAndFinish, FreeBuffer, TypeInv, Shape, World, windows, lists
<1>3. OwnerStep(t, NoJob)
  BY <1>1 DEF FreeAndFinish, FreeBuffer, OwnerStep, DropsMsg, NoJob, windows
<1> QED
  BY <1>2, <1>3, Finishes DEF FreeAndFinish

\* Only the place of the thread changes, and the sections.
LEMMA GoesOn ==
  ASSUME TypeInv, NEW t \in Threads, NEW l \in PCs, World', Goto(t, l),
         UNCHANGED <<job, free, requests, cq>>,
         JobAt(l, job[t]), ListSection(t, l), EntrySection(t, l, job[t])
  PROVE  Effect(t, l, job[t])
BY Now DEF Effect, Moves, Goto, OwnerStep, Keeps

\* Another job with the same buffers.
LEMMA GoesOnWith ==
  ASSUME TypeInv, NEW t \in Threads, NEW l \in PCs, NEW j \in Job, World', Goto(t, l),
         job' = [job EXCEPT ![t] = j], Keeps(t, j), UNCHANGED <<free, requests, cq>>,
         JobAt(l, j), ListSection(t, l), EntrySection(t, l, j)
  PROVE  Effect(t, l, j)
BY DEF Effect, Moves, Goto, OwnerStep

LEMMA Copies ==
  ASSUME TypeInv, NEW t \in Threads, NEW l \in {"add_find", "rx_find"}, CopyService(t), World',
         Goto(t, l), UNCHANGED <<listCS, entryCS, free, requests, cq>>,
         pc[t] = IF l = "add_find" THEN "add_copy" ELSE "rx_copy"
  PROVE  \E j : Effect(t, l, j)
<1>1. job[t] \in Job /\ JobAt(pc[t], job[t])
  BY Now
<1>2. PICK h \in BOOLEAN : job' = [job EXCEPT ![t].held = h]
  BY DEF CopyService
<1> DEFINE j == [job[t] EXCEPT !.held = h]
<1>3. /\ j \in Job /\ j.held = h /\ j.msg = job[t].msg /\ j.buf = job[t].buf
      /\ j.conn = job[t].conn /\ j.left = job[t].left
  BY <1>1 DEF Job
<1>4. job' = [job EXCEPT ![t] = j]
  BY <1>2
<1> HIDE DEF j
<1>5. JobAt(l, j)
  BY <1>1, <1>3 DEF JobAt, AddPCs, RxPCs, HasBuf, HasEntry, ClosePCs, MayWait
<1>6. Keeps(t, j) /\ ListSection(t, l) /\ EntrySection(t, l, j)
  BY <1>3 DEF Keeps, ListSection, EntrySection, InList, InEntry
<1> QED
  BY <1>3, <1>4, <1>5, <1>6, GoesOnWith DEF PCs

\* The entry to work on is found.
LEMMA FindsEntry ==
  ASSUME TypeInv, NEW t \in Threads, NEW l \in {"tx_entry", "cl_entry"}, NEW c \in Connections,
         World', Goto(t, l), job' = [job EXCEPT ![t].entry = c],
         UNCHANGED <<free, requests, cq, entryCS>>,
         pc[t] \in {"tx_find", "tx_robin", "cl_find"}, ListSection(t, l)
  PROVE  \E j : Effect(t, l, j)
<1>1. job[t] \in Job /\ JobAt(pc[t], job[t])
  BY Now
<1> DEFINE j == [job[t] EXCEPT !.entry = c]
<1>2. /\ j \in Job /\ j.msg = job[t].msg /\ j.buf = job[t].buf /\ j.left = job[t].left
      /\ j.held = job[t].held /\ j.entry = c /\ job' = [job EXCEPT ![t] = j]
  BY <1>1 DEF Job
<1> HIDE DEF j
<1>3. JobAt(l, j)
  BY <1>1, <1>2 DEF JobAt, AddPCs, RxPCs, HasBuf, HasEntry, ClosePCs, MayWait
<1>4. Keeps(t, j) /\ EntrySection(t, l, j)
  BY <1>2 DEF Keeps, EntrySection, InEntry
<1>5. l \in PCs
  BY DEF PCs, InList
<1> QED
  BY <1>2, <1>3, <1>4, <1>5, GoesOnWith

LEMMA AddEffect ==
  ASSUME TypeInv, NEW t \in Threads, Add(t)
  PROVE  \E l, j : Effect(t, l, j)
<1> USE DEF windows, service, lists, buffers
<1>0. job[t] \in Job /\ JobAt(pc[t], job[t])
  BY Now
<1>1. World'
  BY <1>0 DEF Add, AddCopy, AddFind, AddBegin, AddInsert, TypeInv, Shape, World, JobAt, AddPCs
<1>2. CASE AddCopy(t)
  BY <1>1, <1>2, Copies DEF AddCopy
<1>3. CASE AddFind(t)
  <2>1. CASE Finish(t)
    <3>1. OwnerStep(t, NoJob)
      BY <1>0, <1>3, Now DEF AddFind, OwnerStep, Keeps, NoJob, JobAt, AddPCs, HasBuf
    <3> QED
      BY <1>1, <1>3, <2>1, <3>1, Finishes DEF AddFind, ListSection, EntrySection, InList, InEntry
  <2>2. CASE Goto(t, "add_insert") /\ UNCHANGED job
    BY <1>0, <1>1, <1>3, <2>2, GoesOn DEF AddFind, PCs, JobAt, AddPCs, RxPCs, HasBuf, HasEntry,
       ClosePCs, ListSection, EntrySection, InList, InEntry
  <2> QED
    BY <1>3, <2>1, <2>2 DEF AddFind
<1>4. CASE AddBegin(t)
  BY <1>0, <1>1, <1>4, GoesOn DEF AddBegin, PCs, JobAt, AddPCs, RxPCs, HasBuf, HasEntry,
     ClosePCs, MayWait, ListSection, EntrySection, InList, InEntry
<1>5. CASE AddInsert(t)
  BY <1>0, <1>1, <1>5, GoesOn DEF AddInsert, PCs, JobAt, AddPCs, RxPCs, HasBuf, HasEntry,
     ClosePCs, MayWait, ListSection, EntrySection, InList, InEntry
<1> QED
  BY <1>2, <1>3, <1>4, <1>5 DEF Add

\* AfterReceive goes on without a buffer, for the same message.
LEMMA AfterReceiveMoves ==
  ASSUME TypeInv, NEW t \in Threads, pc[t] \in RxPCs, AfterReceive(t)
  PROVE  \E l, j : /\ Moves(t, l, j) /\ l \in {"rx_get", "idle", "tx_empty"}
                   /\ j.buf = NoBuffer /\ j.msg = job[t].msg
<1>0. job[t] \in Job /\ JobAt(pc[t], job[t]) /\ job[t].left \in Nat
  BY Now
<1> DEFINE next == [job[t] EXCEPT !.buf = NoBuffer, !.entry = 0, !.held = FALSE]
<1>1. /\ next \in Job /\ next.buf = NoBuffer /\ next.msg = job[t].msg /\ ~next.held
      /\ next.left = job[t].left
  BY <1>0 DEF Job
<1>2. CASE job[t].left > 1
  <2> DEFINE j == [next EXCEPT !.left = @ - 1]
  <2>1. pc' = [pc EXCEPT ![t] = "rx_get"] /\ job' = [job EXCEPT ![t] = j]
    <3>1. job[t].left # 1 /\ job[t].left # 0
      BY <1>0, <1>2
    <3>2. Goto(t, "rx_get") /\ Become(t, j)
      BY <1>2, <3>1 DEF AfterReceive
    <3> HIDE DEF j, next
    <3> QED
      BY <3>2 DEF Goto, Become
  <2> HIDE DEF next
  <2>2. /\ j \in Job /\ j.buf = NoBuffer /\ j.msg = job[t].msg /\ ~j.held
        /\ j.left = job[t].left - 1
    BY <1>0, <1>1, <1>2, ServiceAssumption DEF Job
  <2> HIDE DEF j
  <2>3. JobAt("rx_get", j)
    BY <1>0, <1>2, <2>2, NullsAssumption DEF JobAt, AddPCs, RxPCs, HasBuf, HasEntry, ClosePCs
  <2> QED
    BY <2>1, <2>2, <2>3 DEF Moves, PCs
<1>3. CASE job[t].left = 1
  <2>1. NoJob \in Job /\ JobAt("idle", NoJob) /\ NoJob.buf = NoBuffer /\ NoJob.msg = NoBuffer
    BY NullsAssumption, ServiceAssumption DEF NoJob, Job, JobAt, AddPCs, RxPCs, HasBuf,
       HasEntry, ClosePCs
  <2>2. job[t].msg = NoBuffer
    BY <1>0, <1>3, Now DEF JobAt
  <2>3. pc' = [pc EXCEPT ![t] = "idle"] /\ job' = [job EXCEPT ![t] = NoJob]
    BY <1>3 DEF AfterReceive, Finish, Goto, Become
  <2> QED
    BY <2>1, <2>2, <2>3 DEF Moves, PCs
<1>4. CASE job[t].left = 0
  <2>1. pc' = [pc EXCEPT ![t] = "tx_empty"] /\ job' = [job EXCEPT ![t] = next]
    BY <1>4 DEF AfterReceive, Goto, Become
  <2> HIDE DEF next
  <2>2. JobAt("tx_empty", next)
    BY <1>0, <1>1, <1>4, NullsAssumption DEF JobAt, AddPCs, RxPCs, HasBuf, HasEntry, ClosePCs
  <2> QED
    BY <1>1, <2>1, <2>2 DEF Moves, PCs
<1> QED
  BY <1>0, <1>2, <1>3, <1>4

LEMMA ReceiveEffect ==
  ASSUME TypeInv, NEW t \in Threads, Receive(t)
  PROVE  \E l, j : Effect(t, l, j)
<1> USE DEF windows, service, lists, buffers
<1>0. /\ job[t] \in Job /\ JobAt(pc[t], job[t])
      /\ job[t].buf \in Buffers \cup {NoBuffer}
  BY Now
<1>1. World'
  <2> USE DEF TypeInv, Shape, World
  <2>1. CASE ReceiveGet(t) \/ ReceiveCopy(t)
    BY <2>1 DEF ReceiveGet, ReceiveCopy
  <2>2. CASE ReceiveFind(t)
    BY <1>0, <2>2 DEF ReceiveFind, FreeBuffer, JobAt, HasBuf
  <2>3. CASE ReceivePost(t)
    <3>1. job[t].buf \in Buffers /\ job[t].entry \in Connections /\ job[t].key \in Handles \cup {0}
      BY <1>0, <2>3 DEF ReceivePost, JobAt, HasBuf, HasEntry, Job
    <3>2. requests' \subseteq Request
      BY <2>3, <3>1 DEF ReceivePost, Request
    <3> QED
      BY <2>3, <3>1, <3>2 DEF ReceivePost, FreeBuffer
  <2> QED
    BY <2>1, <2>2, <2>3 DEF Receive
<1>2. \A l : l \in {"rx_get", "idle", "tx_empty", "rx_copy", "rx_find", "rx_post"} =>
        l \notin InList \cup InEntry /\ l \in PCs
  BY DEF InList, InEntry, PCs
<1>3. UNCHANGED <<listCS, entryCS>> /\ pc[t] \in RxPCs
  BY DEF Receive, ReceiveGet, ReceiveCopy, ReceiveFind, ReceivePost, RxPCs
<1>a. ASSUME NEW l \in {"rx_get", "idle", "tx_empty", "rx_copy", "rx_find", "rx_post"}, NEW j
      PROVE  ListSection(t, l) /\ EntrySection(t, l, j)
  BY <1>2, <1>3 DEF ListSection, EntrySection, RxPCs
<1>4. CASE ReceiveGet(t)
  <2>1. CASE AfterReceive(t) /\ UNCHANGED free
    <3>1. PICK l, j : /\ Moves(t, l, j) /\ l \in {"rx_get", "idle", "tx_empty"}
                      /\ j.buf = NoBuffer /\ j.msg = job[t].msg
      BY <1>3, <2>1, AfterReceiveMoves
    <3>2. OwnerStep(t, j)
      BY <1>0, <1>4, <2>1, <3>1 DEF ReceiveGet, OwnerStep, Keeps, JobAt, HasBuf
    <3> QED
      BY <1>1, <1>a, <3>1, <3>2 DEF Effect
  <2>2. ASSUME NEW b \in free, free' = free \ {b}, job' = [job EXCEPT ![t].buf = b],
               Goto(t, "rx_copy")
        PROVE  \E l, j : Effect(t, l, j)
    <3> DEFINE j == [job[t] EXCEPT !.buf = b]
    <3>1. b \in Buffers
      BY DEF TypeInv, Shape, World
    <3>2. /\ j \in Job /\ j.buf = b /\ j.msg = job[t].msg /\ j.held = job[t].held
          /\ j.left = job[t].left /\ job' = [job EXCEPT ![t] = j]
      BY <1>0, <2>2, <3>1 DEF Job
    <3> HIDE DEF j
    <3>3. JobAt("rx_copy", j) /\ job[t].buf = NoBuffer
      BY <1>0, <1>4, <3>1, <3>2 DEF ReceiveGet, JobAt, AddPCs, RxPCs, HasBuf, HasEntry, ClosePCs,
         MayWait
    <3>4. Moves(t, "rx_copy", j)
      BY <1>2, <2>2, <3>2, <3>3 DEF Moves, Goto
    <3>5. OwnerStep(t, j)
      BY <1>4, <2>2, <3>2, <3>3 DEF ReceiveGet, OwnerStep
    <3> QED
      BY <1>1, <1>a, <3>4, <3>5 DEF Effect
  <2> QED
    BY <1>4, <2>1, <2>2 DEF ReceiveGet
<1>5. CASE ReceiveCopy(t)
  BY <1>1, <1>5, Copies DEF ReceiveCopy
<1>6. CASE ReceiveFind(t)
  <2>1. CASE FreeBuffer(job[t].buf) /\ AfterReceive(t)
    <3>1. PICK l, j : /\ Moves(t, l, j) /\ l \in {"rx_get", "idle", "tx_empty"}
                      /\ j.buf = NoBuffer /\ j.msg = job[t].msg
      BY <1>3, <2>1, AfterReceiveMoves
    <3>2. OwnerStep(t, j)
      BY <1>0, <1>6, <2>1, <3>1 DEF ReceiveFind, OwnerStep, DropsBuf, FreeBuffer, JobAt, HasBuf
    <3> QED
      BY <1>1, <1>a, <3>1, <3>2 DEF Effect
  <2>2. ASSUME NEW c \in Find(job[t].key), Goto(t, "rx_post"),
               job' = [job EXCEPT ![t].entry = c, ![t].held = entryCS[c] # NoThread],
               UNCHANGED free
        PROVE  \E l, j : Effect(t, l, j)
    <3>1. c \in Connections
      BY DEF TypeInv, Shape, World, Find
    <3>2. PICK h \in BOOLEAN : job' = [job EXCEPT ![t].entry = c, ![t].held = h]
      BY <2>2
    <3> DEFINE j == [job[t] EXCEPT !.entry = c, !.held = h]
    <3>3. /\ j \in Job /\ j.buf = job[t].buf /\ j.msg = job[t].msg /\ j.entry = c
          /\ j.left = job[t].left
      BY <1>0, <3>1 DEF Job
    <3>4. job' = [job EXCEPT ![t] = j]
      BY <1>0, <3>2 DEF TypeInv, Shape, Job
    <3> HIDE DEF j
    <3>5. JobAt("rx_post", j)
      BY <1>0, <1>6, <3>1, <3>3 DEF ReceiveFind, JobAt, AddPCs, RxPCs, HasBuf, HasEntry, ClosePCs,
         MayWait
    <3> QED
      BY <1>1, <1>2, <1>6, <1>a, <2>2, <3>3, <3>4, <3>5, GoesOnWith DEF ReceiveFind, Keeps
  <2> QED
    BY <1>6, <2>1, <2>2 DEF ReceiveFind
<1>7. CASE ReceivePost(t)
  <2>1. PICK l, j : /\ Moves(t, l, j) /\ l \in {"rx_get", "idle", "tx_empty"}
                    /\ j.buf = NoBuffer /\ j.msg = job[t].msg
    BY <1>3, <1>7, AfterReceiveMoves DEF ReceivePost
  <2>2. DropsBuf(t, j) /\ job[t].entry \in Connections
    BY <1>0, <1>7, <2>1 DEF ReceivePost, DropsBuf, JobAt, HasBuf, HasEntry
  <2>3. OwnerStep(t, j)
    BY <1>7, <2>2 DEF ReceivePost, OwnerStep, FreeBuffer, Posts
  <2> QED
    BY <1>1, <1>a, <2>1, <2>3 DEF Effect
<1> QED
  BY <1>4, <1>5, <1>6, <1>7 DEF Receive

LEMMA EnterEffect ==
  ASSUME TypeInv, NEW t \in Threads, SendEnter(t) \/ SendRobinEnter(t) \/ CloseEnter(t)
  PROVE  \E l, j : Effect(t, l, j)
<1>0. JobAt(pc[t], job[t])
  BY Now
<1>1. PICK from, to :
        /\ EnterList(t, from, to)
        /\ \/ from = "tx_enter" /\ to = "tx_find"
           \/ from = "tx_robin_enter" /\ to = "tx_robin"
           \/ from = "cl_enter" /\ to = "cl_find"
  BY DEF SendEnter, SendRobinEnter, CloseEnter
<1>2. World'
  BY <1>1 DEF EnterList, TypeInv, Shape, World, windows, lists, buffers
<1>3. JobAt(to, job[t]) /\ to \in PCs
  <2> USE DEF EnterList, JobAt, AddPCs, RxPCs, HasBuf, HasEntry, ClosePCs, MayWait
  <2>1. pc[t] = from /\ to \in InList
    BY <1>1 DEF InList
  <2>2. CASE from = "tx_enter" /\ to = "tx_find"
    BY <1>0, <2>1, <2>2 DEF PCs
  <2>3. CASE from = "tx_robin_enter" /\ to = "tx_robin"
    BY <1>0, <2>1, <2>3 DEF PCs
  <2>4. CASE from = "cl_enter" /\ to = "cl_find"
    BY <1>0, <2>1, <2>4 DEF PCs
  <2> QED
    BY <1>1, <2>2, <2>3, <2>4
<1>4. ListSection(t, to) /\ EntrySection(t, to, job[t])
  BY <1>1 DEF EnterList, ListSection, EntrySection, InList, InEntry
<1> QED
  BY <1>1, <1>2, <1>3, <1>4, GoesOn DEF EnterList, windows, buffers

LEMMA SendEffect ==
  ASSUME TypeInv, NEW t \in Threads, Send(t)
  PROVE  \E l, j : Effect(t, l, j)
<1> USE DEF windows, service, lists, buffers
<1>0. /\ job[t] \in Job /\ JobAt(pc[t], job[t])
      /\ job[t].msg \in Buffers \cup {NoBuffer} /\ job[t].buf \in Buffers \cup {NoBuffer}
  BY Now
<1> USE DEF AddPCs, RxPCs, HasBuf, HasEntry, ClosePCs
<1>1. CASE SendEmpty(t)
  <2>1. CASE FreeAndFinish(t)
    <3>1. listCS' \in Threads \cup {NoThread} /\ entryCS' \in [Connections -> Threads \cup {NoThread}]
      BY <1>1 DEF SendEmpty, TypeInv, Shape, World
    <3> QED
      BY <1>0, <1>1, <2>1, <3>1, FreesAndFinishes DEF SendEmpty, JobAt, ListSection, EntrySection,
         InList, InEntry
  <2>2. ASSUME Goto(t, "tx_robin_enter"), UNCHANGED <<job, free, socketContext>>
        PROVE  \E l, j : Effect(t, l, j)
    <3>1. World'
      BY <1>1, <2>2 DEF SendEmpty, TypeInv, Shape, World
    <3> QED
      BY <1>0, <1>1, <2>2, <3>1, GoesOn DEF SendEmpty, JobAt, PCs, MayWait, ListSection,
         EntrySection, InList, InEntry
  <2>3. ASSUME NEW h \in Handles, job' = [job EXCEPT ![t].key = h], Goto(t, "tx_enter"),
               UNCHANGED <<free, socketContext>>
        PROVE  \E l, j : Effect(t, l, j)
    <3>1. World'
      BY <1>1, <2>3 DEF SendEmpty, TypeInv, Shape, World
    <3> DEFINE j == [job[t] EXCEPT !.key = h]
    <3>2. /\ j \in Job /\ j.msg = job[t].msg /\ j.buf = job[t].buf /\ j.left = job[t].left
          /\ j.held = job[t].held /\ job' = [job EXCEPT ![t] = j]
      BY <1>0, <2>3 DEF Job
    <3> HIDE DEF j
    <3>3. JobAt("tx_enter", j)
      BY <1>0, <1>1, <3>2 DEF SendEmpty, JobAt, MayWait
    <3> QED
      BY <1>1, <2>3, <3>1, <3>2, <3>3, GoesOnWith DEF SendEmpty, Keeps, PCs, ListSection,
         EntrySection, InList, InEntry
  <2> QED
    BY <1>1, <2>1, <2>2, <2>3 DEF SendEmpty
<1>2. CASE SendFind(t)
  <2>1. CASE FreeAndFinish(t)
    <3>1. listCS' \in Threads \cup {NoThread} /\ entryCS' \in [Connections -> Threads \cup {NoThread}]
      BY <1>2 DEF SendFind, TypeInv, Shape, World
    <3> QED
      BY <1>0, <1>2, <2>1, <3>1, FreesAndFinishes DEF SendFind, JobAt, ListSection, EntrySection,
         InList, InEntry
  <2>2. ASSUME Goto(t, "tx_robin_enter"), UNCHANGED <<job, free, socketContext>>
        PROVE  \E l, j : Effect(t, l, j)
    <3>1. World'
      BY <1>2, <2>2 DEF SendFind, TypeInv, Shape, World
    <3> QED
      BY <1>0, <1>2, <2>2, <3>1, GoesOn DEF SendFind, JobAt, PCs, MayWait, ListSection,
         EntrySection, InList, InEntry
  <2>3. ASSUME NEW c \in Find(job[t].key), job' = [job EXCEPT ![t].entry = c], Goto(t, "tx_entry"),
               UNCHANGED <<free, socketContext>>
        PROVE  \E l, j : Effect(t, l, j)
    <3>1. World' /\ c \in Connections
      BY <1>2, <2>3 DEF SendFind, TypeInv, Shape, World, Find
    <3>2. ListSection(t, "tx_entry") /\ pc[t] = "tx_find" /\ UNCHANGED <<requests, cq, entryCS>>
      BY <1>2 DEF SendFind, ListSection, InList
    <3> QED
      BY <2>3, <3>1, <3>2, FindsEntry DEF InEntry
  <2> QED
    BY <1>2, <2>1, <2>2, <2>3 DEF SendFind
<1>3. CASE SendRobin(t)
  <2>1. PICK c \in socketList : job' = [job EXCEPT ![t].entry = c]
    BY <1>3 DEF SendRobin
  <2>2. World' /\ c \in Connections
    BY <1>3, <2>1 DEF SendRobin, TypeInv, Shape, World
  <2>3. /\ ListSection(t, "tx_entry") /\ pc[t] = "tx_robin"
        /\ UNCHANGED <<free, requests, cq, entryCS>> /\ Goto(t, "tx_entry")
    BY <1>3 DEF SendRobin, ListSection, InList
  <2> QED
    BY <2>1, <2>2, <2>3, FindsEntry DEF InEntry
<1>4. CASE SendEnterEntry(t)
  <2>1. job[t].entry \in Connections
    BY <1>0, <1>4 DEF SendEnterEntry, JobAt
  <2>2. World'
    BY <1>4, <2>1 DEF SendEnterEntry, TypeInv, Shape, World
  <2>3. ListSection(t, "tx_send") /\ EntrySection(t, "tx_send", job[t])
    BY <1>4 DEF SendEnterEntry, ListSection, EntrySection, InList, InEntry
  <2>4. JobAt("tx_send", job[t]) /\ "tx_send" \in PCs
    BY <1>0, <1>4 DEF SendEnterEntry, JobAt, PCs, InEntry, MayWait
  <2> QED
    BY <1>4, <2>2, <2>3, <2>4, GoesOn DEF SendEnterEntry
<1>5. CASE SendPost(t)
  <2>1. /\ job[t].entry \in Connections /\ job[t].msg \in Buffers /\ job[t].buf = NoBuffer
        /\ pc[t] = "tx_send"
    BY <1>0, <1>5 DEF SendPost, JobAt
  <2>2. World'
    <3>1. requests' \subseteq Request
      BY <1>5, <2>1 DEF SendPost, TypeInv, Shape, World, Request
    <3> QED
      BY <1>5, <2>1, <3>1 DEF SendPost, FreeBuffer, TypeInv, Shape, World
  <2>3. ListSection(t, "idle") /\ EntrySection(t, "idle", NoJob)
    BY <1>5 DEF SendPost, ListSection, EntrySection, InList, InEntry
  <2>4. OwnerStep(t, NoJob)
    BY <1>5, <2>1 DEF SendPost, OwnerStep, DropsMsg, Posts, FreeBuffer, NoJob
  <2> QED
    BY <1>5, <2>2, <2>3, <2>4, Finishes DEF SendPost
<1> QED
  BY <1>1, <1>2, <1>3, <1>4, <1>5, EnterEffect DEF Send

LEMMA CloseEffect ==
  ASSUME TypeInv, NEW t \in Threads, Close(t)
  PROVE  \E l, j : Effect(t, l, j)
<1> USE DEF windows, service, lists, buffers
<1>0. /\ job[t] \in Job /\ JobAt(pc[t], job[t])
      /\ job[t].msg \in Buffers \cup {NoBuffer} /\ job[t].buf \in Buffers \cup {NoBuffer}
  BY Now
<1> USE DEF AddPCs, RxPCs, HasBuf, HasEntry, ClosePCs
<1>1. CASE CloseFind(t)
  <2>1. CASE listCS' = NoThread /\ FreeAndFinish(t)
    <3>1. entryCS' \in [Connections -> Threads \cup {NoThread}]
      BY <1>1 DEF CloseFind, TypeInv, Shape, World
    <3> QED
      BY <1>0, <1>1, <2>1, <3>1, FreesAndFinishes DEF CloseFind, JobAt, ListSection, EntrySection,
         InList, InEntry
  <2>2. ASSUME NEW c \in Find(job[t].key), job' = [job EXCEPT ![t].entry = c], Goto(t, "cl_entry"),
               UNCHANGED <<listCS, free, socketContext>>
        PROVE  \E l, j : Effect(t, l, j)
    <3>1. World' /\ c \in Connections
      BY <1>1, <2>2 DEF CloseFind, TypeInv, Shape, World, Find
    <3>2. ListSection(t, "cl_entry") /\ pc[t] = "cl_find" /\ UNCHANGED <<requests, cq, entryCS>>
      BY <1>1, <2>2 DEF CloseFind, ListSection, InList
    <3> QED
      BY <2>2, <3>1, <3>2, FindsEntry DEF InEntry
  <2> QED
    BY <1>1, <2>1, <2>2 DEF CloseFind
<1>2. CASE CloseEnterEntry(t)
  <2>1. job[t].entry \in Connections
    BY <1>0, <1>2 DEF CloseEnterEntry, JobAt
  <2>2. World'
    BY <1>2, <2>1 DEF CloseEnterEntry, TypeInv, Shape, World
  <2>3. ListSection(t, "cl_close") /\ EntrySection(t, "cl_close", job[t])
    BY <1>2 DEF CloseEnterEntry, ListSection, EntrySection, InList, InEntry
  <2>4. JobAt("cl_close", job[t]) /\ "cl_close" \in PCs
    BY <1>0, <1>2 DEF CloseEnterEntry, JobAt, PCs, InEntry, MayWait
  <2> QED
    BY <1>2, <2>2, <2>3, <2>4, GoesOn DEF CloseEnterEntry
<1>3. CASE CloseSocket(t)
  <2>1. job[t].entry \in Connections
    BY <1>0, <1>3 DEF CloseSocket, JobAt
  <2>2. World'
    BY <1>3, <2>1 DEF CloseSocket, TypeInv, Shape, World
  <2>3. ListSection(t, "cl_erase") /\ EntrySection(t, "cl_erase", job[t])
    BY <1>3 DEF CloseSocket, ListSection, EntrySection, InList, InEntry
  <2>4. JobAt("cl_erase", job[t]) /\ "cl_erase" \in PCs
    BY <1>0, <1>3 DEF CloseSocket, JobAt, PCs, InList, MayWait
  <2> QED
    BY <1>3, <2>2, <2>3, <2>4, GoesOn DEF CloseSocket
<1>4. CASE CloseBegin(t)
  <2>1. World'
    BY <1>4 DEF CloseBegin, TypeInv, Shape, World
  <2>2. ListSection(t, "cl_erasing") /\ EntrySection(t, "cl_erasing", job[t])
    BY <1>4 DEF CloseBegin, ListSection, EntrySection, InList, InEntry
  <2>3. JobAt("cl_erasing", job[t]) /\ "cl_erasing" \in PCs
    BY <1>0, <1>4 DEF CloseBegin, JobAt, PCs, InList, MayWait
  <2> QED
    BY <1>4, <2>1, <2>2, <2>3, GoesOn DEF CloseBegin
<1>5. CASE CloseErase(t)
  <2>1. World'
    BY <1>5 DEF CloseErase, TypeInv, Shape, World
  <2>2. ListSection(t, "cl_dump") /\ EntrySection(t, "cl_dump", job[t])
    BY <1>5 DEF CloseErase, ListSection, EntrySection, InList, InEntry
  <2>3. JobAt("cl_dump", job[t]) /\ "cl_dump" \in PCs
    BY <1>0, <1>5 DEF CloseErase, JobAt, PCs, MayWait
  <2> QED
    BY <1>5, <2>1, <2>2, <2>3, GoesOn DEF CloseErase
<1>6. CASE CloseDump(t)
  <2>1. listCS' \in Threads \cup {NoThread} /\ entryCS' \in [Connections -> Threads \cup {NoThread}]
    BY <1>6 DEF CloseDump, TypeInv, Shape, World
  <2> QED
    BY <1>0, <1>6, <2>1, FreesAndFinishes DEF CloseDump, JobAt, ListSection, EntrySection,
       InList, InEntry
<1> QED
  BY <1>1, <1>2, <1>3, <1>4, <1>5, <1>6, EnterEffect DEF Close

LEMMA CheckEffect ==
  ASSUME TypeInv, NEW t \in Threads, Check(t)
  PROVE  \E l, j : Effect(t, l, j)
<1> USE DEF windows, service, lists, buffers
<1>0. JobAt(pc[t], job[t])
  BY Now
<1>1. CASE FreeBuffer(job[t].msg) /\ Finish(t) /\ UNCHANGED <<operationType, source>>
  <2>1. listCS' \in Threads \cup {NoThread} /\ entryCS' \in [Connections -> Threads \cup {NoThread}]
    BY DEF Check, TypeInv, Shape, World
  <2>2. job[t].left = 0 /\ pc[t] \notin HasBuf /\ pc[t] # "idle"
    BY <1>0 DEF Check, JobAt, AddPCs, RxPCs, HasBuf
  <2>3. ListSection(t, "idle") /\ EntrySection(t, "idle", NoJob)
    BY DEF Check, ListSection, EntrySection, InList, InEntry
  <2> QED
    BY <1>1, <2>1, <2>2, <2>3, FreesAndFinishes DEF Check, FreeAndFinish
<1>2. CASE Goto(t, "rx_get") /\ UNCHANGED <<job, buffers>>
  <2>1. World'
    BY <1>2 DEF Check, TypeInv, Shape, World
  <2>2. ListSection(t, "rx_get") /\ EntrySection(t, "rx_get", job[t])
    BY DEF Check, ListSection, EntrySection, InList, InEntry
  <2>3. JobAt("rx_get", job[t]) /\ "rx_get" \in PCs
    BY <1>0 DEF Check, JobAt, PCs, AddPCs, RxPCs, HasBuf, HasEntry, ClosePCs, MayWait
  <2> QED
    BY <1>2, <2>1, <2>2, <2>3, GoesOn DEF Check
<1> QED
  BY <1>1, <1>2 DEF Check

LEMMA NoJobFields ==
  /\ NoJob \in Job /\ MaxReceives \in 0..MaxReceives
  /\ NoJob.msg = NoBuffer /\ NoJob.buf = NoBuffer /\ NoJob.left = 0 /\ NoJob.held = FALSE
<1>1. 0 \in 0..MaxReceives /\ MaxReceives \in 0..MaxReceives
  BY ServiceAssumption
<1> QED
  BY <1>1 DEF NoJob, Job

LEMMA TakeResultEffect ==
  ASSUME TypeInv, NEW t \in Threads, TakeResult(t)
  PROVE  \E l, j : Effect(t, l, j)
<1> USE DEF windows, service, lists, buffers
<1>0. job[t] = NoJob /\ pc[t] = "idle"
  BY Now DEF TakeResult, JobAt
<1>1. Head(cq) \in Completion /\ Tail(cq) \in Seq(Completion) /\ cq # <<>>
  BY TailMembers DEF TakeResult, TypeInv, Shape, World
<1>2. /\ Head(cq).buf \in Buffers /\ Head(cq).conn \in Connections
      /\ socketContext[Head(cq).buf] \in Handles \cup {0}
  BY <1>1 DEF Completion, TypeInv, Shape, World
<1> DEFINE j == [NoJob EXCEPT !.msg = Head(cq).buf, !.conn = Head(cq).conn,
                              !.key = socketContext[Head(cq).buf]]
<1>3. /\ j \in Job /\ j.msg = Head(cq).buf /\ j.buf = NoBuffer /\ j.left = 0 /\ ~j.held
  BY <1>2, NoJobFields DEF Job
<1>4. job' = [job EXCEPT ![t] = j]
  BY DEF TakeResult, Become
<1> HIDE DEF j
<1>5. World'
  BY <1>1 DEF TakeResult, TypeInv, Shape, World
<1>6. PICK l \in {"check", "cl_enter"} : pc' = [pc EXCEPT ![t] = l]
  BY DEF TakeResult, Goto
<1>7. JobAt(l, j) /\ l \in PCs
  BY <1>2, <1>3, NullsAssumption DEF JobAt, PCs, AddPCs, RxPCs, HasBuf, HasEntry, ClosePCs, MayWait
<1>8. Moves(t, l, j)
  BY <1>3, <1>4, <1>6, <1>7 DEF Moves
<1>9. ListSection(t, l) /\ EntrySection(t, l, j)
  BY <1>0 DEF TakeResult, ListSection, EntrySection, InList, InEntry
<1>10. OwnerStep(t, j)
  BY <1>0, <1>1, <1>3 DEF TakeResult, OwnerStep, NoJob
<1> QED
  BY <1>5, <1>8, <1>9, <1>10 DEF Effect

\* The number of connections goes up by one, and is the new connection's.
LEMMA Accepts ==
  ASSUME TypeInv, Use("connection")
  PROVE  /\ used'["connection"] = used["connection"] + 1
         /\ used'["connection"] \in Connections
         /\ used' \in [DOMAIN Bound -> Nat] /\ used'["connection"] <= Bound["connection"]
         /\ used["connection"] \in Nat
<1>1. /\ used \in [DOMAIN Bound -> Nat] /\ "connection" \in DOMAIN Bound
      /\ Bound["connection"] \in Nat
  BY ServiceAssumption DEF TypeInv, Shape, World
<1>2. /\ used["connection"] < Bound["connection"]
      /\ used' = [used EXCEPT !["connection"] = @ + 1]
  BY DEF Use
<1>3. used["connection"] \in Nat /\ used'["connection"] = used["connection"] + 1
  BY <1>1, <1>2
<1>4. used' \in [DOMAIN Bound -> Nat]
  BY <1>1, <1>2, <1>3
<1> QED
  BY <1>1, <1>2, <1>3, <1>4 DEF Connections

LEMMA TakeAcceptEffect ==
  ASSUME TypeInv, NEW t \in Threads, TakeAccept(t)
  PROVE  \E l, j : Effect(t, l, j)
<1> USE DEF windows, service, lists, buffers
<1>0. job[t] = NoJob /\ pc[t] = "idle"
  BY Now DEF TakeAccept, JobAt
<1> DEFINE new == used'["connection"]
<1>1. new \in Connections /\ used' \in [DOMAIN Bound -> Nat] /\ new <= Bound["connection"]
  BY Accepts DEF TakeAccept
<1>2. PICK h \in Handles :
        /\ open' = open \cup {new} /\ handle' = [handle EXCEPT ![new] = h]
        /\ job' = [job EXCEPT ![t] = [NoJob EXCEPT !.key = h, !.conn = new, !.left = MaxReceives]]
  BY DEF TakeAccept, Become
<1> HIDE DEF new
<1> DEFINE j == [NoJob EXCEPT !.key = h, !.conn = new, !.left = MaxReceives]
<1>3. /\ j \in Job /\ j.msg = NoBuffer /\ j.buf = NoBuffer /\ j.left = MaxReceives /\ ~j.held
      /\ j.conn = new
  BY <1>1, NoJobFields DEF Job
<1>4. job' = [job EXCEPT ![t] = j]
  BY <1>2
<1> HIDE DEF j
<1>5. World'
  BY <1>1, <1>2 DEF TakeAccept, TypeInv, Shape, World, new
<1>6. JobAt("add_copy", j) /\ "add_copy" \in PCs
  BY <1>1, <1>3, NullsAssumption, ServiceAssumption
     DEF JobAt, PCs, AddPCs, RxPCs, HasBuf, HasEntry, ClosePCs, MayWait
<1>7. Moves(t, "add_copy", j)
  BY <1>3, <1>4, <1>6 DEF TakeAccept, Moves, Goto
<1>8. ListSection(t, "add_copy") /\ EntrySection(t, "add_copy", j)
  BY <1>0 DEF TakeAccept, ListSection, EntrySection, InList, InEntry
<1>9. OwnerStep(t, j)
  BY <1>0, <1>3 DEF TakeAccept, OwnerStep, Keeps, NoJob
<1> QED
  BY <1>5, <1>7, <1>8, <1>9 DEF Effect

LEMMA ThreadEffect ==
  ASSUME TypeInv, NEW t \in Threads, TakeAccept(t) \/ Thread(t)
  PROVE  \E l, j : Effect(t, l, j)
BY AddEffect, ReceiveEffect, SendEffect, CloseEffect, CheckEffect, TakeResultEffect,
   TakeAcceptEffect DEF Thread

\* A request becomes a completion, whether it transfers or fails.
Completes(r, ok) ==
  /\ requests' = requests \ {r}
  /\ cq' = Append(cq, [buf |-> r.buf, conn |-> r.conn, ok |-> ok])
  /\ UNCHANGED <<open, handle, service, buffers, pc, job>>

LEMMA EnvironmentEffect ==
  ASSUME TypeInv, NEW r \in requests, Transfers(r) \/ Fails(r)
  PROVE  TypeInv' /\ used'["connection"] = used["connection"]
         /\ \E ok \in BOOLEAN : Completes(r, ok)
<1>1. PICK ok \in BOOLEAN : Completes(r, ok)
  BY DEF Transfers, Fails, Completes
<1>2. /\ used' \in [DOMAIN Bound -> Nat]
      /\ used'["connection"] = used["connection"]
  <2>1. PICK k \in {"message", "error"} : UNCHANGED used \/ used' = [used EXCEPT ![k] = @ + 1]
    BY DEF Transfers, Fails, Use
  <2> QED
    BY <2>1, ServiceAssumption DEF TypeInv, Shape, World
<1>3. cq' \in Seq(Completion)
  <2>1. [buf |-> r.buf, conn |-> r.conn, ok |-> ok] \in Completion
    BY DEF TypeInv, Shape, World, Request, Completion
  <2> QED
    BY <1>1, <2>1 DEF Completes, TypeInv, Shape, World
<1>4. World'
  BY <1>1, <1>2, <1>3 DEF Completes, TypeInv, Shape, World, service, lists, buffers
<1>5. TypeInv'
  BY <1>1, <1>4 DEF Completes, TypeInv, Shape, Jobs, Sections, service, lists, buffers
<1> QED
  BY <1>1, <1>2, <1>5

LEMMA TypeStep ==
  ASSUME TypeInv, [Next]_vars
  PROVE  TypeInv'
<1>1. CASE UNCHANGED vars
  BY <1>1 DEF TypeInv, Shape, World, Jobs, Sections, vars, windows, service, lists, buffers
<1>2. CASE Environment
  BY <1>2, EnvironmentEffect DEF Environment
<1>3. ASSUME NEW t \in Threads, TakeAccept(t) \/ Thread(t)
      PROVE  TypeInv'
  BY <1>3, ThreadEffect, EffectTypes
<1> QED
  BY <1>1, <1>2, <1>3 DEF Next

(* Every variable has its type, and the section of the list and those of    *)
(* the entries are held by a thread exactly where the code is inside them.  *)
THEOREM TypeCorrect == Spec => []TypeOK
<1>1. TypeInv => TypeOK
  BY DEF TypeInv, Shape, World, Sections, TypeOK, Completion
<1> QED
  BY <1>1, InitType, TypeStep, PTL DEF Spec

(* Whatever the other threads do, a thread that waits for ever in a copy of *)
(* a section it can never leave holds no section that another waits for.    *)
THEOREM StuckThreadsHoldNothing == Spec => []StuckHoldsNothing
<1>1. TypeInv => StuckHoldsNothing
  BY DEF TypeInv, Sections, Jobs, JobAt, StuckHoldsNothing, MayWait, InList, InEntry
<1> QED
  BY <1>1, InitType, TypeStep, PTL DEF Spec

-----------------------------------------------------------------------------
(* The list and the sockets.                                                *)

LEMMA InitList == Init => ListInv
BY ServiceAssumption DEF Init, ListInv, Distinct, AddingAt, ClosingAt, AddPCs, ClosePCs

\* One thread at a time closes an entry: it is in the section of the list.
LEMMA OneCloses ==
  ASSUME TypeInv, NEW t \in Threads, pc[t] \in ClosePCs
  PROVE  \A u \in Threads : pc[u] \in ClosePCs => u = t
BY DEF TypeInv, Sections, ClosePCs, InList

LEMMA KeyInList ==
  ASSUME NEW h, NEW c
  PROVE  c \in Find(h) <=> c \in socketList /\ handle[c] = h
BY DEF Find

\* The list and the sockets are as before; the thread adds or closes as before, or
\* begins to close.
Steady(t) ==
  /\ UNCHANGED <<open, handle, socketList>>
  /\ used'["connection"] = used["connection"]
  /\ \A u \in Threads \ {t} : pc'[u] = pc[u] /\ job'[u] = job[u]
  /\ pc[t] \in AddPCs <=> pc'[t] \in AddPCs
  /\ pc[t] \in AddPCs => job'[t].conn = job[t].conn /\ job'[t].key = job[t].key
  /\ pc[t] \in {"cl_erase", "cl_erasing"} =>
       pc'[t] \in {"cl_erase", "cl_erasing"} /\ job'[t].entry = job[t].entry

LEMMA SteadyStep ==
  ASSUME TypeInv, ListInv, NEW t \in Threads, Steady(t), AddingAt(t)', ClosingAt(t)'
  PROVE  ListInv'
<1> USE DEF Steady
<1>1. open' \cup socketList' \subseteq 1..used'["connection"]
  BY DEF ListInv
<1>2. Distinct(open)' /\ Distinct(socketList)'
  BY DEF ListInv, Distinct
<1>3. ASSUME NEW c \in socketList' PROVE c \in open' \/ Closing(c)'
  BY DEF ListInv, Closing
<1>4. ASSUME NEW c \in open' PROVE c \in socketList' \/ Adding(c)'
  <2>1. c \in socketList \/ Adding(c)
    BY DEF ListInv
  <2>2. ASSUME NEW u \in Threads, job[u].conn = c, pc[u] \in AddPCs
        PROVE  job'[u].conn = c /\ pc'[u] \in AddPCs
    BY <2>2
  <2> QED
    BY <2>1, <2>2 DEF Adding, AddPCs
<1>5. ASSUME NEW u \in Threads PROVE AddingAt(u)' /\ ClosingAt(u)'
  <2>1. \A h : Find(h)' = Find(h)
    BY DEF Find
  <2>2. CASE u # t
    BY <2>1, <2>2 DEF ListInv, AddingAt, ClosingAt
  <2> QED
    BY <2>2
<1>6. \A u, v \in Threads :
        pc'[u] \in AddPCs /\ pc'[v] \in AddPCs /\ job'[u].conn = job'[v].conn => u = v
  BY DEF ListInv
<1> QED
  BY <1>1, <1>2, <1>3, <1>4, <1>5, <1>6 DEF ListInv

LEMMA AddListStep ==
  ASSUME TypeInv, ListInv, NEW t \in Threads, AddCopy(t) \/ AddFind(t) \/ AddBegin(t)
  PROVE  ListInv'
<1> USE DEF windows, service, lists, buffers
<1>0. /\ AddingAt(t) /\ JobAt(pc[t], job[t]) /\ job[t] \in Job
      /\ pc \in [Threads -> PCs] /\ job \in [Threads -> Job]
  BY Now DEF ListInv, TypeInv, Shape
<1>1. CASE AddCopy(t)
  <2>1. PICK h \in BOOLEAN : /\ job' = [job EXCEPT ![t].held = h]
                             /\ h <=> listCS # NoThread
    BY <1>1 DEF AddCopy, CopyService
  <2>2. /\ pc[t] = "add_copy" /\ pc'[t] = "add_find"
        /\ \A u \in Threads \ {t} : pc'[u] = pc[u] /\ job'[u] = job[u]
        /\ job'[t].conn = job[t].conn /\ job'[t].key = job[t].key /\ job'[t].held = h
        /\ UNCHANGED <<open, handle, socketList, used>>
    BY <1>0, <1>1, <2>1 DEF AddCopy, Goto, Job
  <2>3. Steady(t) /\ ClosingAt(t)'
    BY <2>2 DEF Steady, AddPCs, ClosingAt, ClosePCs
  <2>4. ASSUME ~h PROVE Find(job[t].key) = {}
    <3>1. \A u \in Threads : pc[u] \notin ClosePCs
      BY <2>1, <2>4, NullsAssumption DEF TypeInv, Sections, ClosePCs, InList
    <3>2. socketList \subseteq open
      BY <3>1 DEF ListInv, Closing, ClosePCs
    <3>3. job[t].conn \in open \ socketList /\ job[t].key = handle[job[t].conn]
      BY <1>0, <2>2 DEF AddingAt, AddPCs
    <3>4. \A c \in socketList : handle[c] # job[t].key
      BY <3>2, <3>3 DEF ListInv, Distinct
    <3> QED
      BY <3>4 DEF Find
  <2>5. AddingAt(t)'
    BY <1>0, <2>2, <2>4 DEF AddingAt, AddPCs, Find
  <2> QED
    BY <2>3, <2>5, SteadyStep
<1>2. CASE AddFind(t)
  <2>1. pc[t] = "add_find" /\ Find(job[t].key) = {} /\ Goto(t, "add_insert") /\ UNCHANGED job
    BY <1>0, <1>2 DEF AddFind, AddingAt, AddPCs
  <2>2. Steady(t) /\ ClosingAt(t)'
    BY <1>0, <1>2, <2>1 DEF AddFind, Goto, Steady, AddPCs, ClosingAt, ClosePCs
  <2>3. AddingAt(t)'
    BY <1>0, <1>2, <2>1 DEF AddFind, Goto, AddingAt, AddPCs, Find
  <2> QED
    BY <2>2, <2>3, SteadyStep
<1>3. CASE AddBegin(t)
  <2>1. Steady(t) /\ ClosingAt(t)'
    BY <1>0, <1>3 DEF AddBegin, Goto, Steady, AddPCs, ClosingAt, ClosePCs
  <2>2. AddingAt(t)'
    BY <1>0, <1>3 DEF AddBegin, Goto, AddingAt, AddPCs, Find
  <2> QED
    BY <2>1, <2>2, SteadyStep
<1> QED
  BY <1>1, <1>2, <1>3

LEMMA InsertStep ==
  ASSUME TypeInv, ListInv, NEW t \in Threads, AddInsert(t)
  PROVE  ListInv'
<1> DEFINE new == job[t].conn
<1>0. /\ pc[t] = "add_inserting" /\ pc \in [Threads -> PCs]
      /\ pc'[t] = "rx_get" /\ \A u \in Threads \ {t} : pc'[u] = pc[u]
      /\ socketList' = socketList \cup {new}
      /\ UNCHANGED <<open, handle, job, used>>
  BY DEF AddInsert, Goto, windows, TypeInv, Shape
<1>1. /\ new \in open \ socketList
      /\ job[t].key = handle[new] /\ Find(job[t].key) = {}
  BY <1>0, Now DEF ListInv, AddingAt, AddPCs, JobAt, MayWait
<1>2. \A c \in socketList : handle[c] # handle[new]
  BY <1>1, KeyInList
<1>3. \A u \in Threads : pc[u] \in AddPCs /\ job[u].conn = new => u = t
  BY <1>0 DEF ListInv, AddPCs
<1> HIDE DEF new
<1>4. open' \cup socketList' \subseteq 1..used'["connection"]
  BY <1>0, <1>1 DEF ListInv
<1>5. Distinct(open)' /\ Distinct(socketList)'
  BY <1>0, <1>1, <1>2 DEF ListInv, Distinct
<1>6. ASSUME NEW c \in socketList' PROVE c \in open' \/ Closing(c)'
  BY <1>0, <1>1 DEF ListInv, Closing
<1>7. ASSUME NEW c \in open' PROVE c \in socketList' \/ Adding(c)'
  <2>1. c \in socketList \/ Adding(c)
    BY <1>0 DEF ListInv
  <2>2. ASSUME NEW u \in Threads, job[u].conn = c, pc[u] \in AddPCs, u = t
        PROVE  c \in socketList'
    BY <1>0, <2>2 DEF new
  <2> QED
    BY <1>0, <2>1, <2>2 DEF Adding, AddPCs
<1>8. ASSUME NEW u \in Threads PROVE AddingAt(u)'
  <2>1. CASE u = t
    BY <1>0, <2>1 DEF AddingAt, AddPCs
  <2>2. CASE u # t
    <3> SUFFICES ASSUME pc[u] \in AddPCs PROVE AddingAt(u)'
      BY <1>0, <2>2 DEF AddingAt
    <3>1. AddingAt(u) /\ job[u].conn # new
      BY <1>3, <2>2 DEF ListInv
    <3>2. handle[job[u].conn] # handle[new]
      BY <1>1, <3>1 DEF ListInv, Distinct, AddingAt
    <3>3. Find(job[u].key) = {} => Find(job[u].key)' = {}
      BY <1>0, <3>1, <3>2 DEF Find, AddingAt
    <3> QED
      BY <1>0, <2>2, <3>1, <3>3 DEF AddingAt
  <2> QED
    BY <2>1, <2>2
<1>9. ASSUME NEW u \in Threads PROVE ClosingAt(u)'
  <2>1. pc'[u] \in ClosePCs => u # t
    BY <1>0 DEF ClosePCs
  <2> QED
    BY <1>0, <2>1 DEF ListInv, ClosingAt
<1>10. \A u, v \in Threads :
         pc'[u] \in AddPCs /\ pc'[v] \in AddPCs /\ job'[u].conn = job'[v].conn => u = v
  <2>1. \A u \in Threads : pc'[u] \in AddPCs => pc[u] \in AddPCs
    BY <1>0 DEF AddPCs
  <2> QED
    BY <1>0, <2>1 DEF ListInv
<1> QED
  BY <1>4, <1>5, <1>6, <1>7, <1>8, <1>9, <1>10 DEF ListInv

LEMMA AcceptStep ==
  ASSUME TypeInv, ListInv, NEW t \in Threads, TakeAccept(t)
  PROVE  ListInv'
<1> DEFINE new == used'["connection"]
<1>1. /\ new = used["connection"] + 1 /\ new \in Connections /\ used["connection"] \in Nat
  BY Accepts DEF TakeAccept
<1>2. PICK h \in Handles :
        /\ \A c \in open : handle[c] # h
        /\ open' = open \cup {new} /\ handle' = [handle EXCEPT ![new] = h]
        /\ job' = [job EXCEPT ![t] = [NoJob EXCEPT !.key = h, !.conn = new, !.left = MaxReceives]]
  BY DEF TakeAccept, Become
<1>3. new \notin open /\ new \notin socketList
  BY <1>1 DEF ListInv
<1>4. /\ open' \cup socketList' \subseteq 1..new
  BY <1>1, <1>2 DEF ListInv, TakeAccept, service, lists
<1> HIDE DEF new
<1>5. /\ pc[t] = "idle" /\ pc'[t] = "add_copy" /\ job'[t].conn = new /\ job'[t].key = h
      /\ \A u \in Threads \ {t} : pc'[u] = pc[u] /\ job'[u] = job[u]
      /\ UNCHANGED socketList
  BY <1>2 DEF TakeAccept, Goto, service, lists, TypeInv, Shape, NoJob
<1>6. handle'[new] = h /\ \A c \in open \cup socketList : handle'[c] = handle[c]
  BY <1>1, <1>2, <1>3 DEF TypeInv, Shape, World
<1>7. Distinct(open)' /\ Distinct(socketList)'
  BY <1>2, <1>5, <1>6 DEF ListInv, Distinct
<1>8. ASSUME NEW c \in socketList' PROVE c \in open' \/ Closing(c)'
  <2>1. c \in open \/ Closing(c)
    BY <1>5 DEF ListInv
  <2> QED
    BY <1>2, <1>5, <2>1 DEF Closing
<1>9. ASSUME NEW c \in open' PROVE c \in socketList' \/ Adding(c)'
  <2>1. CASE c = new
    BY <1>5, <2>1 DEF Adding
  <2>2. CASE c # new
    <3>1. c \in socketList \/ Adding(c)
      BY <1>2, <2>2 DEF ListInv
    <3> QED
      BY <1>5, <3>1 DEF Adding
  <2> QED
    BY <2>1, <2>2
<1>10. ASSUME NEW u \in Threads, pc'[u] \in AddPCs, u # t PROVE job'[u].conn \in open
  BY <1>5, <1>10 DEF ListInv, AddingAt
<1>11. ASSUME NEW u \in Threads PROVE AddingAt(u)' /\ ClosingAt(u)'
  <2>1. CASE u = t
    BY <1>2, <1>3, <1>5, <1>6, <2>1 DEF AddingAt, ClosingAt, ClosePCs
  <2>2. CASE u # t
    <3>1. AddingAt(u) /\ ClosingAt(u) /\ pc'[u] = pc[u] /\ job'[u] = job[u]
      BY <1>5, <2>2 DEF ListInv
    <3>2. Find(job[u].key)' = Find(job[u].key)
      BY <1>5, <1>6, <3>1 DEF Find
    <3>3. AddingAt(u)'
      BY <1>2, <1>5, <1>6, <3>1, <3>2 DEF AddingAt
    <3>4. ClosingAt(u)'
      BY <1>2, <1>3, <1>5, <1>6, <3>1 DEF ClosingAt
    <3> QED
      BY <3>3, <3>4
  <2> QED
    BY <2>1, <2>2
<1>12. ASSUME NEW u \in Threads, NEW v \in Threads,
              pc'[u] \in AddPCs, pc'[v] \in AddPCs, job'[u].conn = job'[v].conn
       PROVE  u = v
  <2>1. CASE u # t /\ v # t
    BY <1>5, <1>12, <2>1 DEF ListInv
  <2>2. CASE u = t /\ v # t
    BY <1>3, <1>5, <1>10, <1>12, <2>2
  <2>3. CASE u # t /\ v = t
    BY <1>3, <1>5, <1>10, <1>12, <2>3
  <2> QED
    BY <2>1, <2>2, <2>3
<1> QED
  BY <1>4, <1>7, <1>8, <1>9, <1>11, <1>12 DEF ListInv, new

LEMMA CloseListStep ==
  ASSUME TypeInv, ListInv, NEW t \in Threads,
         CloseFind(t) \/ CloseEnterEntry(t) \/ CloseBegin(t)
  PROVE  ListInv'
<1> USE DEF windows, service, lists, buffers
<1>0. /\ ClosingAt(t) /\ pc \in [Threads -> PCs] /\ job \in [Threads -> Job] /\ job[t] \in Job
  BY Now DEF ListInv, TypeInv, Shape
<1>1. ASSUME NEW c \in Find(job[t].key), CloseFind(t), Goto(t, "cl_entry"),
             job' = [job EXCEPT ![t].entry = c]
      PROVE  ListInv'
  <2>1. /\ pc[t] = "cl_find" /\ pc'[t] = "cl_entry"
        /\ \A u \in Threads \ {t} : pc'[u] = pc[u] /\ job'[u] = job[u]
        /\ job'[t].entry = c /\ job'[t].key = job[t].key
        /\ UNCHANGED <<open, handle, socketList, used>>
    BY <1>0, <1>1 DEF CloseFind, Goto, Job
  <2>2. Steady(t) /\ AddingAt(t)'
    BY <2>1 DEF Steady, AddPCs, AddingAt
  <2>3. c \in open
    <3>1. \A u \in Threads : pc[u] \notin ClosePCs
      BY <2>1 DEF TypeInv, Sections, ClosePCs, InList
    <3> QED
      BY <1>1, <3>1, KeyInList DEF ListInv, Closing, ClosePCs
  <2>4. ClosingAt(t)'
    BY <1>1, <2>1, <2>3, KeyInList DEF ClosingAt
  <2> QED
    BY <2>2, <2>4, SteadyStep
<1>2. CASE CloseFind(t) /\ FreeAndFinish(t)
  <2>1. Steady(t) /\ AddingAt(t)' /\ ClosingAt(t)'
    BY <1>0, <1>2 DEF CloseFind, FreeAndFinish, Finish, Goto, Become, Steady, AddPCs, AddingAt,
       ClosingAt, ClosePCs
  <2> QED
    BY <2>1, SteadyStep
<1>3. CASE CloseEnterEntry(t)
  <2>1. Steady(t) /\ AddingAt(t)' /\ ClosingAt(t)'
    BY <1>0, <1>3 DEF CloseEnterEntry, Goto, Steady, AddPCs, AddingAt, ClosingAt, ClosePCs
  <2> QED
    BY <2>1, SteadyStep
<1>4. CASE CloseBegin(t)
  <2>1. Steady(t) /\ AddingAt(t)' /\ ClosingAt(t)'
    BY <1>0, <1>4 DEF CloseBegin, Goto, Steady, AddPCs, AddingAt, ClosingAt, ClosePCs
  <2> QED
    BY <2>1, SteadyStep
<1> QED
  BY <1>1, <1>2, <1>3, <1>4 DEF CloseFind

LEMMA CloseSocketStep ==
  ASSUME TypeInv, ListInv, NEW t \in Threads, CloseSocket(t)
  PROVE  ListInv'
<1> DEFINE old == job[t].entry
<1>0. /\ pc[t] = "cl_close" /\ pc'[t] = "cl_erase" /\ pc \in [Threads -> PCs]
      /\ \A u \in Threads \ {t} : pc'[u] = pc[u]
      /\ UNCHANGED <<handle, socketList, job, used>>
  BY DEF CloseSocket, Goto, lists, TypeInv, Shape
<1>1. old \in socketList /\ job[t].key = handle[old] /\ old \in open
  BY <1>0 DEF ListInv, ClosingAt, ClosePCs
<1>2. open' = open \ {old}
  BY <1>1 DEF CloseSocket, ListInv, Distinct
<1>3. ASSUME NEW c, c = old PROVE Closing(c)'
  BY <1>0, <1>3 DEF Closing
<1> HIDE DEF old
<1>4. /\ open' \cup socketList' \subseteq 1..used'["connection"]
      /\ Distinct(open)' /\ Distinct(socketList)'
  BY <1>0, <1>2 DEF ListInv, Distinct
<1>5. ASSUME NEW c \in socketList' PROVE c \in open' \/ Closing(c)'
  <2>1. c \in open \/ Closing(c)
    BY <1>0 DEF ListInv
  <2>2. ~Closing(c) \/ Closing(c)'
    BY <1>0 DEF Closing
  <2> QED
    BY <1>2, <1>3, <2>1, <2>2
<1>6. ASSUME NEW c \in open' PROVE c \in socketList' \/ Adding(c)'
  <2>1. c \in socketList \/ Adding(c)
    BY <1>2 DEF ListInv
  <2> QED
    BY <1>0, <2>1 DEF Adding
<1>7. ASSUME NEW u \in Threads PROVE AddingAt(u)' /\ ClosingAt(u)'
  <2>1. CASE u = t
    BY <1>0, <1>1, <1>2, <2>1 DEF AddingAt, AddPCs, ClosingAt, old
  <2>2. CASE u # t
    <3>1. pc[u] \notin ClosePCs
      BY <1>0, <2>2, OneCloses DEF ClosePCs
    <3>2. AddingAt(u) /\ pc'[u] = pc[u]
      BY <1>0, <2>2 DEF ListInv
    <3>3. AddingAt(u)'
      BY <1>0, <1>1, <1>2, <3>2 DEF AddingAt, Find
    <3> QED
      BY <3>1, <3>2, <3>3 DEF ClosingAt
  <2> QED
    BY <2>1, <2>2
<1>8. \A u, v \in Threads :
        pc'[u] \in AddPCs /\ pc'[v] \in AddPCs /\ job'[u].conn = job'[v].conn => u = v
  <2>1. \A u \in Threads : pc'[u] \in AddPCs => pc[u] \in AddPCs
    BY <1>0 DEF AddPCs
  <2> QED
    BY <1>0, <2>1 DEF ListInv
<1> QED
  BY <1>4, <1>5, <1>6, <1>7, <1>8 DEF ListInv

LEMMA CloseEraseStep ==
  ASSUME TypeInv, ListInv, NEW t \in Threads, CloseErase(t)
  PROVE  ListInv'
<1> DEFINE old == job[t].entry
<1>0. /\ pc[t] = "cl_erasing" /\ pc'[t] = "cl_dump" /\ pc \in [Threads -> PCs]
      /\ \A u \in Threads \ {t} : pc'[u] = pc[u]
      /\ UNCHANGED <<open, handle, job, used>>
  BY DEF CloseErase, Goto, windows, TypeInv, Shape
<1>1. old \in socketList /\ job[t].key = handle[old] /\ old \notin open
  BY <1>0 DEF ListInv, ClosingAt, ClosePCs
<1>2. socketList' = socketList \ {old}
  BY <1>1, KeyInList DEF CloseErase, ListInv, Distinct
<1>3. \A u \in Threads \ {t} : pc[u] \notin ClosePCs
  BY <1>0, OneCloses DEF ClosePCs
<1>4. ASSUME NEW c \in socketList' PROVE c \in open'
  <2>1. c \in open \/ Closing(c)
    BY <1>2 DEF ListInv
  <2> QED
    BY <1>0, <1>2, <1>3, <2>1 DEF Closing, ClosePCs
<1> HIDE DEF old
<1>5. /\ open' \cup socketList' \subseteq 1..used'["connection"]
      /\ Distinct(open)' /\ Distinct(socketList)'
  BY <1>0, <1>2 DEF ListInv, Distinct
<1>6. ASSUME NEW c \in open' PROVE c \in socketList' \/ Adding(c)'
  <2>1. c \in socketList \/ Adding(c)
    BY <1>0 DEF ListInv
  <2> QED
    BY <1>0, <1>1, <1>2, <2>1 DEF Adding
<1>7. ASSUME NEW u \in Threads PROVE AddingAt(u)' /\ ClosingAt(u)'
  <2>1. CASE u = t
    BY <1>0, <2>1 DEF AddingAt, AddPCs, ClosingAt, ClosePCs
  <2>2. CASE u # t
    <3>1. AddingAt(u) /\ pc'[u] = pc[u]
      BY <1>0, <2>2 DEF ListInv
    <3>2. AddingAt(u)'
      BY <1>0, <1>2, <3>1 DEF AddingAt, Find
    <3> QED
      BY <1>3, <2>2, <3>1, <3>2 DEF ClosingAt
  <2> QED
    BY <2>1, <2>2
<1>8. \A u, v \in Threads :
        pc'[u] \in AddPCs /\ pc'[v] \in AddPCs /\ job'[u].conn = job'[v].conn => u = v
  <2>1. \A u \in Threads : pc'[u] \in AddPCs => pc[u] \in AddPCs
    BY <1>0 DEF AddPCs
  <2> QED
    BY <1>0, <2>1 DEF ListInv
<1> QED
  BY <1>4, <1>5, <1>6, <1>7, <1>8 DEF ListInv

\* The steps that neither add nor close.
LEMMA OtherStep ==
  ASSUME TypeInv, ListInv, NEW t \in Threads,
         \/ TakeResult(t) \/ Check(t) \/ Receive(t) \/ Send(t) \/ CloseEnter(t) \/ CloseDump(t)
  PROVE  ListInv'
<1>1. PICK l, j : Effect(t, l, j)
  BY ThreadEffect DEF Thread, Close
<1>2. \A u \in Threads \ {t} : pc'[u] = pc[u] /\ job'[u] = job[u]
  BY <1>1, EffectTypes
<1>3. UNCHANGED <<open, handle, socketList, used>>
  <2> USE DEF windows, service, lists, buffers
  <2>1. CASE TakeResult(t) \/ Check(t) \/ CloseDump(t)
    BY <2>1 DEF TakeResult, Check, CloseDump
  <2>2. CASE Receive(t)
    BY <2>2 DEF Receive, ReceiveGet, ReceiveCopy, ReceiveFind, ReceivePost
  <2>3. CASE Send(t)
    BY <2>3 DEF Send, SendEmpty, SendEnter, SendFind, SendRobinEnter, SendRobin,
       SendEnterEntry, SendPost, EnterList
  <2>4. CASE CloseEnter(t)
    BY <2>4 DEF CloseEnter, EnterList
  <2> QED
    BY <2>1, <2>2, <2>3, <2>4
<1>4. {pc[t], pc'[t]} \cap (AddPCs \cup ClosePCs) = {}
  <2> USE DEF AddPCs, ClosePCs, Goto, Finish, TypeInv, Shape
  <2>1. CASE TakeResult(t) \/ Check(t) \/ CloseDump(t)
    BY <2>1 DEF TakeResult, Check, CloseDump, FreeAndFinish
  <2>2. CASE Receive(t)
    <3>1. AfterReceive(t) /\ pc[t] \in RxPCs => pc'[t] \in {"rx_get", "idle", "tx_empty"}
      BY Now, AfterReceiveMoves DEF Moves
    <3> QED
      BY <2>2, <3>1 DEF Receive, ReceiveGet, ReceiveCopy, ReceiveFind, ReceivePost, RxPCs
  <2>3. CASE Send(t)
    BY <2>3 DEF Send, SendEmpty, SendEnter, SendFind, SendRobinEnter, SendRobin,
       SendEnterEntry, SendPost, EnterList, FreeAndFinish
  <2>4. CASE CloseEnter(t)
    BY <2>4 DEF CloseEnter, EnterList
  <2> QED
    BY <2>1, <2>2, <2>3, <2>4
<1>5. Steady(t) /\ AddingAt(t)' /\ ClosingAt(t)'
  BY <1>2, <1>3, <1>4 DEF Steady, AddingAt, ClosingAt, ClosePCs
<1> QED
  BY <1>5, SteadyStep

LEMMA ListStep ==
  ASSUME TypeInv, ListInv, [Next]_vars
  PROVE  ListInv'
<1>1. ASSUME UNCHANGED <<open, handle, socketList, pc, job>>,
             used'["connection"] = used["connection"]
      PROVE  ListInv'
  BY <1>1 DEF ListInv, Distinct, Closing, Adding, AddingAt, ClosingAt, Find
<1>2. CASE UNCHANGED vars
  BY <1>1, <1>2 DEF vars, windows, service, lists
<1>3. CASE Environment
  BY <1>1, <1>3, EnvironmentEffect DEF Environment, Completes, service, lists
<1>4. ASSUME NEW t \in Threads, TakeAccept(t) \/ Thread(t)
      PROVE  ListInv'
  BY <1>4, AcceptStep, AddListStep, InsertStep, CloseListStep, CloseSocketStep, CloseEraseStep,
     OtherStep DEF Thread, Add, Close
<1> QED
  BY <1>2, <1>3, <1>4 DEF Next

LEMMA ListInvariant == Spec => [](TypeInv /\ ListInv)
BY InitType, InitList, TypeStep, ListStep, PTL DEF Spec

(* The list and the sockets tell the same story: a listed connection is     *)
(* open or being erased, an open one is listed or about to be, no two that  *)
(* are listed have the same handle, and AddEntryToService refuses no        *)
(* connection for the sake of one whose entry is not erased yet.            *)
THEOREM ListCorrect == Spec => []ListMatchesSockets
<1>1. ASSUME TypeInv, ListInv PROVE ListMatchesSockets
  <2>1. ASSUME NEW t \in Threads, pc[t] = "add_find", NEW c \in Find(job[t].key)
        PROVE  Closing(c)
    <3>1. job[t].conn \in open \ socketList /\ job[t].key = handle[job[t].conn]
      BY <1>1, <2>1 DEF ListInv, AddingAt, AddPCs
    <3>2. c \notin open
      BY <1>1, <3>1, KeyInList DEF ListInv, Distinct
    <3> QED
      BY <1>1, <3>2, KeyInList DEF ListInv
  <2> QED
    BY <1>1, <2>1 DEF ListInv, Distinct, ListMatchesSockets
<1> QED
  BY <1>1, ListInvariant, PTL

(* The handle that CloseServiceEntry passes to closesocket is that of the   *)
(* entry it has found, whose socket is open still, and no other thread      *)
(* passes the same one.                                                     *)
THEOREM SocketsClosedOnce == Spec => []ClosedOnce
<1>1. ASSUME TypeInv, ListInv PROVE ClosedOnce
  BY <1>1, OneCloses DEF ListInv, ClosingAt, ClosePCs, ClosedOnce
<1> QED
  BY <1>1, ListInvariant, PTL

-----------------------------------------------------------------------------
(* The owners of the buffers.                                               *)

LEMMA InitOwners == Init => OwnersInv
BY NullsAssumption DEF Init, OwnersInv, Owned, Queued, NoJob

\* The buffers that the parts of the state name, and no others.
LEMMA BufferTypes ==
  ASSUME TypeInv
  PROVE  /\ free \subseteq Buffers
         /\ \A r \in requests : r.buf \in Buffers
         /\ \A i \in 1..Len(cq) : cq[i].buf \in Buffers
         /\ \A u \in Threads : /\ job[u].msg \in Buffers \cup {NoBuffer}
                               /\ job[u].buf \in Buffers \cup {NoBuffer}
<1>1. \A i \in 1..Len(cq) : cq[i] \in Completion
  BY DEF TypeInv, Shape, World
<1> QED
  BY <1>1, Now DEF TypeInv, Shape, World, Request, Completion

\* A thread gives up a buffer, or takes one, and no other thread's changes.
LEMMA KeepsOwners ==
  ASSUME TypeInv, OwnersInv, NEW t \in Threads, NEW j, job'[t] = j,
         \A u \in Threads \ {t} : job'[u] = job[u],
         Keeps(t, j), UNCHANGED <<free, requests, cq>>
  PROVE  OwnersInv'
<1>1. \A u \in Threads : job'[u].msg = job[u].msg /\ job'[u].buf = job[u].buf
  BY DEF Keeps
<1>2. \A b : Queued(b)' <=> Queued(b)
  BY DEF Queued
<1>3. \A b : Owned(b)' <=> Owned(b)
  BY <1>1, <1>2 DEF Owned
<1> QED
  BY <1>1, <1>2, <1>3 DEF OwnersInv

LEMMA FreesOwned ==
  ASSUME TypeInv, OwnersInv, NEW t \in Threads, NEW j, job'[t] = j,
         \A u \in Threads \ {t} : job'[u] = job[u], NEW b \in Buffers,
         \/ DropsMsg(t, j) /\ b = job[t].msg
         \/ DropsBuf(t, j) /\ b = job[t].buf,
         free' = free \cup {b}, UNCHANGED <<requests, cq>>
  PROVE  OwnersInv'
<1>1. \A x : Queued(x)' <=> Queued(x)
  BY DEF Queued
<1>2. \A u \in Threads : /\ job'[u].msg \in {job[u].msg, NoBuffer}
                         /\ job'[u].buf \in {job[u].buf, NoBuffer}
                         /\ job'[u].msg # b /\ job'[u].buf # b
  BY NullsAssumption DEF DropsMsg, DropsBuf, OwnersInv
<1>3. ASSUME NEW x \in Buffers PROVE Owned(x)'
  <2>1. Owned(x)
    BY DEF OwnersInv
  <2>2. \A u \in Threads : job[u].msg = x => x = b \/ job'[u].msg = x
    BY DEF DropsMsg, DropsBuf
  <2>3. \A u \in Threads : job[u].buf = x => x = b \/ job'[u].buf = x
    BY DEF DropsMsg, DropsBuf
  <2> QED
    BY <1>1, <2>1, <2>2, <2>3 DEF Owned
<1>4. ~Queued(b) /\ \A r \in requests : r.buf # b
  BY DEF DropsMsg, DropsBuf, OwnersInv
<1>5. NoBuffer \notin free' /\ ~Queued(NoBuffer)
  BY BufferTypes, NullsAssumption DEF Queued
<1> QED
  BY <1>1, <1>2, <1>3, <1>4, <1>5, BufferTypes, NullsAssumption DEF OwnersInv, Queued

LEMMA PostsOwned ==
  ASSUME TypeInv, OwnersInv, NEW t \in Threads, NEW j, job'[t] = j,
         \A u \in Threads \ {t} : job'[u] = job[u], NEW b \in Buffers,
         \/ DropsMsg(t, j) /\ b = job[t].msg
         \/ DropsBuf(t, j) /\ b = job[t].buf,
         Posts(b), UNCHANGED <<free, cq>>
  PROVE  OwnersInv'
<1>0. PICK c \in Connections : requests' = requests \cup {[buf |-> b, conn |-> c]}
  BY DEF Posts
<1>1. \A x : Queued(x)' <=> Queued(x)
  BY DEF Queued
<1>2. \A u \in Threads : /\ job'[u].msg \in {job[u].msg, NoBuffer}
                         /\ job'[u].buf \in {job[u].buf, NoBuffer}
                         /\ job'[u].msg # b /\ job'[u].buf # b
  BY NullsAssumption DEF DropsMsg, DropsBuf, OwnersInv
<1>3. ASSUME NEW x \in Buffers PROVE Owned(x)'
  <2>1. Owned(x)
    BY DEF OwnersInv
  <2>2. \A u \in Threads : job[u].msg = x => x = b \/ job'[u].msg = x
    BY DEF DropsMsg, DropsBuf
  <2>3. \A u \in Threads : job[u].buf = x => x = b \/ job'[u].buf = x
    BY DEF DropsMsg, DropsBuf
  <2>4. \E r \in requests' : r.buf = b
    <3>1. [buf |-> b, conn |-> c] \in requests' /\ [buf |-> b, conn |-> c].buf = b
      BY <1>0
    <3> QED
      BY <3>1
  <2> QED
    BY <1>0, <1>1, <2>1, <2>2, <2>3, <2>4 DEF Owned
<1>4. ~Queued(b) /\ b \notin free /\ \A r \in requests : r.buf # b
  BY DEF DropsMsg, DropsBuf, OwnersInv
<1>5. NoBuffer \notin free' /\ ~Queued(NoBuffer) /\ \A r \in requests' : r.buf # NoBuffer
  BY <1>0, BufferTypes, NullsAssumption DEF Queued
<1>6. \A r, s \in requests' : r.buf = s.buf => r = s
  BY <1>0, <1>4 DEF OwnersInv
<1>7. \A r \in requests' : r.buf \notin free' /\ ~Queued(r.buf)
  BY <1>0, <1>4 DEF OwnersInv
<1>8. ASSUME NEW u \in Threads, NEW r \in requests'
      PROVE  r.buf # job'[u].msg /\ r.buf # job'[u].buf
  BY <1>0, <1>2, <1>5 DEF OwnersInv
<1> QED
  BY <1>1, <1>2, <1>3, <1>5, <1>6, <1>7, <1>8, BufferTypes, NullsAssumption DEF OwnersInv, Queued

LEMMA GetsOwned ==
  ASSUME TypeInv, OwnersInv, NEW t \in Threads, NEW j, job'[t] = j,
         \A u \in Threads \ {t} : job'[u] = job[u], NEW b \in free,
         j.buf = b, j.msg = job[t].msg, job[t].buf = NoBuffer,
         free' = free \ {b}, UNCHANGED <<requests, cq>>
  PROVE  OwnersInv'
<1>1. \A x : Queued(x)' <=> Queued(x)
  BY DEF Queued
<1>2. \A u \in Threads : /\ job'[u].msg = job[u].msg
                         /\ job'[u].buf = IF u = t THEN b ELSE job[u].buf
  OBVIOUS
<1>3. ASSUME NEW x \in Buffers PROVE Owned(x)'
  <2>1. Owned(x)
    BY DEF OwnersInv
  <2>2. \A u \in Threads : job[u].buf = x => job'[u].buf = x
    BY <1>2, NullsAssumption
  <2> QED
    BY <1>1, <1>2, <2>1, <2>2 DEF Owned
<1>4. /\ b \in Buffers /\ ~Queued(b) /\ \A r \in requests : r.buf # b
      /\ \A u \in Threads : job[u].msg # b /\ job[u].buf # b
  BY BufferTypes DEF OwnersInv, Queued
<1> QED
  BY <1>1, <1>2, <1>3, <1>4, NullsAssumption DEF OwnersInv

LEMMA DequeuesOwned ==
  ASSUME TypeInv, OwnersInv, NEW t \in Threads, NEW j, job'[t] = j,
         \A u \in Threads \ {t} : job'[u] = job[u],
         cq # <<>>, cq' = Tail(cq), UNCHANGED <<free, requests>>,
         job[t].msg = NoBuffer, j.msg = Head(cq).buf, j.buf = job[t].buf
  PROVE  OwnersInv'
<1> DEFINE b == Head(cq).buf
<1>1. /\ Len(cq) \in Nat /\ Len(cq) >= 1 /\ Len(cq') = Len(cq) - 1
      /\ \A i \in 1..Len(cq') : cq'[i] = cq[i + 1] /\ i + 1 \in 1..Len(cq)
      /\ Head(cq) = cq[1] /\ 1 \in 1..Len(cq)
      /\ \A i \in 1..Len(cq) : i = 1 \/ (i - 1 \in 1..Len(cq') /\ cq'[i - 1] = cq[i])
  <2>1. cq \in Seq(Completion)
    BY DEF TypeInv, Shape, World
  <2>2. Len(cq) \in Nat /\ Len(cq) >= 1 /\ Head(cq) = cq[1]
    BY <2>1
  <2>3. Len(cq') = Len(cq) - 1 /\ \A i \in 1..Len(cq') : cq'[i] = cq[i + 1]
    BY <2>1, <2>2
  <2>4. /\ \A i \in 1..Len(cq') : i + 1 \in 1..Len(cq)
        /\ \A i \in 1..Len(cq) : i = 1 \/ i - 1 \in 1..Len(cq')
    BY <2>2, <2>3
  <2>5. \A i \in 1..Len(cq) : (i - 1) + 1 = i
    BY <2>2
  <2>6. \A i \in 1..Len(cq) : i = 1 \/ cq'[i - 1] = cq[i]
    BY <2>3, <2>4, <2>5
  <2>7. 1 \in 1..Len(cq)
    BY <2>2
  <2> QED
    BY <2>2, <2>3, <2>4, <2>6, <2>7, Zenon
<1>2. b \in Buffers /\ Queued(b) /\ b = cq[1].buf
  BY <1>1, BufferTypes DEF Queued
<1> HIDE DEF b
<1>3. \A u \in Threads : /\ job'[u].msg = IF u = t THEN b ELSE job[u].msg
                         /\ job'[u].buf = job[u].buf
  BY DEF b
<1>4. \A x : Queued(x)' => Queued(x) /\ x # b
  <2>1. ASSUME NEW i \in 1..Len(cq') PROVE Queued(cq'[i].buf) /\ cq'[i].buf # b
    <3>1. i + 1 # 1 /\ i + 1 \in 1..Len(cq) /\ cq'[i] = cq[i + 1]
      BY <1>1
    <3> QED
      BY <1>1, <1>2, <3>1 DEF OwnersInv, Queued
  <2> QED
    BY <2>1 DEF Queued
<1>5. ASSUME NEW x, Queued(x) PROVE x = b \/ Queued(x)'
  <2>1. PICK i \in 1..Len(cq) : cq[i].buf = x
    BY <1>5 DEF Queued
  <2>2. i = 1 \/ (i - 1 \in 1..Len(cq') /\ cq'[i - 1].buf = x)
    BY <1>1, <2>1
  <2> QED
    BY <1>2, <2>1, <2>2 DEF Queued
<1>6. ASSUME NEW x \in Buffers PROVE Owned(x)'
  <2>1. Owned(x)
    BY DEF OwnersInv
  <2>2. \A u \in Threads : job[u].msg = x => job'[u].msg = x
    BY <1>3, NullsAssumption
  <2>3. job'[t].msg = b
    BY <1>3
  <2> QED
    BY <1>3, <1>5, <2>1, <2>2, <2>3 DEF Owned
<1>7. /\ b \notin free /\ \A r \in requests : r.buf # b
      /\ \A u \in Threads : job[u].msg # b /\ job[u].buf # b
  BY <1>2 DEF OwnersInv, Queued
<1>8. ASSUME NEW i \in 1..Len(cq'), NEW k \in 1..Len(cq'), cq'[i].buf = cq'[k].buf PROVE i = k
  <2>1. /\ i + 1 \in 1..Len(cq) /\ cq'[i] = cq[i + 1]
        /\ k + 1 \in 1..Len(cq) /\ cq'[k] = cq[k + 1]
    BY <1>1
  <2>2. i + 1 = k + 1
    BY <1>8, <2>1 DEF OwnersInv
  <2> QED
    BY <1>1, <2>2
<1>9. \A i \in 1..Len(cq') : cq'[i].buf \notin free
  BY <1>1 DEF OwnersInv
<1> QED
  BY <1>2, <1>3, <1>4, <1>6, <1>7, <1>8, <1>9, NullsAssumption DEF OwnersInv

LEMMA CompletesOwned ==
  ASSUME TypeInv, OwnersInv, NEW r \in requests, NEW ok \in BOOLEAN, Completes(r, ok)
  PROVE  OwnersInv'
<1> DEFINE b == r.buf
           n == Len(cq) + 1
<1>1. /\ requests' = requests \ {r} /\ UNCHANGED <<free, job>>
      /\ b \in Buffers /\ r \in requests
  BY BufferTypes DEF Completes, buffers
<1>2. /\ Len(cq) \in Nat /\ Len(cq') = n /\ n \in 1..n
      /\ \A i \in 1..Len(cq) : cq'[i] = cq[i] /\ i \in 1..n /\ i # n
      /\ cq'[n].buf = b
      /\ \A i \in 1..n : i = n \/ i \in 1..Len(cq)
  <2>1. cq \in Seq(Completion)
    BY DEF TypeInv, Shape, World
  <2>2. [buf |-> r.buf, conn |-> r.conn, ok |-> ok] \in Completion
    BY DEF TypeInv, Shape, World, Request, Completion
  <2>3. cq' = Append(cq, [buf |-> r.buf, conn |-> r.conn, ok |-> ok])
    BY DEF Completes
  <2> QED
    BY <2>1, <2>2, <2>3
<1> HIDE DEF b, n
<1>3. \A x : Queued(x)' <=> Queued(x) \/ x = b
  BY <1>2 DEF Queued
<1>4. \A s \in requests : s.buf = b => s = r
  BY <1>1 DEF OwnersInv, b
<1>5. /\ b \notin free /\ ~Queued(b)
      /\ \A u \in Threads : job[u].msg # b /\ job[u].buf # b
  BY <1>1 DEF OwnersInv, b
<1>6. ASSUME NEW x \in Buffers PROVE Owned(x)'
  <2>1. Owned(x)
    BY DEF OwnersInv
  <2> QED
    BY <1>1, <1>3, <2>1 DEF Owned, b
<1>7. ASSUME NEW i \in 1..Len(cq'), NEW k \in 1..Len(cq'), cq'[i].buf = cq'[k].buf PROVE i = k
  BY <1>2, <1>5, <1>7 DEF OwnersInv, Queued
<1>8. \A s \in requests' : s \in requests /\ s.buf # b
  BY <1>1, <1>4
<1>9. \A i \in 1..Len(cq') : cq'[i].buf \notin free
  BY <1>2, <1>5 DEF OwnersInv
<1> QED
  BY <1>1, <1>3, <1>5, <1>6, <1>7, <1>8, <1>9 DEF OwnersInv

LEMMA OwnersStep ==
  ASSUME TypeInv, OwnersInv, [Next]_vars
  PROVE  OwnersInv'
<1>1. CASE UNCHANGED vars
  BY <1>1 DEF OwnersInv, Owned, Queued, vars, windows, buffers
<1>2. CASE Environment
  BY <1>2, EnvironmentEffect, CompletesOwned DEF Environment
<1>3. ASSUME NEW t \in Threads, TakeAccept(t) \/ Thread(t)
      PROVE  OwnersInv'
  <2>1. PICK l, j : Effect(t, l, j)
    BY <1>3, ThreadEffect
  <2>2. job'[t] = j /\ \A u \in Threads \ {t} : job'[u] = job[u]
    BY <2>1, EffectTypes
  <2>3. CASE Keeps(t, j) /\ UNCHANGED <<free, requests, cq>>
    BY <2>2, <2>3, KeepsOwners
  <2>4. CASE /\ DropsMsg(t, j)
             /\ \/ free' = free \cup {job[t].msg} /\ UNCHANGED <<requests, cq>>
                \/ Posts(job[t].msg) /\ UNCHANGED <<free, cq>>
    <3>1. job[t].msg \in Buffers
      BY <2>4 DEF DropsMsg
    <3> QED
      BY <2>2, <2>4, <3>1, FreesOwned, PostsOwned
  <2>5. CASE /\ DropsBuf(t, j)
             /\ \/ free' = free \cup {job[t].buf} /\ UNCHANGED <<requests, cq>>
                \/ Posts(job[t].buf) /\ UNCHANGED <<free, cq>>
    <3>1. job[t].buf \in Buffers
      BY <2>5 DEF DropsBuf
    <3> QED
      BY <2>2, <2>5, <3>1, FreesOwned, PostsOwned
  <2>6. ASSUME NEW b \in free, j.buf = b, j.msg = job[t].msg, job[t].buf = NoBuffer,
               free' = free \ {b}, UNCHANGED <<requests, cq>>
        PROVE  OwnersInv'
    BY <2>2, <2>6, GetsOwned
  <2>7. CASE /\ cq # <<>> /\ cq' = Tail(cq) /\ UNCHANGED <<free, requests>>
             /\ job[t].msg = NoBuffer /\ j.msg = Head(cq).buf /\ j.buf = job[t].buf
    BY <2>2, <2>7, DequeuesOwned
  <2> QED
    BY <2>1, <2>3, <2>4, <2>5, <2>6, <2>7 DEF Effect, OwnerStep
<1> QED
  BY <1>1, <1>2, <1>3 DEF Next

LEMMA OneOwner ==
  ASSUME TypeInv, OwnersInv, NEW b \in Buffers
  PROVE  \E x : Owners(b) = {x}
<1> DEFINE F == IF b \in free THEN {"free"} ELSE {}
           R == {r \in requests : r.buf = b}
           I == {k \in 1..Len(cq) : cq[k].buf = b}
           Q == {<<"cq", i>> : i \in I}
           M == {u \in Threads : job[u].msg = b}
           B == {u \in Threads : job[u].buf = b}
           MT == {<<"msg", t>> : t \in M}
           BT == {<<"buf", t>> : t \in B}
<1>1. Owners(b) = F \cup R \cup Q \cup MT \cup BT
  BY DEF Owners
<1>2. b # NoBuffer
  BY NullsAssumption
<1>3. /\ \A r, s \in R : r = s
      /\ \A i, k \in I : i = k
      /\ \A t, u \in M : t = u
      /\ \A t, u \in B : t = u
  BY DEF OwnersInv
<1>4. /\ b \in free => R = {} /\ I = {} /\ M = {} /\ B = {}
      /\ R # {} => I = {} /\ M = {} /\ B = {}
      /\ I # {} => M = {} /\ B = {}
      /\ M # {} => B = {}
  BY <1>2 DEF OwnersInv, Queued
<1>5. b \in free \/ R # {} \/ I # {} \/ M # {} \/ B # {}
  BY DEF OwnersInv, Owned, Queued
<1> HIDE DEF R, I, M, B
<1>6. /\ I = {} => Q = {}
      /\ M = {} => MT = {}
      /\ B = {} => BT = {}
  OBVIOUS
<1>7. CASE b \in free
  BY <1>1, <1>4, <1>6, <1>7
<1>8. CASE b \notin free /\ R # {}
  <2>1. PICK r : R = {r}
    BY <1>3, <1>8
  <2>2. Owners(b) = {r}
    BY <1>1, <1>4, <1>6, <1>8, <2>1
  <2> QED
    BY <2>2
<1>9. CASE b \notin free /\ R = {} /\ I # {}
  <2>1. PICK i : I = {i}
    BY <1>3, <1>9
  <2>2. Owners(b) = {<<"cq", i>>}
    BY <1>1, <1>4, <1>6, <1>9, <2>1
  <2> QED
    BY <2>2
<1>10. CASE b \notin free /\ R = {} /\ I = {} /\ M # {}
  <2>0. \E t : t \in M
    BY <1>10
  <2>1. PICK t : M = {t}
    BY <1>3, <2>0
  <2>2. Owners(b) = {<<"msg", t>>}
    BY <1>1, <1>4, <1>6, <1>10, <2>1
  <2> QED
    BY <2>2
<1>11. CASE b \notin free /\ R = {} /\ I = {} /\ M = {} /\ B # {}
  <2>1. PICK t : B = {t}
    BY <1>3, <1>11
  <2>2. Owners(b) = {<<"buf", t>>}
    BY <1>1, <1>6, <1>11, <2>1
  <2> QED
    BY <2>2
<1> QED
  BY <1>5, <1>7, <1>8, <1>9, <1>10, <1>11

(* Every buffer has exactly one owner: the pool, a pending request, a       *)
(* completion, or the thread that works on it, as the message or for a      *)
(* receive.  None of the early returns of the result test, RECEIVE, SEND    *)
(* and CloseServiceEntry loses a buffer or frees one that another uses.     *)
THEOREM BuffersKept == Spec => []BuffersConserved
<1>1. ASSUME TypeInv, OwnersInv PROVE BuffersConserved
  BY <1>1, OneOwner, FS_Singleton DEF BuffersConserved
<1> QED
  BY <1>1, InitType, InitOwners, TypeStep, OwnersStep, PTL DEF Spec
=============================================================================
