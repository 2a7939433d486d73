-------------------------- MODULE WorkerLoopProofs --------------------------
(***************************************************************************)
(* Proofs about WorkerLoop, for any number of threads, buffers and limits. *)
(***************************************************************************)
EXTENDS WorkerLoop, DataFacts, FiniteSetTheorems, TLAPS

\* The part of the state that decides whether a worker is woken.
WakeupTypeOK ==
  /\ iocp \in Seq(Keys)
  /\ armed \in BOOLEAN
  /\ cq \in Seq(Completion)
  /\ pc \in [Threads -> PCs]

WakeupInv == WakeupTypeOK /\ NotificationInv

(* Dequeuing shortens the queue, and leaves an empty one empty. *)
LEMMA Dequeued ==
  ASSUME NEW s, cq \in Seq(Completion)
  PROVE  /\ SubSeq(cq, StillAhead(s) + 1, Len(cq)) \in Seq(Completion)
         /\ cq = <<>> => SubSeq(cq, StillAhead(s) + 1, Len(cq)) = <<>>
<1>1. StillAhead(s) \in Nat
  <2> DEFINE ahead == {i \in 1..Len(cq) : \A j \in 1..i : Member(s, cq[j])}
  <2>1. Len(cq) \in Nat
    OBVIOUS
  <2>2. IsFiniteSet(1..Len(cq))
    BY <2>1, FS_Interval
  <2>3. IsFiniteSet(ahead)
    BY <2>2, FS_Subset
  <2> HIDE DEF ahead
  <2>4. Cardinality(ahead) \in Nat
    BY <2>3, FS_CardinalityType
  <2> QED
    BY <2>4 DEF StillAhead, ahead
<1>2. StillAhead(s) + 1 >= 1 /\ StillAhead(s) + 1 \in Nat
  BY <1>1
<1> DEFINE n == StillAhead(s) + 1
<1> HIDE DEF n
<1>3. n \in Nat /\ n >= 1
  BY <1>2 DEF n
<1>4. SubSeq(cq, n, Len(cq)) \in Seq(Completion)
  BY <1>3
<1>5. cq = <<>> => SubSeq(cq, n, Len(cq)) = <<>>
  BY <1>3
<1> QED
  BY <1>4, <1>5 DEF n

LEMMA InitWakeup == Init => WakeupInv
<1> SUFFICES ASSUME Init PROVE WakeupInv
  OBVIOUS
<1>1. iocp = <<>> /\ armed = FALSE /\ cq = <<>> /\ pc = [t \in Threads |-> "notify"]
  BY DEF Init
<1>2. WakeupTypeOK
  <2>1. <<>> \in Seq(Keys) /\ <<>> \in Seq(Completion)
    OBVIOUS
  <2>2. armed \in BOOLEAN
    BY <1>1
  <2>3. pc \in [Threads -> PCs]
    BY <1>1 DEF PCs
  <2> QED
    BY <1>1, <2>1, <2>2, <2>3 DEF WakeupTypeOK
<1>3. NotificationInv
  BY <1>1, ThreadsAssumption DEF NotificationInv, Awake
<1> QED
  BY <1>2, <1>3 DEF WakeupInv

LEMMA NextWakeup == WakeupInv /\ [Next]_vars => WakeupInv'
<1> SUFFICES ASSUME WakeupInv, [Next]_vars PROVE WakeupInv'
  OBVIOUS
<1> USE DEF WakeupInv, WakeupTypeOK, NotificationInv, Goto, windows
\* What a new packet does to the port.
<1>a. ASSUME NEW k \in Keys, iocp' = Append(iocp, k)
      PROVE  /\ iocp' \in Seq(Keys)
             /\ InQueue("CK_RIO")' <=> InQueue("CK_RIO") \/ k = "CK_RIO"
  BY <1>a, AppendListed DEF InQueue
\* A step that leaves the port, the notification and the queue alone, and every
\* worker that was awake.
<1>b. ASSUME UNCHANGED <<iocp, armed, cq>>, pc' \in [Threads -> PCs],
             \A u \in Threads : Awake(u) => Awake(u)'
      PROVE  WakeupInv'
  BY <1>b DEF InQueue
<1>1. ASSUME NEW k \in Kinds, NEW b \in Buffers, NEW ok \in BOOLEAN, Complete(k, b, ok)
      PROVE  WakeupInv'
  <2>1. /\ cq' = Append(cq, [buf |-> b, kind |-> k, ok |-> ok]) /\ armed' = FALSE /\ pc' = pc
        /\ iocp' = IF armed THEN Append(iocp, "CK_RIO") ELSE iocp
    BY <1>1 DEF Complete
  <2>2. cq' \in Seq(Completion)
    BY <2>1 DEF Completion
  <2>3. /\ iocp' \in Seq(Keys)
        /\ armed => InQueue("CK_RIO")'
        /\ ~armed => (InQueue("CK_RIO")' <=> InQueue("CK_RIO"))
    BY <1>a, <2>1 DEF Keys, InQueue
  <2> QED
    BY <2>1, <2>2, <2>3 DEF Awake
<1>2. ASSUME NEW ok \in BOOLEAN, AcceptCompletes(ok) PROVE WakeupInv'
  <2>1. PICK k \in Keys : iocp' = Append(iocp, k) /\ UNCHANGED <<armed, cq, pc>>
    BY <1>2 DEF AcceptCompletes, Keys
  <2> QED
    BY <1>a, <2>1 DEF Awake
<1>3. CASE InfoKey
  <2>1. iocp' = Append(iocp, "CK_GETINFO") /\ UNCHANGED <<armed, cq, pc>>
    BY <1>3 DEF InfoKey
  <2> QED
    BY <1>a, <2>1 DEF Awake, Keys
<1>4. CASE EscapeKey
  <2>1. iocp' = Append(iocp, "CK_QUIT") /\ UNCHANGED <<armed, cq, pc>>
    BY <1>4 DEF EscapeKey
  <2> QED
    BY <1>a, <2>1 DEF Awake, Keys
<1>5. CASE JoinAndShutdown
  BY <1>b, <1>5 DEF JoinAndShutdown, Awake
<1>6. ASSUME NEW t \in Threads, RIONotify(t) PROVE WakeupInv'
  \* Only here does a worker stop being awake: it leaves the notification armed or
  \* a packet in the port.
  <2>1. pc' \in [Threads -> PCs] /\ cq' = cq
    BY <1>6 DEF RIONotify, PCs
  <2>2. CASE cq = <<>> /\ armed' = TRUE /\ iocp' = iocp
    BY <2>1, <2>2
  <2>3. CASE cq # <<>> /\ armed' = FALSE /\ iocp' = Append(iocp, "CK_RIO")
    BY <1>a, <2>1, <2>3 DEF Keys
  <2> QED
    BY <1>6, <2>2, <2>3 DEF RIONotify
<1>7. ASSUME NEW t \in Threads, GetQueuedCompletionStatus(t) PROVE WakeupInv'
  \* The packet taken is not CK_RIO, or its taker is awake.
  <2>1. /\ pc[t] = "gqcs" /\ iocp # <<>> /\ iocp' = Tail(iocp) /\ UNCHANGED <<armed, cq>>
    BY <1>7 DEF GetQueuedCompletionStatus
  <2>2. /\ iocp' \in Seq(Keys) /\ Head(iocp) \in Keys
        /\ InQueue("CK_RIO") => Head(iocp) = "CK_RIO" \/ InQueue("CK_RIO")'
    BY <2>1, TailMembers DEF InQueue
  <2>3. pc' \in [Threads -> PCs] /\ \A u \in Threads \ {t} : pc'[u] = pc[u]
    BY <1>7, <2>2 DEF GetQueuedCompletionStatus, Keys, PCs
  <2>4. Head(iocp) = "CK_RIO" => pc'[t] = "dequeue"
    BY <1>7 DEF GetQueuedCompletionStatus
  <2>5. \A u \in Threads : Awake(u) => Awake(u)'
    BY <2>1, <2>3 DEF Awake
  <2> QED
    BY <2>1, <2>2, <2>3, <2>4, <2>5 DEF Awake
<1>8. ASSUME NEW t \in Threads, Quit(t) PROVE WakeupInv'
  <2>1. iocp' = Append(iocp, "CK_QUIT") /\ UNCHANGED <<armed, cq>>
    BY <1>8 DEF Quit
  <2>2. pc' \in [Threads -> PCs] /\ \A u \in Threads : Awake(u) => Awake(u)'
    BY <1>8 DEF Quit, Awake, PCs
  <2> QED
    BY <1>a, <2>1, <2>2 DEF Keys
<1>9. ASSUME NEW t \in Threads, Accept(t) PROVE WakeupInv'
  BY <1>b, <1>9 DEF Accept, Awake, PCs
<1>10. ASSUME NEW t \in Threads, DequeueEnter(t) PROVE WakeupInv'
  BY <1>b, <1>10 DEF DequeueEnter, Awake, PCs
<1>11. ASSUME NEW t \in Threads, DequeueLeave(t) PROVE WakeupInv'
  <2>1. /\ pc[t] = "dequeuing" /\ UNCHANGED <<iocp, armed>>
        /\ \E l \in {"process", "sorting"} : pc' = [pc EXCEPT ![t] = l]
        /\ cq' = SubSeq(cq, StillAhead(batch[t]) + 1, Len(cq))
    BY <1>11 DEF DequeueLeave
  <2>2. cq' \in Seq(Completion) /\ (cq = <<>> => cq' = <<>>)
    BY <2>1, Dequeued
  <2>3. pc' \in [Threads -> PCs] /\ \A u \in Threads : Awake(u) => Awake(u)'
    BY <2>1 DEF Awake, PCs
  <2> QED
    BY <2>1, <2>2, <2>3 DEF InQueue
<1>12. ASSUME NEW t \in Threads, NextResult(t) PROVE WakeupInv'
  BY <1>b, <1>12 DEF NextResult, Awake
<1>13. ASSUME NEW t \in Threads, EndOfResults(t) PROVE WakeupInv'
  BY <1>b, <1>13 DEF EndOfResults, Awake, PCs
<1>14. ASSUME NEW t \in Threads, PostReceive(t) PROVE WakeupInv'
  BY <1>b, <1>14 DEF PostReceive, Awake
<1>15. ASSUME NEW t \in Threads, PostSend(t) PROVE WakeupInv'
  BY <1>b, <1>15 DEF PostSend, Awake
<1>16. ASSUME NEW t \in Threads, FreeBuffer(t) PROVE WakeupInv'
  BY <1>b, <1>16 DEF FreeBuffer, Awake
<1>17. ASSUME NEW t \in Threads, Sort(t) PROVE WakeupInv'
  <2>1. /\ pc[t] = "sorting" /\ UNCHANGED <<iocp, armed, cq>>
        /\ \E l \in {"process", "sorting"} : pc' = [pc EXCEPT ![t] = l]
    BY <1>17 DEF Sort
  <2> QED
    BY <1>b, <2>1 DEF Awake, PCs
<1>18. CASE UNCHANGED vars
  BY <1>b, <1>18 DEF vars, Awake
<1> QED
  BY <1>1, <1>2, <1>3, <1>4, <1>5, <1>6, <1>7, <1>8, <1>9, <1>10, <1>11, <1>12, <1>13,
     <1>14, <1>15, <1>16, <1>17, <1>18 DEF Next, Environment, Worker

LEMMA WakeupInvariance == Spec => []WakeupInv
<1>1. Init => WakeupInv
  BY InitWakeup
<1>2. WakeupInv /\ [Next]_vars => WakeupInv'
  BY NextWakeup
<1> QED
  BY <1>1, <1>2, PTL DEF Spec

\* No wakeup is lost, for any number of workers: a completion in the RIO queue
\* always has a CK_RIO packet or a worker on its way to it.
THEOREM NoLostWakeup == Spec => []NotificationPending
<1>1. WakeupInv => NotificationPending
  BY DEF WakeupInv, NotificationInv, NotificationPending
<1> QED
  BY <1>1, WakeupInvariance, PTL

-----------------------------------------------------------------------------

Quits    == {i \in 1..Len(iocp) : iocp[i] = "CK_QUIT"}
Quitters == {t \in Threads : pc[t] = "quit"}

\* The token, if there is one, is in the port or with one worker.
QuitInv ==
  /\ main = "running" => Quits = {} /\ Quitters = {}
  /\ main # "running" => \/ (\E i \in Nat : Quits = {i}) /\ Quitters = {}
                         \/ Quits = {} /\ \E t \in Threads : Quitters = {t}

TokenInv == WakeupInv /\ QuitInv

LEMMA InitQuit == Init => QuitInv
<1> SUFFICES ASSUME Init PROVE QuitInv
  OBVIOUS
<1>1. iocp = <<>> /\ pc = [t \in Threads |-> "notify"] /\ main = "running"
  BY DEF Init
<1>2. Quits = {}
  BY <1>1 DEF Quits
<1>3. Quitters = {}
  BY <1>1 DEF Quitters
<1> QED
  BY <1>1, <1>2, <1>3 DEF QuitInv

LEMMA NextQuit == WakeupTypeOK /\ QuitInv /\ [Next]_vars => QuitInv'
<1> SUFFICES ASSUME WakeupTypeOK, QuitInv, [Next]_vars PROVE QuitInv'
  OBVIOUS
<1>t. iocp \in Seq(Keys) /\ pc \in [Threads -> PCs]
  BY DEF WakeupTypeOK
<1>len. Len(iocp) \in Nat
  BY <1>t
\* Most steps leave the token where it is.
<1>a. ASSUME Quits' = Quits, Quitters' = Quitters,
             main' = main \/ (main # "running" /\ main' # "running")
      PROVE  QuitInv'
  <2>1. CASE main = "running"
    BY <1>a, <2>1 DEF QuitInv
  <2>2. CASE main # "running"
    BY <1>a, <2>2 DEF QuitInv
  <2> QED
    BY <2>1, <2>2
<1>b. ASSUME NEW k \in Keys, k # "CK_QUIT", iocp' = Append(iocp, k) PROVE Quits' = Quits
  BY <1>b, <1>t, AppendPlaces DEF Quits
<1>c. ASSUME iocp' = iocp PROVE Quits' = Quits
  BY <1>c DEF Quits
\* A worker moves between two places of the loop that are not quit.
<1>d. ASSUME NEW t \in Threads, NEW l, pc[t] # "quit", l # "quit", pc' = [pc EXCEPT ![t] = l]
      PROVE  Quitters' = Quitters
  BY <1>d, <1>t DEF Quitters
<1>e. ASSUME pc' = pc PROVE Quitters' = Quitters
  BY <1>e DEF Quitters
\* A worker moves on, the port and main stay.
<1>f. ASSUME NEW t \in Threads, NEW l, pc[t] # "quit", l # "quit", pc' = [pc EXCEPT ![t] = l],
             UNCHANGED <<iocp, main>>
      PROVE  QuitInv'
  <2>1. Quits' = Quits
    BY <1>c, <1>f
  <2>2. Quitters' = Quitters
    BY <1>d, <1>f
  <2>3. main' = main
    BY <1>f
  <2> QED
    BY <1>a, <2>1, <2>2, <2>3
<1>g. ASSUME UNCHANGED <<iocp, main, pc>> PROVE QuitInv'
  <2>1. Quits' = Quits
    BY <1>c, <1>g
  <2>2. Quitters' = Quitters
    BY <1>e, <1>g
  <2>3. main' = main
    BY <1>g
  <2> QED
    BY <1>a, <2>1, <2>2, <2>3
<1>1. ASSUME NEW k \in Kinds, NEW b \in Buffers, NEW ok \in BOOLEAN, Complete(k, b, ok)
      PROVE  QuitInv'
  <2>1. UNCHANGED <<pc, main>> /\ (iocp' = iocp \/ iocp' = Append(iocp, "CK_RIO"))
    BY <1>1 DEF Complete
  <2>2. Quits' = Quits
    BY <2>1, <1>b, <1>c DEF Keys
  <2>3. Quitters' = Quitters
    BY <2>1, <1>e
  <2>4. main' = main
    BY <2>1
  <2> QED
    BY <2>2, <2>3, <2>4, <1>a
<1>2. ASSUME NEW ok \in BOOLEAN, AcceptCompletes(ok) PROVE QuitInv'
  <2>1. PICK k \in Keys : k # "CK_QUIT" /\ iocp' = Append(iocp, k) /\ UNCHANGED <<pc, main>>
    BY <1>2 DEF AcceptCompletes, Keys
  <2>2. Quits' = Quits
    BY <2>1, <1>b
  <2>3. Quitters' = Quitters
    BY <2>1, <1>e
  <2>4. main' = main
    BY <2>1
  <2> QED
    BY <2>2, <2>3, <2>4, <1>a
<1>3. CASE InfoKey
  <2>1. iocp' = Append(iocp, "CK_GETINFO") /\ UNCHANGED <<pc, main>>
    BY <1>3 DEF InfoKey
  <2>2. Quits' = Quits
    BY <2>1, <1>b DEF Keys
  <2>3. Quitters' = Quitters
    BY <2>1, <1>e
  <2>4. main' = main
    BY <2>1
  <2> QED
    BY <2>2, <2>3, <2>4, <1>a
<1>4. CASE EscapeKey
  \* The token appears.
  <2>1. main = "running" /\ main' = "joining" /\ iocp' = Append(iocp, "CK_QUIT") /\ pc' = pc
    BY <1>4 DEF EscapeKey
  <2>2. Quits = {} /\ Quitters' = {}
    <3>1. Quitters' = Quitters
      BY <2>1, <1>e
    <3> QED
      BY <2>1, <3>1 DEF QuitInv
  <2>3. Quits' = Quits \cup {Len(iocp) + 1}
    BY <2>1, <1>t, AppendPlaces DEF Quits, Keys
  <2>4. Quits' = {Len(iocp) + 1} /\ Len(iocp) + 1 \in Nat
    BY <2>2, <2>3, <1>len
  <2> QED
    BY <2>1, <2>2, <2>4 DEF QuitInv
<1>5. CASE JoinAndShutdown
  <2>1. UNCHANGED <<iocp, pc>> /\ main # "running" /\ main' # "running"
    BY <1>5 DEF JoinAndShutdown, windows
  <2>2. Quits' = Quits
    BY <2>1, <1>c
  <2>3. Quitters' = Quitters
    BY <2>1, <1>e
  <2>4. main # "running" /\ main' # "running"
    BY <2>1
  <2> QED
    BY <2>2, <2>3, <2>4, <1>a
<1>6. ASSUME NEW t \in Threads, RIONotify(t) PROVE QuitInv'
  <2>1. /\ pc[t] = "notify" /\ pc' = [pc EXCEPT ![t] = "gqcs"] /\ main' = main
        /\ iocp' = iocp \/ iocp' = Append(iocp, "CK_RIO")
    BY <1>6 DEF RIONotify, Goto
  <2>2. Quits' = Quits
    BY <2>1, <1>b, <1>c DEF Keys
  <2>3. Quitters' = Quitters
    BY <2>1, <1>d
  <2>4. main' = main
    BY <2>1
  <2> QED
    BY <2>2, <2>3, <2>4, <1>a
<1>7. ASSUME NEW t \in Threads, GetQueuedCompletionStatus(t) PROVE QuitInv'
  <2>1. /\ pc[t] = "gqcs" /\ iocp # <<>> /\ iocp' = Tail(iocp) /\ main' = main
        /\ Head(iocp) \in Keys /\ Head(iocp) = iocp[1] /\ 1 \in 1..Len(iocp)
    BY <1>7, <1>t DEF GetQueuedCompletionStatus
  <2>2. Quits' = {i - 1 : i \in Quits \ {1}}
    BY <2>1, <1>t, TailPlaces DEF Quits
  <2>3. CASE Head(iocp) = "CK_QUIT"
    \* The token was in the port, at its head; now the worker has it.
    <3>1. 1 \in Quits
      BY <2>1, <2>3 DEF Quits
    <3>2. main # "running" /\ Quits = {1} /\ Quitters = {}
      BY <3>1 DEF QuitInv
    <3>3. Quits' = {}
      BY <2>2, <3>2
    <3>4. pc' = [pc EXCEPT ![t] = "quit"]
      BY <1>7, <2>3 DEF GetQueuedCompletionStatus, Goto
    <3>5. Quitters' = {t}
      BY <3>2, <3>4, <1>t DEF Quitters
    <3> QED
      BY <2>1, <3>2, <3>3, <3>5 DEF QuitInv
  <2>4. CASE Head(iocp) # "CK_QUIT"
    \* The token, if it is in the port, moves up by one.
    <3>1. 1 \notin Quits
      BY <2>1, <2>4 DEF Quits
    <3>2. PICK l : l # "quit" /\ pc' = [pc EXCEPT ![t] = l]
      BY <1>7, <2>1, <2>4 DEF GetQueuedCompletionStatus, Goto, Keys
    <3>3. Quitters' = Quitters
      BY <2>1, <3>2, <1>d
    <3>4. Quits = {} => Quits' = {}
      BY <2>2
    <3>5. ASSUME NEW i \in Nat, Quits = {i} PROVE i - 1 \in Nat /\ Quits' = {i - 1}
      <4>1. i \in 1..Len(iocp) /\ i # 1
        BY <3>1, <3>5 DEF Quits
      <4>2. Quits \ {1} = {i}
        BY <4>1, <3>5
      <4> QED
        BY <4>1, <4>2, <2>2, <1>len
    <3> QED
      BY <2>1, <3>3, <3>4, <3>5 DEF QuitInv
  <2> QED
    BY <2>3, <2>4
<1>8. ASSUME NEW t \in Threads, Quit(t) PROVE QuitInv'
  \* The worker puts the token back.
  <2>1. /\ pc[t] = "quit" /\ pc' = [pc EXCEPT ![t] = "exited"] /\ main' = main
        /\ iocp' = Append(iocp, "CK_QUIT")
    BY <1>8 DEF Quit, Goto
  <2>2. t \in Quitters
    BY <2>1 DEF Quitters
  <2>3. main # "running" /\ Quits = {} /\ Quitters = {t}
    BY <2>2 DEF QuitInv
  <2>4. Quitters' = {}
    BY <2>1, <2>3, <1>t DEF Quitters
  <2>5. Quits' = {Len(iocp) + 1}
    BY <2>1, <2>3, <1>t, AppendPlaces DEF Quits, Keys
  <2> QED
    BY <2>1, <2>3, <2>4, <2>5, <1>len DEF QuitInv
<1>9. ASSUME NEW t \in Threads, Accept(t) PROVE QuitInv'
  <2>1. /\ pc[t] = "accept" /\ UNCHANGED <<iocp, main>>
        /\ \E l \in {"notify", "stuck"} : pc' = [pc EXCEPT ![t] = l]
    BY <1>9 DEF Accept, Goto
  <2> QED
    BY <1>f, <2>1
<1>10. ASSUME NEW t \in Threads, DequeueEnter(t) PROVE QuitInv'
  BY <1>f, <1>10 DEF DequeueEnter, Goto, windows
<1>11. ASSUME NEW t \in Threads, DequeueLeave(t) PROVE QuitInv'
  <2>1. /\ pc[t] = "dequeuing" /\ UNCHANGED <<iocp, main>>
        /\ \E l \in {"process", "sorting"} : pc' = [pc EXCEPT ![t] = l]
    BY <1>11 DEF DequeueLeave, Goto
  <2> QED
    BY <1>f, <2>1
<1>12. ASSUME NEW t \in Threads, NextResult(t) PROVE QuitInv'
  BY <1>g, <1>12 DEF NextResult, windows
<1>13. ASSUME NEW t \in Threads, EndOfResults(t) PROVE QuitInv'
  BY <1>f, <1>13 DEF EndOfResults, Goto, windows
<1>14. ASSUME NEW t \in Threads, PostReceive(t) PROVE QuitInv'
  BY <1>g, <1>14 DEF PostReceive
<1>15. ASSUME NEW t \in Threads, PostSend(t) PROVE QuitInv'
  BY <1>g, <1>15 DEF PostSend
<1>16. ASSUME NEW t \in Threads, FreeBuffer(t) PROVE QuitInv'
  BY <1>g, <1>16 DEF FreeBuffer, windows
<1>17. ASSUME NEW t \in Threads, Sort(t) PROVE QuitInv'
  <2>1. /\ pc[t] = "sorting" /\ UNCHANGED <<iocp, main>>
        /\ \E l \in {"process", "sorting"} : pc' = [pc EXCEPT ![t] = l]
    BY <1>17 DEF Sort, Goto, windows
  <2> QED
    BY <1>f, <2>1
<1>18. CASE UNCHANGED vars
  BY <1>g, <1>18 DEF vars, windows
<1> QED
  BY <1>1, <1>2, <1>3, <1>4, <1>5, <1>6, <1>7, <1>8, <1>9, <1>10, <1>11, <1>12, <1>13,
     <1>14, <1>15, <1>16, <1>17, <1>18 DEF Next, Environment, Worker

\* One CK_QUIT after the Escape key, and none before, for any number of workers: it
\* is in the port or with the one worker that is about to post it again.
THEOREM OneQuitToken == Spec => []QuitToken
<1>1. Init => TokenInv
  BY InitWakeup, InitQuit DEF TokenInv
<1>2. TokenInv /\ [Next]_vars => TokenInv'
  BY NextWakeup, NextQuit DEF TokenInv, WakeupInv
<1>3. TokenInv => QuitToken
  <2> SUFFICES ASSUME QuitInv PROVE QuitToken
    BY DEF TokenInv
  <2>1. Cardinality({}) = 0 /\ \A x : Cardinality({x}) = 1
    BY FS_EmptySet, FS_Singleton
  <2>2. CASE main = "running"
    <3>1. Cardinality(Quits) = 0 /\ Cardinality(Quitters) = 0
      BY <2>1, <2>2 DEF QuitInv
    <3> QED
      BY <2>2, <3>1 DEF QuitToken, Quits, Quitters
  <2>3. CASE main # "running"
    <3>1. \/ Cardinality(Quits) = 1 /\ Cardinality(Quitters) = 0
          \/ Cardinality(Quits) = 0 /\ Cardinality(Quitters) = 1
      BY <2>1, <2>3 DEF QuitInv
    <3> QED
      BY <2>3, <3>1 DEF QuitToken, Quits, Quitters
  <2> QED
    BY <2>2, <2>3
<1> QED
  BY <1>1, <1>2, <1>3, PTL DEF Spec

-----------------------------------------------------------------------------
(* Notifications do not pile up.                                            *)

\* The packets that end in a RIONotify: CK_RIO is one that fired, and whoever takes
\* one of the others goes through RIONotify again.
Notifying == {"CK_RIO", "CK_ACCEPT", "CK_GETINFO"}

InPort     == CountIn(iocp, Notifying)
Up         == {t \in Threads : Busy(t)}
BusyCount == Cardinality(Up)
ArmedCount == IF armed THEN 1 ELSE 0

\* Only an accepted connection and a console key add to them, and both are counted.
BoundInv ==
  /\ used \in [{"packet", "failed", "error"} -> Nat]
  /\ InPort + BusyCount + ArmedCount <= Cardinality(Threads) + used.packet

LEMMA CountTypes ==
  ASSUME WakeupTypeOK
  PROVE  /\ InPort \in Nat /\ BusyCount \in Nat /\ ArmedCount \in Nat
         /\ Cardinality(Threads) \in Nat /\ BusyCount <= Cardinality(Threads)
         /\ IsFiniteSet(Up)
<1>1. iocp \in Seq(Keys) /\ armed \in BOOLEAN
  BY DEF WakeupTypeOK
<1>2. InPort \in 0..Len(iocp) /\ Len(iocp) \in Nat
  BY <1>1, PlacesInFinite DEF InPort
<1>3. Up \subseteq Threads /\ IsFiniteSet(Threads)
  BY ThreadsAssumption DEF Up
<1>4. IsFiniteSet(Up) /\ Cardinality(Up) <= Cardinality(Threads)
  BY <1>3, FS_Subset
<1>5. Cardinality(Up) \in Nat /\ Cardinality(Threads) \in Nat
  BY <1>3, <1>4, FS_CardinalityType
<1>6. ArmedCount \in Nat
  BY DEF ArmedCount
<1>7. InPort \in Nat
  BY <1>2
<1> QED
  BY <1>4, <1>5, <1>6, <1>7 DEF BusyCount

LEMMA InitBound == Init => BoundInv
<1> SUFFICES ASSUME Init PROVE BoundInv
  OBVIOUS
<1>1. WakeupTypeOK
  BY InitWakeup DEF WakeupInv
<1>2. iocp = <<>> /\ armed = FALSE /\ used = [k \in {"packet", "failed", "error"} |-> 0]
  BY DEF Init
<1>3. InPort = 0
  BY <1>2, CountEmpty DEF InPort
<1>4. ArmedCount = 0
  BY <1>2 DEF ArmedCount
<1>5. used \in [{"packet", "failed", "error"} -> Nat] /\ used.packet = 0
  BY <1>2
<1> QED
  BY <1>1, <1>3, <1>4, <1>5, CountTypes DEF BoundInv

LEMMA NextBound == WakeupTypeOK /\ BoundInv /\ [Next]_vars => BoundInv'
<1> SUFFICES ASSUME WakeupTypeOK, BoundInv, [Next]_vars PROVE BoundInv'
  OBVIOUS
<1>t. iocp \in Seq(Keys) /\ pc \in [Threads -> PCs] /\ armed \in BOOLEAN
  BY DEF WakeupTypeOK
<1>u. used \in [{"packet", "failed", "error"} -> Nat] /\ used.packet \in Nat
  BY DEF BoundInv
<1>n. /\ InPort \in Nat /\ BusyCount \in Nat /\ ArmedCount \in Nat
      /\ Cardinality(Threads) \in Nat
      /\ InPort + BusyCount + ArmedCount <= Cardinality(Threads) + used.packet
  BY CountTypes DEF BoundInv
\* What a new packet adds.
<1>a. ASSUME NEW k \in Keys, iocp' = Append(iocp, k)
      PROVE  InPort' = InPort + (IF k \in Notifying THEN 1 ELSE 0)
  BY <1>a, <1>t, CountAppend DEF InPort
<1>b. ASSUME iocp' = iocp PROVE InPort' = InPort
  BY <1>b DEF InPort
<1>c. ASSUME pc' = pc PROVE Up' = Up /\ BusyCount' = BusyCount
  BY <1>c DEF BusyCount, Up, Busy, Awake
<1>d. ASSUME armed' = armed PROVE ArmedCount' = ArmedCount
  BY <1>d DEF ArmedCount
\* The three ways a worker moves: it stays as it is, goes to sleep, or wakes up.
<1>e. ASSUME NEW t \in Threads, NEW l \in PCs, pc' = [pc EXCEPT ![t] = l]
      PROVE  /\ pc'[t] = l
             /\ \A u \in Threads \ {t} : Busy(u)' = Busy(u)
  BY <1>e, <1>t DEF Busy, Awake
<1>f. ASSUME NEW t \in Threads, \A u \in Threads \ {t} : Busy(u)' = Busy(u), Busy(t)' = Busy(t)
      PROVE  BusyCount' = BusyCount
  <2>1. Up' = Up
    BY <1>f DEF Up
  <2> QED
    BY <2>1 DEF BusyCount
<1>g. ASSUME NEW t \in Threads, \A u \in Threads \ {t} : Busy(u)' = Busy(u), Busy(t), ~Busy(t)'
      PROVE  BusyCount' = BusyCount - 1
  <2>1. Up' = Up \ {t} /\ t \in Up
    BY <1>g DEF Up
  <2>2. IsFiniteSet(Up)
    BY CountTypes
  <2> QED
    BY <2>1, <2>2, FS_RemoveElement DEF BusyCount
<1>h. ASSUME NEW t \in Threads, \A u \in Threads \ {t} : Busy(u)' = Busy(u), ~Busy(t), Busy(t)'
      PROVE  BusyCount' = BusyCount + 1
  <2>1. Up' = Up \cup {t} /\ t \notin Up
    BY <1>h DEF Up
  <2>2. IsFiniteSet(Up)
    BY CountTypes
  <2> QED
    BY <2>1, <2>2, FS_AddElement DEF BusyCount
\* A step that leaves the port, the notification and the number of workers awake alone.
<1>i. ASSUME iocp' = iocp, armed' = armed, used' = used, BusyCount' = BusyCount PROVE BoundInv'
  BY <1>i, <1>b, <1>d, <1>n, <1>u DEF BoundInv
\* A worker moves on between two places of the loop, awake in both or in neither.
<1>j. ASSUME NEW t \in Threads, NEW l \in PCs, pc' = [pc EXCEPT ![t] = l],
             UNCHANGED <<iocp, armed, used>>,
             Busy(t) <=> l \in {"notify", "dequeue", "dequeuing", "sorting", "process", "accept"}
      PROVE  BoundInv'
  <2>1. /\ \A u \in Threads \ {t} : Busy(u)' = Busy(u)
        /\ pc'[t] = l
    BY <1>e, <1>j
  <2>2. Busy(t)' = Busy(t)
    BY <1>j, <2>1 DEF Busy, Awake
  <2>3. BusyCount' = BusyCount
    BY <1>f, <2>1, <2>2
  <2> QED
    BY <1>i, <1>j, <2>3
<1>k. ASSUME UNCHANGED <<iocp, armed, used, pc>> PROVE BoundInv'
  BY <1>c, <1>i, <1>k
\* A request of some kind fails, or is refused.
<1>l. ASSUME UNCHANGED <<iocp, armed, pc>>, used' = used \/ Use("error") PROVE BoundInv'
  <2>1. InPort' = InPort /\ BusyCount' = BusyCount /\ ArmedCount' = ArmedCount
    BY <1>b, <1>c, <1>d, <1>l
  <2>2. used' \in [{"packet", "failed", "error"} -> Nat] /\ used'.packet = used.packet
    BY <1>l, <1>u DEF Use
  <2> QED
    BY <1>n, <1>u, <2>1, <2>2 DEF BoundInv
<1>1. ASSUME NEW k \in Kinds, NEW b \in Buffers, NEW ok \in BOOLEAN, Complete(k, b, ok)
      PROVE  BoundInv'
  \* The notification registered, if any, becomes a packet.
  <2>1. /\ armed' = FALSE /\ pc' = pc
        /\ iocp' = IF armed THEN Append(iocp, "CK_RIO") ELSE iocp
    BY <1>1 DEF Complete
  <2>2. used' \in [{"packet", "failed", "error"} -> Nat] /\ used'.packet = used.packet
    BY <1>1, <1>u DEF Complete, Use
  <2>3. BusyCount' = BusyCount
    BY <1>c, <2>1
  <2>4. ArmedCount' = 0
    BY <2>1 DEF ArmedCount
  <2>5. CASE armed
    <3>1. InPort' = InPort + 1 /\ ArmedCount = 1
      BY <1>a, <2>1, <2>5 DEF Keys, Notifying, ArmedCount
    <3> QED
      BY <1>n, <1>u, <2>2, <2>3, <2>4, <3>1 DEF BoundInv
  <2>6. CASE ~armed
    <3>1. InPort' = InPort /\ ArmedCount = 0
      BY <1>b, <2>1, <2>6 DEF ArmedCount
    <3> QED
      BY <1>n, <1>u, <2>2, <2>3, <2>4, <3>1 DEF BoundInv
  <2> QED
    BY <2>5, <2>6
<1>2. ASSUME NEW ok \in BOOLEAN, AcceptCompletes(ok) PROVE BoundInv'
  <2>1. UNCHANGED <<armed, pc>>
    BY <1>2 DEF AcceptCompletes
  <2>2. BusyCount' = BusyCount /\ ArmedCount' = ArmedCount
    BY <1>c, <1>d, <2>1
  <2>3. used' \in [{"packet", "failed", "error"} -> Nat]
    BY <1>2, <1>u DEF AcceptCompletes, Use
  <2>4. CASE ok
    <3>1. iocp' = Append(iocp, "CK_ACCEPT") /\ used'.packet = used.packet + 1
      BY <1>2, <1>u, <2>4 DEF AcceptCompletes, Use
    <3>2. InPort' = InPort + 1
      BY <1>a, <3>1 DEF Keys, Notifying
    <3> QED
      BY <1>n, <1>u, <2>2, <2>3, <3>1, <3>2 DEF BoundInv
  <2>5. CASE ~ok
    <3>1. iocp' = Append(iocp, "CK_ACCEPT_FAILED") /\ used'.packet = used.packet
      BY <1>2, <1>u, <2>5 DEF AcceptCompletes, Use
    <3>2. InPort' = InPort
      BY <1>a, <1>n, <3>1 DEF Keys, Notifying
    <3> QED
      BY <1>n, <1>u, <2>2, <2>3, <3>1, <3>2 DEF BoundInv
  <2> QED
    BY <2>4, <2>5
<1>3. CASE InfoKey
  <2>1. /\ iocp' = Append(iocp, "CK_GETINFO") /\ UNCHANGED <<armed, pc>>
        /\ used' \in [{"packet", "failed", "error"} -> Nat] /\ used'.packet = used.packet + 1
    BY <1>3, <1>u DEF InfoKey, Use
  <2>2. BusyCount' = BusyCount /\ ArmedCount' = ArmedCount
    BY <1>c, <1>d, <2>1
  <2>3. InPort' = InPort + 1
    BY <1>a, <2>1 DEF Keys, Notifying
  <2> QED
    BY <1>n, <1>u, <2>1, <2>2, <2>3 DEF BoundInv
<1>4. CASE EscapeKey
  <2>1. iocp' = Append(iocp, "CK_QUIT") /\ UNCHANGED <<armed, pc, used>>
    BY <1>4 DEF EscapeKey, history
  <2>2. BusyCount' = BusyCount /\ ArmedCount' = ArmedCount
    BY <1>c, <1>d, <2>1
  <2>3. InPort' = InPort
    BY <1>a, <1>n, <2>1 DEF Keys, Notifying
  <2> QED
    BY <1>n, <1>u, <2>1, <2>2, <2>3 DEF BoundInv
<1>5. CASE JoinAndShutdown
  BY <1>k, <1>5 DEF JoinAndShutdown, windows, history
<1>6. ASSUME NEW t \in Threads, RIONotify(t) PROVE BoundInv'
  \* A worker goes to sleep and leaves the notification armed or a packet in the port.
  <2>1. /\ pc[t] = "notify" /\ pc' = [pc EXCEPT ![t] = "gqcs"] /\ used' = used
        /\ \/ cq = <<>> /\ armed' = TRUE /\ iocp' = iocp
           \/ cq # <<>> /\ armed' = FALSE /\ iocp' = Append(iocp, "CK_RIO")
    BY <1>6 DEF RIONotify, Goto, history
  <2>2. (\A u \in Threads \ {t} : Busy(u)' = Busy(u)) /\ pc'[t] = "gqcs"
    BY <1>e, <2>1 DEF PCs
  <2>3. BusyCount' = BusyCount - 1
    <3>1. Busy(t) /\ ~Busy(t)'
      BY <2>1, <2>2 DEF Busy, Awake
    <3> QED
      BY <1>g, <2>2, <3>1
  <2>4. CASE armed' = TRUE /\ iocp' = iocp
    <3>1. InPort' = InPort /\ ArmedCount' = 1
      BY <1>b, <2>4 DEF ArmedCount
    <3> QED
      BY <1>n, <1>u, <2>1, <2>3, <3>1 DEF BoundInv
  <2>5. CASE armed' = FALSE /\ iocp' = Append(iocp, "CK_RIO")
    <3>1. InPort' = InPort + 1
      BY <1>a, <2>5 DEF Keys, Notifying
    <3>2. ArmedCount' = 0
      BY <2>5 DEF ArmedCount
    <3> QED
      BY <1>n, <1>u, <2>1, <2>3, <3>1, <3>2 DEF BoundInv
  <2> QED
    BY <2>1, <2>4, <2>5
<1>7. ASSUME NEW t \in Threads, GetQueuedCompletionStatus(t) PROVE BoundInv'
  <2>1. /\ pc[t] = "gqcs" /\ iocp # <<>> /\ iocp' = Tail(iocp) /\ UNCHANGED <<armed, used>>
    BY <1>7 DEF GetQueuedCompletionStatus, history
  <2>2. Head(iocp) \in Keys
    BY <1>t, <2>1
  <2>3. InPort = InPort' + (IF Head(iocp) \in Notifying THEN 1 ELSE 0)
    BY <1>t, <2>1, CountTail DEF InPort
  <2>4. InPort' \in Int
    <3>1. Tail(iocp) \in Seq(Keys)
      BY <1>t, <2>1
    <3> DEFINE r == Tail(iocp)
    <3> HIDE DEF r
    <3>s. r \in Seq(Keys)
      BY <3>1 DEF r
    <3>l. Len(r) \in Nat
      BY <3>s
    <3>2. CountIn(r, Notifying) \in Int
      <4>1. CountIn(r, Notifying) \in 0..Len(r)
        BY <3>s, PlacesInFinite
      <4> QED
        BY <3>l, <4>1
    <3>3. InPort' = CountIn(r, Notifying)
      BY <2>1 DEF InPort, r
    <3> QED
      BY <3>2, <3>3
  <2>5. ArmedCount' = ArmedCount
    BY <1>d, <2>1
  <2>6. PICK l \in PCs : /\ pc' = [pc EXCEPT ![t] = l]
                         /\ l \in {"notify", "dequeue", "dequeuing", "sorting", "process", "accept"}
                              <=> Head(iocp) \in Notifying
    BY <1>7, <2>2 DEF GetQueuedCompletionStatus, Goto, Keys, PCs, Notifying
  <2>7. (\A u \in Threads \ {t} : Busy(u)' = Busy(u)) /\ pc'[t] = l
    BY <1>e, <2>6
  <2>8. CASE Head(iocp) \in Notifying
    \* The packet is gone, its taker is awake.
    <3>1. ~Busy(t) /\ Busy(t)'
      BY <2>1, <2>6, <2>7, <2>8 DEF Busy, Awake
    <3>2. BusyCount' = BusyCount + 1
      BY <1>h, <2>7, <3>1
    <3> QED
      BY <1>n, <1>u, <2>1, <2>3, <2>4, <2>5, <2>8, <3>2 DEF BoundInv
  <2>9. CASE Head(iocp) \notin Notifying
    <3>1. Busy(t)' = Busy(t)
      BY <2>1, <2>6, <2>7, <2>9 DEF Busy, Awake
    <3>2. BusyCount' = BusyCount
      BY <1>f, <2>7, <3>1
    <3> QED
      BY <1>n, <1>u, <2>1, <2>3, <2>4, <2>5, <2>9, <3>2 DEF BoundInv
  <2> QED
    BY <2>8, <2>9
<1>8. ASSUME NEW t \in Threads, Quit(t) PROVE BoundInv'
  <2>1. /\ pc[t] = "quit" /\ pc' = [pc EXCEPT ![t] = "exited"] /\ iocp' = Append(iocp, "CK_QUIT")
        /\ UNCHANGED <<armed, used>>
    BY <1>8 DEF Quit, Goto, history
  <2>2. (\A u \in Threads \ {t} : Busy(u)' = Busy(u)) /\ pc'[t] = "exited"
    BY <1>e, <2>1 DEF PCs
  <2>3. Busy(t)' = Busy(t)
    BY <2>1, <2>2 DEF Busy, Awake
  <2>4. BusyCount' = BusyCount /\ ArmedCount' = ArmedCount
    BY <1>d, <1>f, <2>1, <2>2, <2>3
  <2>5. InPort' = InPort
    BY <1>a, <1>n, <2>1 DEF Keys, Notifying
  <2> QED
    BY <1>n, <1>u, <2>1, <2>4, <2>5 DEF BoundInv
<1>9. ASSUME NEW t \in Threads, Accept(t) PROVE BoundInv'
  <2>1. pc[t] = "accept" /\ UNCHANGED <<iocp, armed, used>>
    BY <1>9 DEF Accept, history
  <2>2. CASE pc' = [pc EXCEPT ![t] = "notify"]
    BY <1>j, <2>1, <2>2 DEF Busy, Awake, PCs
  <2>3. CASE pc' = [pc EXCEPT ![t] = "stuck"]
    \* The worker reaches no RIONotify any more.
    <3>1. (\A u \in Threads \ {t} : Busy(u)' = Busy(u)) /\ pc'[t] = "stuck"
      BY <1>e, <2>3 DEF PCs
    <3>2. Busy(t) /\ ~Busy(t)'
      BY <2>1, <3>1 DEF Busy, Awake
    <3>3. BusyCount' = BusyCount - 1
      BY <1>g, <3>1, <3>2
    <3>4. InPort' = InPort /\ ArmedCount' = ArmedCount
      BY <1>b, <1>d, <2>1
    <3> QED
      BY <1>n, <1>u, <2>1, <3>3, <3>4 DEF BoundInv
  <2> QED
    BY <1>9, <2>2, <2>3 DEF Accept, Goto
<1>10. ASSUME NEW t \in Threads, DequeueEnter(t) PROVE BoundInv'
  BY <1>j, <1>10 DEF DequeueEnter, Goto, Busy, Awake, PCs, windows
<1>11. ASSUME NEW t \in Threads, DequeueLeave(t) PROVE BoundInv'
  <2>1. /\ pc[t] = "dequeuing" /\ UNCHANGED <<iocp, armed, used>>
        /\ \E l \in {"process", "sorting"} : pc' = [pc EXCEPT ![t] = l]
    BY <1>11 DEF DequeueLeave, Goto
  <2> QED
    BY <1>j, <2>1 DEF Busy, Awake, PCs
<1>12. ASSUME NEW t \in Threads, NextResult(t) PROVE BoundInv'
  BY <1>k, <1>12 DEF NextResult, windows, history
<1>13. ASSUME NEW t \in Threads, EndOfResults(t) PROVE BoundInv'
  BY <1>j, <1>13 DEF EndOfResults, Goto, Busy, Awake, PCs, windows, history
<1>14. ASSUME NEW t \in Threads, PostReceive(t) PROVE BoundInv'
  BY <1>l, <1>14 DEF PostReceive, Refused
<1>15. ASSUME NEW t \in Threads, PostSend(t) PROVE BoundInv'
  BY <1>l, <1>15 DEF PostSend, Refused
<1>16. ASSUME NEW t \in Threads, FreeBuffer(t) PROVE BoundInv'
  BY <1>k, <1>16 DEF FreeBuffer, windows, history
<1>17. ASSUME NEW t \in Threads, Sort(t) PROVE BoundInv'
  <2>1. /\ pc[t] = "sorting" /\ UNCHANGED <<iocp, armed, used>>
        /\ \E l \in {"process", "sorting"} : pc' = [pc EXCEPT ![t] = l]
    BY <1>17 DEF Sort, Goto, windows
  <2> QED
    BY <1>j, <2>1 DEF Busy, Awake, PCs
<1>18. CASE UNCHANGED vars
  BY <1>k, <1>18 DEF vars, windows, history
<1> QED
  BY <1>1, <1>2, <1>3, <1>4, <1>5, <1>6, <1>7, <1>8, <1>9, <1>10, <1>11, <1>12, <1>13,
     <1>14, <1>15, <1>16, <1>17, <1>18 DEF Next, Environment, Worker

\* CK_RIO packets do not pile up, for any number of workers: with the notifications
\* registered and the workers on their way to one they are at most one per worker, plus
\* one for every other packet that sent a worker through RIONotify.
THEOREM NotificationsStayBounded == Spec => []NotificationsBounded
<1>1. Init => WakeupInv /\ BoundInv
  BY InitWakeup, InitBound
<1>2. WakeupInv /\ BoundInv /\ [Next]_vars => (WakeupInv /\ BoundInv)'
  BY NextWakeup, NextBound DEF WakeupInv
<1>3. WakeupInv /\ BoundInv => NotificationsBounded
  <2> SUFFICES ASSUME WakeupTypeOK, BoundInv PROVE NotificationsBounded
    BY DEF WakeupInv
  <2> DEFINE rio == {i \in 1..Len(iocp) : iocp[i] = "CK_RIO"}
  <2>1. /\ IsFiniteSet(PlacesIn(iocp, Notifying))
        /\ Cardinality(PlacesIn(iocp, Notifying)) = InPort
    BY PlacesInFinite DEF WakeupTypeOK, InPort, CountIn
  <2>2. rio \subseteq PlacesIn(iocp, Notifying)
    BY DEF PlacesIn, Notifying
  <2> HIDE DEF rio
  <2>3. Cardinality(rio) \in Nat /\ Cardinality(rio) <= InPort
    BY <2>1, <2>2, FS_Subset, FS_CardinalityType
  <2>4. Cardinality(rio) + BusyCount + ArmedCount <= Cardinality(Threads) + used.packet
    <3>1. used.packet \in Nat
      BY DEF BoundInv
    <3> QED
      BY <2>3, <3>1, CountTypes DEF BoundInv
  <2> QED
    BY <2>4 DEF NotificationsBounded, rio, BusyCount, Up, ArmedCount
<1> QED
  BY <1>1, <1>2, <1>3, PTL DEF Spec

-----------------------------------------------------------------------------
(* Types, and what a worker holds at each place of its loop.                *)

Types ==
  /\ iocp \in Seq(Keys) /\ armed \in BOOLEAN /\ cq \in Seq(Completion)
  /\ pending \in [Kinds -> [Buffers -> Nat]]
  /\ outstanding \in [Kinds -> Int]
  /\ accepts \in Nat
  /\ freeBufferIndex \in Seq(Buffers)
  /\ operationType \in [Buffers -> Kinds]
  /\ pc \in [Threads -> PCs]
  /\ batch \in [Threads -> Seq(Completion)]
  /\ results \in [Threads -> Seq(Buffers)]
  /\ pos \in [Threads -> Nat]
  /\ instructions \in [Threads -> Seq(Instructions)]
  /\ main \in {"running", "joining", "closed"}
  /\ lost \in [{"noBuffer", "refused", "error"} -> Nat]
  /\ used \in [{"packet", "failed", "error"} -> Nat]
  /\ faults \in [{"overlap", "stale"} -> Nat]

\* Only a thread between the dequeue and the end of its sorting has completions, only
\* one in its loop over the results has instructions, and outside the two the results
\* are all done with.
PlaceOf(t) ==
  /\ Len(batch[t]) <= DequeueCount
  /\ pos[t] \in 1..(Len(results[t]) + 1)
  /\ pc[t] \notin {"dequeuing", "sorting"} => batch[t] = <<>>
  /\ pc[t] = "sorting" => batch[t] # <<>> /\ pos[t] = 1
  /\ pc[t] \notin {"sorting", "process"} => pos[t] = Len(results[t]) + 1
  /\ pc[t] # "process" => instructions[t] = <<>>

BaseInv == Types /\ \A t \in Threads : PlaceOf(t)

LEMMA BaseInit == Init => BaseInv
<1> SUFFICES ASSUME Init PROVE BaseInv
  OBVIOUS
<1>1. PICK order \in Orders :
        /\ pending = [k \in Kinds |-> [b \in Buffers |->
             IF k = "OP_RECEIVE" /\ \E i \in 1..MaxReceives : order[i] = b THEN 1 ELSE 0]]
        /\ freeBufferIndex = SubSeq(order, MaxReceives + 1, Cardinality(Buffers))
  BY DEF Init
<1>2. freeBufferIndex \in Seq(Buffers)
  <2> DEFINE n == Cardinality(Buffers)
  <2>1. n \in Nat /\ MaxReceives + 1 \in Nat /\ MaxReceives + 1 >= 1
    BY BuffersAssumption, BoundsAssumption, FS_CardinalityType
  <2>2. order \in Seq(Buffers) /\ Len(order) = n
    BY <2>1 DEF Orders
  <2> HIDE DEF n
  <2>3. \A i \in (MaxReceives + 1)..n : i \in 1..Len(order)
    BY <2>1, <2>2
  <2>4. SubSeq(order, MaxReceives + 1, n) \in Seq(Buffers)
    BY <2>1, <2>2, <2>3
  <2> QED
    BY <1>1, <2>4 DEF n
<1>3. pending \in [Kinds -> [Buffers -> Nat]]
  BY <1>1
<1>4. /\ iocp \in Seq(Keys) /\ armed \in BOOLEAN /\ cq \in Seq(Completion)
      /\ accepts \in Nat /\ operationType \in [Buffers -> Kinds]
      /\ main \in {"running", "joining", "closed"}
  <2>1. iocp = <<>> /\ armed = FALSE /\ cq = <<>> /\ accepts = MaxAccepts /\ main = "running"
    BY DEF Init
  <2>2. operationType = [b \in Buffers |-> "OP_RECEIVE"]
    BY DEF Init
  <2>3. operationType \in [Buffers -> Kinds]
    BY <2>2 DEF Kinds
  <2>4. <<>> \in Seq(Keys) /\ <<>> \in Seq(Completion)
    OBVIOUS
  <2>5. MaxAccepts \in Nat
    BY BoundsAssumption
  <2>6. armed \in BOOLEAN
    BY <2>1
  <2> QED
    BY <2>1, <2>3, <2>4, <2>5, <2>6
<1>5. outstanding \in [Kinds -> Int]
  BY BoundsAssumption DEF Init, Kinds
<1>6. pc \in [Threads -> PCs] /\ pos \in [Threads -> Nat]
  BY DEF Init, PCs
<1>7. /\ batch \in [Threads -> Seq(Completion)] /\ results \in [Threads -> Seq(Buffers)]
      /\ instructions \in [Threads -> Seq(Instructions)]
  BY DEF Init
<1>8. /\ lost \in [{"noBuffer", "refused", "error"} -> Nat]
      /\ faults \in [{"overlap", "stale"} -> Nat]
      /\ used \in [{"packet", "failed", "error"} -> Nat]
  BY DEF Init
<1>9. ASSUME NEW t \in Threads PROVE PlaceOf(t)
  <2>1. /\ batch[t] = <<>> /\ results[t] = <<>> /\ pos[t] = 1 /\ instructions[t] = <<>>
        /\ pc[t] = "notify"
    BY DEF Init
  <2>2. Len(batch[t]) = 0 /\ Len(results[t]) = 0 /\ DequeueCount \in Nat
    BY <2>1, BoundsAssumption
  <2> QED
    BY <2>1, <2>2 DEF PlaceOf
<1> QED
  BY <1>2, <1>3, <1>4, <1>5, <1>6, <1>7, <1>8, <1>9 DEF BaseInv, Types

\* The state of one worker, and steps that leave the workers other than t alone.
OfWorker(t) == <<pc[t], batch[t], results[t], pos[t], instructions[t]>>

OthersStay(t) == \A u \in Threads \ {t} : OfWorker(u)' = OfWorker(u)

LEMMA PlaceStays ==
  ASSUME NEW t, PlaceOf(t), OfWorker(t)' = OfWorker(t)
  PROVE  PlaceOf(t)'
BY DEF PlaceOf, OfWorker

LEMMA WorkerOnly ==
  ASSUME BaseInv, NEW t \in Threads, Worker(t)
  PROVE  OthersStay(t)
<1> USE DEF OthersStay, OfWorker, BaseInv, Types, Goto, Done, thread, windows, manager, history
<1>1. CASE RIONotify(t)
  BY <1>1 DEF RIONotify
<1>2. CASE GetQueuedCompletionStatus(t)
  BY <1>2 DEF GetQueuedCompletionStatus
<1>3. CASE Quit(t)
  BY <1>3 DEF Quit
<1>4. CASE Accept(t)
  BY <1>4 DEF Accept
<1>5. CASE DequeueEnter(t)
  BY <1>5 DEF DequeueEnter
<1>6. CASE DequeueLeave(t)
  BY <1>6 DEF DequeueLeave
<1>7. CASE Sort(t)
  BY <1>7 DEF Sort
<1>8. CASE NextResult(t)
  BY <1>8 DEF NextResult
<1>9. CASE EndOfResults(t)
  BY <1>9 DEF EndOfResults
<1>10. CASE PostReceive(t)
  BY <1>10 DEF PostReceive
<1>11. CASE PostSend(t)
  BY <1>11 DEF PostSend
<1>12. CASE FreeBuffer(t)
  BY <1>12 DEF FreeBuffer
<1> QED
  BY <1>1, <1>2, <1>3, <1>4, <1>5, <1>6, <1>7, <1>8, <1>9, <1>10, <1>11, <1>12 DEF Worker

LEMMA OutsideStays ==
  ASSUME Environment \/ JoinAndShutdown
  PROVE  /\ UNCHANGED <<pc, batch, results, pos, instructions, freeBufferIndex, operationType>>
         /\ UNCHANGED <<outstanding, lost, faults>>
<1>1. ASSUME NEW k, NEW b, NEW ok, Complete(k, b, ok)
      PROVE  /\ UNCHANGED <<pc, batch, results, pos, instructions, freeBufferIndex, operationType>>
             /\ UNCHANGED <<outstanding, lost, faults>>
  BY <1>1 DEF Complete, thread, manager
<1>2. ASSUME NEW ok, AcceptCompletes(ok)
      PROVE  /\ UNCHANGED <<pc, batch, results, pos, instructions, freeBufferIndex, operationType>>
             /\ UNCHANGED <<outstanding, lost, faults>>
  BY <1>2 DEF AcceptCompletes, thread, manager
<1> QED
  BY <1>1, <1>2 DEF Environment, InfoKey, EscapeKey, JoinAndShutdown, thread, manager, windows, history

\* What is to be shown of a step of worker t.
LEMMA BaseOf ==
  ASSUME BaseInv, NEW t \in Threads, Worker(t), Types', PlaceOf(t)'
  PROVE  BaseInv'
<1>1. ASSUME NEW u \in Threads, u # t PROVE PlaceOf(u)'
  <2>1. OfWorker(u)' = OfWorker(u)
    BY <1>1, WorkerOnly DEF OthersStay
  <2> QED
    BY <1>1, <2>1, PlaceStays DEF BaseInv
<1> QED
  BY <1>1 DEF BaseInv

\* A worker that only goes from one place of the loop to another, having nothing in hand.
LEMMA BaseMoves ==
  ASSUME BaseInv, NEW t \in Threads, Worker(t), NEW l \in PCs \ {"sorting"}, pc' = [pc EXCEPT ![t] = l],
         UNCHANGED <<cq, pending, outstanding, operationType, freeBufferIndex>>,
         UNCHANGED <<batch, results, pos, instructions, main, lost, used, faults>>,
         iocp' \in Seq(Keys), armed' \in BOOLEAN, accepts' \in Nat,
         batch[t] = <<>>, instructions[t] = <<>>, pos[t] = Len(results[t]) + 1
  PROVE  BaseInv'
<1>1. Types'
  BY DEF BaseInv, Types
<1>2. pc'[t] = l
  BY DEF BaseInv, Types
<1>3. PlaceOf(t)
  BY DEF BaseInv
<1>4. PlaceOf(t)'
  BY <1>2, <1>3 DEF PlaceOf
<1> QED
  BY <1>1, <1>4, BaseOf

LEMMA KeyAppended ==
  ASSUME BaseInv, NEW k \in Keys
  PROVE  Append(iocp, k) \in Seq(Keys)
BY DEF BaseInv, Types

LEMMA BaseNotify ==
  ASSUME BaseInv, NEW t \in Threads, RIONotify(t)
  PROVE  BaseInv'
<1>1. /\ pc[t] = "notify" /\ pc' = [pc EXCEPT ![t] = "gqcs"]
      /\ armed' \in BOOLEAN /\ (iocp' = iocp \/ iocp' = Append(iocp, "CK_RIO"))
      /\ UNCHANGED <<cq, pending, outstanding, operationType, freeBufferIndex, accepts>>
      /\ UNCHANGED <<batch, results, pos, instructions, main, lost, used, faults>>
  BY DEF RIONotify, Goto, manager, thread, history
<1>2. iocp' \in Seq(Keys) /\ accepts' \in Nat
  BY <1>1, KeyAppended DEF BaseInv, Types, Keys
<1>3. batch[t] = <<>> /\ instructions[t] = <<>> /\ pos[t] = Len(results[t]) + 1
  BY <1>1 DEF BaseInv, PlaceOf
<1>4. Worker(t) /\ "gqcs" \in PCs \ {"sorting"}
  BY DEF Worker, PCs
<1> QED
  BY <1>1, <1>2, <1>3, <1>4, BaseMoves

LEMMA BaseGet ==
  ASSUME BaseInv, NEW t \in Threads, GetQueuedCompletionStatus(t)
  PROVE  BaseInv'
<1>1. /\ pc[t] = "gqcs" /\ iocp' = Tail(iocp) /\ iocp # <<>>
      /\ UNCHANGED <<cq, pending, outstanding, operationType, freeBufferIndex, accepts, armed>>
      /\ UNCHANGED <<batch, results, pos, instructions, main, lost, used, faults>>
  BY DEF GetQueuedCompletionStatus, manager, thread, history
<1>2. iocp' \in Seq(Keys) /\ accepts' \in Nat /\ armed' \in BOOLEAN /\ Head(iocp) \in Keys
  BY <1>1 DEF BaseInv, Types
<1>3. batch[t] = <<>> /\ instructions[t] = <<>> /\ pos[t] = Len(results[t]) + 1
  BY <1>1 DEF BaseInv, PlaceOf
<1>4. PICK l \in PCs \ {"sorting"} : pc' = [pc EXCEPT ![t] = l]
  BY <1>2 DEF GetQueuedCompletionStatus, Goto, Keys, PCs
<1>5. Worker(t)
  BY DEF Worker
<1> QED
  BY <1>1, <1>2, <1>3, <1>4, <1>5, BaseMoves

LEMMA BaseQuit ==
  ASSUME BaseInv, NEW t \in Threads, Quit(t)
  PROVE  BaseInv'
<1>1. /\ pc[t] = "quit" /\ pc' = [pc EXCEPT ![t] = "exited"] /\ iocp' = Append(iocp, "CK_QUIT")
      /\ UNCHANGED <<cq, pending, outstanding, operationType, freeBufferIndex, accepts, armed>>
      /\ UNCHANGED <<batch, results, pos, instructions, main, lost, used, faults>>
  BY DEF Quit, Goto, manager, thread, history
<1>2. iocp' \in Seq(Keys) /\ accepts' \in Nat /\ armed' \in BOOLEAN
  BY <1>1, KeyAppended DEF BaseInv, Types, Keys
<1>3. batch[t] = <<>> /\ instructions[t] = <<>> /\ pos[t] = Len(results[t]) + 1
  BY <1>1 DEF BaseInv, PlaceOf
<1>4. Worker(t) /\ "exited" \in PCs \ {"sorting"}
  BY DEF Worker, PCs
<1> QED
  BY <1>1, <1>2, <1>3, <1>4, BaseMoves

LEMMA BaseAccept ==
  ASSUME BaseInv, NEW t \in Threads, Accept(t)
  PROVE  BaseInv'
<1>1. /\ pc[t] = "accept" /\ accepts' \in {accepts, accepts + 1}
      /\ UNCHANGED <<cq, pending, outstanding, operationType, freeBufferIndex, iocp, armed>>
      /\ UNCHANGED <<batch, results, pos, instructions, main, lost, used, faults>>
  BY DEF Accept, manager, thread, history
<1>2. iocp' \in Seq(Keys) /\ accepts' \in Nat /\ armed' \in BOOLEAN
  <2>1. iocp \in Seq(Keys) /\ accepts \in Nat /\ armed \in BOOLEAN
    BY DEF BaseInv, Types
  <2>2. iocp' = iocp /\ armed' = armed /\ accepts' \in {accepts, accepts + 1}
    BY <1>1
  <2> QED
    BY ONLY <2>1, <2>2
<1>3. batch[t] = <<>> /\ instructions[t] = <<>> /\ pos[t] = Len(results[t]) + 1
  BY <1>1 DEF BaseInv, PlaceOf
<1>4. PICK l \in PCs \ {"sorting"} : pc' = [pc EXCEPT ![t] = l]
  BY DEF Accept, Goto, PCs
<1>5. Worker(t)
  BY DEF Worker
<1> QED
  BY <1>1, <1>2, <1>3, <1>4, <1>5, BaseMoves

LEMMA BaseEndOfResults ==
  ASSUME BaseInv, NEW t \in Threads, EndOfResults(t)
  PROVE  BaseInv'
<1>1. /\ pc[t] = "process" /\ pc' = [pc EXCEPT ![t] = "notify"]
      /\ instructions[t] = <<>> /\ pos[t] > Len(results[t])
      /\ UNCHANGED <<cq, pending, outstanding, operationType, freeBufferIndex, iocp, armed, accepts>>
      /\ UNCHANGED <<batch, results, pos, instructions, main, lost, used, faults>>
  BY DEF EndOfResults, Goto, manager, thread, history, windows
<1>2. iocp' \in Seq(Keys) /\ accepts' \in Nat /\ armed' \in BOOLEAN
  BY <1>1 DEF BaseInv, Types
<1>3. batch[t] = <<>> /\ instructions[t] = <<>> /\ pos[t] = Len(results[t]) + 1
  <2>1. results[t] \in Seq(Buffers) /\ pos[t] \in 1..(Len(results[t]) + 1) /\ batch[t] = <<>>
    BY <1>1 DEF BaseInv, Types, PlaceOf
  <2>2. Len(results[t]) \in Nat
    BY <2>1
  <2> QED
    BY <1>1, <2>1, <2>2
<1>4. Worker(t) /\ "notify" \in PCs \ {"sorting"}
  BY DEF Worker, PCs
<1> QED
  BY <1>1, <1>2, <1>3, <1>4, BaseMoves

LEMMA BaseDequeueEnter ==
  ASSUME BaseInv, NEW t \in Threads, DequeueEnter(t)
  PROVE  BaseInv'
<1>1. /\ pc[t] = "dequeue" /\ pc' = [pc EXCEPT ![t] = "dequeuing"]
      /\ batch' = [batch EXCEPT ![t] = Taken(BatchSize)]
      /\ UNCHANGED <<cq, pending, outstanding, operationType, freeBufferIndex, iocp, armed, accepts>>
      /\ UNCHANGED <<results, pos, instructions, main, lost, used>>
  BY DEF DequeueEnter, Goto, manager, windows
<1>2. Taken(BatchSize) \in Seq(Completion) /\ Len(Taken(BatchSize)) = BatchSize
      /\ BatchSize <= DequeueCount
  <2>1. cq \in Seq(Completion) /\ Len(cq) \in Nat /\ DequeueCount \in Nat
    BY BoundsAssumption DEF BaseInv, Types
  <2>2. BatchSize \in 0..Len(cq) /\ BatchSize <= DequeueCount
    BY <2>1 DEF BatchSize
  <2> DEFINE n == BatchSize
  <2> HIDE DEF n
  <2>3. n \in 0..Len(cq)
    BY <2>2 DEF n
  <2>4. SubSeq(cq, 1, n) \in Seq(Completion) /\ Len(SubSeq(cq, 1, n)) = n
    BY <2>1, <2>3
  <2> QED
    BY <2>2, <2>4 DEF n, Taken
<1>3. faults' \in [{"overlap", "stale"} -> Nat]
  <2>1. faults' = faults \/ faults' = [faults EXCEPT !.overlap = @ + 1]
    BY DEF DequeueEnter
  <2>2. faults \in [{"overlap", "stale"} -> Nat]
    BY DEF BaseInv, Types
  <2> QED
    BY <2>1, <2>2
<1>4. Types'
  BY <1>1, <1>2, <1>3 DEF BaseInv, Types, PCs
<1>5. /\ batch'[t] = Taken(BatchSize) /\ pc'[t] = "dequeuing"
      /\ results'[t] = results[t] /\ pos'[t] = pos[t] /\ instructions'[t] = instructions[t]
  BY <1>1 DEF BaseInv, Types
<1>6. PlaceOf(t)'
  <2>1. PlaceOf(t)
    BY DEF BaseInv
  <2> QED
    BY <1>1, <1>2, <1>5, <2>1 DEF PlaceOf
<1>7. Worker(t)
  BY DEF Worker
<1> QED
  BY <1>4, <1>6, <1>7, BaseOf

\* How many entries the dequeue removes, and from where.
LEMMA AheadType ==
  ASSUME BaseInv, NEW s
  PROVE  StillAhead(s) \in 0..Len(cq) /\ Len(cq) \in Nat
<1> DEFINE ahead == {i \in 1..Len(cq) : \A j \in 1..i : Member(s, cq[j])}
<1>1. Len(cq) \in Nat
  BY DEF BaseInv, Types
<1>2. IsFiniteSet(1..Len(cq)) /\ Cardinality(1..Len(cq)) = Len(cq)
  <2> DEFINE n == Len(cq)
  <2>1. n \in Nat
    BY <1>1
  <2> HIDE DEF n
  <2>2. IsFiniteSet(1..n) /\ Cardinality(1..n) = n
    BY <2>1, FS_Interval
  <2> QED
    BY <2>2 DEF n
<1>3. ahead \subseteq 1..Len(cq)
  OBVIOUS
<1> HIDE DEF ahead
<1>4. IsFiniteSet(ahead) /\ Cardinality(ahead) <= Cardinality(1..Len(cq))
  BY <1>2, <1>3, FS_Subset
<1>5. Cardinality(ahead) \in Nat
  BY <1>4, FS_CardinalityType
<1>6. Cardinality(ahead) \in 0..Len(cq)
  BY <1>1, <1>2, <1>4, <1>5
<1> QED
  BY <1>1, <1>6 DEF StillAhead, ahead

\* The completions of one kind.
OfTheKind(k) == {e \in Completion : e.kind = k}

LEMMA OfKindIs ==
  ASSUME NEW s \in Seq(Completion), NEW k
  PROVE  OfKind(s, k) = CountIn(s, OfTheKind(k)) /\ OfKind(s, k) \in Nat
<1>1. {i \in 1..Len(s) : s[i].kind = k} = PlacesIn(s, OfTheKind(k))
  BY DEF PlacesIn, OfTheKind
<1>2. CountIn(s, OfTheKind(k)) \in 0..Len(s) /\ Len(s) \in Nat
  BY PlacesInFinite
<1>3. CountIn(s, OfTheKind(k)) \in Nat
  BY <1>2
<1>4. OfKind(s, k) = CountIn(s, OfTheKind(k))
  BY <1>1 DEF OfKind, CountIn
<1> QED
  BY <1>3, <1>4

LEMMA TakenIs ==
  ASSUME BaseInv, NEW n \in 0..Len(cq)
  PROVE  /\ Taken(n) \in Seq(Completion)
         /\ SubSeq(cq, n + 1, Len(cq)) \in Seq(Completion)
         /\ \A D : CountIn(cq, D) = CountIn(Taken(n), D) + CountIn(SubSeq(cq, n + 1, Len(cq)), D)
<1>1. cq \in Seq(Completion) /\ Len(cq) \in Nat
  BY DEF BaseInv, Types
<1>2. SubSeq(cq, 1, n) \in Seq(Completion) /\ SubSeq(cq, n + 1, Len(cq)) \in Seq(Completion)
  BY <1>1
<1>3. \A D : CountIn(cq, D) = CountIn(SubSeq(cq, 1, n), D) + CountIn(SubSeq(cq, n + 1, Len(cq)), D)
  BY <1>1, CountCut
<1> QED
  BY <1>2, <1>3 DEF Taken

LEMMA BaseDequeueLeave ==
  ASSUME BaseInv, NEW t \in Threads, DequeueLeave(t)
  PROVE  BaseInv'
<1> DEFINE n == StillAhead(batch[t])
<1>1. /\ pc[t] = "dequeuing"
      /\ cq' = SubSeq(cq, n + 1, Len(cq))
      /\ outstanding' = [k \in Kinds |-> outstanding[k] - OfKind(Taken(n), k)]
      /\ pos' = [pos EXCEPT ![t] = 1]
      /\ UNCHANGED <<pending, operationType, freeBufferIndex, iocp, armed, accepts>>
      /\ UNCHANGED <<batch, instructions, main, lost, used>>
      /\ \/ batch[t] = <<>> /\ pc' = [pc EXCEPT ![t] = "process"] /\ results' = results
         \/ batch[t] # <<>> /\ pc' = [pc EXCEPT ![t] = "sorting"]
            /\ results' = [results EXCEPT ![t] = <<>>]
  BY DEF DequeueLeave, Goto, manager
<1>2. n \in 0..Len(cq)
  BY AheadType
<1> HIDE DEF n
<1>3. cq' \in Seq(Completion)
  BY <1>1, <1>2, TakenIs
<1>4. outstanding' \in [Kinds -> Int]
  <2>1. \A k \in Kinds : OfKind(Taken(n), k) \in Nat
    BY <1>2, TakenIs, OfKindIs
  <2>2. outstanding \in [Kinds -> Int]
    BY DEF BaseInv, Types
  <2> QED
    BY <1>1, <2>1, <2>2
<1>5. faults' \in [{"overlap", "stale"} -> Nat]
  <2>1. faults' = faults \/ faults' = [faults EXCEPT !.stale = @ + 1]
    BY DEF DequeueLeave
  <2>2. faults \in [{"overlap", "stale"} -> Nat]
    BY DEF BaseInv, Types
  <2> QED
    BY <2>1, <2>2
<1>6. results' \in [Threads -> Seq(Buffers)] /\ pc' \in [Threads -> PCs] /\ pos' \in [Threads -> Nat]
  <2>1. results \in [Threads -> Seq(Buffers)] /\ pc \in [Threads -> PCs] /\ pos \in [Threads -> Nat]
    BY DEF BaseInv, Types
  <2>2. <<>> \in Seq(Buffers)
    OBVIOUS
  <2>3. results' \in [Threads -> Seq(Buffers)]
    BY <1>1, <2>1, <2>2
  <2>4. pc' \in [Threads -> PCs]
    BY <1>1, <2>1 DEF PCs
  <2>5. pos' \in [Threads -> Nat]
    BY <1>1, <2>1
  <2> QED
    BY <2>3, <2>4, <2>5
<1>7. Types'
  BY <1>1, <1>3, <1>4, <1>5, <1>6 DEF BaseInv, Types
<1>8. PlaceOf(t) /\ batch'[t] = batch[t] /\ instructions'[t] = instructions[t] /\ pos'[t] = 1
  BY <1>1 DEF BaseInv, Types
<1>9. Len(results'[t]) \in Nat
  BY <1>6
<1>10. PlaceOf(t)'
  <2>1. CASE batch[t] = <<>>
    <3>1. pc'[t] = "process"
      BY <1>1, <2>1 DEF BaseInv, Types
    <3> QED
      BY <1>1, <1>8, <1>9, <2>1, <3>1 DEF PlaceOf
  <2>2. CASE batch[t] # <<>>
    <3>1. pc'[t] = "sorting" /\ results'[t] = <<>>
      BY <1>1, <2>2 DEF BaseInv, Types
    <3> QED
      BY <1>1, <1>8, <1>9, <2>2, <3>1 DEF PlaceOf
  <2> QED
    BY <2>1, <2>2
<1>11. Worker(t)
  BY DEF Worker
<1> QED
  BY <1>7, <1>10, <1>11, BaseOf

\* The completion a sorting thread is at.
LEMMA SortIs ==
  ASSUME BaseInv, NEW t \in Threads, Sort(t)
  PROVE  /\ Worker(t) /\ pc[t] = "sorting" /\ batch[t] \in Seq(Completion) /\ batch[t] # <<>>
         /\ Head(batch[t]) \in Completion
         /\ Tail(batch[t]) \in Seq(Completion) /\ Len(Tail(batch[t])) = Len(batch[t]) - 1
         /\ Len(batch[t]) \in Nat /\ Len(batch[t]) >= 1
         /\ pos[t] = 1 /\ instructions[t] = <<>>
         /\ results[t] \in Seq(Buffers)
         /\ batch'[t] = Tail(batch[t]) /\ pos'[t] = 1 /\ instructions'[t] = <<>>
         /\ pc'[t] = IF Len(batch[t]) = 1 THEN "process" ELSE "sorting"
<1>1. /\ pc[t] = "sorting" /\ batch' = [batch EXCEPT ![t] = Tail(batch[t])]
      /\ pos' = pos /\ instructions' = instructions
      /\ pc' = [pc EXCEPT ![t] = IF Len(batch[t]) = 1 THEN "process" ELSE "sorting"]
  BY DEF Sort, Goto
<1>2. PlaceOf(t) /\ batch[t] \in Seq(Completion) /\ results[t] \in Seq(Buffers)
  BY DEF BaseInv, Types
<1>3. batch[t] # <<>> /\ pos[t] = 1 /\ instructions[t] = <<>>
  BY <1>1, <1>2 DEF PlaceOf
<1> DEFINE b == batch[t]
<1>4. b \in Seq(Completion) /\ b # <<>>
  BY <1>2, <1>3
<1> HIDE DEF b
<1>5. /\ Head(b) \in Completion /\ Tail(b) \in Seq(Completion)
      /\ Len(Tail(b)) = Len(b) - 1 /\ Len(b) \in Nat /\ Len(b) >= 1
  BY <1>4
<1>6. batch'[t] = Tail(batch[t]) /\ pos'[t] = 1 /\ instructions'[t] = <<>>
  BY <1>1, <1>3 DEF BaseInv, Types
<1>7. pc'[t] = IF Len(batch[t]) = 1 THEN "process" ELSE "sorting"
  BY <1>1 DEF BaseInv, Types
<1>8. Worker(t)
  BY DEF Worker
<1> QED
  BY <1>1, <1>2, <1>3, <1>5, <1>6, <1>7, <1>8 DEF b

LEMMA BaseSort ==
  ASSUME BaseInv, NEW t \in Threads, Sort(t)
  PROVE  BaseInv'
<1> DEFINE e == Head(batch[t])
<1>1. /\ batch' = [batch EXCEPT ![t] = Tail(batch[t])]
      /\ pc' = [pc EXCEPT ![t] = IF Len(batch[t]) = 1 THEN "process" ELSE "sorting"]
      /\ UNCHANGED <<iocp, armed, cq, pending, outstanding, accepts>>
      /\ UNCHANGED <<operationType, pos, instructions, main, used, faults>>
      /\ \/ /\ results' = [results EXCEPT ![t] = Append(results[t], e.buf)]
            /\ freeBufferIndex' = freeBufferIndex /\ lost' = lost
         \/ /\ freeBufferIndex' = Append(freeBufferIndex, e.buf) /\ results' = results
            /\ lost' = lost \/ lost' = [lost EXCEPT !.error = @ + 1]
  BY DEF Sort, Goto, windows
<1>2. e.buf \in Buffers
  BY SortIs DEF Completion
<1> HIDE DEF e
<1>3. batch' \in [Threads -> Seq(Completion)]
  <2>1. batch \in [Threads -> Seq(Completion)] /\ Tail(batch[t]) \in Seq(Completion)
    BY SortIs DEF BaseInv, Types
  <2> QED
    BY <1>1, <2>1
<1>4. results' \in [Threads -> Seq(Buffers)]
  <2>1. results \in [Threads -> Seq(Buffers)]
    BY DEF BaseInv, Types
  <2>2. Append(results[t], e.buf) \in Seq(Buffers)
    BY <1>2, <2>1
  <2> QED
    BY <1>1, <2>1, <2>2
<1>5. freeBufferIndex' \in Seq(Buffers)
  <2>1. freeBufferIndex \in Seq(Buffers)
    BY DEF BaseInv, Types
  <2>2. Append(freeBufferIndex, e.buf) \in Seq(Buffers)
    BY <1>2, <2>1
  <2> QED
    BY <1>1, <2>1, <2>2
<1>6. lost' \in [{"noBuffer", "refused", "error"} -> Nat]
  <2>1. lost \in [{"noBuffer", "refused", "error"} -> Nat]
    BY DEF BaseInv, Types
  <2> QED
    BY <1>1, <2>1
<1>7. pc' \in [Threads -> PCs]
  BY <1>1 DEF BaseInv, Types, PCs
<1>8. Types'
  BY <1>1, <1>3, <1>4, <1>5, <1>6, <1>7 DEF BaseInv, Types
<1>9. PlaceOf(t)'
  <2>1. PlaceOf(t)
    BY DEF BaseInv
  <2>2. /\ batch'[t] = Tail(batch[t]) /\ pos'[t] = 1 /\ instructions'[t] = <<>>
        /\ pc'[t] = IF Len(batch[t]) = 1 THEN "process" ELSE "sorting"
        /\ Len(Tail(batch[t])) = Len(batch[t]) - 1 /\ Len(batch[t]) \in Nat
        /\ Tail(batch[t]) \in Seq(Completion)
    BY SortIs
  <2>3. Len(results'[t]) \in Nat
    BY <1>4
  <2> DEFINE n == Len(batch[t])
             m == Len(Tail(batch[t]))
  <2>4. n \in Nat /\ n <= DequeueCount /\ m = n - 1
    BY <2>1, <2>2 DEF PlaceOf
  <2>5. DequeueCount \in Nat
    BY BoundsAssumption
  <2>6. n # 1 => Tail(batch[t]) # <<>>
    <3>1. m = 0 => n = 1
      BY <2>4
    <3>2. Len(<<>>) = 0
      OBVIOUS
    <3> QED
      BY <3>1, <3>2
  <2>7. n = 1 => Tail(batch[t]) = <<>>
    <3>1. n = 1 => m = 0
      BY <2>4
    <3>2. \A s \in Seq(Completion) : Len(s) = 0 => s = <<>>
      OBVIOUS
    <3> QED
      BY <2>2, <3>1, <3>2
  <2>8. m <= DequeueCount
    <3> HIDE DEF n, m
    <3> QED
      BY <2>4, <2>5
  <2> QED
    BY <2>2, <2>3, <2>6, <2>7, <2>8 DEF PlaceOf
<1> QED
  BY <1>8, <1>9, SortIs, BaseOf

\* The result a worker comes to.
LEMMA ResultIs ==
  ASSUME BaseInv, NEW t \in Threads, NextResult(t)
  PROVE  /\ Worker(t) /\ pc[t] = "process" /\ pc' = pc /\ instructions[t] = <<>> /\ batch[t] = <<>>
         /\ results[t] \in Seq(Buffers) /\ pos[t] \in 1..Len(results[t])
         /\ pos[t] \in Nat /\ Len(results[t]) \in Nat
         /\ results[t][pos[t]] \in Buffers
         /\ results' = results /\ batch' = batch
         /\ pos' = [pos EXCEPT ![t] = pos[t] + 1] /\ pos'[t] = pos[t] + 1
         /\ instructions' = [instructions EXCEPT ![t] = GetInstructions(results[t][pos[t]])]
         /\ instructions'[t] = GetInstructions(results[t][pos[t]])
<1>1. /\ pc[t] = "process" /\ pc' = pc /\ instructions[t] = <<>> /\ pos[t] <= Len(results[t])
      /\ results' = results /\ batch' = batch
      /\ pos' = [pos EXCEPT ![t] = pos[t] + 1]
      /\ instructions' = [instructions EXCEPT ![t] = GetInstructions(results[t][pos[t]])]
  BY DEF NextResult
<1>2. PlaceOf(t) /\ results[t] \in Seq(Buffers) /\ pos[t] \in Nat
  BY DEF BaseInv, Types
<1> DEFINE r == results[t]
           p == pos[t]
<1>3. r \in Seq(Buffers) /\ p \in Nat /\ p >= 1 /\ p <= Len(r) /\ batch[t] = <<>>
  BY <1>1, <1>2 DEF PlaceOf
<1>4. p \in 1..Len(r) /\ r[p] \in Buffers /\ Len(r) \in Nat
  <2> HIDE DEF r, p
  <2>1. Len(r) \in Nat
    BY <1>3
  <2>2. p \in 1..Len(r)
    BY <1>3, <2>1
  <2> QED
    BY <1>3, <2>1, <2>2
<1>5. pos'[t] = pos[t] + 1 /\ instructions'[t] = GetInstructions(results[t][pos[t]])
  BY <1>1 DEF BaseInv, Types
<1>6. Worker(t)
  BY DEF Worker
<1> QED
  BY <1>1, <1>3, <1>4, <1>5, <1>6

LEMMA InstructionsType ==
  ASSUME NEW b \in Buffers
  PROVE  GetInstructions(b) \in Seq(Instructions)
<1>1. Receive \in Instructions /\ Send(b) \in Instructions /\ FreeInst(b) \in Instructions
  BY DEF Instructions
<1>2. <<Receive, Send(b)>> \in Seq(Instructions) /\ <<FreeInst(b)>> \in Seq(Instructions)
  <2> DEFINE x == Receive
             y == Send(b)
             z == FreeInst(b)
  <2>1. x \in Instructions /\ y \in Instructions /\ z \in Instructions
    BY <1>1
  <2> HIDE DEF x, y, z
  <2>2. <<x, y>> \in Seq(Instructions) /\ <<z>> \in Seq(Instructions)
    BY <2>1
  <2> QED
    BY <2>2 DEF x, y, z
<1> QED
  BY <1>2 DEF GetInstructions

LEMMA BaseNextResult ==
  ASSUME BaseInv, NEW t \in Threads, NextResult(t)
  PROVE  BaseInv'
<1>1. /\ UNCHANGED <<iocp, armed, cq, pending, outstanding, accepts, freeBufferIndex>>
      /\ UNCHANGED <<operationType, pc, batch, results, main, lost, used, faults>>
  BY DEF NextResult, windows, manager, history
<1>2. instructions' \in [Threads -> Seq(Instructions)]
  <2>1. GetInstructions(results[t][pos[t]]) \in Seq(Instructions)
    BY ResultIs, InstructionsType
  <2>2. instructions \in [Threads -> Seq(Instructions)]
    BY DEF BaseInv, Types
  <2> QED
    BY <2>1, <2>2, ResultIs
<1>3. pos' \in [Threads -> Nat]
  <2>1. pos \in [Threads -> Nat]
    BY DEF BaseInv, Types
  <2>2. pos[t] + 1 \in Nat /\ pos' = [pos EXCEPT ![t] = pos[t] + 1]
    BY <2>1, ResultIs
  <2> QED
    BY <2>1, <2>2
<1>4. Types'
  BY <1>1, <1>2, <1>3 DEF BaseInv, Types
<1>5. PlaceOf(t)'
  <2>1. /\ pc[t] = "process" /\ pos[t] \in 1..Len(results[t]) /\ Len(results[t]) \in Nat
        /\ pos'[t] = pos[t] + 1
    BY ResultIs
  <2>2. pos'[t] \in 1..(Len(results[t]) + 1)
    BY <2>1
  <2>3. PlaceOf(t)
    BY DEF BaseInv
  <2> QED
    BY <1>1, <2>1, <2>2, <2>3 DEF PlaceOf
<1> QED
  BY <1>4, <1>5, ResultIs, BaseOf

\* The instruction a worker is at, and what doing it leaves.
LEMMA InstructionIs ==
  ASSUME BaseInv, NEW t \in Threads, NEW type, CurrentIs(t, type), Done(t)
  PROVE  /\ pc[t] = "process" /\ batch[t] = <<>>
         /\ instructions[t] \in Seq(Instructions) /\ instructions[t] # <<>>
         /\ Head(instructions[t]) \in Instructions /\ Head(instructions[t]).type = type
         /\ Tail(instructions[t]) \in Seq(Instructions)
         /\ instructions' = [instructions EXCEPT ![t] = Tail(instructions[t])]
         /\ instructions' \in [Threads -> Seq(Instructions)]
         /\ instructions'[t] = Tail(instructions[t])
         /\ type = "RECEIVE" => Head(instructions[t]) = Receive
         /\ type = "SEND" => \E b \in Buffers : Head(instructions[t]) = Send(b)
         /\ type = "FREEBUFFER" => \E b \in Buffers : Head(instructions[t]) = FreeInst(b)
<1>1. /\ pc[t] = "process" /\ instructions[t] # <<>> /\ Head(instructions[t]).type = type
      /\ instructions' = [instructions EXCEPT ![t] = Tail(instructions[t])]
  BY DEF CurrentIs, Done
<1>2. instructions \in [Threads -> Seq(Instructions)] /\ PlaceOf(t)
  BY DEF BaseInv, Types
<1>3. batch[t] = <<>>
  BY <1>1, <1>2 DEF PlaceOf
<1> DEFINE i == instructions[t]
<1>4. i \in Seq(Instructions) /\ i # <<>>
  BY <1>1, <1>2
<1> HIDE DEF i
<1>5. Head(i) \in Instructions /\ Tail(i) \in Seq(Instructions)
  BY <1>4
<1>6. instructions' \in [Threads -> Seq(Instructions)] /\ instructions'[t] = Tail(i)
  BY <1>1, <1>2, <1>5 DEF i
<1>7. /\ type = "RECEIVE" => Head(i) = Receive
      /\ type = "SEND" => \E b \in Buffers : Head(i) = Send(b)
      /\ type = "FREEBUFFER" => \E b \in Buffers : Head(i) = FreeInst(b)
  <2>1. Head(i).type = type
    BY <1>1 DEF i
  <2>2. CASE Head(i) = Receive
    BY <2>1, <2>2 DEF Receive
  <2>3. ASSUME NEW b \in Buffers, Head(i) = Send(b)
        PROVE  type = "SEND"
    BY <2>1, <2>3 DEF Send
  <2>4. ASSUME NEW b \in Buffers, Head(i) = FreeInst(b)
        PROVE  type = "FREEBUFFER"
    BY <2>1, <2>4 DEF FreeInst
  <2>5. \/ Head(i) = Receive
        \/ \E b \in Buffers : Head(i) = Send(b)
        \/ \E b \in Buffers : Head(i) = FreeInst(b)
    BY <1>5 DEF Instructions
  <2> QED
    BY <2>1, <2>2, <2>3, <2>4, <2>5
<1> QED
  BY <1>1, <1>3, <1>4, <1>5, <1>6, <1>7 DEF i

LEMMA InstructionKeepsPlace ==
  ASSUME BaseInv, NEW t \in Threads, NEW type, CurrentIs(t, type), Done(t),
         UNCHANGED <<pc, batch, results, pos>>
  PROVE  PlaceOf(t)'
<1>1. pc[t] = "process"
  BY InstructionIs
<1>2. PlaceOf(t)
  BY DEF BaseInv
<1> QED
  BY <1>1, <1>2 DEF PlaceOf

LEMMA PostTypesKept ==
  ASSUME BaseInv, NEW k \in Kinds, NEW b \in Buffers, Post(k, b)
  PROVE  /\ outstanding' \in [Kinds -> Int] /\ pending' \in [Kinds -> [Buffers -> Nat]]
         /\ operationType' \in [Buffers -> Kinds]
<1>1. /\ outstanding' = [outstanding EXCEPT ![k] = @ + 1]
      /\ pending' = [pending EXCEPT ![k][b] = @ + 1]
      /\ operationType' = [operationType EXCEPT ![b] = k]
  BY DEF Post
<1>2. /\ outstanding \in [Kinds -> Int] /\ pending \in [Kinds -> [Buffers -> Nat]]
      /\ operationType \in [Buffers -> Kinds]
  BY DEF BaseInv, Types
<1>3. outstanding' \in [Kinds -> Int]
  BY <1>1, <1>2
<1>4. pending' \in [Kinds -> [Buffers -> Nat]]
  BY <1>1, <1>2
<1>5. operationType' \in [Buffers -> Kinds]
  BY <1>1, <1>2
<1> QED
  BY <1>3, <1>4, <1>5

LEMMA FreeHead ==
  ASSUME BaseInv, freeBufferIndex # <<>>
  PROVE  /\ Head(freeBufferIndex) \in Buffers /\ Tail(freeBufferIndex) \in Seq(Buffers)
         /\ Append(Tail(freeBufferIndex), Head(freeBufferIndex)) \in Seq(Buffers)
<1>1. freeBufferIndex \in Seq(Buffers)
  BY DEF BaseInv, Types
<1>2. Head(freeBufferIndex) \in Buffers /\ Tail(freeBufferIndex) \in Seq(Buffers)
  BY <1>1
<1> DEFINE h == Head(freeBufferIndex)
           r == Tail(freeBufferIndex)
<1> HIDE DEF h, r
<1>3. h \in Buffers /\ r \in Seq(Buffers)
  BY <1>2 DEF h, r
<1>4. Append(r, h) \in Seq(Buffers)
  BY <1>3
<1> QED
  BY <1>2, <1>4 DEF h, r

LEMMA FreeAppended ==
  ASSUME BaseInv, NEW b \in Buffers
  PROVE  Append(freeBufferIndex, b) \in Seq(Buffers)
BY DEF BaseInv, Types

LEMMA UseType ==
  ASSUME BaseInv, NEW k \in {"packet", "failed", "error"}, Use(k)
  PROVE  used' \in [{"packet", "failed", "error"} -> Nat]
<1>1. used \in [{"packet", "failed", "error"} -> Nat]
  BY DEF BaseInv, Types
<1>2. used' = [used EXCEPT ![k] = used[k] + 1]
  BY DEF Use
<1> QED
  BY ONLY <1>1, <1>2, k \in {"packet", "failed", "error"}

LEMMA UsedByRequest ==
  ASSUME BaseInv, used' = used \/ Use("error")
  PROVE  used' \in [{"packet", "failed", "error"} -> Nat]
<1>1. used \in [{"packet", "failed", "error"} -> Nat]
  BY DEF BaseInv, Types
<1> QED
  BY <1>1, UseType

LEMMA LossCounted ==
  ASSUME BaseInv,
         \/ lost' = lost
         \/ lost' = [lost EXCEPT !.noBuffer = @ + 1]
         \/ lost' = [lost EXCEPT !.refused = @ + 1]
  PROVE  lost' \in [{"noBuffer", "refused", "error"} -> Nat]
<1>1. lost \in [{"noBuffer", "refused", "error"} -> Nat]
  BY DEF BaseInv, Types
<1>2. ASSUME lost' = [lost EXCEPT !.noBuffer = @ + 1]
      PROVE  lost' \in [{"noBuffer", "refused", "error"} -> Nat]
  BY <1>1, <1>2
<1>3. ASSUME lost' = [lost EXCEPT !.refused = @ + 1]
      PROVE  lost' \in [{"noBuffer", "refused", "error"} -> Nat]
  BY <1>1, <1>3
<1> QED
  BY <1>1, <1>2, <1>3

LEMMA BasePostReceive ==
  ASSUME BaseInv, NEW t \in Threads, PostReceive(t)
  PROVE  BaseInv'
<1>1. /\ CurrentIs(t, "RECEIVE") /\ Done(t)
      /\ UNCHANGED <<iocp, armed, cq, accepts, pc, batch, results, pos, main, faults>>
      /\ used' = used \/ Use("error")
  BY DEF PostReceive, Refused
<1>u. used' \in [{"packet", "failed", "error"} -> Nat]
  BY <1>1, UsedByRequest
<1>2. instructions' \in [Threads -> Seq(Instructions)] /\ PlaceOf(t)'
  BY <1>1, InstructionIs, InstructionKeepsPlace
<1>t. /\ outstanding \in [Kinds -> Int] /\ pending \in [Kinds -> [Buffers -> Nat]]
      /\ operationType \in [Buffers -> Kinds] /\ freeBufferIndex \in Seq(Buffers)
      /\ lost \in [{"noBuffer", "refused", "error"} -> Nat]
  BY DEF BaseInv, Types
<1>3. /\ outstanding' \in [Kinds -> Int] /\ pending' \in [Kinds -> [Buffers -> Nat]]
      /\ operationType' \in [Buffers -> Kinds] /\ freeBufferIndex' \in Seq(Buffers)
      /\ lost' \in [{"noBuffer", "refused", "error"} -> Nat]
  <2>1. CASE /\ UNCHANGED <<pending, outstanding, freeBufferIndex, operationType>>
             /\ lost' = lost \/ lost' = [lost EXCEPT !.noBuffer = @ + 1]
    <3>1. lost' \in [{"noBuffer", "refused", "error"} -> Nat]
      BY <2>1, LossCounted
    <3> QED
      BY <1>t, <2>1, <3>1
  <2>2. CASE /\ freeBufferIndex # <<>> /\ Post("OP_RECEIVE", Head(freeBufferIndex))
             /\ freeBufferIndex' = Tail(freeBufferIndex) /\ lost' = lost
    BY <1>t, <2>2, FreeHead, PostTypesKept DEF Kinds
  <2>3. CASE /\ freeBufferIndex # <<>>
             /\ operationType' = [operationType EXCEPT ![Head(freeBufferIndex)] = "OP_RECEIVE"]
             /\ freeBufferIndex' = Append(Tail(freeBufferIndex), Head(freeBufferIndex))
             /\ lost' = lost \/ lost' = [lost EXCEPT !.refused = @ + 1]
             /\ UNCHANGED <<pending, outstanding>>
    <3>1. operationType' \in [Buffers -> Kinds]
      BY <1>t, <2>3 DEF Kinds
    <3>2. lost' \in [{"noBuffer", "refused", "error"} -> Nat]
      BY <2>3, LossCounted
    <3> QED
      BY <1>t, <2>3, <3>1, <3>2, FreeHead
  <2> QED
    BY <2>1, <2>2, <2>3 DEF PostReceive, manager
<1>4. Types'
  BY <1>1, <1>u, <1>2, <1>3 DEF BaseInv, Types
<1>5. Worker(t)
  BY DEF Worker
<1> QED
  BY <1>2, <1>4, <1>5, BaseOf

LEMMA BasePostSend ==
  ASSUME BaseInv, NEW t \in Threads, PostSend(t)
  PROVE  BaseInv'
<1>1. /\ CurrentIs(t, "SEND") /\ Done(t)
      /\ UNCHANGED <<iocp, armed, cq, accepts, pc, batch, results, pos, main, lost, faults>>
      /\ used' = used \/ Use("error")
  BY DEF PostSend, Refused
<1>u. used' \in [{"packet", "failed", "error"} -> Nat]
  BY <1>1, UsedByRequest
<1>2. instructions' \in [Threads -> Seq(Instructions)] /\ PlaceOf(t)'
  BY <1>1, InstructionIs, InstructionKeepsPlace
<1>t. /\ outstanding \in [Kinds -> Int] /\ pending \in [Kinds -> [Buffers -> Nat]]
      /\ operationType \in [Buffers -> Kinds] /\ freeBufferIndex \in Seq(Buffers)
  BY DEF BaseInv, Types
<1> DEFINE b == Head(instructions[t]).buf
<1>b. b \in Buffers
  <2>1. PICK c \in Buffers : Head(instructions[t]) = Send(c)
    BY <1>1, InstructionIs
  <2> QED
    BY <2>1 DEF Send
<1>d. \/ /\ freeBufferIndex' = Append(freeBufferIndex, b)
         /\ UNCHANGED <<pending, outstanding>>
         /\ operationType' = operationType \/ operationType' = [operationType EXCEPT ![b] = "OP_SEND"]
      \/ Post("OP_SEND", b) /\ UNCHANGED freeBufferIndex
  BY DEF PostSend
<1> HIDE DEF b
<1>3. /\ outstanding' \in [Kinds -> Int] /\ pending' \in [Kinds -> [Buffers -> Nat]]
      /\ operationType' \in [Buffers -> Kinds] /\ freeBufferIndex' \in Seq(Buffers)
  <2>1. CASE /\ freeBufferIndex' = Append(freeBufferIndex, b)
             /\ UNCHANGED <<pending, outstanding>>
             /\ operationType' = operationType \/ operationType' = [operationType EXCEPT ![b] = "OP_SEND"]
    <3>1. operationType' \in [Buffers -> Kinds]
      BY <1>t, <1>b, <2>1 DEF Kinds
    <3> QED
      BY <1>t, <1>b, <2>1, <3>1, FreeAppended
  <2>2. CASE Post("OP_SEND", b) /\ UNCHANGED freeBufferIndex
    BY <1>t, <1>b, <2>2, PostTypesKept DEF Kinds
  <2> QED
    BY <1>d, <2>1, <2>2
<1>4. Types'
  BY <1>1, <1>u, <1>2, <1>3 DEF BaseInv, Types
<1>5. Worker(t)
  BY DEF Worker
<1> QED
  BY <1>2, <1>4, <1>5, BaseOf

LEMMA BaseFreeBuffer ==
  ASSUME BaseInv, NEW t \in Threads, FreeBuffer(t)
  PROVE  BaseInv'
<1>1. /\ CurrentIs(t, "FREEBUFFER") /\ Done(t)
      /\ freeBufferIndex' = Append(freeBufferIndex, Head(instructions[t]).buf)
      /\ UNCHANGED <<iocp, armed, cq, pending, outstanding, accepts, operationType>>
      /\ UNCHANGED <<pc, batch, results, pos, main, lost, used, faults>>
  BY DEF FreeBuffer, history, windows
<1>2. instructions' \in [Threads -> Seq(Instructions)] /\ PlaceOf(t)'
  BY <1>1, InstructionIs, InstructionKeepsPlace
<1>b. Head(instructions[t]).buf \in Buffers
  <2>1. PICK c \in Buffers : Head(instructions[t]) = FreeInst(c)
    BY <1>1, InstructionIs
  <2> QED
    BY <2>1 DEF FreeInst
<1>3. freeBufferIndex' \in Seq(Buffers)
  BY <1>1, <1>b, FreeAppended
<1>4. Types'
  BY <1>1, <1>2, <1>3 DEF BaseInv, Types
<1>5. Worker(t)
  BY DEF Worker
<1> QED
  BY <1>2, <1>4, <1>5, BaseOf

LEMMA CompleteTypes ==
  ASSUME BaseInv, NEW k \in Kinds, NEW b \in Buffers, NEW ok \in BOOLEAN, Complete(k, b, ok)
  PROVE  /\ [buf |-> b, kind |-> k, ok |-> ok] \in Completion
         /\ cq' = Append(cq, [buf |-> b, kind |-> k, ok |-> ok]) /\ cq' \in Seq(Completion)
         /\ pending' = [pending EXCEPT ![k][b] = @ - 1] /\ pending[k][b] \in Nat /\ pending[k][b] >= 1
         /\ pending' \in [Kinds -> [Buffers -> Nat]]
         /\ UNCHANGED <<outstanding, accepts, freeBufferIndex, operationType, pc, batch, results>>
         /\ UNCHANGED <<pos, instructions, main, lost, faults>>
<1>1. /\ cq' = Append(cq, [buf |-> b, kind |-> k, ok |-> ok])
      /\ pending' = [pending EXCEPT ![k][b] = @ - 1] /\ pending[k][b] > 0
      /\ UNCHANGED <<outstanding, accepts, freeBufferIndex, operationType, pc, batch, results>>
      /\ UNCHANGED <<pos, instructions, main, lost, faults>>
  BY DEF Complete, manager, thread
<1>2. pending \in [Kinds -> [Buffers -> Nat]] /\ cq \in Seq(Completion)
  BY DEF BaseInv, Types
<1>3. pending[k][b] \in Nat /\ pending[k][b] >= 1 /\ pending[k][b] - 1 \in Nat
  BY <1>1, <1>2
<1>4. pending' \in [Kinds -> [Buffers -> Nat]]
  BY <1>1, <1>2, <1>3
<1> DEFINE e == [buf |-> b, kind |-> k, ok |-> ok]
<1>5. e \in Completion
  BY DEF Completion
<1> HIDE DEF e
<1>6. Append(cq, e) \in Seq(Completion)
  BY <1>2, <1>5
<1> QED
  BY <1>1, <1>3, <1>4, <1>5, <1>6 DEF e

\* A step outside the workers: they keep what they hold.
LEMMA BaseOutsideOf ==
  ASSUME BaseInv, UNCHANGED <<pc, batch, results, pos, instructions>>, Types'
  PROVE  BaseInv'
<1>1. ASSUME NEW u \in Threads PROVE PlaceOf(u)'
  <2>1. PlaceOf(u) /\ OfWorker(u)' = OfWorker(u)
    BY DEF BaseInv, OfWorker
  <2> QED
    BY <2>1, PlaceStays
<1> QED
  BY <1>1 DEF BaseInv

LEMMA BaseOutside ==
  ASSUME BaseInv, Environment \/ JoinAndShutdown
  PROVE  BaseInv'
<1>1. ASSUME NEW k \in Kinds, NEW b \in Buffers, NEW ok \in BOOLEAN, Complete(k, b, ok)
      PROVE  BaseInv'
  <2>1. used' \in [{"packet", "failed", "error"} -> Nat]
    <3>1. used' = used \/ Use("error")
      BY <1>1 DEF Complete
    <3>2. used \in [{"packet", "failed", "error"} -> Nat]
      BY DEF BaseInv, Types
    <3>3. CASE used' = used
      BY <3>2, <3>3
    <3>4. CASE Use("error")
      BY <3>4, UseType
    <3> QED
      BY <3>1, <3>3, <3>4
  <2>2. iocp' \in Seq(Keys) /\ armed' \in BOOLEAN
    <3>1. armed' = FALSE /\ (iocp' = iocp \/ iocp' = Append(iocp, "CK_RIO"))
      BY <1>1 DEF Complete
    <3> QED
      BY <3>1, KeyAppended DEF BaseInv, Types, Keys
  <2>3. Types'
    <3>1. /\ cq' \in Seq(Completion) /\ pending' \in [Kinds -> [Buffers -> Nat]]
          /\ UNCHANGED <<outstanding, accepts, freeBufferIndex, operationType, pc, batch, results>>
          /\ UNCHANGED <<pos, instructions, main, lost, faults>>
      BY <1>1, CompleteTypes
    <3> QED
      BY <2>1, <2>2, <3>1 DEF BaseInv, Types
  <2>4. UNCHANGED <<pc, batch, results, pos, instructions>>
    BY <1>1, CompleteTypes
  <2> QED
    BY <2>3, <2>4, BaseOutsideOf
<1>2. ASSUME NEW ok \in BOOLEAN, AcceptCompletes(ok)
      PROVE  BaseInv'
  <2>1. /\ accepts > 0 /\ accepts' = accepts - 1
        /\ (iocp' = Append(iocp, "CK_ACCEPT") \/ iocp' = Append(iocp, "CK_ACCEPT_FAILED"))
        /\ Use("packet") \/ Use("failed")
        /\ UNCHANGED <<armed, cq, pending, outstanding, freeBufferIndex, operationType, pc, batch>>
        /\ UNCHANGED <<results, pos, instructions, main, lost, faults>>
    BY <1>2 DEF AcceptCompletes, manager, thread
  <2>2. accepts' \in Nat
    BY <2>1 DEF BaseInv, Types
  <2>3. used' \in [{"packet", "failed", "error"} -> Nat]
    BY <2>1, UseType
  <2>4. iocp' \in Seq(Keys)
    BY <2>1, KeyAppended DEF Keys
  <2>5. Types'
    BY <2>1, <2>2, <2>3, <2>4 DEF BaseInv, Types
  <2> QED
    BY <2>1, <2>5, BaseOutsideOf
<1>3. CASE InfoKey
  <2>1. /\ iocp' = Append(iocp, "CK_GETINFO") /\ Use("packet")
        /\ UNCHANGED <<accepts, armed, cq, pending, outstanding, freeBufferIndex, operationType, pc>>
        /\ UNCHANGED <<batch, results, pos, instructions, main, lost, faults>>
    BY <1>3 DEF InfoKey, manager, thread
  <2>2. iocp' \in Seq(Keys) /\ used' \in [{"packet", "failed", "error"} -> Nat]
    BY <2>1, KeyAppended, UseType DEF Keys
  <2>3. Types'
    BY <2>1, <2>2 DEF BaseInv, Types
  <2> QED
    BY <2>1, <2>3, BaseOutsideOf
<1>4. CASE EscapeKey
  <2>1. /\ iocp' = Append(iocp, "CK_QUIT") /\ main' = "joining"
        /\ UNCHANGED <<accepts, armed, cq, pending, outstanding, freeBufferIndex, operationType, pc>>
        /\ UNCHANGED <<batch, results, pos, instructions, lost, used, faults>>
    BY <1>4 DEF EscapeKey, manager, thread, history
  <2>2. iocp' \in Seq(Keys)
    BY <2>1, KeyAppended DEF Keys
  <2>3. Types'
    BY <2>1, <2>2 DEF BaseInv, Types
  <2> QED
    BY <2>1, <2>3, BaseOutsideOf
<1>5. CASE JoinAndShutdown
  <2>1. /\ main' = "closed"
        /\ UNCHANGED <<accepts, armed, cq, pending, outstanding, freeBufferIndex, operationType, pc>>
        /\ UNCHANGED <<batch, results, pos, instructions, lost, used, faults, iocp>>
    BY <1>5 DEF JoinAndShutdown, manager, thread, history, windows
  <2>3. Types'
    BY <2>1 DEF BaseInv, Types
  <2> QED
    BY <2>1, <2>3, BaseOutsideOf
<1> QED
  BY <1>1, <1>2, <1>3, <1>4, <1>5 DEF Environment

LEMMA BaseSame ==
  ASSUME BaseInv, UNCHANGED vars
  PROVE  BaseInv'
<1>1. UNCHANGED <<pc, batch, results, pos, instructions>>
  BY DEF vars, thread
<1>2. Types'
  BY DEF BaseInv, Types, vars, windows, manager, thread, history
<1> QED
  BY <1>1, <1>2, BaseOutsideOf

LEMMA BaseNext == BaseInv /\ [Next]_vars => BaseInv'
<1> SUFFICES ASSUME BaseInv, [Next]_vars PROVE BaseInv'
  OBVIOUS
<1>1. ASSUME NEW t \in Threads, Worker(t) PROVE BaseInv'
  BY <1>1, BaseNotify, BaseGet, BaseQuit, BaseAccept, BaseDequeueEnter, BaseDequeueLeave, BaseSort,
     BaseNextResult, BaseEndOfResults, BasePostReceive, BasePostSend, BaseFreeBuffer DEF Worker
<1> QED
  BY <1>1, BaseOutside, BaseSame DEF Next

LEMMA BaseInvariant == Spec => []BaseInv
BY BaseInit, BaseNext, PTL DEF Spec

-----------------------------------------------------------------------------
(* The AcceptEx calls, and the requests counted against the request queues. *)

Accepting     == {t \in Threads : pc[t] = "accept"}
AcceptPackets == CountIn(iocp, {"CK_ACCEPT"})
AcceptTakers  == Cardinality(Accepting)

\* An AcceptEx call is pending, its packet is in the port, or a worker is at it.
AcceptInv == accepts + AcceptPackets + AcceptTakers <= MaxAccepts

\* A request is outstanding until its completion is dequeued.
RequestInv ==
  \A k \in Kinds : /\ outstanding[k] = SumFunction(pending[k]) + CountIn(cq, OfTheKind(k))
                   /\ outstanding[k] <= Limit(k)

LEMMA AcceptTerms ==
  ASSUME BaseInv
  PROVE  /\ accepts \in Nat /\ AcceptPackets \in Nat /\ AcceptTakers \in Nat
         /\ IsFiniteSet(Accepting)
<1>1. accepts \in Nat /\ iocp \in Seq(Keys)
  BY DEF BaseInv, Types
<1>2. CountIn(iocp, {"CK_ACCEPT"}) \in 0..Len(iocp) /\ Len(iocp) \in Nat
  BY <1>1, PlacesInFinite
<1>3. CountIn(iocp, {"CK_ACCEPT"}) \in Nat
  BY <1>2
<1>4. IsFiniteSet(Accepting)
  BY ThreadsAssumption, FS_Subset DEF Accepting
<1> QED
  BY <1>1, <1>3, <1>4, FS_CardinalityType DEF AcceptPackets, AcceptTakers

LEMMA AcceptInit == Init => AcceptInv
<1> SUFFICES ASSUME Init PROVE AcceptInv
  OBVIOUS
<1>1. accepts = MaxAccepts /\ AcceptPackets = 0
  BY CountEmpty DEF Init, AcceptPackets
<1>2. Accepting = {}
  BY DEF Init, Accepting
<1>3. AcceptTakers = 0 /\ MaxAccepts \in Nat
  BY <1>2, FS_EmptySet, BoundsAssumption DEF AcceptTakers
<1> QED
  BY <1>1, <1>3 DEF AcceptInv

LEMMA AcceptNext == BaseInv /\ AcceptInv /\ [Next]_vars => AcceptInv'
<1> SUFFICES ASSUME BaseInv, AcceptInv, [Next]_vars PROVE AcceptInv'
  OBVIOUS
<1>n. /\ accepts \in Nat /\ AcceptPackets \in Nat /\ AcceptTakers \in Nat /\ MaxAccepts \in Nat
      /\ accepts + AcceptPackets + AcceptTakers <= MaxAccepts
  BY AcceptTerms, BoundsAssumption DEF AcceptInv
<1>t. iocp \in Seq(Keys) /\ pc \in [Threads -> PCs]
  BY DEF BaseInv, Types
<1>g. ASSUME accepts' + AcceptPackets' + AcceptTakers' <= MaxAccepts PROVE AcceptInv'
  BY <1>g DEF AcceptInv
<1>a. ASSUME NEW k \in Keys, iocp' = Append(iocp, k)
      PROVE  AcceptPackets' = AcceptPackets + (IF k \in {"CK_ACCEPT"} THEN 1 ELSE 0)
  BY <1>a, <1>t, CountAppend DEF AcceptPackets
<1>b. ASSUME iocp' = iocp PROVE AcceptPackets' = AcceptPackets
  BY <1>b DEF AcceptPackets
<1>c. ASSUME pc' = pc PROVE AcceptTakers' = AcceptTakers
  BY <1>c DEF AcceptTakers, Accepting
\* A worker goes elsewhere, neither from nor to the accept.
<1>d. ASSUME NEW t \in Threads, NEW l, pc[t] # "accept", l # "accept", pc' = [pc EXCEPT ![t] = l]
      PROVE  AcceptTakers' = AcceptTakers
  <2>1. Accepting' = Accepting
    BY <1>d, <1>t DEF Accepting
  <2> QED
    BY <2>1 DEF AcceptTakers
<1>e. ASSUME UNCHANGED <<accepts, iocp>>, AcceptTakers' = AcceptTakers PROVE AcceptInv'
  BY <1>b, <1>e, <1>g, <1>n
<1>f. ASSUME NEW k \in Keys, k # "CK_ACCEPT", iocp' = Append(iocp, k), accepts' = accepts, AcceptTakers' = AcceptTakers
      PROVE  AcceptInv'
  <2>1. AcceptPackets' = AcceptPackets
    BY <1>a, <1>f, <1>n
  <2> QED
    BY <1>f, <1>g, <1>n, <2>1
<1>1. ASSUME NEW k \in Kinds, NEW b \in Buffers, NEW ok \in BOOLEAN, Complete(k, b, ok)
      PROVE  AcceptInv'
  <2>1. accepts' = accepts /\ pc' = pc /\ (iocp' = iocp \/ iocp' = Append(iocp, "CK_RIO"))
    BY <1>1 DEF Complete
  <2> QED
    BY <1>c, <1>e, <1>f, <2>1 DEF Keys
<1>2. ASSUME NEW ok \in BOOLEAN, AcceptCompletes(ok) PROVE AcceptInv'
  <2>1. /\ accepts' = accepts - 1 /\ pc' = pc
        /\ \E k \in {"CK_ACCEPT", "CK_ACCEPT_FAILED"} : iocp' = Append(iocp, k)
    BY <1>2 DEF AcceptCompletes
  <2>2. AcceptPackets' \in {AcceptPackets, AcceptPackets + 1} /\ AcceptTakers' = AcceptTakers
    BY <1>a, <1>c, <1>n, <2>1 DEF Keys
  <2>3. accepts' + AcceptPackets' + AcceptTakers' <= MaxAccepts
    <3>1. CASE AcceptPackets' = AcceptPackets
      BY <1>n, <2>1, <2>2, <3>1
    <3>2. CASE AcceptPackets' = AcceptPackets + 1
      BY <1>n, <2>1, <2>2, <3>2
    <3> QED
      BY <2>2, <3>1, <3>2
  <2> QED
    BY <1>g, <2>3
<1>3. CASE InfoKey
  <2>1. accepts' = accepts /\ pc' = pc /\ iocp' = Append(iocp, "CK_GETINFO")
    BY <1>3 DEF InfoKey
  <2> QED
    BY <1>c, <1>f, <2>1 DEF Keys
<1>4. CASE EscapeKey
  <2>1. accepts' = accepts /\ pc' = pc /\ iocp' = Append(iocp, "CK_QUIT")
    BY <1>4 DEF EscapeKey
  <2> QED
    BY <1>c, <1>f, <2>1 DEF Keys
<1>5. CASE JoinAndShutdown
  BY <1>c, <1>e, <1>5 DEF JoinAndShutdown, windows
<1>6. ASSUME NEW t \in Threads, RIONotify(t) PROVE AcceptInv'
  <2>1. /\ pc[t] = "notify" /\ pc' = [pc EXCEPT ![t] = "gqcs"] /\ accepts' = accepts
        /\ iocp' = iocp \/ iocp' = Append(iocp, "CK_RIO")
    BY <1>6 DEF RIONotify, Goto
  <2>2. AcceptTakers' = AcceptTakers
    BY <1>d, <2>1
  <2> QED
    BY <1>e, <1>f, <2>1, <2>2 DEF Keys
<1>7. ASSUME NEW t \in Threads, GetQueuedCompletionStatus(t) PROVE AcceptInv'
  <2>1. pc[t] = "gqcs" /\ iocp # <<>> /\ iocp' = Tail(iocp) /\ accepts' = accepts
    BY <1>7 DEF GetQueuedCompletionStatus
  <2>2. Head(iocp) \in Keys
    BY <1>t, <2>1
  <2>a. /\ Head(iocp) = "CK_ACCEPT" => AcceptPackets = AcceptPackets' + 1
        /\ Head(iocp) # "CK_ACCEPT" => AcceptPackets = AcceptPackets' + 0
    BY <1>t, <2>1, CountTail DEF AcceptPackets
  <2>3. AcceptPackets' \in Int
    <3> DEFINE r == Tail(iocp)
    <3>1. r \in Seq(Keys)
      BY <1>t, <2>1
    <3> HIDE DEF r
    <3>2. CountIn(r, {"CK_ACCEPT"}) \in 0..Len(r) /\ Len(r) \in Nat
      BY <3>1, PlacesInFinite
    <3>3. CountIn(r, {"CK_ACCEPT"}) \in Int
      BY <3>2
    <3> QED
      BY <2>1, <3>3 DEF AcceptPackets, r
  <2>4. CASE Head(iocp) = "CK_ACCEPT"
    <3>1. pc' = [pc EXCEPT ![t] = "accept"]
      BY <1>7, <2>4 DEF GetQueuedCompletionStatus, Goto
    <3>2. Accepting' = Accepting \cup {t} /\ t \notin Accepting /\ IsFiniteSet(Accepting)
      BY <1>t, <2>1, <3>1, AcceptTerms DEF Accepting
    <3>3. AcceptTakers' = AcceptTakers + 1
      BY <3>2, FS_AddElement DEF AcceptTakers
    <3>4. accepts' + AcceptPackets' + AcceptTakers' <= MaxAccepts
      <4> DEFINE p == AcceptPackets'
                 q == AcceptTakers'
      <4>1. p \in Int /\ AcceptPackets = p + 1 /\ q = AcceptTakers + 1
        BY <2>a, <2>3, <2>4, <3>3
      <4> HIDE DEF p, q
      <4>2. accepts + p + q <= MaxAccepts
        BY <1>n, <4>1
      <4> QED
        BY <2>1, <4>2 DEF p, q
    <3> QED
      BY <1>g, <3>4
  <2>5. CASE Head(iocp) # "CK_ACCEPT"
    <3>1. \E l \in PCs \ {"accept"} : pc' = [pc EXCEPT ![t] = l]
      BY <1>7, <2>2, <2>5 DEF GetQueuedCompletionStatus, Goto, Keys, PCs
    <3>2. AcceptTakers' = AcceptTakers
      BY <1>d, <2>1, <3>1
    <3>3. accepts' + AcceptPackets' + AcceptTakers' <= MaxAccepts
      <4>1. AcceptPackets = AcceptPackets' /\ accepts' = accepts
        <5> DEFINE p == AcceptPackets'
        <5>1. p \in Int /\ AcceptPackets = p + 0
          BY <2>a, <2>3, <2>5
        <5> HIDE DEF p
        <5>2. AcceptPackets = p
          BY <5>1
        <5> QED
          BY <2>1, <5>2 DEF p
      <4> QED
        BY <1>n, <3>2, <4>1
    <3> QED
      BY <1>g, <3>3
  <2> QED
    BY <2>4, <2>5
<1>8. ASSUME NEW t \in Threads, Quit(t) PROVE AcceptInv'
  <2>1. /\ pc[t] = "quit" /\ pc' = [pc EXCEPT ![t] = "exited"] /\ accepts' = accepts
        /\ iocp' = Append(iocp, "CK_QUIT")
    BY <1>8 DEF Quit, Goto
  <2>2. AcceptTakers' = AcceptTakers
    BY <1>d, <2>1
  <2> QED
    BY <1>f, <2>1, <2>2 DEF Keys
<1>9. ASSUME NEW t \in Threads, Accept(t) PROVE AcceptInv'
  <2>1. /\ pc[t] = "accept" /\ accepts' \in {accepts, accepts + 1} /\ iocp' = iocp
        /\ \E l \in {"notify", "stuck"} : pc' = [pc EXCEPT ![t] = l]
    BY <1>9 DEF Accept, Goto
  <2>2. Accepting' = Accepting \ {t} /\ t \in Accepting /\ IsFiniteSet(Accepting)
    BY <1>t, <2>1, AcceptTerms DEF Accepting
  <2>3. AcceptTakers' = AcceptTakers - 1
    BY <2>2, FS_RemoveElement DEF AcceptTakers
  <2>4. AcceptPackets' = AcceptPackets
    BY <1>b, <2>1
  <2>5. accepts' + AcceptPackets' + AcceptTakers' <= MaxAccepts
    <3>1. CASE accepts' = accepts
      BY <1>n, <2>3, <2>4, <3>1
    <3>2. CASE accepts' = accepts + 1
      BY <1>n, <2>3, <2>4, <3>2
    <3> QED
      BY <2>1, <3>1, <3>2
  <2> QED
    BY <1>g, <2>5
<1>10. ASSUME NEW t \in Threads, DequeueEnter(t) PROVE AcceptInv'
  BY <1>d, <1>e, <1>10 DEF DequeueEnter, Goto, windows
<1>11. ASSUME NEW t \in Threads, DequeueLeave(t) PROVE AcceptInv'
  <2>1. /\ pc[t] = "dequeuing" /\ UNCHANGED <<iocp, accepts>>
        /\ \E l \in {"process", "sorting"} : pc' = [pc EXCEPT ![t] = l]
    BY <1>11 DEF DequeueLeave, Goto
  <2> QED
    BY <1>d, <1>e, <2>1
<1>12. ASSUME NEW t \in Threads, NextResult(t) PROVE AcceptInv'
  BY <1>c, <1>e, <1>12 DEF NextResult, windows
<1>13. ASSUME NEW t \in Threads, EndOfResults(t) PROVE AcceptInv'
  BY <1>d, <1>e, <1>13 DEF EndOfResults, Goto, windows
<1>14. ASSUME NEW t \in Threads, PostReceive(t) PROVE AcceptInv'
  BY <1>c, <1>e, <1>14 DEF PostReceive
<1>15. ASSUME NEW t \in Threads, PostSend(t) PROVE AcceptInv'
  BY <1>c, <1>e, <1>15 DEF PostSend
<1>16. ASSUME NEW t \in Threads, FreeBuffer(t) PROVE AcceptInv'
  BY <1>c, <1>e, <1>16 DEF FreeBuffer, windows
<1>17. ASSUME NEW t \in Threads, Sort(t) PROVE AcceptInv'
  <2>1. /\ pc[t] = "sorting" /\ UNCHANGED <<iocp, accepts>>
        /\ \E l \in {"process", "sorting"} : pc' = [pc EXCEPT ![t] = l]
    BY <1>17 DEF Sort, Goto, windows
  <2> QED
    BY <1>d, <1>e, <2>1
<1>18. CASE UNCHANGED vars
  BY <1>c, <1>e, <1>18 DEF vars, windows
<1> QED
  BY <1>1, <1>2, <1>3, <1>4, <1>5, <1>6, <1>7, <1>8, <1>9, <1>10, <1>11, <1>12, <1>13,
     <1>14, <1>15, <1>16, <1>17, <1>18 DEF Next, Environment, Worker

LEMMA LimitType == \A k \in Kinds : Limit(k) \in Nat
BY BoundsAssumption DEF Limit, Kinds

LEMMA RequestTerms ==
  ASSUME BaseInv, NEW k \in Kinds
  PROVE  /\ outstanding[k] \in Int /\ pending[k] \in [Buffers -> Int]
         /\ SumFunction(pending[k]) \in Nat
         /\ CountIn(cq, OfTheKind(k)) \in Nat
         /\ IsFiniteSet(Buffers)
<1>1. /\ outstanding \in [Kinds -> Int] /\ pending \in [Kinds -> [Buffers -> Nat]]
      /\ cq \in Seq(Completion)
  BY DEF BaseInv, Types
<1> DEFINE f == pending[k]
<1>2. f \in [Buffers -> Int] /\ \A b \in Buffers : f[b] >= 0
  BY <1>1
<1>3. IsFiniteSet(Buffers)
  BY BuffersAssumption
<1> HIDE DEF f
<1>4. SumFunction(f) \in Nat
  BY <1>2, <1>3, SumNat
<1>5. CountIn(cq, OfTheKind(k)) \in 0..Len(cq) /\ Len(cq) \in Nat
  BY <1>1, PlacesInFinite
<1>6. CountIn(cq, OfTheKind(k)) \in Nat
  BY <1>5
<1> QED
  BY <1>1, <1>2, <1>3, <1>4, <1>6 DEF f

LEMMA RequestInit == Init => RequestInv
<1> SUFFICES ASSUME Init PROVE RequestInv
  OBVIOUS
<1>1. PICK order \in Orders :
        pending = [k \in Kinds |-> [b \in Buffers |->
             IF k = "OP_RECEIVE" /\ \E i \in 1..MaxReceives : order[i] = b THEN 1 ELSE 0]]
  BY DEF Init
<1>2. \A k \in Kinds : CountIn(cq, OfTheKind(k)) = 0
  BY CountEmpty DEF Init
<1>3. IsFiniteSet(Buffers) /\ MaxReceives \in Nat /\ MaxReceives >= 1
      /\ Cardinality(Buffers) \in Nat /\ MaxReceives <= Cardinality(Buffers)
  BY BuffersAssumption, BoundsAssumption, FS_CardinalityType
<1> DEFINE R == 1..MaxReceives
           T == {order[i] : i \in R}
           f == [i \in R |-> order[i]]
<1>4. SumFunction(pending["OP_RECEIVE"]) = MaxReceives
  <2>1. \A i \in R : i \in 1..Cardinality(Buffers)
    BY <1>3
  <2>2. /\ \A i \in R : order[i] \in Buffers
        /\ \A i, j \in R : order[i] = order[j] => i = j
    BY <2>1 DEF Orders
  <2>3. /\ f \in [R -> T]
        /\ \A i, j \in R : f[i] = f[j] => i = j
        /\ \A b \in T : \E i \in R : f[i] = b
        /\ T \subseteq Buffers
    BY <2>2
  <2>4. pending["OP_RECEIVE"] = [b \in Buffers |-> IF b \in T THEN 1 ELSE 0]
    <3>1. \A b \in Buffers : (\E i \in 1..MaxReceives : order[i] = b) <=> b \in T
      OBVIOUS
    <3>2. "OP_RECEIVE" \in Kinds
      BY DEF Kinds
    <3> HIDE DEF T
    <3> QED
      BY <1>1, <3>1, <3>2
  <2>5. IsFiniteSet(R) /\ Cardinality(R) = MaxReceives
    BY <1>3, FS_Interval
  <2> HIDE DEF R, T, f
  <2>6. f \in Bijection(R, T)
    BY <2>3, Fun_IsBij
  <2>7. ExistsBijection(R, T)
    BY <2>6 DEF ExistsBijection
  <2>8. IsFiniteSet(T) /\ Cardinality(T) = MaxReceives
    BY <2>5, <2>7, FS_Bijection
  <2>9. SumFunction([b \in Buffers |-> IF b \in T THEN 1 ELSE 0]) = Cardinality(T)
    BY <1>3, <2>3, SumOfMembers
  <2> QED
    BY <2>4, <2>8, <2>9
<1>5. SumFunction(pending["OP_SEND"]) = 0
  <2>1. pending["OP_SEND"] = [b \in Buffers |-> 0]
    BY <1>1 DEF Kinds
  <2> QED
    BY <1>3, <2>1, SumOfZeros
<1>6. outstanding["OP_RECEIVE"] = MaxReceives /\ outstanding["OP_SEND"] = 0
  BY DEF Init, Kinds
<1>7. ASSUME NEW k \in Kinds
      PROVE  /\ outstanding[k] = SumFunction(pending[k]) + CountIn(cq, OfTheKind(k))
             /\ outstanding[k] <= Limit(k)
  <2>1. CASE k = "OP_RECEIVE"
    BY <1>2, <1>3, <1>4, <1>6, <2>1 DEF Limit
  <2>2. CASE k = "OP_SEND"
    <3>1. MaxSends \in Nat /\ Limit(k) = MaxSends
      BY <2>2, BoundsAssumption DEF Limit
    <3> QED
      BY <1>2, <1>5, <1>6, <2>2, <3>1
  <2> QED
    BY <2>1, <2>2 DEF Kinds
<1> QED
  BY <1>7 DEF RequestInv

\* Posting a buffer, and its completion.
LEMMA PostCounts ==
  ASSUME BaseInv, NEW k \in Kinds, NEW b \in Buffers, Post(k, b)
  PROVE  /\ outstanding[k] < Limit(k)
         /\ outstanding'[k] = outstanding[k] + 1
         /\ SumFunction(pending[k])' = SumFunction(pending[k]) + 1
         /\ pending'[k][b] = pending[k][b] + 1
         /\ \A c \in Buffers \ {b} : pending'[k][c] = pending[k][c]
         /\ operationType' = [operationType EXCEPT ![b] = k]
         /\ \A l \in Kinds \ {k} : outstanding'[l] = outstanding[l] /\ pending'[l] = pending[l]
<1>1. /\ outstanding[k] < Limit(k)
      /\ outstanding' = [outstanding EXCEPT ![k] = @ + 1]
      /\ pending' = [pending EXCEPT ![k][b] = @ + 1]
      /\ operationType' = [operationType EXCEPT ![b] = k]
  BY DEF Post
<1>2. outstanding \in [Kinds -> Int] /\ pending \in [Kinds -> [Buffers -> Nat]]
  BY DEF BaseInv, Types
<1> DEFINE f == pending[k]
           g == pending'[k]
<1>3. /\ f \in [Buffers -> Int] /\ g \in [Buffers -> Int]
      /\ f[b] \in Int /\ g[b] = f[b] + 1
      /\ \A c \in Buffers \ {b} : g[c] = f[c]
  BY <1>1, <1>2
<1>4. /\ outstanding'[k] = outstanding[k] + 1
      /\ \A l \in Kinds \ {k} : outstanding'[l] = outstanding[l] /\ pending'[l] = pending[l]
  BY <1>1, <1>2
<1>f. IsFiniteSet(Buffers)
  BY BuffersAssumption
<1> HIDE DEF f, g
<1>5. SumFunction(g) = SumFunction(f) + g[b] - f[b] /\ SumFunction(f) \in Int
  BY <1>3, <1>f, SumChange, SumInt
<1>6. SumFunction(g) = SumFunction(f) + 1
  BY <1>3, <1>5
<1>7. SumFunction(pending[k])' = SumFunction(pending[k]) + 1
  BY <1>6 DEF f, g
<1> QED
  BY <1>1, <1>3, <1>4, <1>7 DEF f, g

LEMMA CompleteCounts ==
  ASSUME BaseInv, NEW k \in Kinds, NEW b \in Buffers, NEW ok \in BOOLEAN, Complete(k, b, ok)
  PROVE  /\ SumFunction(pending[k])' = SumFunction(pending[k]) - 1
         /\ CountIn(cq, OfTheKind(k))' = CountIn(cq, OfTheKind(k)) + 1
         /\ \A l \in Kinds \ {k} : /\ pending'[l] = pending[l]
                                   /\ CountIn(cq, OfTheKind(l))' = CountIn(cq, OfTheKind(l))
<1>1. /\ pending \in [Kinds -> [Buffers -> Nat]] /\ cq \in Seq(Completion)
      /\ \A l \in Kinds : CountIn(cq, OfTheKind(l)) \in Nat
  BY RequestTerms DEF BaseInv, Types
<1>p. /\ pending' \in [Kinds -> [Buffers -> Nat]]
      /\ pending'[k] = [pending[k] EXCEPT ![b] = @ - 1]
      /\ \A l \in Kinds \ {k} : pending'[l] = pending[l]
  <2>1. pending' \in [Kinds -> [Buffers -> Nat]]
    BY CompleteTypes
  <2>2. pending' = [pending EXCEPT ![k][b] = @ - 1]
    BY DEF Complete
  <2> QED
    BY <1>1, <2>1, <2>2
<1> DEFINE f == pending[k]
           g == pending'[k]
           e == [buf |-> b, kind |-> k, ok |-> ok]
<1>2. /\ f \in [Buffers -> Int] /\ g \in [Buffers -> Int]
      /\ f[b] \in Int /\ g[b] = f[b] - 1
      /\ \A c \in Buffers \ {b} : g[c] = f[c]
  BY <1>1, <1>p
<1>f. IsFiniteSet(Buffers)
  BY BuffersAssumption
<1>3. e \in Completion /\ e.kind = k /\ cq' = Append(cq, e)
  BY CompleteTypes
<1> HIDE DEF f, g, e
<1>4. SumFunction(g) = SumFunction(f) + g[b] - f[b] /\ SumFunction(f) \in Int
  BY <1>2, <1>f, SumChange, SumInt
<1>5. SumFunction(g) = SumFunction(f) - 1
  BY <1>2, <1>4
<1>6. \A D : CountIn(Append(cq, e), D) = CountIn(cq, D) + (IF e \in D THEN 1 ELSE 0)
  BY <1>1, <1>3, CountAppend
<1>7. CountIn(Append(cq, e), OfTheKind(k)) = CountIn(cq, OfTheKind(k)) + 1
  BY <1>3, <1>6 DEF OfTheKind
<1>8. ASSUME NEW l \in Kinds \ {k}
      PROVE  CountIn(Append(cq, e), OfTheKind(l)) = CountIn(cq, OfTheKind(l))
  <2>1. e \notin OfTheKind(l)
    BY <1>3 DEF OfTheKind
  <2>2. CountIn(Append(cq, e), OfTheKind(l)) = CountIn(cq, OfTheKind(l)) + 0
    BY <1>6, <2>1
  <2> QED
    BY <1>1, <2>2
<1>9. \A l \in Kinds : OfTheKind(l)' = OfTheKind(l)
  BY DEF OfTheKind
<1>10. \A l \in Kinds : CountIn(cq, OfTheKind(l))' = CountIn(Append(cq, e), OfTheKind(l))
  BY <1>3, <1>9 DEF CountIn, PlacesIn
<1>11. \A l \in Kinds \ {k} : pending'[l] = pending[l]
  BY <1>p
<1>12. SumFunction(pending[k])' = SumFunction(pending[k]) - 1
  BY <1>5 DEF f, g
<1> QED
  BY <1>7, <1>8, <1>10, <1>11, <1>12

\* A step that leaves the requests and the completion queue alone, and one that posts.
LEMMA RequestSame ==
  ASSUME RequestInv, UNCHANGED <<pending, outstanding, cq>>
  PROVE  RequestInv'
<1>1. \A k \in Kinds : OfTheKind(k)' = OfTheKind(k)
  BY DEF OfTheKind
<1>2. \A k \in Kinds : Limit(k)' = Limit(k)
  BY DEF Limit
<1> QED
  BY <1>1, <1>2 DEF RequestInv, CountIn, PlacesIn

LEMMA RequestPost ==
  ASSUME BaseInv, RequestInv, NEW k \in Kinds, NEW b \in Buffers, Post(k, b), cq' = cq
  PROVE  RequestInv'
<1>1. ASSUME NEW l \in Kinds
      PROVE  /\ outstanding'[l] = SumFunction(pending'[l]) + CountIn(cq, OfTheKind(l))
             /\ outstanding'[l] <= Limit(l)
  <2>1. /\ outstanding[l] = SumFunction(pending[l]) + CountIn(cq, OfTheKind(l))
        /\ outstanding[l] <= Limit(l) /\ Limit(l) \in Nat
        /\ outstanding[l] \in Int /\ SumFunction(pending[l]) \in Int
        /\ CountIn(cq, OfTheKind(l)) \in Int
    BY RequestTerms, LimitType DEF RequestInv
  <2>2. CASE l = k
    <3> DEFINE p == SumFunction(pending[l])
               q == SumFunction(pending'[l])
               c == CountIn(cq, OfTheKind(l))
    <3>1. outstanding'[l] = outstanding[l] + 1 /\ q = p + 1 /\ outstanding[l] < Limit(l)
      BY <2>2, PostCounts
    <3>2. outstanding[l] = p + c /\ p \in Int /\ c \in Int
      BY <2>1
    <3> HIDE DEF p, q, c
    <3>3. outstanding'[l] = q + c /\ outstanding'[l] <= Limit(l)
      BY <2>1, <3>1, <3>2
    <3> QED
      BY <3>3 DEF q, c
  <2>3. CASE l # k
    <3>1. outstanding'[l] = outstanding[l] /\ pending'[l] = pending[l]
      BY <2>3, PostCounts
    <3> QED
      BY <2>1, <3>1
  <2> QED
    BY <2>2, <2>3
<1>2. \A l \in Kinds : OfTheKind(l)' = OfTheKind(l) /\ Limit(l)' = Limit(l)
  BY DEF OfTheKind, Limit
<1>3. \A l \in Kinds : CountIn(cq, OfTheKind(l))' = CountIn(cq, OfTheKind(l))
  BY <1>2 DEF CountIn, PlacesIn
<1> QED
  BY <1>1, <1>2, <1>3 DEF RequestInv

LEMMA RequestComplete ==
  ASSUME BaseInv, RequestInv, NEW k \in Kinds, NEW b \in Buffers, NEW ok \in BOOLEAN,
         Complete(k, b, ok)
  PROVE  RequestInv'
<1>0. outstanding' = outstanding
  BY DEF Complete
<1>1. ASSUME NEW l \in Kinds
      PROVE  outstanding'[l] = SumFunction(pending'[l]) + CountIn(cq, OfTheKind(l))'
  <2> DEFINE p == SumFunction(pending[l])
             q == SumFunction(pending'[l])
             c == CountIn(cq, OfTheKind(l))
             d == CountIn(cq, OfTheKind(l))'
  <2>1. outstanding[l] = p + c /\ p \in Int /\ c \in Int
    BY RequestTerms DEF RequestInv
  <2>2. CASE l = k
    <3>1. q = p - 1 /\ d = c + 1
      BY <2>2, CompleteCounts
    <3> HIDE DEF p, q, c, d
    <3>2. outstanding[l] = q + d
      BY <2>1, <3>1
    <3> QED
      BY <1>0, <3>2 DEF q, d
  <2>3. CASE l # k
    <3>1. q = p /\ d = c
      BY <2>3, CompleteCounts
    <3> HIDE DEF p, q, c, d
    <3>2. outstanding[l] = q + d
      BY <2>1, <3>1
    <3> QED
      BY <1>0, <3>2 DEF q, d
  <2> QED
    BY <2>2, <2>3
<1>2. \A l \in Kinds : OfTheKind(l)' = OfTheKind(l) /\ Limit(l)' = Limit(l)
  BY DEF OfTheKind, Limit
<1> QED
  BY <1>0, <1>1, <1>2 DEF RequestInv

LEMMA RequestDequeueLeave ==
  ASSUME BaseInv, RequestInv, NEW t \in Threads, DequeueLeave(t)
  PROVE  RequestInv'
<1> DEFINE n == StillAhead(batch[t])
<1>1. /\ cq' = SubSeq(cq, n + 1, Len(cq)) /\ pending' = pending
      /\ outstanding' = [k \in Kinds |-> outstanding[k] - OfKind(Taken(n), k)]
  BY DEF DequeueLeave
<1>2. n \in 0..Len(cq)
  BY AheadType
<1> HIDE DEF n
<1>3. ASSUME NEW l \in Kinds
      PROVE  /\ outstanding'[l] = SumFunction(pending'[l]) + CountIn(cq', OfTheKind(l))
             /\ outstanding'[l] <= Limit(l)
  <2> DEFINE p == SumFunction(pending[l])
             c == CountIn(cq, OfTheKind(l))
             d == CountIn(SubSeq(cq, n + 1, Len(cq)), OfTheKind(l))
             m == OfKind(Taken(n), l)
  <2>1. outstanding[l] = p + c /\ p \in Int /\ c \in Int /\ outstanding[l] <= Limit(l) /\ Limit(l) \in Nat
        /\ outstanding[l] \in Int
    BY RequestTerms, LimitType DEF RequestInv
  <2>2. c = m + d
    BY <1>2, TakenIs, OfKindIs
  <2>3. m \in Nat
    BY <1>2, TakenIs, OfKindIs
  <2>4. d \in Nat
    <3> DEFINE r == SubSeq(cq, n + 1, Len(cq))
    <3>1. r \in Seq(Completion)
      BY <1>2, TakenIs
    <3> HIDE DEF r
    <3>2. OfKind(r, l) = CountIn(r, OfTheKind(l)) /\ OfKind(r, l) \in Nat
      BY <3>1, OfKindIs
    <3> QED
      BY <3>2 DEF r
  <2>5. outstanding'[l] = outstanding[l] - m
    BY <1>1
  <2> HIDE DEF p, c, d, m
  <2>6. outstanding'[l] = p + d /\ outstanding'[l] <= Limit(l)
    BY <2>1, <2>2, <2>3, <2>4, <2>5
  <2> QED
    BY <1>1, <2>6 DEF p, d
<1>4. \A l \in Kinds : OfTheKind(l)' = OfTheKind(l) /\ Limit(l)' = Limit(l)
  BY DEF OfTheKind, Limit
<1>5. \A l \in Kinds : CountIn(cq, OfTheKind(l))' = CountIn(cq', OfTheKind(l))
  BY <1>4 DEF CountIn, PlacesIn
<1> QED
  BY <1>3, <1>4, <1>5 DEF RequestInv

LEMMA RequestNext == BaseInv /\ RequestInv /\ [Next]_vars => RequestInv'
<1> SUFFICES ASSUME BaseInv, RequestInv, [Next]_vars PROVE RequestInv'
  OBVIOUS
<1>1. ASSUME NEW t \in Threads, Worker(t) PROVE RequestInv'
  <2>1. CASE RIONotify(t)
    BY <2>1, RequestSame DEF RIONotify
  <2>2. CASE GetQueuedCompletionStatus(t)
    BY <2>2, RequestSame DEF GetQueuedCompletionStatus
  <2>3. CASE Quit(t)
    BY <2>3, RequestSame DEF Quit
  <2>4. CASE Accept(t)
    BY <2>4, RequestSame DEF Accept
  <2>5. CASE DequeueEnter(t)
    BY <2>5, RequestSame DEF DequeueEnter, windows
  <2>6. CASE DequeueLeave(t)
    BY <2>6, RequestDequeueLeave
  <2>7. CASE Sort(t)
    BY <2>7, RequestSame DEF Sort, windows
  <2>8. CASE NextResult(t)
    BY <2>8, RequestSame DEF NextResult, windows
  <2>9. CASE EndOfResults(t)
    BY <2>9, RequestSame DEF EndOfResults, windows
  <2>10. CASE PostReceive(t)
    <3>1. cq' = cq
      BY <2>10 DEF PostReceive
    <3>2. \/ UNCHANGED <<pending, outstanding>>
          \/ freeBufferIndex # <<>> /\ Post("OP_RECEIVE", Head(freeBufferIndex))
      BY <2>10 DEF PostReceive
    <3>3. CASE UNCHANGED <<pending, outstanding>>
      BY <3>1, <3>3, RequestSame
    <3>4. CASE freeBufferIndex # <<>> /\ Post("OP_RECEIVE", Head(freeBufferIndex))
      BY <3>1, <3>4, FreeHead, RequestPost DEF Kinds
    <3> QED
      BY <3>2, <3>3, <3>4
  <2>11. CASE PostSend(t)
    <3> DEFINE b == Head(instructions[t]).buf
    <3>1. cq' = cq /\ CurrentIs(t, "SEND") /\ Done(t)
      BY <2>11 DEF PostSend
    <3>2. \/ UNCHANGED <<pending, outstanding>>
          \/ Post("OP_SEND", b)
      BY <2>11 DEF PostSend
    <3>b. b \in Buffers
      <4>1. PICK c \in Buffers : Head(instructions[t]) = Send(c)
        BY <3>1, InstructionIs
      <4> QED
        BY <4>1 DEF Send
    <3>3. CASE UNCHANGED <<pending, outstanding>>
      BY <3>1, <3>3, RequestSame
    <3>4. CASE Post("OP_SEND", b)
      BY <3>1, <3>b, <3>4, RequestPost DEF Kinds
    <3> QED
      BY <3>2, <3>3, <3>4
  <2>12. CASE FreeBuffer(t)
    BY <2>12, RequestSame DEF FreeBuffer, windows
  <2> QED
    BY <1>1, <2>1, <2>2, <2>3, <2>4, <2>5, <2>6, <2>7, <2>8, <2>9, <2>10, <2>11, <2>12 DEF Worker
<1>2. ASSUME NEW k \in Kinds, NEW b \in Buffers, NEW ok \in BOOLEAN, Complete(k, b, ok)
      PROVE  RequestInv'
  BY <1>2, RequestComplete
<1>3. ASSUME NEW ok \in BOOLEAN, AcceptCompletes(ok) PROVE RequestInv'
  BY <1>3, RequestSame DEF AcceptCompletes
<1>4. CASE InfoKey
  BY <1>4, RequestSame DEF InfoKey
<1>5. CASE EscapeKey
  BY <1>5, RequestSame DEF EscapeKey
<1>6. CASE JoinAndShutdown
  BY <1>6, RequestSame DEF JoinAndShutdown, windows
<1>7. CASE UNCHANGED vars
  BY <1>7, RequestSame DEF vars, windows
<1> QED
  BY <1>1, <1>2, <1>3, <1>4, <1>5, <1>6, <1>7 DEF Next, Environment

StateInv == BaseInv /\ AcceptInv /\ RequestInv

LEMMA StateInvariant == Spec => []StateInv
<1>1. Init => StateInv
  BY BaseInit, AcceptInit, RequestInit DEF StateInv
<1>2. StateInv /\ [Next]_vars => StateInv'
  BY BaseNext, AcceptNext, RequestNext DEF StateInv
<1> QED
  BY <1>1, <1>2, PTL DEF Spec

\* The state keeps its shape for any number of threads, buffers and limits: no request
\* queue takes more requests than it was created for, no AcceptEx call is made beyond
\* those of the service, and no dequeue exceeds its array, not even one that overlaps
\* another.
THEOREM TypeCorrect == Spec => []TypeOK
<1>1. StateInv => TypeOK
  <2> SUFFICES ASSUME StateInv PROVE TypeOK
    OBVIOUS
  <2>b. BaseInv /\ AcceptInv /\ RequestInv
    BY DEF StateInv
  <2>1. ASSUME NEW k \in Kinds PROVE outstanding[k] \in 0..Limit(k)
    <3> DEFINE p == SumFunction(pending[k])
               c == CountIn(cq, OfTheKind(k))
    <3>1. outstanding[k] \in Int /\ p \in Nat /\ c \in Nat
      BY <2>b, RequestTerms
    <3>2. outstanding[k] = p + c /\ outstanding[k] <= Limit(k) /\ Limit(k) \in Nat
      BY <2>b, LimitType DEF RequestInv
    <3> HIDE DEF p, c
    <3> QED
      BY <3>1, <3>2
  <2>2. accepts \in 0..MaxAccepts
    <3>1. /\ accepts \in Nat /\ AcceptPackets \in Nat /\ AcceptTakers \in Nat
          /\ accepts + AcceptPackets + AcceptTakers <= MaxAccepts /\ MaxAccepts \in Nat
      BY <2>b, AcceptTerms, BoundsAssumption DEF AcceptInv
    <3> QED
      BY <3>1
  <2>3. ASSUME NEW t \in Threads
        PROVE  /\ batch[t] \in Seq(Completion) /\ Len(batch[t]) <= DequeueCount
               /\ results[t] \in Seq(Buffers)
               /\ pos[t] \in 1..(Len(results[t]) + 1)
               /\ instructions[t] \in Seq(Instructions)
    BY <2>b DEF BaseInv, Types, PlaceOf
  <2> QED
    BY <2>b, <2>1, <2>2, <2>3 DEF TypeOK, BaseInv, Types
<1> QED
  BY <1>1, StateInvariant, PTL

-----------------------------------------------------------------------------
(* The owners of a buffer.                                                  *)

\* The completions for a buffer, and the instructions that carry it.
With(b)     == {e \in Completion : e.buf = b}
Carrying(b) == {Send(b), FreeInst(b)}

\* How often a worker answers for b, by its place in the loop and what it has in hand.
HeldAt(l, s, r, p, i, b) ==
  (IF l = "sorting" THEN CountIn(s, With(b)) ELSE 0) + CountFrom(r, p, {b}) + CountIn(i, Carrying(b))

\* How often b is with nobody: in the pool, with RIO, in the completion queue.
Around(b) ==
  CountIn(freeBufferIndex, {b}) + pending["OP_RECEIVE"][b] + pending["OP_SEND"][b]
    + CountIn(cq, With(b))

LEMMA CountType ==
  ASSUME NEW S, NEW s \in Seq(S), NEW D
  PROVE  CountIn(s, D) \in Nat
<1>1. CountIn(s, D) \in 0..Len(s) /\ Len(s) \in Nat
  BY PlacesInFinite
<1> QED
  BY <1>1

LEMMA HeldAtType ==
  ASSUME NEW l, NEW s \in Seq(Completion), NEW r \in Seq(Buffers), NEW p \in Nat, p >= 1,
         NEW i \in Seq(Instructions), NEW b
  PROVE  /\ CountIn(s, With(b)) \in Nat /\ CountFrom(r, p, {b}) \in Nat /\ CountIn(i, Carrying(b)) \in Nat
         /\ HeldAt(l, s, r, p, i, b) \in Nat
<1>1. CountIn(s, With(b)) \in Nat
  BY CountType
<1>2. CountFrom(r, p, {b}) \in Nat
  BY CountFromType
<1>3. CountIn(i, Carrying(b)) \in Nat
  BY CountType
<1>4. HeldAt(l, s, r, p, i, b) \in Nat
  <2>1. CASE l = "sorting"
    BY <1>1, <1>2, <1>3, <2>1 DEF HeldAt
  <2>2. CASE l # "sorting"
    BY <1>1, <1>2, <1>3, <2>2 DEF HeldAt
  <2> QED
    BY <2>1, <2>2
<1> QED
  BY <1>1, <1>2, <1>3, <1>4

LEMMA PlacesWith ==
  ASSUME NEW s \in Seq(Completion), NEW b
  PROVE  Cardinality({i \in 1..Len(s) : s[i].buf = b}) = CountIn(s, With(b))
<1>1. {i \in 1..Len(s) : s[i].buf = b} = PlacesIn(s, With(b))
  BY DEF PlacesIn, With
<1> QED
  BY <1>1 DEF CountIn

LEMMA HeldIs ==
  ASSUME BaseInv, NEW t \in Threads, NEW b \in Buffers
  PROVE  Held(t, b) = HeldAt(pc[t], batch[t], results[t], pos[t], instructions[t], b)
<1>1. batch[t] \in Seq(Completion)
  BY DEF BaseInv, Types
<1>2. Cardinality({i \in 1..Len(batch[t]) : batch[t][i].buf = b}) = CountIn(batch[t], With(b))
  BY <1>1, PlacesWith
<1>3. {i \in pos[t]..Len(results[t]) : results[t][i] = b} = PlacesFrom(results[t], pos[t], {b})
  BY DEF PlacesFrom
<1>4. {i \in 1..Len(instructions[t]) : instructions[t][i] \in {Send(b), FreeInst(b)}}
        = PlacesIn(instructions[t], Carrying(b))
  BY DEF PlacesIn, Carrying
<1> QED
  BY <1>2, <1>3, <1>4 DEF Held, HeldAt, CountIn, CountFrom

HeldCounts ==
  \A t \in Threads, b \in Buffers :
    Held(t, b) = HeldAt(pc[t], batch[t], results[t], pos[t], instructions[t], b)

LEMMA HeldNow == BaseInv => HeldCounts
BY HeldIs DEF HeldCounts

LEMMA HeldNext == BaseInv' => HeldCounts'
BY HeldNow, PTL

HeldSum(b) == SumFunction([t \in Threads |-> Held(t, b)])

\* The terms of Owners are numbers.
OwnerTerms ==
  \A b \in Buffers :
    /\ CountIn(freeBufferIndex, {b}) \in Nat /\ CountIn(cq, With(b)) \in Nat
    /\ pending["OP_RECEIVE"][b] \in Nat /\ pending["OP_SEND"][b] \in Nat
    /\ Around(b) \in Nat
    /\ \A t \in Threads : Held(t, b) \in Nat
    /\ HeldSum(b) \in Nat
    /\ Owners(b) = Around(b) + HeldSum(b)

LEMMA OwnerTermsNow == BaseInv => OwnerTerms
<1> SUFFICES ASSUME BaseInv, NEW b \in Buffers
    PROVE  /\ CountIn(freeBufferIndex, {b}) \in Nat /\ CountIn(cq, With(b)) \in Nat
           /\ pending["OP_RECEIVE"][b] \in Nat /\ pending["OP_SEND"][b] \in Nat
           /\ Around(b) \in Nat
           /\ \A t \in Threads : Held(t, b) \in Nat
           /\ HeldSum(b) \in Nat
           /\ Owners(b) = Around(b) + HeldSum(b)
  BY DEF OwnerTerms
<1>1. /\ freeBufferIndex \in Seq(Buffers) /\ cq \in Seq(Completion)
      /\ pending["OP_RECEIVE"][b] \in Nat /\ pending["OP_SEND"][b] \in Nat
  BY DEF BaseInv, Types, Kinds
<1>2. CountIn(freeBufferIndex, {b}) \in Nat /\ CountIn(cq, With(b)) \in Nat
  BY <1>1, CountType
<1>3. Around(b) \in Nat
  <2> DEFINE v == CountIn(freeBufferIndex, {b})
             x == pending["OP_RECEIVE"][b]
             y == pending["OP_SEND"][b]
             z == CountIn(cq, With(b))
  <2>1. v \in Nat /\ x \in Nat /\ y \in Nat /\ z \in Nat
    BY <1>1, <1>2
  <2>2. Around(b) = v + x + y + z
    BY DEF Around
  <2> HIDE DEF v, x, y, z
  <2> QED
    BY <2>1, <2>2
<1>4. ASSUME NEW t \in Threads PROVE Held(t, b) \in Nat
  <2>1. /\ batch[t] \in Seq(Completion) /\ results[t] \in Seq(Buffers)
        /\ pos[t] \in Nat /\ instructions[t] \in Seq(Instructions) /\ pos[t] >= 1
    BY DEF BaseInv, Types, PlaceOf
  <2>2. HeldAt(pc[t], batch[t], results[t], pos[t], instructions[t], b) \in Nat
    BY <2>1, HeldAtType
  <2> QED
    BY <2>2, HeldIs
<1> DEFINE h == [t \in Threads |-> Held(t, b)]
<1>5. h \in [Threads -> Int] /\ \A t \in Threads : h[t] >= 0
  BY <1>4
<1>6. IsFiniteSet(Threads)
  BY ThreadsAssumption
<1> HIDE DEF h
<1>7. SumFunction(h) \in Nat
  BY <1>5, <1>6, SumNat
<1>8. Cardinality({i \in 1..Len(cq) : cq[i].buf = b}) = CountIn(cq, With(b))
  BY <1>1, PlacesWith
<1>9. {i \in 1..Len(freeBufferIndex) : freeBufferIndex[i] = b} = PlacesIn(freeBufferIndex, {b})
  BY DEF PlacesIn
<1>10. HeldSum(b) = SumFunction(h)
  BY DEF HeldSum, h
<1>11. Owners(b) = Around(b) + HeldSum(b)
  BY <1>8, <1>9 DEF Owners, HeldSum, Around, CountIn
<1> QED
  BY <1>1, <1>2, <1>3, <1>4, <1>7, <1>10, <1>11

LEMMA OwnerTermsNext == BaseInv' => OwnerTerms'
BY OwnerTermsNow, PTL

\* What goes from around to the worker that steps, or back, keeps a total.
LEMMA IntoHand ==
  ASSUME NEW f \in [Threads -> Int], NEW g \in [Threads -> Int],
         NEW t \in Threads, \A u \in Threads \ {t} : g[u] = f[u],
         NEW a \in Int, NEW c \in Int, c + g[t] = a + f[t]
  PROVE  c + SumFunction(g) = a + SumFunction(f)
<1>1. /\ SumFunction(g) = SumFunction(f) + g[t] - f[t]
      /\ SumFunction(f) \in Int /\ SumFunction(g) \in Int
  BY ThreadsAssumption, SumChange, SumInt
<1> DEFINE x == SumFunction(f)
           y == SumFunction(g)
           m == f[t]
           n == g[t]
<1>2. m \in Int /\ n \in Int /\ x \in Int /\ y \in Int /\ y = x + n - m /\ c + n = a + m
  BY <1>1
<1> HIDE DEF x, y, m, n
<1>3. c + y = a + x
  BY <1>2
<1> QED
  BY <1>3 DEF x, y

LEMMA OwnersMoved ==
  ASSUME BaseInv, BaseInv', NEW t \in Threads, OthersStay(t), NEW b \in Buffers,
         Around(b)' + Held(t, b)' = Around(b) + Held(t, b)
  PROVE  Owners(b)' = Owners(b)
<1>1. OwnerTerms /\ OwnerTerms'
  BY OwnerTermsNow, OwnerTermsNext
<1> DEFINE f == [u \in Threads |-> Held(u, b)]
           g == [u \in Threads |-> Held(u, b)']
           a == Around(b)
           c == Around(b)'
<1>2. f \in [Threads -> Int] /\ g \in [Threads -> Int] /\ a \in Int /\ c \in Int
  <2>1. Around(b) \in Nat /\ \A u \in Threads : Held(u, b) \in Nat
    BY <1>1 DEF OwnerTerms
  <2>2. Around(b)' \in Nat /\ \A u \in Threads : Held(u, b)' \in Nat
    BY <1>1 DEF OwnerTerms
  <2> QED
    BY <2>1, <2>2
<1>3. ASSUME NEW u \in Threads \ {t} PROVE g[u] = f[u]
  BY <1>3 DEF OthersStay, OfWorker, Held
<1>4. c + g[t] = a + f[t]
  OBVIOUS
<1>5. HeldSum(b) = SumFunction(f) /\ HeldSum(b)' = SumFunction(g)
  BY DEF HeldSum
<1> HIDE DEF f, g, a, c
<1>6. c + SumFunction(g) = a + SumFunction(f)
  BY <1>2, <1>3, <1>4, IntoHand
<1>7. Owners(b) = a + SumFunction(f) /\ Owners(b)' = c + SumFunction(g)
  BY <1>1, <1>5 DEF OwnerTerms, a, c
<1> QED
  BY <1>6, <1>7

\* The entries a worker is copying out are still those at the head of the queue.
CopiedOut(t) ==
  Len(batch[t]) <= Len(cq) /\ \A i \in 1..Len(batch[t]) : batch[t][i] = cq[i]

\* As long as no dequeue overlaps another, the worker that dequeues is alone and removes
\* what it has copied out; without that a buffer could be in two batches.
Own ==
  /\ \A b \in Buffers : Owners(b) = 1
  /\ \A t, u \in Threads : pc[t] = "dequeuing" /\ pc[u] = "dequeuing" => t = u
  /\ \A t \in Threads : pc[t] = "dequeuing" => CopiedOut(t)

OwnInv == Unharmed => Own

\* Harm is never undone.
LEMMA HarmStays ==
  ASSUME BaseInv, [Next]_vars, Unharmed'
  PROVE  Unharmed /\ faults' = faults
<1>1. \/ faults' = faults
      \/ faults' = [faults EXCEPT !.overlap = @ + 1]
      \/ faults' = [faults EXCEPT !.stale = @ + 1]
  <2>1. ASSUME NEW t \in Threads, Worker(t)
        PROVE  \/ faults' = faults
               \/ faults' = [faults EXCEPT !.overlap = @ + 1]
               \/ faults' = [faults EXCEPT !.stale = @ + 1]
    <3>1. CASE DequeueEnter(t)
      BY <3>1 DEF DequeueEnter
    <3>2. CASE DequeueLeave(t)
      BY <3>2 DEF DequeueLeave
    <3>3. CASE RIONotify(t) \/ GetQueuedCompletionStatus(t) \/ Quit(t) \/ Accept(t) \/ Sort(t)
      BY <3>3 DEF RIONotify, GetQueuedCompletionStatus, Quit, Accept, Sort, history
    <3>4. CASE NextResult(t) \/ EndOfResults(t) \/ PostReceive(t) \/ PostSend(t) \/ FreeBuffer(t)
      BY <3>4 DEF NextResult, EndOfResults, PostReceive, PostSend, FreeBuffer, history
    <3> QED
      BY <2>1, <3>1, <3>2, <3>3, <3>4 DEF Worker
  <2>2. CASE UNCHANGED vars
    BY <2>2 DEF vars, history
  <2>3. CASE Environment \/ JoinAndShutdown
    BY <2>3, OutsideStays
  <2> QED
    BY <2>1, <2>2, <2>3 DEF Next
<1>2. faults \in [{"overlap", "stale"} -> Nat]
  BY DEF BaseInv, Types
<1>3. faults'.overlap + faults'.stale = 0
  BY DEF Unharmed
<1>4. faults.overlap \in Nat /\ faults.stale \in Nat
  BY <1>2
<1>5. ASSUME faults' = [faults EXCEPT !.overlap = @ + 1] PROVE FALSE
  <2>1. faults'.overlap = faults.overlap + 1 /\ faults'.stale = faults.stale
    BY <1>2, <1>5
  <2> QED
    BY <1>3, <1>4, <2>1
<1>6. ASSUME faults' = [faults EXCEPT !.stale = @ + 1] PROVE FALSE
  <2>1. faults'.overlap = faults.overlap /\ faults'.stale = faults.stale + 1
    BY <1>2, <1>6
  <2> QED
    BY <1>3, <1>4, <2>1
<1> QED
  BY <1>1, <1>3, <1>5, <1>6 DEF Unharmed

\* A buffer with one owner is in the completion queue once, and then nowhere else.
LEMMA OnceInQueue ==
  ASSUME BaseInv, \A b \in Buffers : Owners(b) = 1,
         NEW i \in 1..Len(cq), NEW j \in 1..Len(cq), cq[i].buf = cq[j].buf
  PROVE  i = j
<1>1. cq \in Seq(Completion) /\ cq[i] \in Completion /\ cq[j] \in Completion
  BY DEF BaseInv, Types
<1>2. PICK b \in Buffers : b = cq[i].buf
  BY <1>1 DEF Completion
<1>3. cq[i] \in With(b) /\ cq[j] \in With(b)
  BY <1>1, <1>2 DEF With
<1>4. ASSUME i # j PROVE FALSE
  <2>1. CountIn(cq, With(b)) >= 2
    BY <1>1, <1>3, <1>4, CountTwo
  <2> DEFINE v == CountIn(freeBufferIndex, {b})
             x == pending["OP_RECEIVE"][b]
             y == pending["OP_SEND"][b]
             z == CountIn(cq, With(b))
             w == HeldSum(b)
  <2>2. v \in Nat /\ x \in Nat /\ y \in Nat /\ z \in Nat /\ w \in Nat
    BY OwnerTermsNow DEF OwnerTerms
  <2>3. v + x + y + z + w = 1
    BY OwnerTermsNow DEF OwnerTerms, Around
  <2> HIDE DEF v, x, y, w
  <2>4. z >= 2
    BY <2>1
  <2> HIDE DEF z
  <2> QED
    BY <2>2, <2>3, <2>4
<1> QED
  BY <1>4

LEMMA HeldBoth ==
  ASSUME BaseInv, BaseInv', NEW t \in Threads, NEW b \in Buffers
  PROVE  /\ Held(t, b) = HeldAt(pc[t], batch[t], results[t], pos[t], instructions[t], b)
         /\ Held(t, b)' = HeldAt(pc'[t], batch'[t], results'[t], pos'[t], instructions'[t], b)
<1>1. HeldCounts /\ HeldCounts'
  BY HeldNow, HeldNext
<1>2. Held(t, b) = HeldAt(pc[t], batch[t], results[t], pos[t], instructions[t], b)
  BY <1>1 DEF HeldCounts
<1>3. Held(t, b)' = HeldAt(pc[t], batch[t], results[t], pos[t], instructions[t], b)'
  BY <1>1 DEF HeldCounts
<1>4. HeldAt(pc[t], batch[t], results[t], pos[t], instructions[t], b)'
        = HeldAt(pc'[t], batch'[t], results'[t], pos'[t], instructions'[t], b)
  BY DEF HeldAt, With, Carrying, CountIn, CountFrom, PlacesIn, PlacesFrom, Send, FreeInst, Completion
<1> QED
  BY <1>2, <1>3, <1>4

\* A worker that goes on without touching a buffer.
LEMMA OwnersIdle ==
  ASSUME BaseInv, BaseInv', NEW t \in Threads, OthersStay(t), NEW b \in Buffers,
         pc[t] # "sorting", pc'[t] # "sorting",
         results'[t] = results[t], pos'[t] = pos[t], instructions'[t] = instructions[t],
         UNCHANGED <<freeBufferIndex, pending, cq>>
  PROVE  Owners(b)' = Owners(b)
<1>1. Held(t, b)' = Held(t, b)
  BY HeldBoth DEF HeldAt
<1>2. Around(b)' = Around(b)
  BY DEF Around, CountIn, PlacesIn, With, Completion
<1> QED
  BY <1>1, <1>2, OwnersMoved

\* The next result: its buffer passes to its instructions.
LEMMA ResultCarried ==
  ASSUME NEW b \in Buffers, NEW c \in Buffers
  PROVE  CountIn(GetInstructions(c), Carrying(b)) = IF c = b THEN 1 ELSE 0
<1>1. /\ Receive \in Instructions /\ Send(c) \in Instructions /\ FreeInst(c) \in Instructions
      /\ Receive \notin Carrying(b)
      /\ Send(c) \in Carrying(b) <=> c = b
      /\ FreeInst(c) \in Carrying(b) <=> c = b
  <2>1. Receive \in Instructions /\ Send(c) \in Instructions /\ FreeInst(c) \in Instructions
    BY DEF Instructions
  <2>2. Receive.type = "RECEIVE" /\ Send(b).type = "SEND" /\ FreeInst(b).type = "FREEBUFFER"
        /\ Send(c).type = "SEND" /\ FreeInst(c).type = "FREEBUFFER"
        /\ Send(c).buf = c /\ Send(b).buf = b /\ FreeInst(c).buf = c /\ FreeInst(b).buf = b
    BY DEF Receive, Send, FreeInst
  <2>3. Receive \notin Carrying(b)
    BY <2>2 DEF Carrying
  <2>4. Send(c) \in Carrying(b) <=> c = b
    BY <2>2 DEF Carrying
  <2>5. FreeInst(c) \in Carrying(b) <=> c = b
    BY <2>2 DEF Carrying
  <2> QED
    BY <2>1, <2>3, <2>4, <2>5
<1>2. /\ CountIn(<<FreeInst(c)>>, Carrying(b)) = IF FreeInst(c) \in Carrying(b) THEN 1 ELSE 0
      /\ CountIn(<<Receive, Send(c)>>, Carrying(b))
           = (IF Receive \in Carrying(b) THEN 1 ELSE 0) + (IF Send(c) \in Carrying(b) THEN 1 ELSE 0)
  BY <1>1, CountShort
<1>3. /\ CountIn(<<FreeInst(c)>>, Carrying(b)) = IF c = b THEN 1 ELSE 0
      /\ CountIn(<<Receive, Send(c)>>, Carrying(b)) = IF c = b THEN 1 ELSE 0
  BY <1>1, <1>2
<1> QED
  BY <1>3 DEF GetInstructions

LEMMA OwnersNextResult ==
  ASSUME BaseInv, BaseInv', NEW t \in Threads, NextResult(t), NEW b \in Buffers
  PROVE  Owners(b)' = Owners(b)
<1> DEFINE r == results[t]
           p == pos[t]
           c == r[p]
<1>1. /\ r \in Seq(Buffers) /\ p \in Nat /\ p >= 1 /\ p <= Len(r) /\ c \in Buffers
      /\ pc[t] = "process" /\ pc'[t] = "process" /\ instructions[t] = <<>>
      /\ results'[t] = r /\ pos'[t] = p + 1 /\ instructions'[t] = GetInstructions(c)
  BY ResultIs
<1> HIDE DEF r, p
<1>2. CountFrom(r, p, {b}) = CountFrom(r, p + 1, {b}) + (IF c \in {b} THEN 1 ELSE 0)
  BY <1>1, CountFromNext
<1>3. CountIn(instructions'[t], Carrying(b)) = IF c = b THEN 1 ELSE 0
  BY <1>1, ResultCarried
<1>4. CountIn(instructions[t], Carrying(b)) = 0
  BY <1>1, CountEmpty
<1>5. CountFrom(r, p, {b}) \in Nat /\ CountFrom(r, p + 1, {b}) \in Nat
  BY <1>1, CountFromType
<1>6. Held(t, b) = CountFrom(r, p, {b})
  <2>1. Held(t, b) = 0 + CountFrom(r, p, {b}) + 0
    BY <1>1, <1>4, HeldBoth DEF HeldAt, r, p
  <2> QED
    BY <1>5, <2>1
<1>7. Held(t, b)' = CountFrom(r, p + 1, {b}) + (IF c = b THEN 1 ELSE 0)
  <2>1. Held(t, b)' = 0 + CountFrom(r, p + 1, {b}) + (IF c = b THEN 1 ELSE 0)
    BY <1>1, <1>3, HeldBoth DEF HeldAt, r
  <2> QED
    BY <1>5, <2>1
<1>8. Held(t, b)' = Held(t, b)
  BY <1>2, <1>5, <1>6, <1>7
<1>9. UNCHANGED <<freeBufferIndex, pending, cq>>
  BY DEF NextResult, windows, manager
<1>10. Around(b)' = Around(b)
  BY <1>9 DEF Around, CountIn, PlacesIn, With, Completion
<1>11. OthersStay(t)
  BY ResultIs, WorkerOnly
<1> QED
  BY <1>8, <1>10, <1>11, OwnersMoved

\* What a sorting worker still has to sort, and what is left after the next entry.
LEMMA SortLeaves ==
  ASSUME BaseInv, NEW t \in Threads, Sort(t), NEW D
  PROVE  /\ CountIn(batch[t], D) = CountIn(batch'[t], D) + (IF Head(batch[t]) \in D THEN 1 ELSE 0)
         /\ CountIn(batch'[t], D) \in Nat
         /\ pc'[t] # "sorting" => batch'[t] = <<>> /\ CountIn(batch'[t], D) = 0
<1> DEFINE s == batch[t]
<1>1. /\ s \in Seq(Completion) /\ s # <<>> /\ Tail(s) \in Seq(Completion)
      /\ Len(Tail(s)) = Len(s) - 1 /\ batch'[t] = Tail(s)
      /\ pc'[t] = IF Len(s) = 1 THEN "process" ELSE "sorting"
  BY SortIs
<1> HIDE DEF s
<1>2. CountIn(s, D) = CountIn(Tail(s), D) + (IF Head(s) \in D THEN 1 ELSE 0)
  BY <1>1, CountTail
<1>3. CountIn(Tail(s), D) \in Nat
  BY <1>1, CountType
<1>4. ASSUME pc'[t] # "sorting" PROVE Tail(s) = <<>>
  <2>1. Len(s) = 1
    BY <1>1, <1>4
  <2>2. Len(Tail(s)) = 0
    BY <1>1, <2>1
  <2> QED
    BY <1>1, <2>2
<1> QED
  BY <1>1, <1>2, <1>3, <1>4, CountEmpty DEF s

LEMMA SortTo ==
  ASSUME BaseInv, NEW t \in Threads, Sort(t)
  PROVE  /\ Head(batch[t]).buf \in Buffers /\ Head(batch[t]).kind \in Kinds
         /\ UNCHANGED <<iocp, armed, cq, pending, outstanding, accepts, operationType, main, used, faults>>
         /\ \/ /\ results'[t] = Append(results[t], Head(batch[t]).buf)
               /\ UNCHANGED <<freeBufferIndex, lost>>
            \/ /\ freeBufferIndex' = Append(freeBufferIndex, Head(batch[t]).buf)
               /\ lost' = IF Head(batch[t]).kind = "OP_RECEIVE" THEN [lost EXCEPT !.error = @ + 1] ELSE lost
               /\ results'[t] = results[t]
<1>1. Head(batch[t]) \in Completion
  BY SortIs
<1>2. UNCHANGED <<iocp, armed, cq, pending, outstanding, accepts, operationType, main, used, faults>>
  BY DEF Sort, windows
<1>3. \/ /\ results'[t] = Append(results[t], Head(batch[t]).buf)
         /\ UNCHANGED <<freeBufferIndex, lost>>
      \/ /\ freeBufferIndex' = Append(freeBufferIndex, Head(batch[t]).buf)
         /\ lost' = IF Head(batch[t]).kind = "OP_RECEIVE" THEN [lost EXCEPT !.error = @ + 1] ELSE lost
         /\ results'[t] = results[t]
  BY DEF Sort, BaseInv, Types
<1> QED
  BY <1>1, <1>2, <1>3 DEF Completion

LEMMA HeldEarly ==
  ASSUME NEW l, NEW s \in Seq(Completion), NEW r \in Seq(Buffers), NEW b
  PROVE  HeldAt(l, s, r, 1, <<>>, b)
           = (IF l = "sorting" THEN CountIn(s, With(b)) ELSE 0) + CountIn(r, {b})
<1>1. CountFrom(r, 1, {b}) = CountIn(r, {b}) /\ CountIn(<<>>, Carrying(b)) = 0
  BY CountFromStart, CountEmpty
<1>2. CountIn(r, {b}) \in Nat /\ CountIn(s, With(b)) \in Nat
  BY CountType
<1>3. CASE l = "sorting"
  <2>1. HeldAt(l, s, r, 1, <<>>, b) = (CountIn(s, With(b)) + CountIn(r, {b})) + 0
    BY <1>1, <1>3 DEF HeldAt
  <2> QED
    BY <1>2, <1>3, <2>1
<1>4. CASE l # "sorting"
  <2>1. HeldAt(l, s, r, 1, <<>>, b) = (0 + CountIn(r, {b})) + 0
    BY <1>1, <1>4 DEF HeldAt
  <2> QED
    BY <1>2, <1>4, <2>1
<1> QED
  BY <1>3, <1>4

LEMMA OwnersSort ==
  ASSUME BaseInv, BaseInv', NEW t \in Threads, Sort(t), NEW b \in Buffers
  PROVE  Owners(b)' = Owners(b)
<1> DEFINE c == Head(batch[t]).buf
           one == IF c = b THEN 1 ELSE 0
           x == CountIn(batch[t], With(b))
           x2 == CountIn(batch'[t], With(b))
           y == CountIn(results[t], {b})
           y2 == CountIn(results'[t], {b})
           f == CountIn(freeBufferIndex, {b})
           f2 == CountIn(freeBufferIndex', {b})
<1>1. /\ pc[t] = "sorting" /\ pos[t] = 1 /\ pos'[t] = 1
      /\ instructions[t] = <<>> /\ instructions'[t] = <<>>
      /\ results[t] \in Seq(Buffers) /\ freeBufferIndex \in Seq(Buffers)
  BY SortIs DEF BaseInv, Types
<1>2. Head(batch[t]) \in With(b) <=> c = b
  BY SortIs DEF With
<1>3. x = x2 + one /\ x2 \in Nat /\ one \in Nat /\ (pc'[t] # "sorting" => x2 = 0)
  BY <1>2, SortLeaves
<1>4. y \in Nat /\ f \in Nat
  BY <1>1, CountType
<1>5. Held(t, b) = HeldAt(pc[t], batch[t], results[t], 1, <<>>, b)
      /\ Held(t, b)' = HeldAt(pc'[t], batch'[t], results'[t], 1, <<>>, b)
  BY <1>1, HeldBoth
<1>6. Held(t, b) = x + y
  <2>1. batch[t] \in Seq(Completion)
    BY SortIs
  <2>2. HeldAt("sorting", batch[t], results[t], 1, <<>>, b) = x + y
    BY <1>1, <2>1, HeldEarly
  <2> QED
    BY <1>1, <1>5, <2>2
<1>7. (y2 = y + one /\ f2 = f) \/ (y2 = y /\ f2 = f + one)
  <2>1. c \in Buffers
    BY SortTo
  <2>2. CASE results'[t] = Append(results[t], c) /\ freeBufferIndex' = freeBufferIndex
    <3>1. CountIn(Append(results[t], c), {b}) = CountIn(results[t], {b}) + (IF c \in {b} THEN 1 ELSE 0)
      BY <1>1, <2>1, CountAppend
    <3> QED
      BY <2>2, <3>1
  <2>3. CASE results'[t] = results[t] /\ freeBufferIndex' = Append(freeBufferIndex, c)
    <3>1. CountIn(Append(freeBufferIndex, c), {b})
            = CountIn(freeBufferIndex, {b}) + (IF c \in {b} THEN 1 ELSE 0)
      BY <1>1, <2>1, CountAppend
    <3> QED
      BY <2>3, <3>1
  <2> QED
    BY <2>2, <2>3, SortTo
<1>8. Held(t, b)' = x2 + y2
  <2>1. y2 \in Nat
    BY <1>3, <1>4, <1>7
  <2>2. Held(t, b)' = (IF pc'[t] = "sorting" THEN x2 ELSE 0) + y2
    <3>1. results'[t] \in Seq(Buffers) /\ batch'[t] \in Seq(Completion)
      BY DEF BaseInv, Types
    <3> DEFINE l == pc'[t]
               s == batch'[t]
               r == results'[t]
    <3>2. HeldAt(l, s, r, 1, <<>>, b)
            = (IF l = "sorting" THEN CountIn(s, With(b)) ELSE 0) + CountIn(r, {b})
      <4> HIDE DEF l, s, r
      <4>1. s \in Seq(Completion) /\ r \in Seq(Buffers)
        BY <3>1 DEF s, r
      <4> QED
        BY ONLY <4>1, HeldEarly, ZenonT(40)
    <3> QED
      BY <1>5, <3>2
  <2> HIDE DEF x2, y2
  <2>3. CASE pc'[t] = "sorting"
    BY <1>3, <2>1, <2>2, <2>3
  <2>4. CASE pc'[t] # "sorting"
    BY <1>3, <2>1, <2>2, <2>4
  <2> QED
    BY <2>3, <2>4
<1>9. Around(b)' + Held(t, b)' = Around(b) + Held(t, b)
  <2> DEFINE v == pending["OP_RECEIVE"][b]
             w == pending["OP_SEND"][b]
             z == CountIn(cq, With(b))
  <2>1. Around(b) = f + v + w + z
    BY DEF Around
  <2>2. Around(b)' = f2 + v + w + z
    BY SortTo DEF Around, CountIn, PlacesIn, With, Completion
  <2>3. v \in Nat /\ w \in Nat /\ z \in Nat
    BY OwnerTermsNow DEF OwnerTerms
  <2> HIDE DEF x, x2, y, y2, f, f2, one, v, w, z
  <2> QED
    BY <1>3, <1>4, <1>6, <1>7, <1>8, <2>1, <2>2, <2>3
<1>10. OthersStay(t)
  BY SortIs, WorkerOnly
<1> QED
  BY <1>9, <1>10, OwnersMoved

\* An instruction done: its buffer, if it carries one, leaves the worker's hand.
LEMMA InstructionHeld ==
  ASSUME BaseInv, BaseInv', NEW t \in Threads, NEW type, CurrentIs(t, type), Done(t),
         UNCHANGED <<pc, batch, results, pos>>, NEW b \in Buffers
  PROVE  Held(t, b) = Held(t, b)' + (IF Head(instructions[t]) \in Carrying(b) THEN 1 ELSE 0)
<1> DEFINE i == instructions[t]
           j == instructions'[t]
           one == IF Head(i) \in Carrying(b) THEN 1 ELSE 0
           y == CountFrom(results[t], pos[t], {b})
           x == CountIn(i, Carrying(b))
           x2 == CountIn(j, Carrying(b))
<1>1. /\ pc[t] = "process" /\ i \in Seq(Instructions) /\ i # <<>>
      /\ Tail(i) \in Seq(Instructions) /\ j = Tail(i)
  BY InstructionIs
<1>2. x = x2 + one
  <2> HIDE DEF i
  <2>1. CountIn(i, Carrying(b)) = CountIn(Tail(i), Carrying(b)) + (IF Head(i) \in Carrying(b) THEN 1 ELSE 0)
    BY <1>1, CountTail
  <2> QED
    BY <1>1, <2>1
<1>3. y \in Nat /\ x2 \in Nat /\ one \in Nat
  <2>1. results[t] \in Seq(Buffers) /\ pos[t] \in Nat /\ pos[t] >= 1
    BY DEF BaseInv, Types, PlaceOf
  <2>2. y \in Nat
    BY <2>1, CountFromType
  <2>3. j \in Seq(Instructions)
    BY <1>1
  <2>4. x2 \in Nat
    BY <2>3, CountType
  <2> QED
    BY <2>2, <2>4
<1>4. Held(t, b) = 0 + y + x
  BY <1>1, HeldBoth DEF HeldAt
<1>5. Held(t, b)' = 0 + y + x2
  BY <1>1, HeldBoth DEF HeldAt
<1> HIDE DEF y, x, x2, one
<1>6. Held(t, b) = Held(t, b)' + one
  BY <1>2, <1>3, <1>4, <1>5
<1> QED
  BY <1>6 DEF one

LEMMA OwnersInstruction ==
  ASSUME BaseInv, BaseInv', NEW t \in Threads, NEW type, CurrentIs(t, type), Done(t), Worker(t),
         UNCHANGED <<pc, batch, results, pos>>, NEW b \in Buffers,
         Around(b)' = Around(b) + (IF Head(instructions[t]) \in Carrying(b) THEN 1 ELSE 0)
  PROVE  Owners(b)' = Owners(b)
<1>1. Held(t, b) = Held(t, b)' + (IF Head(instructions[t]) \in Carrying(b) THEN 1 ELSE 0)
  BY InstructionHeld
<1> DEFINE one == IF Head(instructions[t]) \in Carrying(b) THEN 1 ELSE 0
           a == Around(b)
           a2 == Around(b)'
           h == Held(t, b)
           h2 == Held(t, b)'
<1>2. a \in Nat /\ a2 \in Nat /\ h \in Nat /\ h2 \in Nat /\ one \in Nat
  <2>1. a \in Nat /\ h \in Nat
    BY OwnerTermsNow DEF OwnerTerms
  <2>2. a2 \in Nat /\ h2 \in Nat
    BY OwnerTermsNext DEF OwnerTerms
  <2> QED
    BY <2>1, <2>2
<1>3. h = h2 + one /\ a2 = a + one
  BY <1>1
<1> HIDE DEF one, a, a2, h, h2
<1>4. a2 + h2 = a + h
  BY <1>2, <1>3
<1>5. OthersStay(t)
  BY WorkerOnly
<1> QED
  BY <1>4, <1>5, OwnersMoved DEF a, a2, h, h2

\* What a buffer put in the pool, taken from it or posted changes.
LEMMA PoolCounts ==
  ASSUME BaseInv, NEW b, NEW c \in Buffers
  PROVE  /\ CountIn(Append(freeBufferIndex, c), {b})
              = CountIn(freeBufferIndex, {b}) + (IF c = b THEN 1 ELSE 0)
         /\ freeBufferIndex # <<>> =>
              /\ CountIn(freeBufferIndex, {b})
                   = CountIn(Tail(freeBufferIndex), {b}) + (IF Head(freeBufferIndex) = b THEN 1 ELSE 0)
              /\ CountIn(Tail(freeBufferIndex), {b}) \in Nat
              /\ CountIn(Append(Tail(freeBufferIndex), Head(freeBufferIndex)), {b})
                   = CountIn(freeBufferIndex, {b})
<1> DEFINE s == freeBufferIndex
<1>1. s \in Seq(Buffers)
  BY DEF BaseInv, Types
<1>2. s # <<>> => Head(s) \in Buffers /\ Tail(s) \in Seq(Buffers)
  BY FreeHead
<1> HIDE DEF s
<1>3. CountIn(Append(s, c), {b}) = CountIn(s, {b}) + (IF c \in {b} THEN 1 ELSE 0)
  BY <1>1, CountAppend
<1>4. ASSUME s # <<>>
      PROVE  /\ CountIn(s, {b}) = CountIn(Tail(s), {b}) + (IF Head(s) \in {b} THEN 1 ELSE 0)
             /\ CountIn(Tail(s), {b}) \in Nat
             /\ CountIn(Append(Tail(s), Head(s)), {b})
                  = CountIn(Tail(s), {b}) + (IF Head(s) \in {b} THEN 1 ELSE 0)
  <2>1. CountIn(s, {b}) = CountIn(Tail(s), {b}) + (IF Head(s) \in {b} THEN 1 ELSE 0)
    BY <1>1, <1>4, CountTail
  <2> DEFINE r == Tail(s)
             h == Head(s)
  <2>2. r \in Seq(Buffers) /\ h \in Buffers
    BY <1>2, <1>4
  <2> HIDE DEF r, h
  <2>3. CountIn(r, {b}) \in Nat
    BY <2>2, CountType
  <2>4. CountIn(Append(r, h), {b}) = CountIn(r, {b}) + (IF h \in {b} THEN 1 ELSE 0)
    BY <2>2, CountAppend
  <2> QED
    BY <2>1, <2>3, <2>4 DEF r, h
<1> QED
  BY <1>3, <1>4 DEF s

LEMMA PostedCounts ==
  ASSUME BaseInv, NEW k \in Kinds, NEW c \in Buffers, Post(k, c), NEW b \in Buffers
  PROVE  pending'["OP_RECEIVE"][b] + pending'["OP_SEND"][b]
           = pending["OP_RECEIVE"][b] + pending["OP_SEND"][b] + (IF c = b THEN 1 ELSE 0)
<1> DEFINE x == pending["OP_RECEIVE"][b]
           y == pending["OP_SEND"][b]
           x2 == pending'["OP_RECEIVE"][b]
           y2 == pending'["OP_SEND"][b]
           one == IF c = b THEN 1 ELSE 0
<1>1. x \in Nat /\ y \in Nat /\ one \in Nat
  BY DEF BaseInv, Types, Kinds
<1>2. k = "OP_RECEIVE" => x2 = x + one /\ y2 = y
  <2>1. pending["OP_RECEIVE"][b] \in Nat
    BY <1>1
  <2> QED
    BY <2>1, PostCounts DEF Kinds
<1>3. k = "OP_SEND" => x2 = x /\ y2 = y + one
  <2>1. pending["OP_SEND"][b] \in Nat
    BY <1>1
  <2> QED
    BY <2>1, PostCounts DEF Kinds
<1>4. k = "OP_RECEIVE" \/ k = "OP_SEND"
  BY DEF Kinds
<1> HIDE DEF x, y, x2, y2, one
<1>5. x2 + y2 = x + y + one
  BY <1>1, <1>2, <1>3, <1>4
<1> QED
  BY <1>5 DEF x, y, x2, y2, one

LEMMA AroundBy ==
  ASSUME BaseInv, BaseInv', NEW b \in Buffers, cq' = cq, NEW d \in Nat,
         CountIn(freeBufferIndex', {b}) + (pending'["OP_RECEIVE"][b] + pending'["OP_SEND"][b])
           = CountIn(freeBufferIndex, {b}) + (pending["OP_RECEIVE"][b] + pending["OP_SEND"][b]) + d
  PROVE  Around(b)' = Around(b) + d
<1> DEFINE f == CountIn(freeBufferIndex, {b})
           f2 == CountIn(freeBufferIndex', {b})
           x == pending["OP_RECEIVE"][b]
           y == pending["OP_SEND"][b]
           x2 == pending'["OP_RECEIVE"][b]
           y2 == pending'["OP_SEND"][b]
           z == CountIn(cq, With(b))
<1>1. f \in Nat /\ f2 \in Nat /\ x \in Nat /\ y \in Nat /\ x2 \in Nat /\ y2 \in Nat /\ z \in Nat
  BY OwnerTermsNow, OwnerTermsNext DEF OwnerTerms, CountIn, PlacesIn
<1>2. Around(b) = f + x + y + z
  BY DEF Around
<1>3. Around(b)' = f2 + x2 + y2 + z
  BY DEF Around, CountIn, PlacesIn, With, Completion
<1>4. f2 + (x2 + y2) = f + (x + y) + d
  OBVIOUS
<1> HIDE DEF f, f2, x, y, x2, y2, z
<1> QED
  BY <1>1, <1>2, <1>3, <1>4

LEMMA OwnersPostReceive ==
  ASSUME BaseInv, BaseInv', NEW t \in Threads, PostReceive(t), NEW b \in Buffers
  PROVE  Owners(b)' = Owners(b)
<1>1. /\ CurrentIs(t, "RECEIVE") /\ Done(t) /\ cq' = cq /\ UNCHANGED <<pc, batch, results, pos>>
  BY DEF PostReceive
<1>2. Worker(t)
  BY DEF Worker
<1>3. Head(instructions[t]) \notin Carrying(b)
  <2>1. Head(instructions[t]).type = "RECEIVE"
    BY <1>1, InstructionIs
  <2> QED
    BY <2>1 DEF Carrying, Send, FreeInst
<1> DEFINE f == CountIn(freeBufferIndex, {b})
           f2 == CountIn(freeBufferIndex', {b})
           p == pending["OP_RECEIVE"][b] + pending["OP_SEND"][b]
           p2 == pending'["OP_RECEIVE"][b] + pending'["OP_SEND"][b]
           h == Head(freeBufferIndex)
<1>4. f \in Nat /\ p \in Nat
  <2>1. f \in Nat /\ pending["OP_RECEIVE"][b] \in Nat /\ pending["OP_SEND"][b] \in Nat
    BY OwnerTermsNow DEF OwnerTerms
  <2> QED
    BY <2>1
<1>5. f2 + p2 = f + p
  <2>1. CASE UNCHANGED <<freeBufferIndex, pending>>
    BY <2>1
  <2>2. CASE freeBufferIndex # <<>> /\ Post("OP_RECEIVE", h) /\ freeBufferIndex' = Tail(freeBufferIndex)
    <3> DEFINE one == IF h = b THEN 1 ELSE 0
    <3>1. h \in Buffers
      BY <2>2, FreeHead
    <3>2. f = f2 + one /\ f2 \in Nat
      BY <2>2, <3>1, PoolCounts
    <3>3. p2 = p + one
      <4>1. "OP_RECEIVE" \in Kinds
        BY DEF Kinds
      <4> HIDE DEF h
      <4> QED
        BY <2>2, <3>1, <4>1, PostedCounts
    <3>4. one \in Nat
      OBVIOUS
    <3> HIDE DEF f, f2, p, p2, one
    <3> QED
      BY <1>4, <3>2, <3>3, <3>4
  <2>3. CASE /\ freeBufferIndex # <<>> /\ pending' = pending
             /\ freeBufferIndex' = Append(Tail(freeBufferIndex), h)
    <3>1. h \in Buffers
      BY <2>3, FreeHead
    <3>2. f2 = f
      BY <2>3, <3>1, PoolCounts
    <3> QED
      BY <2>3, <3>2
  <2> QED
    BY <2>1, <2>2, <2>3 DEF PostReceive, manager
<1>6. Around(b)' = Around(b) + 0
  <2>1. f2 + p2 = f + p + 0
    BY <1>4, <1>5
  <2> QED
    BY <1>1, <2>1, AroundBy
<1>7. Around(b)' = Around(b) + (IF Head(instructions[t]) \in Carrying(b) THEN 1 ELSE 0)
  BY <1>3, <1>6
<1> QED
  BY <1>1, <1>2, <1>7, OwnersInstruction

\* The buffer of a send goes to RIO, or back to the pool if it is not sent.
LEMMA OwnersPostSend ==
  ASSUME BaseInv, BaseInv', NEW t \in Threads, PostSend(t), NEW b \in Buffers
  PROVE  Owners(b)' = Owners(b)
<1> DEFINE c == Head(instructions[t]).buf
<1>1. /\ CurrentIs(t, "SEND") /\ Done(t) /\ cq' = cq /\ UNCHANGED <<pc, batch, results, pos>>
      /\ \/ freeBufferIndex' = Append(freeBufferIndex, c) /\ pending' = pending
         \/ Post("OP_SEND", c) /\ freeBufferIndex' = freeBufferIndex
  BY DEF PostSend
<1>2. Worker(t)
  BY DEF Worker
<1>3. c \in Buffers /\ (Head(instructions[t]) \in Carrying(b) <=> c = b)
  <2>1. PICK d \in Buffers : Head(instructions[t]) = Send(d)
    BY <1>1, InstructionIs
  <2>2. Send(d).buf = d /\ Send(b).buf = b /\ Send(d).type = "SEND" /\ FreeInst(b).type = "FREEBUFFER"
    BY DEF Send, FreeInst
  <2> QED
    BY <2>1, <2>2 DEF Carrying
<1> DEFINE f == CountIn(freeBufferIndex, {b})
           f2 == CountIn(freeBufferIndex', {b})
           p == pending["OP_RECEIVE"][b] + pending["OP_SEND"][b]
           p2 == pending'["OP_RECEIVE"][b] + pending'["OP_SEND"][b]
           one == IF c = b THEN 1 ELSE 0
<1>4. f \in Nat /\ p \in Nat /\ one \in Nat
  <2>1. f \in Nat /\ pending["OP_RECEIVE"][b] \in Nat /\ pending["OP_SEND"][b] \in Nat
    BY OwnerTermsNow DEF OwnerTerms
  <2> QED
    BY <2>1
<1>5. f2 + p2 = f + p + one
  <2>1. CASE freeBufferIndex' = Append(freeBufferIndex, c) /\ pending' = pending
    <3>1. f2 = f + one
      BY <1>3, <2>1, PoolCounts
    <3>2. p2 = p
      BY <2>1
    <3> HIDE DEF f, f2, p, p2, one
    <3> QED
      BY <1>4, <3>1, <3>2
  <2>2. CASE Post("OP_SEND", c) /\ freeBufferIndex' = freeBufferIndex
    <3>1. f2 = f
      BY <2>2
    <3>2. p2 = p + one
      <4>1. "OP_SEND" \in Kinds
        BY DEF Kinds
      <4>2. c \in Buffers /\ Post("OP_SEND", c)
        BY <1>3, <2>2
      <4> HIDE DEF c
      <4> QED
        BY <4>1, <4>2, PostedCounts
    <3> HIDE DEF f, f2, p, p2, one
    <3> QED
      BY <1>4, <3>1, <3>2
  <2> QED
    BY <1>1, <2>1, <2>2
<1>6. Around(b)' = Around(b) + one
  BY <1>1, <1>4, <1>5, AroundBy
<1>7. Around(b)' = Around(b) + (IF Head(instructions[t]) \in Carrying(b) THEN 1 ELSE 0)
  BY <1>3, <1>6
<1> QED
  BY <1>1, <1>2, <1>7, OwnersInstruction

LEMMA OwnersFreeBuffer ==
  ASSUME BaseInv, BaseInv', NEW t \in Threads, FreeBuffer(t), NEW b \in Buffers
  PROVE  Owners(b)' = Owners(b)
<1> DEFINE c == Head(instructions[t]).buf
<1>1. /\ CurrentIs(t, "FREEBUFFER") /\ Done(t) /\ cq' = cq /\ UNCHANGED <<pc, batch, results, pos>>
      /\ freeBufferIndex' = Append(freeBufferIndex, c) /\ pending' = pending
  BY DEF FreeBuffer, windows
<1>2. Worker(t)
  BY DEF Worker
<1>3. c \in Buffers /\ (Head(instructions[t]) \in Carrying(b) <=> c = b)
  <2>1. PICK d \in Buffers : Head(instructions[t]) = FreeInst(d)
    BY <1>1, InstructionIs
  <2>2. /\ FreeInst(d).buf = d /\ FreeInst(b).buf = b
        /\ Send(b).type = "SEND" /\ FreeInst(d).type = "FREEBUFFER"
    BY DEF Send, FreeInst
  <2> QED
    BY <2>1, <2>2 DEF Carrying
<1> DEFINE f == CountIn(freeBufferIndex, {b})
           f2 == CountIn(freeBufferIndex', {b})
           p == pending["OP_RECEIVE"][b] + pending["OP_SEND"][b]
           p2 == pending'["OP_RECEIVE"][b] + pending'["OP_SEND"][b]
           one == IF c = b THEN 1 ELSE 0
<1>4. f \in Nat /\ p \in Nat /\ one \in Nat
  <2>1. f \in Nat /\ pending["OP_RECEIVE"][b] \in Nat /\ pending["OP_SEND"][b] \in Nat
    BY OwnerTermsNow DEF OwnerTerms
  <2> QED
    BY <2>1
<1>5. f2 + p2 = f + p + one
  <2>1. f2 = f + one
    BY <1>1, <1>3, PoolCounts
  <2>2. p2 = p
    BY <1>1
  <2> HIDE DEF f, f2, p, p2, one
  <2> QED
    BY <1>4, <2>1, <2>2
<1>6. Around(b)' = Around(b) + one
  BY <1>1, <1>4, <1>5, AroundBy
<1>7. Around(b)' = Around(b) + (IF Head(instructions[t]) \in Carrying(b) THEN 1 ELSE 0)
  BY <1>3, <1>6
<1> QED
  BY <1>1, <1>2, <1>7, OwnersInstruction

LEMMA OwnersOutside ==
  ASSUME BaseInv, BaseInv', UNCHANGED <<pc, batch, results, pos, instructions>>,
         NEW b \in Buffers, Around(b)' = Around(b)
  PROVE  Owners(b)' = Owners(b)
<1>1. PICK t \in Threads : TRUE
  BY ThreadsAssumption
<1>2. OthersStay(t) /\ Held(t, b)' = Held(t, b)
  BY DEF OthersStay, OfWorker, Held
<1> QED
  BY <1>2, OwnersMoved

LEMMA OwnersComplete ==
  ASSUME BaseInv, BaseInv', NEW k \in Kinds, NEW c \in Buffers, NEW ok \in BOOLEAN,
         Complete(k, c, ok), NEW b \in Buffers
  PROVE  Owners(b)' = Owners(b)
<1> DEFINE e == [buf |-> c, kind |-> k, ok |-> ok]
           f == CountIn(freeBufferIndex, {b})
           x == pending["OP_RECEIVE"][b]
           y == pending["OP_SEND"][b]
           x2 == pending'["OP_RECEIVE"][b]
           y2 == pending'["OP_SEND"][b]
           z == CountIn(cq, With(b))
           z2 == CountIn(cq', With(b))
           one == IF c = b THEN 1 ELSE 0
<1>1. /\ e \in Completion /\ cq' = Append(cq, e)
      /\ pending' = [pending EXCEPT ![k][c] = @ - 1]
      /\ UNCHANGED <<freeBufferIndex, pc, batch, results, pos, instructions>>
  BY CompleteTypes
<1>2. f \in Nat /\ x \in Nat /\ y \in Nat /\ z \in Nat /\ one \in Nat
  BY OwnerTermsNow DEF OwnerTerms
<1>3. z2 = z + one
  <2>1. cq \in Seq(Completion)
    BY DEF BaseInv, Types
  <2>2. CountIn(Append(cq, e), With(b)) = CountIn(cq, With(b)) + (IF e \in With(b) THEN 1 ELSE 0)
    BY <1>1, <2>1, CountAppend
  <2>3. e \in With(b) <=> c = b
    BY <1>1 DEF With
  <2> QED
    BY <1>1, <2>2, <2>3
<1>4. x2 + y2 + one = x + y
  <2>1. pending \in [Kinds -> [Buffers -> Nat]]
    BY DEF BaseInv, Types
  <2>2. CASE k = "OP_RECEIVE"
    <3>1. y2 = y /\ x2 = IF c = b THEN x - 1 ELSE x
      BY <1>1, <2>1, <2>2 DEF Kinds
    <3> QED
      BY <1>2, <3>1
  <2>3. CASE k = "OP_SEND"
    <3>1. x2 = x /\ y2 = IF c = b THEN y - 1 ELSE y
      BY <1>1, <2>1, <2>3 DEF Kinds
    <3> QED
      BY <1>2, <3>1
  <2> QED
    BY <2>2, <2>3 DEF Kinds
<1>5. Around(b) = f + x + y + z
  BY DEF Around
<1>6. Around(b)' = f + x2 + y2 + z2
  BY <1>1 DEF Around, CountIn, PlacesIn, With, Completion
<1>7. x2 \in Nat /\ y2 \in Nat
  BY OwnerTermsNext DEF OwnerTerms
<1> HIDE DEF f, x, y, z, x2, y2, z2, one
<1>8. Around(b)' = Around(b)
  BY <1>2, <1>3, <1>4, <1>5, <1>6, <1>7
<1> QED
  BY <1>1, <1>8, OwnersOutside

\* The dequeue removes exactly what its worker has copied out, as no other one does.
LEMMA LeaveTakes ==
  ASSUME BaseInv, Own, NEW t \in Threads, pc[t] = "dequeuing"
  PROVE  /\ StillAhead(batch[t]) = Len(batch[t]) /\ Len(batch[t]) \in 0..Len(cq)
         /\ \A D : CountIn(Taken(Len(batch[t])), D) = CountIn(batch[t], D)
         /\ OfKind(Taken(Len(batch[t])), "OP_RECEIVE") = OfKind(batch[t], "OP_RECEIVE")
         /\ OfKind(Taken(Len(batch[t])), "OP_SEND") = OfKind(batch[t], "OP_SEND")
<1> DEFINE s == batch[t]
           ahead == {i \in 1..Len(cq) : \A j \in 1..i : Member(s, cq[j])}
<1>1. /\ s \in Seq(Completion) /\ cq \in Seq(Completion)
      /\ Len(s) <= Len(cq) /\ \A i \in 1..Len(s) : s[i] = cq[i]
  BY DEF BaseInv, Types, Own, CopiedOut
<1>2. \A i, j \in 1..Len(cq) : cq[i].buf = cq[j].buf => i = j
  BY OnceInQueue DEF Own
<1> HIDE DEF s
<1>3. Len(s) \in Nat /\ Len(cq) \in Nat /\ Len(s) \in 0..Len(cq)
  BY <1>1
<1>4. ASSUME NEW i \in 1..Len(s) PROVE i \in ahead
  <2>1. i \in 1..Len(cq)
    BY <1>1, <1>3
  <2>2. \A j \in 1..i : j \in 1..Len(s)
    BY <1>3
  <2>3. \A j \in 1..i : Member(s, cq[j])
    BY <1>1, <2>2 DEF Member
  <2> QED
    BY <2>1, <2>3
<1>5. ASSUME NEW i \in ahead PROVE i \in 1..Len(s)
  <2>1. i \in 1..Len(cq) /\ \A j \in 1..i : Member(s, cq[j])
    BY <1>5
  <2>2. ASSUME i > Len(s) PROVE FALSE
    <3>1. i \in 1..i
      BY <2>1
    <3>2. PICK j \in 1..Len(s) : s[j] = cq[i]
      BY <2>1, <3>1 DEF Member
    <3>3. cq[j] = cq[i] /\ j \in 1..Len(cq)
      BY <1>1, <1>3, <3>2
    <3>4. j = i
      BY <1>2, <2>1, <3>3
    <3> QED
      BY <1>3, <2>2, <3>4
  <2> QED
    BY <1>3, <2>1, <2>2
<1>6. ahead = 1..Len(s)
  BY <1>4, <1>5
<1> HIDE DEF ahead
<1>7. Cardinality(ahead) = Len(s)
  <2> DEFINE n == Len(s)
  <2>1. n \in Nat
    BY <1>3
  <2> HIDE DEF n
  <2>2. Cardinality(1..n) = n
    BY <2>1, FS_Interval
  <2> QED
    BY <1>6, <2>2 DEF n
<1>8. StillAhead(s) = Len(s)
  BY <1>7 DEF StillAhead, ahead
<1>9. /\ Taken(Len(s)) \in Seq(Completion) /\ Len(Taken(Len(s))) = Len(s)
      /\ \A i \in 1..Len(s) : Taken(Len(s))[i] = s[i]
  <2> DEFINE n == Len(s)
  <2>1. n \in Nat /\ n <= Len(cq)
    BY <1>1, <1>3
  <2> HIDE DEF n
  <2>2. /\ SubSeq(cq, 1, n) \in Seq(Completion) /\ Len(SubSeq(cq, 1, n)) = n
        /\ \A i \in 1..n : SubSeq(cq, 1, n)[i] = cq[i]
    BY <1>1, <2>1
  <2> QED
    BY <1>1, <2>2 DEF Taken, n
<1>10. ASSUME NEW D PROVE CountIn(Taken(Len(s)), D) = CountIn(s, D)
  BY <1>9 DEF CountIn, PlacesIn
<1>11. ASSUME NEW k PROVE OfKind(Taken(Len(s)), k) = OfKind(s, k)
  BY <1>9 DEF OfKind
<1> QED
  BY <1>3, <1>8, <1>10, <1>11 DEF s

\* What an unharmed dequeue does to its worker and to the queue.
LEMMA LeaveIs ==
  ASSUME BaseInv, Own, NEW t \in Threads, DequeueLeave(t), Unharmed'
  PROVE  /\ Worker(t) /\ pc[t] = "dequeuing" /\ UNCHANGED <<freeBufferIndex, pending, operationType, lost>>
         /\ batch[t] \in Seq(Completion) /\ batch'[t] = batch[t]
         /\ pos[t] = Len(results[t]) + 1 /\ pos'[t] = 1
         /\ results[t] \in Seq(Buffers) /\ results'[t] = <<>>
         /\ instructions[t] = <<>> /\ instructions'[t] = <<>>
         /\ cq' = SubSeq(cq, Len(batch[t]) + 1, Len(cq)) /\ cq' \in Seq(Completion)
         /\ \A D : CountIn(cq, D) = CountIn(batch[t], D) + CountIn(cq', D)
         /\ outstanding' = [k \in Kinds |-> outstanding[k] - OfKind(batch[t], k)]
         /\ IF batch[t] = <<>> THEN pc'[t] = "process" ELSE pc'[t] = "sorting"
<1> DEFINE s == batch[t]
           n == StillAhead(s)
<1>1. /\ pc[t] = "dequeuing"
      /\ cq' = SubSeq(cq, n + 1, Len(cq))
      /\ outstanding' = [k \in Kinds |-> outstanding[k] - OfKind(Taken(n), k)]
      /\ pos' = [pos EXCEPT ![t] = 1] /\ batch' = batch /\ instructions' = instructions
      /\ UNCHANGED <<freeBufferIndex, pending, operationType, lost>>
      /\ \/ /\ batch[t] = <<>> /\ pc' = [pc EXCEPT ![t] = "process"] /\ results' = results
            /\ faults' = IF results[t] = <<>> THEN faults ELSE [faults EXCEPT !.stale = @ + 1]
         \/ batch[t] # <<>> /\ pc' = [pc EXCEPT ![t] = "sorting"]
            /\ results' = [results EXCEPT ![t] = <<>>]
  BY DEF DequeueLeave, Goto, manager
<1>2. /\ s \in Seq(Completion) /\ results[t] \in Seq(Buffers) /\ PlaceOf(t)
      /\ faults \in [{"overlap", "stale"} -> Nat]
  BY DEF BaseInv, Types
<1>3. pos[t] = Len(results[t]) + 1 /\ instructions[t] = <<>>
  BY <1>1, <1>2 DEF PlaceOf
<1>4. n = Len(s) /\ Len(s) \in 0..Len(cq) /\ \A D : CountIn(Taken(Len(s)), D) = CountIn(s, D)
      /\ OfKind(Taken(Len(s)), "OP_RECEIVE") = OfKind(s, "OP_RECEIVE")
      /\ OfKind(Taken(Len(s)), "OP_SEND") = OfKind(s, "OP_SEND")
  BY <1>1, LeaveTakes
<1>5. pos'[t] = 1 /\ batch'[t] = batch[t] /\ instructions'[t] = instructions[t]
  BY <1>1 DEF BaseInv, Types
<1>6. IF batch[t] = <<>> THEN pc'[t] = "process" ELSE pc'[t] = "sorting"
  BY <1>1 DEF BaseInv, Types
<1>7. results'[t] = <<>>
  <2>1. CASE batch[t] # <<>>
    BY <1>1, <2>1 DEF BaseInv, Types
  <2>2. CASE batch[t] = <<>>
    <3>1. results' = results
      BY <1>1, <2>2
    <3>2. ASSUME results[t] # <<>> PROVE FALSE
      <4>1. faults' = [faults EXCEPT !.stale = @ + 1]
        BY <1>1, <2>2, <3>2
      <4>2. faults'.overlap = faults.overlap /\ faults'.stale = faults.stale + 1
            /\ faults.overlap \in Nat /\ faults.stale \in Nat
        BY <1>2, <4>1
      <4>3. faults'.overlap + faults'.stale = 0
        BY DEF Unharmed
      <4> QED
        BY <4>2, <4>3
    <3> QED
      BY <3>1, <3>2
  <2> QED
    BY <2>1, <2>2
<1> HIDE DEF n
<1>8. cq' = SubSeq(cq, Len(s) + 1, Len(cq)) /\ cq' \in Seq(Completion)
  BY <1>1, <1>4, TakenIs
<1>9. ASSUME NEW D PROVE CountIn(cq, D) = CountIn(s, D) + CountIn(cq', D)
  BY <1>4, <1>8, TakenIs
<1>10. outstanding' = [k \in Kinds |-> outstanding[k] - OfKind(s, k)]
  BY <1>1, <1>4 DEF Kinds
<1>11. Worker(t)
  BY DEF Worker
<1> QED
  BY <1>1, <1>2, <1>3, <1>5, <1>6, <1>7, <1>8, <1>9, <1>10, <1>11

LEMMA OwnersDequeueLeave ==
  ASSUME BaseInv, BaseInv', Own, NEW t \in Threads, DequeueLeave(t), Unharmed', NEW b \in Buffers
  PROVE  Owners(b)' = Owners(b)
<1> DEFINE x == CountIn(batch[t], With(b))
           z == CountIn(cq, With(b))
           z2 == CountIn(cq', With(b))
<1>1. /\ z = x + z2 /\ x \in Nat /\ z2 \in Nat
  BY LeaveIs, CountType
<1>2. Held(t, b) = 0
  <2>1. CountFrom(results[t], pos[t], {b}) = 0
    <3> DEFINE r == results[t]
               p == pos[t]
    <3>1. r \in Seq(Buffers) /\ p = Len(r) + 1
      BY LeaveIs
    <3> HIDE DEF r, p
    <3>2. p \in Nat /\ p > Len(r)
      BY <3>1
    <3>3. CountFrom(r, p, {b}) = 0
      BY <3>1, <3>2, CountFromEnd
    <3> QED
      BY <3>3 DEF r, p
  <2>2. CountIn(instructions[t], Carrying(b)) = 0
    BY LeaveIs, CountEmpty
  <2>3. pc[t] = "dequeuing"
    BY LeaveIs
  <2>4. Held(t, b) = HeldAt("dequeuing", batch[t], results[t], pos[t], instructions[t], b)
    BY <2>3, HeldBoth
  <2> QED
    BY <2>1, <2>2, <2>4 DEF HeldAt
<1>3. Held(t, b)' = x
  <2>1. Held(t, b)' = HeldAt(pc'[t], batch[t], <<>>, 1, <<>>, b)
    BY LeaveIs, HeldBoth
  <2>2. batch[t] \in Seq(Completion) /\ <<>> \in Seq(Buffers)
    <3>1. batch[t] \in Seq(Completion)
      BY LeaveIs
    <3>2. <<>> \in Seq(Buffers)
      OBVIOUS
    <3> QED
      BY <3>1, <3>2
  <2>3. HeldAt(pc'[t], batch[t], <<>>, 1, <<>>, b)
          = (IF pc'[t] = "sorting" THEN x ELSE 0) + CountIn(<<>>, {b})
    <3> DEFINE l == pc'[t]
               s == batch[t]
    <3> HIDE DEF l, s
    <3>1. HeldAt(l, s, <<>>, 1, <<>>, b) = (IF l = "sorting" THEN CountIn(s, With(b)) ELSE 0) + CountIn(<<>>, {b})
      <4>1. s \in Seq(Completion) /\ <<>> \in Seq(Buffers)
        BY <2>2 DEF s
      <4> QED
        BY ONLY <4>1, HeldEarly, ZenonT(40)
    <3> QED
      BY <3>1 DEF l, s
  <2>4. CountIn(<<>>, {b}) = 0
    BY CountEmpty
  <2>5. CASE batch[t] = <<>>
    <3>1. x = 0 /\ pc'[t] # "sorting"
      BY <2>5, CountEmpty, LeaveIs
    <3> QED
      BY <2>1, <2>3, <2>4, <3>1
  <2>6. CASE batch[t] # <<>>
    <3>1. pc'[t] = "sorting"
      BY <2>6, LeaveIs
    <3> QED
      BY <1>1, <2>1, <2>3, <2>4, <3>1
  <2> QED
    BY <2>5, <2>6
<1>4. Around(b)' + Held(t, b)' = Around(b) + Held(t, b)
  <2> DEFINE f == CountIn(freeBufferIndex, {b})
             v == pending["OP_RECEIVE"][b]
             w == pending["OP_SEND"][b]
  <2>1. Around(b) = f + v + w + z
    BY DEF Around
  <2>2. Around(b)' = f + v + w + z2
    BY LeaveIs DEF Around, CountIn, PlacesIn, With, Completion
  <2>3. f \in Nat /\ v \in Nat /\ w \in Nat
    BY OwnerTermsNow DEF OwnerTerms
  <2> HIDE DEF x, z, z2, f, v, w
  <2> QED
    BY <1>1, <1>2, <1>3, <2>1, <2>2, <2>3
<1>5. OthersStay(t)
  BY LeaveIs, WorkerOnly
<1> QED
  BY <1>4, <1>5, OwnersMoved

\* An order lists every buffer, once.
LEMMA OrderLists ==
  ASSUME NEW order \in Orders, NEW b \in Buffers
  PROVE  /\ order \in Seq(Buffers) /\ Len(order) = Cardinality(Buffers)
         /\ CountIn(order, {b}) = 1
<1> DEFINE N == Cardinality(Buffers)
           R == 1..N
           T == {order[i] : i \in R}
           f == [i \in R |-> order[i]]
<1>1. N \in Nat /\ IsFiniteSet(Buffers)
  BY BuffersAssumption, FS_CardinalityType
<1>2. /\ order \in [R -> Buffers]
      /\ \A i, j \in R : order[i] = order[j] => i = j
  BY DEF Orders
<1>3. /\ f \in [R -> T]
      /\ \A i, j \in R : f[i] = f[j] => i = j
      /\ \A c \in T : \E i \in R : f[i] = c
      /\ T \subseteq Buffers
  BY <1>2
<1> HIDE DEF N
<1>4. IsFiniteSet(R) /\ Cardinality(R) = N
  BY <1>1, FS_Interval
<1>5. order \in Seq(Buffers) /\ Len(order) = N
  BY <1>1, <1>2
<1> HIDE DEF R, T, f
<1>6. f \in Bijection(R, T)
  BY <1>3, Fun_IsBij
<1>7. ExistsBijection(R, T)
  BY <1>6 DEF ExistsBijection
<1>8. Cardinality(T) = N
  BY <1>4, <1>7, FS_Bijection
<1>9. T = Buffers
  BY <1>1, <1>3, <1>8, FS_Subset DEF N
<1>10. PICK i \in R : order[i] = b
  BY <1>9 DEF T
<1>11. PlacesIn(order, {b}) = {i}
  BY <1>2, <1>5, <1>10 DEF PlacesIn, R
<1>12. CountIn(order, {b}) = 1
  BY <1>11, FS_Singleton DEF CountIn
<1> QED
  BY <1>5, <1>12 DEF N

LEMMA OwnInit == Init => OwnInv
<1> SUFFICES ASSUME Init PROVE Own
  BY DEF OwnInv
<1>1. PICK order \in Orders :
        /\ pending = [k \in Kinds |-> [b \in Buffers |->
             IF k = "OP_RECEIVE" /\ \E i \in 1..MaxReceives : order[i] = b THEN 1 ELSE 0]]
        /\ freeBufferIndex = SubSeq(order, MaxReceives + 1, Cardinality(Buffers))
  BY DEF Init
<1>2. BaseInv
  BY BaseInit
<1>3. ASSUME NEW b \in Buffers PROVE Owners(b) = 1
  <2> DEFINE p == pending["OP_RECEIVE"][b]
             q == pending["OP_SEND"][b]
             a == SubSeq(order, 1, MaxReceives)
             f == CountIn(freeBufferIndex, {b})
             g == CountIn(a, {b})
  <2>1. /\ order \in Seq(Buffers) /\ Len(order) = Cardinality(Buffers)
        /\ CountIn(order, {b}) = 1
    BY OrderLists
  <2>2. MaxReceives \in Nat /\ Len(order) \in Nat /\ MaxReceives <= Len(order)
        /\ MaxReceives \in 0..Len(order)
    BY <2>1, BuffersAssumption, BoundsAssumption
  <2>3. 1 = g + f
    BY <1>1, <2>1, <2>2, CountCut
  <2>4. a \in Seq(Buffers) /\ Len(a) = MaxReceives /\ \A i \in 1..MaxReceives : a[i] = order[i]
    BY <2>1, <2>2
  <2>5. g \in Nat /\ f \in Nat
    <3>1. freeBufferIndex \in Seq(Buffers)
      BY <1>2 DEF BaseInv, Types
    <3> HIDE DEF a
    <3> QED
      BY <2>4, <3>1, CountType
  <2>6. p = g
    <3>1. p = IF \E i \in 1..MaxReceives : order[i] = b THEN 1 ELSE 0
      BY <1>1 DEF Kinds
    <3>2. CASE \E i \in 1..MaxReceives : order[i] = b
      <4>1. PICK i \in 1..MaxReceives : order[i] = b
        BY <3>2
      <4>2. a \in Seq(Buffers) /\ i \in 1..Len(a) /\ a[i] \in {b}
        BY <2>4, <4>1
      <4> HIDE DEF a
      <4>3. CountIn(a, {b}) >= 1
        BY <4>2, CountOne
      <4> QED
        BY <2>3, <2>5, <3>1, <3>2, <4>3
    <3>3. CASE ~ \E i \in 1..MaxReceives : order[i] = b
      <4>1. PlacesIn(a, {b}) = {}
        BY <2>4, <3>3 DEF PlacesIn
      <4> QED
        BY <3>1, <3>3, <4>1, FS_EmptySet DEF CountIn
    <3> QED
      BY <3>2, <3>3
  <2>7. q = 0
    BY <1>1 DEF Kinds
  <2>8. CountIn(cq, With(b)) = 0
    BY CountEmpty DEF Init
  <2>9. HeldSum(b) = 0
    <3>1. ASSUME NEW t \in Threads PROVE Held(t, b) = 0
      <4>1. Held(t, b) = HeldAt(pc[t], batch[t], results[t], pos[t], instructions[t], b)
        BY <1>2, HeldIs
      <4>2. pc[t] = "notify" /\ batch[t] = <<>> /\ results[t] = <<>> /\ pos[t] = 1 /\ instructions[t] = <<>>
        BY DEF Init
      <4>3. <<>> \in Seq(Buffers)
        OBVIOUS
      <4>4. <<>> \in Seq(Completion)
        OBVIOUS
      <4>5. HeldAt("notify", <<>>, <<>>, 1, <<>>, b) = 0 + CountIn(<<>>, {b})
        <5>1. HeldAt("notify", <<>>, <<>>, 1, <<>>, b)
                = (IF "notify" = "sorting" THEN CountIn(<<>>, With(b)) ELSE 0) + CountIn(<<>>, {b})
          BY ONLY <4>3, <4>4, HeldEarly, ZenonT(40)
        <5> QED
          BY ONLY <5>1
      <4> QED
        BY <4>1, <4>2, <4>5, CountEmpty
    <3>2. [t \in Threads |-> Held(t, b)] = [t \in Threads |-> 0]
      BY <3>1
    <3> QED
      BY <3>2, ThreadsAssumption, SumOfZeros DEF HeldSum
  <2>10. Owners(b) = Around(b) + HeldSum(b) /\ Around(b) = f + p + q + CountIn(cq, With(b))
    BY <1>2, OwnerTermsNow DEF OwnerTerms, Around
  <2> HIDE DEF f, p, q, g
  <2>11. Around(b) = 1
    BY <2>3, <2>5, <2>6, <2>7, <2>8, <2>10
  <2> QED
    BY <2>9, <2>10, <2>11
<1>4. \A t \in Threads : pc[t] = "notify"
  BY DEF Init
<1> QED
  BY <1>3, <1>4 DEF Own

LEMMA GetGoes ==
  ASSUME BaseInv, NEW t \in Threads, GetQueuedCompletionStatus(t)
  PROVE  \E l \in {"dequeue", "accept", "exited", "notify", "quit"} : pc' = [pc EXCEPT ![t] = l]
<1>1. iocp \in Seq(Keys) /\ iocp # <<>>
  BY DEF GetQueuedCompletionStatus, BaseInv, Types
<1>2. Head(iocp) \in Keys
  BY <1>1
<1> QED
  BY <1>2 DEF GetQueuedCompletionStatus, Goto, Keys

LEMMA OwnersKept ==
  ASSUME BaseInv, BaseInv', [Next]_vars, Own, Unharmed', NEW b \in Buffers
  PROVE  Owners(b)' = Owners(b)
<1>1. ASSUME NEW t \in Threads, Worker(t) PROVE Owners(b)' = Owners(b)
  <2>o. OthersStay(t)
    BY <1>1, WorkerOnly
  <2>p. pc \in [Threads -> PCs]
    BY DEF BaseInv, Types
  \* The steps that only change the worker's place in the loop.
  <2>a. ASSUME NEW l, pc[t] # "sorting", l # "sorting", pc' = [pc EXCEPT ![t] = l],
               UNCHANGED <<results, pos, instructions, freeBufferIndex, pending, cq>>
        PROVE  Owners(b)' = Owners(b)
    <3>1. pc'[t] # "sorting"
      BY <2>a, <2>p
    <3> QED
      BY <2>a, <2>o, <3>1, OwnersIdle
  <2>1. CASE RIONotify(t)
    BY <2>1, <2>a DEF RIONotify, Goto, manager, thread
  <2>2. CASE GetQueuedCompletionStatus(t)
    <3>1. PICK l \in {"dequeue", "accept", "exited", "notify", "quit"} : pc' = [pc EXCEPT ![t] = l]
      BY <2>2, GetGoes
    <3> QED
      BY <2>2, <2>a, <3>1 DEF GetQueuedCompletionStatus, manager, thread
  <2>3. CASE Quit(t)
    BY <2>3, <2>a DEF Quit, Goto, manager, thread
  <2>4. CASE Accept(t)
    BY <2>4, <2>a DEF Accept, Goto, manager, thread
  <2>5. CASE DequeueEnter(t)
    BY <2>5, <2>a DEF DequeueEnter, Goto, manager, windows
  <2>6. CASE DequeueLeave(t)
    BY <2>6, OwnersDequeueLeave
  <2>7. CASE Sort(t)
    BY <2>7, OwnersSort
  <2>8. CASE NextResult(t)
    BY <2>8, OwnersNextResult
  <2>9. CASE EndOfResults(t)
    BY <2>9, <2>a DEF EndOfResults, Goto, manager, thread, windows
  <2>10. CASE PostReceive(t)
    BY <2>10, OwnersPostReceive
  <2>11. CASE PostSend(t)
    BY <2>11, OwnersPostSend
  <2>12. CASE FreeBuffer(t)
    BY <2>12, OwnersFreeBuffer
  <2> QED
    BY <1>1, <2>1, <2>2, <2>3, <2>4, <2>5, <2>6, <2>7, <2>8, <2>9, <2>10, <2>11, <2>12 DEF Worker
<1>a. ASSUME UNCHANGED <<pc, batch, results, pos, instructions, freeBufferIndex, pending, cq>>
      PROVE  Owners(b)' = Owners(b)
  <2>1. Around(b)' = Around(b)
    BY <1>a DEF Around, CountIn, PlacesIn, With, Completion
  <2> QED
    BY <1>a, <2>1, OwnersOutside
<1>2. ASSUME NEW k \in Kinds, NEW c \in Buffers, NEW ok \in BOOLEAN, Complete(k, c, ok)
      PROVE  Owners(b)' = Owners(b)
  BY <1>2, OwnersComplete
<1>3. ASSUME NEW ok \in BOOLEAN, AcceptCompletes(ok) PROVE Owners(b)' = Owners(b)
  BY <1>3, <1>a DEF AcceptCompletes, manager, thread
<1>4. CASE InfoKey
  BY <1>4, <1>a DEF InfoKey, manager, thread
<1>5. CASE EscapeKey
  BY <1>5, <1>a DEF EscapeKey, manager, thread
<1>6. CASE JoinAndShutdown
  BY <1>6, <1>a DEF JoinAndShutdown, windows, manager, thread
<1>7. CASE UNCHANGED vars
  BY <1>7, <1>a DEF vars, windows, manager, thread
<1> QED
  BY <1>1, <1>2, <1>3, <1>4, <1>5, <1>6, <1>7 DEF Next, Environment

\* The worker that dequeues stays alone, with what is at the head of the queue.
Alone ==
  /\ \A t, u \in Threads : pc[t] = "dequeuing" /\ pc[u] = "dequeuing" => t = u
  /\ \A t \in Threads : pc[t] = "dequeuing" => CopiedOut(t)

LEMMA AloneKept ==
  ASSUME Alone, \A u \in Threads : pc'[u] = "dequeuing" => pc[u] = "dequeuing" /\ batch'[u] = batch[u],
         cq' = cq
  PROVE  Alone'
BY DEF Alone, CopiedOut

LEMMA AloneNext ==
  ASSUME BaseInv, BaseInv', [Next]_vars, Alone, Unharmed'
  PROVE  Alone'
<1>p. /\ pc \in [Threads -> PCs] /\ cq \in Seq(Completion) /\ batch \in [Threads -> Seq(Completion)]
  BY DEF BaseInv, Types
<1>1. ASSUME NEW t \in Threads, Worker(t) PROVE Alone'
  <2>a. ASSUME NEW l, l # "dequeuing", pc' = [pc EXCEPT ![t] = l], cq' = cq
        PROVE  Alone'
    <3>1. ASSUME NEW u \in Threads, pc'[u] = "dequeuing"
          PROVE  pc[u] = "dequeuing" /\ batch'[u] = batch[u]
      <4>1. u # t
        BY <1>p, <2>a, <3>1
      <4> QED
        BY <1>1, <3>1, <4>1, WorkerOnly DEF OthersStay, OfWorker
    <3> QED
      BY <2>a, <3>1, AloneKept
  <2>b. ASSUME pc' = pc, cq' = cq, pc[t] # "dequeuing"
        PROVE  Alone'
    <3>1. ASSUME NEW u \in Threads, pc'[u] = "dequeuing"
          PROVE  pc[u] = "dequeuing" /\ batch'[u] = batch[u]
      BY <1>1, <2>b, <3>1, WorkerOnly DEF OthersStay, OfWorker
    <3> QED
      BY <2>b, <3>1, AloneKept
  <2>1. CASE RIONotify(t)
    BY <2>1, <2>a DEF RIONotify, Goto
  <2>2. CASE GetQueuedCompletionStatus(t)
    <3>1. PICK l \in {"dequeue", "accept", "exited", "notify", "quit"} : pc' = [pc EXCEPT ![t] = l]
      BY <2>2, GetGoes
    <3> QED
      BY <2>2, <2>a, <3>1 DEF GetQueuedCompletionStatus
  <2>3. CASE Quit(t)
    BY <2>3, <2>a DEF Quit, Goto
  <2>4. CASE Accept(t)
    BY <2>4, <2>a DEF Accept, Goto
  <2>5. CASE DequeueEnter(t)
    \* Had another one been dequeuing, the two would overlap.
    <3>1. /\ pc' = [pc EXCEPT ![t] = "dequeuing"] /\ batch' = [batch EXCEPT ![t] = Taken(BatchSize)]
          /\ cq' = cq
          /\ faults' = IF \E u \in Threads : pc[u] = "dequeuing"
                         THEN [faults EXCEPT !.overlap = @ + 1] ELSE faults
      BY <2>5 DEF DequeueEnter, Goto, windows
    <3>2. ASSUME NEW u \in Threads, pc[u] = "dequeuing" PROVE FALSE
      <4>1. faults' = [faults EXCEPT !.overlap = @ + 1]
        BY <3>1, <3>2
      <4>2. faults \in [{"overlap", "stale"} -> Nat]
        BY DEF BaseInv, Types
      <4>3. faults'.overlap = faults.overlap + 1 /\ faults.overlap \in Nat
        BY <4>1, <4>2
      <4>4. faults' = faults
        BY HarmStays
      <4> QED
        BY <4>3, <4>4
    <3>3. \A u \in Threads : pc'[u] = "dequeuing" => u = t
      BY <1>p, <3>1, <3>2
    <3>4. CopiedOut(t)'
      <4>1. batch'[t] = Taken(BatchSize)
        BY <1>p, <3>1
      <4> DEFINE n == BatchSize
      <4>2. n \in Nat /\ n <= Len(cq)
        <5>1. Len(cq) \in Nat /\ DequeueCount \in Nat
          BY <1>p, BoundsAssumption
        <5> QED
          BY <5>1 DEF BatchSize
      <4> HIDE DEF n
      <4>3. Len(SubSeq(cq, 1, n)) = n /\ \A i \in 1..n : SubSeq(cq, 1, n)[i] = cq[i]
        BY <1>p, <4>2
      <4>4. Len(batch'[t]) <= Len(cq') /\ \A i \in 1..Len(batch'[t]) : batch'[t][i] = cq'[i]
        BY <3>1, <4>1, <4>2, <4>3 DEF Taken, n
      <4> QED
        BY <4>4 DEF CopiedOut
    <3> QED
      BY <3>3, <3>4 DEF Alone
  <2>6. CASE DequeueLeave(t)
    \* It was the only one.
    <3>1. pc[t] = "dequeuing" /\ pc'[t] # "dequeuing"
      BY <1>p, <2>6 DEF DequeueLeave, Goto
    <3>2. ASSUME NEW u \in Threads, pc'[u] = "dequeuing" PROVE FALSE
      <4>1. u # t /\ pc[u] = "dequeuing"
        BY <1>1, <3>1, <3>2, WorkerOnly DEF OthersStay, OfWorker
      <4> QED
        BY <3>1, <4>1 DEF Alone
    <3> QED
      BY <3>2 DEF Alone
  <2>7. CASE Sort(t)
    <3>1. \E l \in {"process", "sorting"} : pc' = [pc EXCEPT ![t] = l]
      BY <2>7 DEF Sort, Goto
    <3> QED
      BY <2>7, <2>a, <3>1 DEF Sort, windows
  <2>8. CASE NextResult(t)
    BY <2>8, <2>b DEF NextResult, windows
  <2>9. CASE EndOfResults(t)
    BY <2>9, <2>a DEF EndOfResults, Goto, windows
  <2>10. CASE PostReceive(t)
    BY <2>10, <2>b DEF PostReceive, CurrentIs
  <2>11. CASE PostSend(t)
    BY <2>11, <2>b DEF PostSend, CurrentIs
  <2>12. CASE FreeBuffer(t)
    BY <2>12, <2>b DEF FreeBuffer, CurrentIs, windows
  <2> QED
    BY <1>1, <2>1, <2>2, <2>3, <2>4, <2>5, <2>6, <2>7, <2>8, <2>9, <2>10, <2>11, <2>12 DEF Worker
<1>2. ASSUME NEW k \in Kinds, NEW c \in Buffers, NEW ok \in BOOLEAN, Complete(k, c, ok)
      PROVE  Alone'
  \* The completion comes behind the entries copied out.
  <2> DEFINE e == [buf |-> c, kind |-> k, ok |-> ok]
  <2>1. cq' = Append(cq, e) /\ UNCHANGED <<pc, batch>>
    BY <1>2, CompleteTypes
  <2> HIDE DEF e
  <2>2. Len(cq) \in Nat /\ Len(cq') = Len(cq) + 1 /\ \A i \in 1..Len(cq) : cq'[i] = cq[i]
    BY <1>p, <2>1
  <2>3. ASSUME NEW u \in Threads, CopiedOut(u) PROVE CopiedOut(u)'
    <3>1. Len(batch[u]) \in Nat
      BY <1>p
    <3>2. Len(batch[u]) <= Len(cq) /\ \A i \in 1..Len(batch[u]) : batch[u][i] = cq[i]
      BY <2>3 DEF CopiedOut
    <3>3. Len(batch[u]) <= Len(cq') /\ \A i \in 1..Len(batch[u]) : batch[u][i] = cq'[i]
      <4> DEFINE n == Len(batch[u])
                 m == Len(cq)
      <4> HIDE DEF n, m
      <4>1. n \in Nat /\ m \in Nat /\ n <= m /\ Len(cq') = m + 1
        BY <2>2, <3>1, <3>2 DEF n, m
      <4>2. \A i \in 1..n : i \in 1..m
        BY <4>1
      <4> QED
        BY <2>2, <3>2, <4>1, <4>2 DEF n, m
    <3> QED
      BY <2>1, <3>3 DEF CopiedOut
  <2> QED
    BY <2>1, <2>3 DEF Alone
<1>3. ASSUME UNCHANGED <<pc, batch, cq>> PROVE Alone'
  BY <1>3, AloneKept
<1>4. ASSUME NEW ok \in BOOLEAN, AcceptCompletes(ok) PROVE Alone'
  BY <1>4, <1>3 DEF AcceptCompletes, thread
<1>5. CASE InfoKey
  BY <1>5, <1>3 DEF InfoKey, thread
<1>6. CASE EscapeKey
  BY <1>6, <1>3 DEF EscapeKey, thread
<1>7. CASE JoinAndShutdown
  BY <1>7, <1>3 DEF JoinAndShutdown, windows, thread
<1>8. CASE UNCHANGED vars
  BY <1>8, <1>3 DEF vars, windows, thread
<1> QED
  BY <1>1, <1>2, <1>4, <1>5, <1>6, <1>7, <1>8 DEF Next, Environment

LEMMA OwnNext == BaseInv /\ BaseInv' /\ OwnInv /\ [Next]_vars => OwnInv'
<1> SUFFICES ASSUME BaseInv, BaseInv', OwnInv, [Next]_vars, Unharmed' PROVE Own'
  BY DEF OwnInv
<1>1. Own
  BY HarmStays DEF OwnInv
<1>2. Alone'
  BY <1>1, AloneNext DEF Own, Alone
<1>3. \A b \in Buffers : Owners(b)' = 1
  BY <1>1, OwnersKept DEF Own
<1> QED
  BY <1>2, <1>3 DEF Own, Alone

LEMMA OwnInvariant == Spec => []OwnInv
<1>1. BaseInv /\ BaseInv' /\ OwnInv /\ [Next]_vars => OwnInv'
  BY OwnNext
<1> QED
  BY <1>1, OwnInit, BaseInvariant, PTL DEF Spec

\* A segment has exactly one owner through its round trip, for any number of workers,
\* segments and requests, as long as no dequeue overlapped another or re-ran old results.
THEOREM OwnersKeepBuffers == Spec => []Ownership
<1>1. OwnInv => Ownership
  BY DEF OwnInv, Own, Ownership
<1> QED
  BY <1>1, OwnInvariant, PTL

-----------------------------------------------------------------------------
(* What a buffer was last posted for, and the receives of the service.      *)

\* The completions of s say what their buffers are for.
KindRight(s) == \A i \in 1..Len(s) : operationType[s[i].buf] = s[i].kind

\* Operation types: those of the requests RIO works on and of the completions that
\* nobody has sorted yet are right, or a result would be taken for what it is not.
Known ==
  /\ \A k \in Kinds, b \in Buffers : pending[k][b] > 0 => operationType[b] = k
  /\ KindRight(cq)
  /\ \A t \in Threads : pc[t] = "sorting" => KindRight(batch[t])

KnownInv == Unharmed => Known

\* Whoever posts c has it from the pool or from an instruction; then it is nowhere else
\* where its operation type is looked at.
Nowhere(c) ==
  /\ \A k \in Kinds : pending[k][c] = 0
  /\ \A i \in 1..Len(cq) : cq[i].buf # c
  /\ \A u \in Threads : pc[u] = "sorting" => \A i \in 1..Len(batch[u]) : batch[u][i].buf # c
  /\ \A u \in Threads : \A i \in pos[u]..Len(results[u]) : results[u][i] # c

\* From the numbers to the places.
LEMMA NoneLeft ==
  ASSUME BaseInv, NEW c \in Buffers, pending["OP_RECEIVE"][c] = 0, pending["OP_SEND"][c] = 0,
         CountIn(cq, With(c)) = 0,
         \A u \in Threads : /\ pc[u] = "sorting" => CountIn(batch[u], With(c)) = 0
                            /\ CountFrom(results[u], pos[u], {c}) = 0
  PROVE  Nowhere(c)
<1>1. \A k \in Kinds : pending[k][c] = 0
  BY DEF Kinds
<1>2. ASSUME NEW s \in Seq(Completion), CountIn(s, With(c)) = 0, NEW i \in 1..Len(s)
      PROVE  s[i].buf # c
  <2>1. ASSUME s[i].buf = c PROVE FALSE
    <3>1. s[i] \in With(c)
      BY <1>2, <2>1 DEF With
    <3>2. CountIn(s, With(c)) >= 1
      BY <1>2, <3>1, CountOne
    <3> QED
      BY <1>2, <3>2
  <2> QED
    BY <2>1
<1>3. \A i \in 1..Len(cq) : cq[i].buf # c
  BY <1>2 DEF BaseInv, Types
<1>4. ASSUME NEW u \in Threads, pc[u] = "sorting", NEW i \in 1..Len(batch[u])
      PROVE  batch[u][i].buf # c
  <2>1. batch[u] \in Seq(Completion)
    BY DEF BaseInv, Types
  <2> QED
    BY <1>2, <1>4, <2>1
<1>5. ASSUME NEW u \in Threads, NEW i \in pos[u]..Len(results[u])
      PROVE  results[u][i] # c
  <2>1. results[u] \in Seq(Buffers) /\ pos[u] \in Nat /\ pos[u] >= 1
    BY DEF BaseInv, Types, PlaceOf
  <2>2. ASSUME results[u][i] = c PROVE FALSE
    <3> DEFINE r == results[u]
               p == pos[u]
    <3>1. r \in Seq(Buffers) /\ p \in Nat /\ p >= 1 /\ i \in p..Len(r) /\ r[i] \in {c}
      BY <2>1, <2>2
    <3> HIDE DEF r, p
    <3>2. CountFrom(r, p, {c}) >= 1
      BY <3>1, CountFromOne
    <3> QED
      BY <3>2 DEF r, p
  <2> QED
    BY <2>2
<1> QED
  BY <1>1, <1>3, <1>4, <1>5 DEF Nowhere

LEMMA HeldParts ==
  ASSUME BaseInv, NEW u \in Threads, NEW c \in Buffers
  PROVE  /\ CountIn(batch[u], With(c)) \in Nat /\ CountFrom(results[u], pos[u], {c}) \in Nat
         /\ CountIn(instructions[u], Carrying(c)) \in Nat /\ Held(u, c) \in Nat
         /\ pc[u] = "sorting" =>
              Held(u, c) = CountIn(batch[u], With(c)) + CountFrom(results[u], pos[u], {c})
                             + CountIn(instructions[u], Carrying(c))
         /\ pc[u] # "sorting" =>
              Held(u, c) = CountFrom(results[u], pos[u], {c}) + CountIn(instructions[u], Carrying(c))
<1> DEFINE x == CountIn(batch[u], With(c))
           y == CountFrom(results[u], pos[u], {c})
           z == CountIn(instructions[u], Carrying(c))
<1>1. x \in Nat /\ y \in Nat /\ z \in Nat
  <2>1. /\ batch[u] \in Seq(Completion) /\ results[u] \in Seq(Buffers)
        /\ pos[u] \in Nat /\ pos[u] >= 1 /\ instructions[u] \in Seq(Instructions)
    BY DEF BaseInv, Types, PlaceOf
  <2> QED
    BY <2>1, HeldAtType
<1>2. Held(u, c) = (IF pc[u] = "sorting" THEN x ELSE 0) + y + z
  BY HeldIs DEF HeldAt
<1>3. Held(u, c) \in Nat
  BY OwnerTermsNow DEF OwnerTerms
<1> HIDE DEF x, y, z
<1>4. CASE pc[u] = "sorting"
  <2>1. Held(u, c) = x + y + z
    BY <1>2, <1>4
  <2> QED
    BY <1>1, <1>3, <1>4, <2>1 DEF x, y, z
<1>5. CASE pc[u] # "sorting"
  <2>1. Held(u, c) = y + z
    BY <1>1, <1>2, <1>5
  <2> QED
    BY <1>1, <1>3, <1>5, <2>1 DEF x, y, z
<1> QED
  BY <1>4, <1>5

LEMMA HeldAtMost ==
  ASSUME BaseInv, NEW c \in Buffers, NEW u \in Threads
  PROVE  /\ Held(u, c) <= HeldSum(c)
         /\ \A t \in Threads \ {u} : Held(t, c) + Held(u, c) <= HeldSum(c)
<1> DEFINE h == [t \in Threads |-> Held(t, c)]
<1>1. \A t \in Threads : Held(t, c) \in Nat
  BY OwnerTermsNow DEF OwnerTerms
<1>2. h \in [Threads -> Int] /\ \A t \in Threads : h[t] >= 0
  BY <1>1
<1>3. HeldSum(c) = SumFunction(h) /\ \A t \in Threads : h[t] = Held(t, c)
  BY DEF HeldSum
<1> HIDE DEF h
<1>4. SumFunction(h) >= h[u] /\ SumFunction(h) \in Int
  BY <1>2, ThreadsAssumption, SumAtLeast, SumInt
<1>5. ASSUME NEW t \in Threads \ {u} PROVE SumFunction(h) >= h[t] + h[u]
  BY <1>2, <1>5, ThreadsAssumption, SumAtLeastTwo
<1>6. Held(u, c) <= HeldSum(c)
  BY <1>1, <1>3, <1>4
<1>7. ASSUME NEW t \in Threads \ {u} PROVE Held(t, c) + Held(u, c) <= HeldSum(c)
  <2>1. HeldSum(c) >= Held(t, c) + Held(u, c) /\ HeldSum(c) \in Int
        /\ Held(t, c) \in Nat /\ Held(u, c) \in Nat
    BY <1>1, <1>3, <1>4, <1>5
  <2> QED
    BY <2>1
<1> QED
  BY <1>6, <1>7

\* A worker that does not answer for c has it in no batch and among no results.
LEMMA HeldNone ==
  ASSUME BaseInv, NEW u \in Threads, NEW c \in Buffers, Held(u, c) = 0
  PROVE  /\ pc[u] = "sorting" => CountIn(batch[u], With(c)) = 0
         /\ CountFrom(results[u], pos[u], {c}) = 0
<1> DEFINE x == CountIn(batch[u], With(c))
           y == CountFrom(results[u], pos[u], {c})
           z == CountIn(instructions[u], Carrying(c))
           h == Held(u, c)
           sorts == pc[u] = "sorting"
<1>1. /\ x \in Nat /\ y \in Nat /\ z \in Nat /\ h = 0
      /\ sorts => h = x + y + z
      /\ ~sorts => h = y + z
  BY HeldParts
<1> HIDE DEF x, y, z, h, sorts
<1>2. (sorts => x = 0) /\ y = 0
  BY <1>1
<1> QED
  BY <1>2 DEF x, y, sorts

LEMMA FreeNowhere ==
  ASSUME BaseInv, \A b \in Buffers : Owners(b) = 1, freeBufferIndex # <<>>,
         NEW c \in Buffers, Head(freeBufferIndex) = c
  PROVE  Nowhere(c)
<1> DEFINE f == CountIn(freeBufferIndex, {c})
           g == CountIn(Tail(freeBufferIndex), {c})
           x == pending["OP_RECEIVE"][c]
           y == pending["OP_SEND"][c]
           z == CountIn(cq, With(c))
           w == HeldSum(c)
<1>1. f = g + 1 /\ g \in Nat
  BY PoolCounts
<1>2. x \in Nat /\ y \in Nat /\ z \in Nat /\ w \in Nat
  BY OwnerTermsNow DEF OwnerTerms
<1>3. f + x + y + z + w = 1
  BY OwnerTermsNow DEF OwnerTerms, Around
<1>4. x = 0 /\ y = 0 /\ z = 0 /\ w = 0
  <2> HIDE DEF f, g, x, y, z, w
  <2> QED
    BY <1>1, <1>2, <1>3
<1>5. ASSUME NEW u \in Threads
      PROVE  /\ pc[u] = "sorting" => CountIn(batch[u], With(c)) = 0
             /\ CountFrom(results[u], pos[u], {c}) = 0
  <2> DEFINE h == Held(u, c)
  <2>1. h <= w /\ h \in Nat
    BY HeldAtMost, HeldParts
  <2>2. h = 0
    <3> HIDE DEF h, f, x, y, z, w
    <3> QED
      BY <1>4, <2>1
  <2> QED
    BY <2>2, HeldNone
<1> QED
  BY <1>4, <1>5, NoneLeft

LEMMA CarriedNowhere ==
  ASSUME BaseInv, \A b \in Buffers : Owners(b) = 1, NEW t \in Threads, pc[t] = "process",
         instructions[t] # <<>>, NEW c \in Buffers, Head(instructions[t]) \in Carrying(c)
  PROVE  Nowhere(c)
<1> DEFINE f == CountIn(freeBufferIndex, {c})
           x == pending["OP_RECEIVE"][c]
           y == pending["OP_SEND"][c]
           z == CountIn(cq, With(c))
           w == HeldSum(c)
           h == Held(t, c)
           r == CountFrom(results[t], pos[t], {c})
           i == CountIn(instructions[t], Carrying(c))
<1>1. i >= 1
  <2> DEFINE s == instructions[t]
  <2>1. s \in Seq(Instructions) /\ s # <<>> /\ Head(s) \in Carrying(c)
    BY DEF BaseInv, Types
  <2> HIDE DEF s
  <2>2. 1 \in 1..Len(s) /\ s[1] \in Carrying(c)
    BY <2>1
  <2>3. CountIn(s, Carrying(c)) >= 1
    BY <2>1, <2>2, CountOne
  <2> QED
    BY <2>3 DEF s
<1>2. f \in Nat /\ x \in Nat /\ y \in Nat /\ z \in Nat /\ w \in Nat
  BY OwnerTermsNow DEF OwnerTerms
<1>3. f + x + y + z + w = 1
  BY OwnerTermsNow DEF OwnerTerms, Around
<1>4. h = r + i /\ h <= w /\ r \in Nat /\ i \in Nat
  BY HeldParts, HeldAtMost
<1>5. x = 0 /\ y = 0 /\ z = 0 /\ w = 1 /\ h = 1 /\ r = 0
  <2> HIDE DEF f, x, y, z, w, h, r, i
  <2> QED
    BY <1>1, <1>2, <1>3, <1>4
<1>6. ASSUME NEW u \in Threads
      PROVE  /\ pc[u] = "sorting" => CountIn(batch[u], With(c)) = 0
             /\ CountFrom(results[u], pos[u], {c}) = 0
  <2>1. CASE u = t
    BY <1>5, <2>1
  <2>2. CASE u # t
    <3> DEFINE k == Held(u, c)
    <3>1. k + h <= w /\ k \in Nat
      BY <2>2, HeldAtMost, HeldParts
    <3>2. k = 0
      <4> HIDE DEF f, x, y, z, w, h, r, i, k
      <4> QED
        BY <1>5, <3>1
    <3> QED
      BY <3>2, HeldNone
  <2> QED
    BY <2>1, <2>2
<1> QED
  BY <1>5, <1>6, NoneLeft

LEMMA KnownKept ==
  ASSUME Known, UNCHANGED <<operationType, pending, cq>>,
         \A u \in Threads : pc'[u] = "sorting" => pc[u] = "sorting" /\ batch'[u] = batch[u]
  PROVE  Known'
BY DEF Known, KindRight

LEMMA KnownSet ==
  ASSUME BaseInv, Known, NEW k \in Kinds, NEW c \in Buffers, Nowhere(c),
         operationType' = [operationType EXCEPT ![c] = k],
         \A l \in Kinds, b \in Buffers : pending'[l][b] = pending[l][b] \/ (l = k /\ b = c),
         UNCHANGED <<cq, pc, batch>>
  PROVE  Known'
<1>1. operationType \in [Buffers -> Kinds]
  BY DEF BaseInv, Types
<1>2. operationType'[c] = k /\ \A b \in Buffers \ {c} : operationType'[b] = operationType[b]
  BY <1>1
<1>3. ASSUME NEW l \in Kinds, NEW b \in Buffers, pending'[l][b] > 0 PROVE operationType'[b] = l
  <2>1. CASE b = c /\ l = k
    BY <1>2, <2>1
  <2>2. CASE b = c /\ l # k
    <3>1. pending'[l][c] = pending[l][c] /\ pending[l][c] = 0
      BY <2>2 DEF Nowhere
    <3> QED
      BY <1>3, <2>2, <3>1
  <2>3. CASE b # c
    BY <1>2, <1>3, <2>3 DEF Known
  <2> QED
    BY <2>1, <2>2, <2>3
<1>4. ASSUME NEW s \in Seq(Completion), KindRight(s), \A i \in 1..Len(s) : s[i].buf # c,
             NEW i \in 1..Len(s)
      PROVE  operationType'[s[i].buf] = s[i].kind
  <2>1. s[i] \in Completion
    BY <1>4
  <2>2. s[i].buf \in Buffers \ {c}
    BY <1>4, <2>1 DEF Completion
  <2> QED
    BY <1>2, <1>4, <2>2 DEF KindRight
<1>5. KindRight(cq)'
  <2>1. cq \in Seq(Completion) /\ KindRight(cq) /\ \A i \in 1..Len(cq) : cq[i].buf # c
    BY DEF BaseInv, Types, Known, Nowhere
  <2>2. \A i \in 1..Len(cq) : operationType'[cq[i].buf] = cq[i].kind
    BY <1>4, <2>1
  <2> QED
    BY <2>2 DEF KindRight
<1>6. ASSUME NEW u \in Threads, pc'[u] = "sorting" PROVE KindRight(batch[u])'
  <2>1. batch[u] \in Seq(Completion) /\ batch'[u] = batch[u] /\ pc[u] = "sorting"
    BY <1>6 DEF BaseInv, Types
  <2>2. KindRight(batch[u]) /\ \A i \in 1..Len(batch[u]) : batch[u][i].buf # c
    BY <2>1 DEF Known, Nowhere
  <2> QED
    BY <1>4, <2>1, <2>2 DEF KindRight
<1> QED
  BY <1>3, <1>5, <1>6 DEF Known

LEMMA KnownDequeueLeave ==
  ASSUME BaseInv, Own, Known, NEW t \in Threads, DequeueLeave(t), Unharmed'
  PROVE  Known'
<1> DEFINE s == batch[t]
           n == Len(s)
<1>1. /\ UNCHANGED <<pending, operationType>> /\ batch'[t] = s /\ OthersStay(t)
      /\ cq' = SubSeq(cq, n + 1, Len(cq)) /\ pc[t] = "dequeuing"
  BY LeaveIs, WorkerOnly
<1>2. n \in Nat /\ n <= Len(cq) /\ \A i \in 1..n : s[i] = cq[i]
  <2>1. CopiedOut(t)
    BY <1>1 DEF Own
  <2>2. s \in Seq(Completion)
    BY DEF BaseInv, Types
  <2> QED
    BY <2>1, <2>2 DEF CopiedOut
<1>3. cq \in Seq(Completion)
  BY DEF BaseInv, Types
<1> HIDE DEF n
<1>4. KindRight(cq)'
  <2>1. ASSUME NEW i \in 1..Len(SubSeq(cq, n + 1, Len(cq)))
        PROVE  /\ SubSeq(cq, n + 1, Len(cq))[i] = cq[n + i]
               /\ n + i \in 1..Len(cq)
    BY <1>2, <1>3, <2>1
  <2> QED
    BY <1>1, <2>1 DEF Known, KindRight
<1>5. KindRight(s)
  <2>1. \A i \in 1..n : i \in 1..Len(cq)
    BY <1>2, <1>3
  <2> QED
    BY <1>2, <2>1 DEF Known, KindRight, n
<1>6. ASSUME NEW u \in Threads, pc'[u] = "sorting" PROVE KindRight(batch[u])'
  <2>1. CASE u = t
    BY <1>1, <1>5, <2>1 DEF KindRight
  <2>2. CASE u # t
    BY <1>1, <1>6, <2>2 DEF OthersStay, OfWorker, Known, KindRight
  <2> QED
    BY <2>1, <2>2
<1> QED
  BY <1>1, <1>4, <1>6 DEF Known

LEMMA KnownSort ==
  ASSUME BaseInv, Known, NEW t \in Threads, Sort(t)
  PROVE  Known'
<1> DEFINE s == batch[t]
<1>1. /\ s \in Seq(Completion) /\ s # <<>> /\ batch'[t] = Tail(s) /\ pc[t] = "sorting"
      /\ OthersStay(t) /\ UNCHANGED <<pending, operationType, cq>>
  BY SortIs, SortTo, WorkerOnly
<1>2. KindRight(s)
  BY <1>1 DEF Known
<1> HIDE DEF s
<1>3. ASSUME NEW i \in 1..Len(Tail(s)) PROVE Tail(s)[i] = s[i + 1] /\ i + 1 \in 1..Len(s)
  BY <1>1, <1>3
<1>4. KindRight(batch[t])'
  BY <1>1, <1>2, <1>3 DEF KindRight
<1>5. ASSUME NEW u \in Threads, pc'[u] = "sorting" PROVE KindRight(batch[u])'
  <2>1. CASE u = t
    BY <1>4, <2>1
  <2>2. CASE u # t
    BY <1>1, <1>5, <2>2 DEF OthersStay, OfWorker, Known, KindRight
  <2> QED
    BY <2>1, <2>2
<1>6. KindRight(cq)'
  BY <1>1 DEF Known, KindRight
<1>7. \A k \in Kinds, b \in Buffers : pending'[k][b] > 0 => operationType'[b] = k
  BY <1>1 DEF Known
<1> QED
  BY <1>5, <1>6, <1>7 DEF Known

LEMMA KnownComplete ==
  ASSUME BaseInv, Known, NEW k \in Kinds, NEW c \in Buffers, NEW ok \in BOOLEAN, Complete(k, c, ok)
  PROVE  Known'
<1> DEFINE e == [buf |-> c, kind |-> k, ok |-> ok]
<1>1. /\ e \in Completion /\ cq' = Append(cq, e) /\ pending' = [pending EXCEPT ![k][c] = @ - 1]
      /\ pending[k][c] >= 1 /\ UNCHANGED <<operationType, pc, batch>>
  BY CompleteTypes
<1>2. cq \in Seq(Completion) /\ pending \in [Kinds -> [Buffers -> Nat]]
  BY DEF BaseInv, Types
<1>3. operationType[c] = k
  <2>1. pending[k][c] > 0
    BY <1>1, <1>2
  <2> QED
    BY <2>1 DEF Known
<1>4. e.buf = c /\ e.kind = k
  OBVIOUS
<1> HIDE DEF e
<1>5. KindRight(cq)'
  <2>1. Len(cq') = Len(cq) + 1 /\ Len(cq) \in Nat
    BY <1>1, <1>2
  <2>2. ASSUME NEW i \in 1..Len(cq') PROVE operationType[cq'[i].buf] = cq'[i].kind
    <3>1. CASE i = Len(cq) + 1
      <4>1. cq'[i] = e
        BY <1>1, <1>2, <2>1, <3>1
      <4> QED
        BY <1>3, <1>4, <4>1
    <3>2. CASE i # Len(cq) + 1
      <4>1. i \in 1..Len(cq)
        BY <2>1, <2>2, <3>2
      <4>2. cq'[i] = cq[i]
        BY <1>1, <1>2, <4>1
      <4> QED
        BY <4>1, <4>2 DEF Known, KindRight
    <3> QED
      BY <3>1, <3>2
  <2> QED
    BY <1>1, <2>2 DEF KindRight
<1>6. ASSUME NEW l \in Kinds, NEW b \in Buffers, pending'[l][b] > 0 PROVE operationType'[b] = l
  <2>1. CASE l = k /\ b = c
    BY <1>1, <1>3, <2>1
  <2>2. CASE ~(l = k /\ b = c)
    <3>1. pending'[l][b] = pending[l][b]
      BY <1>1, <1>2, <2>2
    <3> QED
      BY <1>1, <1>6, <3>1 DEF Known
  <2> QED
    BY <2>1, <2>2
<1>7. \A u \in Threads : pc'[u] = "sorting" => KindRight(batch[u])'
  BY <1>1 DEF Known, KindRight
<1> QED
  BY <1>5, <1>6, <1>7 DEF Known

LEMMA KnownPostReceive ==
  ASSUME BaseInv, Own, Known, NEW t \in Threads, PostReceive(t)
  PROVE  Known'
<1> DEFINE c == Head(freeBufferIndex)
<1>1. UNCHANGED <<cq, pc, batch>>
  BY DEF PostReceive
<1>2. CASE freeBufferIndex = <<>>
  <2>1. UNCHANGED <<operationType, pending>>
    BY <1>2 DEF PostReceive, manager
  <2> QED
    BY <1>1, <2>1, KnownKept
<1>3. CASE freeBufferIndex # <<>>
  <2>1. c \in Buffers
    BY <1>3, FreeHead
  <2>2. Nowhere(c)
    BY <1>3, <2>1, FreeNowhere DEF Own
  <2>3. "OP_RECEIVE" \in Kinds
    BY DEF Kinds
  <2>4. CASE Post("OP_RECEIVE", c)
    <3>1. \A l \in Kinds, b \in Buffers :
            pending'[l][b] = pending[l][b] \/ (l = "OP_RECEIVE" /\ b = c)
      BY <2>1, <2>3, <2>4, PostCounts
    <3>2. operationType' = [operationType EXCEPT ![c] = "OP_RECEIVE"]
      BY <2>4 DEF Post
    <3> HIDE DEF c
    <3> QED
      BY <1>1, <2>1, <2>2, <2>3, <3>1, <3>2, KnownSet
  <2>5. CASE operationType' = [operationType EXCEPT ![c] = "OP_RECEIVE"] /\ pending' = pending
    <3> HIDE DEF c
    <3>1. \A l \in Kinds, b \in Buffers :
            pending'[l][b] = pending[l][b] \/ (l = "OP_RECEIVE" /\ b = c)
      BY <2>5
    <3> QED
      BY <1>1, <2>1, <2>2, <2>3, <2>5, <3>1, KnownSet
  <2> QED
    BY <1>3, <2>4, <2>5 DEF PostReceive
<1> QED
  BY <1>2, <1>3

LEMMA KnownPostSend ==
  ASSUME BaseInv, Own, Known, NEW t \in Threads, PostSend(t)
  PROVE  Known'
<1>1. UNCHANGED <<cq, pc, batch, results, pos>> /\ CurrentIs(t, "SEND") /\ Done(t)
  BY DEF PostSend
<1>2. PICK c \in Buffers : Head(instructions[t]) = Send(c)
  BY <1>1, InstructionIs
<1>3. Head(instructions[t]).buf = c
  BY <1>2 DEF Send
<1>4. Nowhere(c)
  <2>1. pc[t] = "process" /\ instructions[t] # <<>>
    BY <1>1 DEF CurrentIs
  <2>2. Head(instructions[t]) \in Carrying(c)
    BY <1>2 DEF Carrying
  <2> QED
    BY <2>1, <2>2, CarriedNowhere DEF Own
<1>5. "OP_SEND" \in Kinds
  BY DEF Kinds
<1>6. CASE UNCHANGED <<operationType, pending>>
  BY <1>1, <1>6, KnownKept
<1>7. CASE Post("OP_SEND", c)
  <2>1. \A l \in Kinds, b \in Buffers :
          pending'[l][b] = pending[l][b] \/ (l = "OP_SEND" /\ b = c)
    BY <1>5, <1>7, PostCounts
  <2>2. operationType' = [operationType EXCEPT ![c] = "OP_SEND"]
    BY <1>7 DEF Post
  <2> QED
    BY <1>1, <1>4, <1>5, <2>1, <2>2, KnownSet
<1>8. CASE operationType' = [operationType EXCEPT ![c] = "OP_SEND"] /\ pending' = pending
  <2>1. \A l \in Kinds, b \in Buffers :
          pending'[l][b] = pending[l][b] \/ (l = "OP_SEND" /\ b = c)
    BY <1>8
  <2> QED
    BY <1>1, <1>4, <1>5, <1>8, <2>1, KnownSet
<1> QED
  BY <1>3, <1>6, <1>7, <1>8 DEF PostSend

LEMMA KnownNext ==
  ASSUME BaseInv, [Next]_vars, Own, Known, Unharmed'
  PROVE  Known'
<1>p. pc \in [Threads -> PCs]
  BY DEF BaseInv, Types
<1>1. ASSUME NEW t \in Threads, Worker(t) PROVE Known'
  <2>a. ASSUME NEW l, l # "sorting", pc' = [pc EXCEPT ![t] = l],
               UNCHANGED <<operationType, pending, cq>>
        PROVE  Known'
    <3>1. ASSUME NEW u \in Threads, pc'[u] = "sorting"
          PROVE  pc[u] = "sorting" /\ batch'[u] = batch[u]
      <4>1. u # t
        BY <1>p, <2>a, <3>1
      <4> QED
        BY <1>1, <3>1, <4>1, WorkerOnly DEF OthersStay, OfWorker
    <3> QED
      BY <2>a, <3>1, KnownKept
  <2>1. CASE RIONotify(t)
    BY <2>1, <2>a DEF RIONotify, Goto, manager
  <2>2. CASE GetQueuedCompletionStatus(t)
    <3>1. PICK l \in {"dequeue", "accept", "exited", "notify", "quit"} : pc' = [pc EXCEPT ![t] = l]
      BY <2>2, GetGoes
    <3> QED
      BY <2>2, <2>a, <3>1 DEF GetQueuedCompletionStatus, manager
  <2>3. CASE Quit(t)
    BY <2>3, <2>a DEF Quit, Goto, manager
  <2>4. CASE Accept(t)
    BY <2>4, <2>a DEF Accept, Goto, manager
  <2>5. CASE DequeueEnter(t)
    BY <2>5, <2>a DEF DequeueEnter, Goto, windows, manager
  <2>6. CASE DequeueLeave(t)
    BY <2>6, KnownDequeueLeave
  <2>7. CASE Sort(t)
    BY <2>7, KnownSort
  <2>8. CASE NextResult(t)
    BY <2>8, KnownKept DEF NextResult, windows, manager
  <2>9. CASE EndOfResults(t)
    BY <2>9, <2>a DEF EndOfResults, Goto, windows, manager
  <2>10. CASE PostReceive(t)
    BY <2>10, KnownPostReceive
  <2>11. CASE PostSend(t)
    BY <2>11, KnownPostSend
  <2>12. CASE FreeBuffer(t)
    BY <2>12, KnownKept DEF FreeBuffer, windows
  <2> QED
    BY <1>1, <2>1, <2>2, <2>3, <2>4, <2>5, <2>6, <2>7, <2>8, <2>9, <2>10, <2>11, <2>12 DEF Worker
<1>2. ASSUME NEW k \in Kinds, NEW c \in Buffers, NEW ok \in BOOLEAN, Complete(k, c, ok)
      PROVE  Known'
  BY <1>2, KnownComplete
<1>a. ASSUME UNCHANGED <<pc, batch, operationType, pending, cq>> PROVE Known'
  BY <1>a, KnownKept
<1>3. ASSUME NEW ok \in BOOLEAN, AcceptCompletes(ok) PROVE Known'
  BY <1>3, <1>a DEF AcceptCompletes, manager, thread
<1>4. CASE InfoKey
  BY <1>4, <1>a DEF InfoKey, manager, thread
<1>5. CASE EscapeKey
  BY <1>5, <1>a DEF EscapeKey, manager, thread
<1>6. CASE JoinAndShutdown
  BY <1>6, <1>a DEF JoinAndShutdown, windows, manager, thread
<1>7. CASE UNCHANGED vars
  BY <1>7, <1>a DEF vars, windows, manager, thread
<1> QED
  BY <1>1, <1>2, <1>3, <1>4, <1>5, <1>6, <1>7 DEF Next, Environment

LEMMA KnownInit == Init => Known
<1> SUFFICES ASSUME Init PROVE Known
  OBVIOUS
<1>1. /\ cq = <<>> /\ operationType = [b \in Buffers |-> "OP_RECEIVE"]
      /\ pc = [t \in Threads |-> "notify"]
  BY DEF Init
<1>2. ASSUME NEW k \in Kinds, NEW b \in Buffers, pending[k][b] > 0 PROVE k = "OP_RECEIVE"
  <2>1. k # "OP_RECEIVE" => pending[k][b] = 0
    BY DEF Init
  <2> QED
    BY <1>2, <2>1
<1>3. Len(cq) = 0
  BY <1>1
<1> QED
  BY <1>1, <1>2, <1>3 DEF Known, KindRight

LEMMA KnownInvariant == Spec => []KnownInv
<1>1. Init => KnownInv
  BY KnownInit DEF KnownInv
<1>2. BaseInv /\ OwnInv /\ KnownInv /\ [Next]_vars => KnownInv'
  BY KnownNext, HarmStays DEF KnownInv, OwnInv
<1> QED
  BY <1>1, <1>2, OwnInvariant, BaseInvariant, PTL DEF Spec

Received  == OfTheKind("OP_RECEIVE")
Receiving == {b \in Buffers : operationType[b] = "OP_RECEIVE"}

\* The receives that are not in a worker's hand.
Dropped == lost.noBuffer + lost.refused
Stock == outstanding["OP_RECEIVE"] + Dropped + lost.error

RepostSum == SumFunction([t \in Threads |-> ToRepost(t)])

Credit == Stock + RepostSum = MaxReceives

CreditInv == Unharmed => Credit

\* The terms of ToRepost are numbers.
RepostTerms ==
  /\ \A t \in Threads :
       /\ CountIn(batch[t], Received) \in Nat /\ CountFrom(results[t], pos[t], Receiving) \in Nat
       /\ CountIn(instructions[t], {Receive}) \in Nat /\ ToRepost(t) \in Nat
       /\ pc[t] = "sorting" =>
            ToRepost(t) = CountIn(batch[t], Received) + CountFrom(results[t], pos[t], Receiving)
                            + CountIn(instructions[t], {Receive})
       /\ pc[t] # "sorting" =>
            ToRepost(t) = CountFrom(results[t], pos[t], Receiving) + CountIn(instructions[t], {Receive})
  /\ Stock \in Int

LEMMA DropType == BaseInv => Dropped \in Nat
<1> SUFFICES ASSUME BaseInv PROVE Dropped \in Nat
  OBVIOUS
<1>1. lost \in [{"noBuffer", "refused", "error"} -> Nat]
  BY DEF BaseInv, Types
<1>2. lost.noBuffer \in Nat /\ lost.refused \in Nat
  BY <1>1
<1> QED
  BY <1>2 DEF Dropped

LEMMA RepostTermsNow == BaseInv => RepostTerms
<1> SUFFICES ASSUME BaseInv PROVE RepostTerms
  OBVIOUS
<1>1. ASSUME NEW t \in Threads
      PROVE  /\ CountIn(batch[t], Received) \in Nat /\ CountFrom(results[t], pos[t], Receiving) \in Nat
             /\ CountIn(instructions[t], {Receive}) \in Nat /\ ToRepost(t) \in Nat
             /\ pc[t] = "sorting" =>
                  ToRepost(t) = CountIn(batch[t], Received) + CountFrom(results[t], pos[t], Receiving)
                                  + CountIn(instructions[t], {Receive})
             /\ pc[t] # "sorting" =>
                  ToRepost(t) = CountFrom(results[t], pos[t], Receiving)
                                  + CountIn(instructions[t], {Receive})
  <2> DEFINE x == CountIn(batch[t], Received)
             y == CountFrom(results[t], pos[t], Receiving)
             z == CountIn(instructions[t], {Receive})
  <2>1. /\ batch[t] \in Seq(Completion) /\ results[t] \in Seq(Buffers)
        /\ pos[t] \in Nat /\ pos[t] >= 1 /\ instructions[t] \in Seq(Instructions)
    BY DEF BaseInv, Types, PlaceOf
  <2>2. x \in Nat
    BY <2>1, CountType
  <2>3. y \in Nat
    BY <2>1, CountFromType
  <2>4. z \in Nat
    BY <2>1, CountType
  <2>5. x = OfKind(batch[t], "OP_RECEIVE")
    BY <2>1, OfKindIs DEF Received
  <2>6. {i \in pos[t]..Len(results[t]) : operationType[results[t][i]] = "OP_RECEIVE"}
          = PlacesFrom(results[t], pos[t], Receiving)
    <3>1. \A i \in pos[t]..Len(results[t]) : results[t][i] \in Buffers
      BY <2>1
    <3> QED
      BY <3>1 DEF PlacesFrom, Receiving
  <2>7. {i \in 1..Len(instructions[t]) : instructions[t][i] = Receive}
          = PlacesIn(instructions[t], {Receive})
    BY DEF PlacesIn
  <2>8. ToRepost(t) = (IF pc[t] = "sorting" THEN x ELSE 0) + y + z
    BY <2>5, <2>6, <2>7 DEF ToRepost, CountIn, CountFrom
  <2> HIDE DEF x, y, z
  <2>9. CASE pc[t] = "sorting"
    <3>1. ToRepost(t) = x + y + z
      BY <2>8, <2>9
    <3> QED
      BY <2>2, <2>3, <2>4, <2>9, <3>1 DEF x, y, z
  <2>10. CASE pc[t] # "sorting"
    <3>1. ToRepost(t) = y + z
      BY <2>3, <2>8, <2>10
    <3> QED
      BY <2>2, <2>3, <2>4, <2>10, <3>1 DEF x, y, z
  <2> QED
    BY <2>9, <2>10
<1>2. Stock \in Int
  <2>1. outstanding["OP_RECEIVE"] \in Int
    BY DEF BaseInv, Types, Kinds
  <2>2. Dropped \in Nat /\ lost.error \in Nat
    BY DropType DEF BaseInv, Types
  <2> QED
    BY <2>1, <2>2 DEF Stock
<1> QED
  BY <1>1, <1>2 DEF RepostTerms

LEMMA RepostTermsNext == BaseInv' => RepostTerms'
BY RepostTermsNow, PTL

LEMMA CreditMoved ==
  ASSUME BaseInv, BaseInv', Credit, NEW t \in Threads,
         \A u \in Threads \ {t} : ToRepost(u)' = ToRepost(u),
         Stock' + ToRepost(t)' = Stock + ToRepost(t)
  PROVE  Credit'
<1>1. RepostTerms /\ RepostTerms'
  BY RepostTermsNow, RepostTermsNext
<1> DEFINE f == [u \in Threads |-> ToRepost(u)]
           g == [u \in Threads |-> ToRepost(u)']
           a == Stock
           c == Stock'
<1>2. f \in [Threads -> Int] /\ g \in [Threads -> Int] /\ a \in Int /\ c \in Int
  <2>1. Stock \in Int /\ \A u \in Threads : ToRepost(u) \in Nat
    BY <1>1 DEF RepostTerms
  <2>2. Stock' \in Int /\ \A u \in Threads : ToRepost(u)' \in Nat
    BY <1>1 DEF RepostTerms
  <2> QED
    BY <2>1, <2>2
<1>3. \A u \in Threads \ {t} : g[u] = f[u]
  OBVIOUS
<1>4. c + g[t] = a + f[t]
  OBVIOUS
<1>5. RepostSum = SumFunction(f) /\ RepostSum' = SumFunction(g)
  BY DEF RepostSum
<1>6. a + SumFunction(f) = MaxReceives
  BY <1>5 DEF Credit
<1> HIDE DEF f, g, a, c
<1>7. c + SumFunction(g) = a + SumFunction(f)
  BY <1>2, <1>3, <1>4, IntoHand
<1>8. c + SumFunction(g) = MaxReceives
  BY <1>6, <1>7
<1> QED
  BY <1>5, <1>8 DEF Credit, c

\* A worker that does not step keeps its share, whatever is posted for c meanwhile.
LEMMA RepostSame ==
  ASSUME NEW u \in Threads, OfWorker(u)' = OfWorker(u),
         \A i \in pos[u]..Len(results[u]) :
           operationType'[results[u][i]] = operationType[results[u][i]]
  PROVE  ToRepost(u)' = ToRepost(u)
BY DEF ToRepost, OfWorker, OfKind

LEMMA RepostApart ==
  ASSUME BaseInv, NEW c \in Buffers, Nowhere(c), NEW k,
         operationType' = operationType \/ operationType' = [operationType EXCEPT ![c] = k],
         NEW u \in Threads, NEW i \in pos[u]..Len(results[u])
  PROVE  operationType'[results[u][i]] = operationType[results[u][i]]
<1>1. operationType \in [Buffers -> Kinds] /\ results[u] \in Seq(Buffers) /\ pos[u] >= 1 /\ pos[u] \in Nat
  BY DEF BaseInv, Types, PlaceOf
<1>2. results[u][i] \in Buffers /\ results[u][i] # c
  BY <1>1 DEF Nowhere
<1> QED
  BY <1>1, <1>2

\* Steps of worker t that post nothing.
LEMMA CreditStep ==
  ASSUME BaseInv, BaseInv', Credit, NEW t \in Threads, OthersStay(t), operationType' = operationType,
         Stock' + ToRepost(t)' = Stock + ToRepost(t)
  PROVE  Credit'
<1>1. \A u \in Threads \ {t} : ToRepost(u)' = ToRepost(u)
  BY RepostSame DEF OthersStay
<1> QED
  BY <1>1, CreditMoved

LEMMA CreditIdle ==
  ASSUME BaseInv, BaseInv', Credit, NEW t \in Threads, OthersStay(t),
         pc[t] # "sorting", pc'[t] # "sorting",
         results'[t] = results[t], pos'[t] = pos[t], instructions'[t] = instructions[t],
         UNCHANGED <<operationType, outstanding, lost>>
  PROVE  Credit'
<1>1. ToRepost(t)' = ToRepost(t)
  BY DEF ToRepost
<1>2. Stock' = Stock
  BY DEF Stock, Dropped
<1> QED
  BY <1>1, <1>2, CreditStep

LEMMA CreditOutside ==
  ASSUME BaseInv, BaseInv', Credit, UNCHANGED <<pc, batch, results, pos, instructions>>,
         UNCHANGED <<operationType, outstanding, lost>>
  PROVE  Credit'
<1>1. PICK t \in Threads : TRUE
  BY ThreadsAssumption
<1>2. OthersStay(t)
  BY DEF OthersStay, OfWorker
<1>3. ToRepost(t)' = ToRepost(t)
  BY DEF ToRepost, OfKind
<1>4. Stock' = Stock
  BY DEF Stock, Dropped
<1> QED
  BY <1>2, <1>3, <1>4, CreditStep

LEMMA CreditNextResult ==
  ASSUME BaseInv, BaseInv', Credit, NEW t \in Threads, NextResult(t)
  PROVE  Credit'
<1> DEFINE r == results[t]
           p == pos[t]
           c == r[p]
           D == Receiving
           one == IF c \in D THEN 1 ELSE 0
<1>1. /\ r \in Seq(Buffers) /\ p \in Nat /\ p >= 1 /\ p <= Len(r) /\ c \in Buffers
      /\ pc[t] = "process" /\ pc'[t] = "process" /\ instructions[t] = <<>>
      /\ results'[t] = r /\ pos'[t] = p + 1 /\ instructions'[t] = GetInstructions(c)
  BY ResultIs
<1>2. UNCHANGED <<operationType, outstanding, lost>>
  BY DEF NextResult, windows, manager, history
<1>3. Receiving' = D
  BY <1>2 DEF Receiving
<1>4. CountIn(GetInstructions(c), {Receive}) = one
  <2>1. c \in D <=> operationType[c] = "OP_RECEIVE"
    BY <1>1 DEF Receiving
  <2>2. /\ Receive \in Instructions /\ Send(c) \in Instructions /\ FreeInst(c) \in Instructions
    BY <1>1 DEF Instructions
  <2>3. Send(c) # Receive /\ FreeInst(c) # Receive
    <3>1. Receive.type = "RECEIVE" /\ Send(c).type = "SEND" /\ FreeInst(c).type = "FREEBUFFER"
      BY DEF Receive, Send, FreeInst
    <3> QED
      BY <3>1
  <2> HIDE DEF c
  <2>4. /\ CountIn(<<FreeInst(c)>>, {Receive}) = IF FreeInst(c) \in {Receive} THEN 1 ELSE 0
        /\ CountIn(<<Receive, Send(c)>>, {Receive})
             = (IF Receive \in {Receive} THEN 1 ELSE 0) + (IF Send(c) \in {Receive} THEN 1 ELSE 0)
    BY <2>2, CountShort
  <2>5. CountIn(<<FreeInst(c)>>, {Receive}) = 0 /\ CountIn(<<Receive, Send(c)>>, {Receive}) = 1
    BY <2>3, <2>4
  <2> QED
    BY <2>1, <2>5 DEF GetInstructions
<1>5. CountIn(<<>>, {Receive}) = 0
  BY CountEmpty
<1> HIDE DEF r, p, D
<1>6. CountFrom(r, p, D) = CountFrom(r, p + 1, D) + one
  BY <1>1, CountFromNext
<1>7. CountFrom(r, p, D) \in Nat /\ CountFrom(r, p + 1, D) \in Nat
  BY <1>1, CountFromType
<1>8. ToRepost(t) = CountFrom(r, p, D) + 0
  BY <1>1, <1>5, RepostTermsNow DEF RepostTerms, r, p, D
<1>9. ToRepost(t)' = CountFrom(r, p + 1, D) + one
  BY <1>1, <1>3, <1>4, RepostTermsNext DEF RepostTerms
<1>10. ToRepost(t)' = ToRepost(t)
  <2> HIDE DEF one
  <2> QED
    BY <1>6, <1>7, <1>8, <1>9
<1>11. Stock' = Stock
  BY <1>2 DEF Stock, Dropped
<1>12. OthersStay(t)
  BY ResultIs, WorkerOnly
<1> QED
  BY <1>2, <1>10, <1>11, <1>12, CreditStep

LEMMA CreditDequeueLeave ==
  ASSUME BaseInv, BaseInv', Credit, Own, NEW t \in Threads, DequeueLeave(t), Unharmed'
  PROVE  Credit'
<1> DEFINE s == batch[t]
           x == CountIn(s, Received)
           o == outstanding["OP_RECEIVE"]
           o2 == outstanding'["OP_RECEIVE"]
<1>1. /\ pc[t] = "dequeuing" /\ operationType' = operationType /\ lost' = lost /\ OthersStay(t)
      /\ s \in Seq(Completion) /\ batch'[t] = s
      /\ pos[t] = Len(results[t]) + 1 /\ pos'[t] = 1
      /\ results[t] \in Seq(Buffers) /\ results'[t] = <<>>
      /\ instructions[t] = <<>> /\ instructions'[t] = <<>>
      /\ outstanding' = [k \in Kinds |-> outstanding[k] - OfKind(s, k)]
      /\ IF s = <<>> THEN pc'[t] = "process" ELSE pc'[t] = "sorting"
  BY LeaveIs, WorkerOnly
<1>2. o2 = o - x /\ x \in Nat /\ o \in Int
  <2>1. "OP_RECEIVE" \in Kinds
    BY DEF Kinds
  <2>2. OfKind(s, "OP_RECEIVE") = x
    BY <1>1, OfKindIs DEF Received
  <2>3. o \in Int
    BY <2>1 DEF BaseInv, Types
  <2>4. x \in Nat
    BY <1>1, CountType
  <2>5. o2 = o - OfKind(s, "OP_RECEIVE")
    BY <1>1, <2>1
  <2> QED
    BY <2>2, <2>3, <2>4, <2>5
<1>3. ToRepost(t) = 0
  <2> DEFINE r == results[t]
             p == pos[t]
  <2>1. p = Len(r) + 1 /\ r \in Seq(Buffers)
    BY <1>1
  <2>2. CountFrom(r, p, Receiving) = 0
    <3> HIDE DEF r, p
    <3>1. p \in Nat /\ p > Len(r)
      BY <2>1
    <3> QED
      BY <2>1, <3>1, CountFromEnd
  <2>3. CountIn(instructions[t], {Receive}) = 0
    BY <1>1, CountEmpty
  <2>4. ToRepost(t) = 0 + 0
    <3>1. pc[t] # "sorting"
      BY <1>1
    <3>2. ToRepost(t) = CountFrom(r, p, Receiving) + CountIn(instructions[t], {Receive})
      BY <3>1, RepostTermsNow DEF RepostTerms
    <3> QED
      BY <2>2, <2>3, <3>2
  <2> QED
    BY <2>4
<1>4. ToRepost(t)' = x
  <2>1. CountFrom(<<>>, 1, Receiving') = 0
    <3> DEFINE D == Receiving'
    <3> HIDE DEF D
    <3>1. CountFrom(<<>>, 1, D) = CountIn(<<>>, D)
      BY CountFromStart
    <3> QED
      BY <3>1, CountEmpty DEF D
  <2>2. CountIn(<<>>, {Receive}) = 0
    BY CountEmpty
  <2>3. CASE s = <<>>
    <3>1. x = 0
      BY <2>3, CountEmpty
    <3>2. ToRepost(t)' = 0 + 0
      BY <1>1, <2>1, <2>2, <2>3, RepostTermsNext DEF RepostTerms
    <3> QED
      BY <3>1, <3>2
  <2>4. CASE s # <<>>
    <3>1. ToRepost(t)' = CountIn(batch'[t], Received) + 0 + 0
      BY <1>1, <2>1, <2>2, <2>4, RepostTermsNext DEF RepostTerms, Received, OfTheKind, Completion
    <3> QED
      BY <1>1, <1>2, <3>1
  <2> QED
    BY <2>3, <2>4
<1>5. Stock' + ToRepost(t)' = Stock + ToRepost(t)
  <2> DEFINE m == Dropped
             n == lost.error
  <2>1. m \in Nat /\ n \in Nat
    BY DropType DEF BaseInv, Types
  <2>2. Stock = o + m + n
    BY DEF Stock, Dropped
  <2>3. Stock' = o2 + m + n
    BY <1>1 DEF Stock, Dropped
  <2> HIDE DEF x, o, o2, m, n
  <2> QED
    BY <1>2, <1>3, <1>4, <2>1, <2>2, <2>3
<1> QED
  BY <1>1, <1>5, CreditStep

LEMMA CreditSort ==
  ASSUME BaseInv, BaseInv', Credit, Known, NEW t \in Threads, Sort(t)
  PROVE  Credit'
<1> DEFINE e == Head(batch[t])
           D == Receiving
           one == IF e.kind = "OP_RECEIVE" THEN 1 ELSE 0
           x == CountIn(batch[t], Received)
           x2 == CountIn(batch'[t], Received)
           y == CountIn(results[t], D)
           y2 == CountIn(results'[t], D)
           n == lost.error
           n2 == lost'.error
           r == ToRepost(t)
           r2 == ToRepost(t)'
<1>1. /\ pc[t] = "sorting" /\ pos[t] = 1 /\ pos'[t] = 1 /\ OthersStay(t)
      /\ instructions[t] = <<>> /\ instructions'[t] = <<>>
      /\ results[t] \in Seq(Buffers) /\ e \in Completion /\ e.buf \in Buffers
      /\ operationType' = operationType /\ outstanding' = outstanding
  BY SortIs, SortTo, WorkerOnly
<1>2. Receiving' = D
  BY <1>1 DEF Receiving
<1>3. e.buf \in D <=> e.kind = "OP_RECEIVE"
  <2> DEFINE s == batch[t]
  <2>1. s \in Seq(Completion) /\ s # <<>> /\ KindRight(s)
    BY <1>1, SortIs DEF Known
  <2>2. 1 \in 1..Len(s) /\ Head(s) = s[1]
    <3> HIDE DEF s
    <3> QED
      BY <2>1
  <2>3. operationType[e.buf] = e.kind
    BY <2>1, <2>2 DEF KindRight
  <2> QED
    BY <1>1, <2>3 DEF Receiving
<1>4. x = x2 + one /\ x2 \in Nat /\ one \in Nat /\ (pc'[t] # "sorting" => x2 = 0)
  <2>1. e \in Received <=> e.kind = "OP_RECEIVE"
    BY <1>1 DEF Received, OfTheKind
  <2> QED
    BY <2>1, SortLeaves
<1>5. y \in Nat /\ n \in Nat
  <2>1. y \in Nat
    BY <1>1, CountType
  <2>2. n \in Nat
    BY DEF BaseInv, Types
  <2> QED
    BY <2>1, <2>2
<1>6. lost'.noBuffer = lost.noBuffer /\ lost'.refused = lost.refused
      /\ ((y2 = y + one /\ n2 = n) \/ (y2 = y /\ n2 = n + one))
  <2>0. lost \in [{"noBuffer", "refused", "error"} -> Nat]
    BY DEF BaseInv, Types
  <2>1. CASE results'[t] = Append(results[t], e.buf) /\ lost' = lost
    <3> DEFINE s == results[t]
               c == e.buf
    <3>1. s \in Seq(Buffers) /\ c \in Buffers
      BY <1>1
    <3>2. CountIn(Append(s, c), D) = CountIn(s, D) + (IF c \in D THEN 1 ELSE 0)
      <4> HIDE DEF s, c, D
      <4> QED
        BY <3>1, CountAppend
    <3>3. (IF c \in D THEN 1 ELSE 0) = one
      BY <1>3
    <3> QED
      BY <2>1, <3>2, <3>3
  <2>2. CASE /\ results'[t] = results[t]
             /\ lost' = IF e.kind = "OP_RECEIVE" THEN [lost EXCEPT !.error = @ + 1] ELSE lost
    <3>1. CASE e.kind = "OP_RECEIVE"
      BY <2>0, <2>2, <3>1
    <3>2. CASE e.kind # "OP_RECEIVE"
      BY <1>5, <2>0, <2>2, <3>2
    <3> QED
      BY <3>1, <3>2
  <2> QED
    BY <2>1, <2>2, SortTo
<1>7. r = x + y
  <2>1. CountFrom(results[t], 1, D) = y
    BY CountFromStart
  <2>2. CountIn(<<>>, {Receive}) = 0
    BY CountEmpty
  <2>3. r = x + y + 0
    BY <1>1, <2>1, <2>2, RepostTermsNow DEF RepostTerms
  <2> HIDE DEF r, x, y
  <2>4. x \in Nat
    BY <1>4
  <2> QED
    BY <1>5, <2>3, <2>4
<1>8. r2 = x2 + y2
  <2>1. CountFrom(results'[t], 1, D) = y2
    BY CountFromStart
  <2>2. CountIn(<<>>, {Receive}) = 0
    BY CountEmpty
  <2>3. y2 \in Nat
    BY <1>4, <1>5, <1>6
  <2>4. Received' = Received
    BY DEF Received, OfTheKind, Completion
  <2>5. CASE pc'[t] = "sorting"
    <3>1. r2 = x2 + y2 + 0
      BY <1>1, <1>2, <2>1, <2>2, <2>4, <2>5, RepostTermsNext DEF RepostTerms
    <3> HIDE DEF r2, x2, y2
    <3> QED
      BY <1>4, <2>3, <3>1
  <2>6. CASE pc'[t] # "sorting"
    <3>1. r2 = y2 + 0
      BY <1>1, <1>2, <2>1, <2>2, <2>6, RepostTermsNext DEF RepostTerms
    <3> HIDE DEF r2, x2, y2
    <3> QED
      BY <1>4, <2>3, <2>6, <3>1
  <2> QED
    BY <2>5, <2>6
<1>9. Stock' + r2 = Stock + r
  <2> DEFINE o == outstanding["OP_RECEIVE"]
             m == Dropped
  <2>1. o \in Int /\ m \in Nat
    BY DropType DEF BaseInv, Types, Kinds
  <2>2. Stock = o + m + n
    BY DEF Stock, Dropped
  <2>3. Stock' = o + m + n2
    BY <1>1, <1>6 DEF Stock, Dropped
  <2> HIDE DEF x, x2, y, y2, n, n2, one, o, m, r, r2
  <2> QED
    BY <1>4, <1>5, <1>6, <1>7, <1>8, <2>1, <2>2, <2>3
<1> QED
  BY <1>1, <1>9, CreditStep

\* An instruction done: a RECEIVE leaves the worker's hand.
LEMMA InstructionRepost ==
  ASSUME BaseInv, BaseInv', NEW t \in Threads, NEW type, CurrentIs(t, type), Done(t),
         UNCHANGED <<pc, batch, results, pos>>,
         \A i \in pos[t]..Len(results[t]) :
           operationType'[results[t][i]] = operationType[results[t][i]]
  PROVE  ToRepost(t) = ToRepost(t)' + (IF type = "RECEIVE" THEN 1 ELSE 0)
<1> DEFINE i == instructions[t]
           j == instructions'[t]
           one == IF type = "RECEIVE" THEN 1 ELSE 0
           y == CountFrom(results[t], pos[t], Receiving)
           x == CountIn(i, {Receive})
           x2 == CountIn(j, {Receive})
<1>1. /\ pc[t] = "process" /\ i \in Seq(Instructions) /\ i # <<>>
      /\ Tail(i) \in Seq(Instructions) /\ j = Tail(i) /\ Head(i).type = type
      /\ type = "RECEIVE" => Head(i) = Receive
  BY InstructionIs
<1>2. x = x2 + one
  <2>1. Head(i) = Receive <=> type = "RECEIVE"
    BY <1>1 DEF Receive
  <2> HIDE DEF i
  <2>2. CountIn(i, {Receive}) = CountIn(Tail(i), {Receive}) + (IF Head(i) \in {Receive} THEN 1 ELSE 0)
    BY <1>1, CountTail
  <2> QED
    BY <1>1, <2>1, <2>2
<1>3. /\ ToRepost(t) = y + x /\ y \in Nat /\ x \in Nat
  BY <1>1, RepostTermsNow DEF RepostTerms
<1>4. ToRepost(t)' = CountFrom(results'[t], pos'[t], Receiving') + x2 /\ x2 \in Nat
  BY <1>1, RepostTermsNext DEF RepostTerms
<1>5. CountFrom(results'[t], pos'[t], Receiving') = y
  <2>0. results[t] \in Seq(Buffers) /\ pos[t] \in Nat /\ pos[t] >= 1
    BY DEF BaseInv, Types, PlaceOf
  <2>1. \A k \in pos[t]..Len(results[t]) : results[t][k] \in Buffers
    BY <2>0
  <2>2. PlacesFrom(results'[t], pos'[t], Receiving') = PlacesFrom(results[t], pos[t], Receiving)
    BY <2>1 DEF PlacesFrom, Receiving
  <2> QED
    BY <2>2 DEF CountFrom
<1>6. ToRepost(t)' = y + x2
  BY <1>4, <1>5
<1>7. one \in Nat
  OBVIOUS
<1> DEFINE r == ToRepost(t)
           r2 == ToRepost(t)'
<1> HIDE DEF y, x, x2, one, r, r2
<1>8. r = r2 + one
  BY <1>2, <1>3, <1>4, <1>6, <1>7 DEF r, r2
<1> QED
  BY <1>8 DEF one, r, r2

LEMMA CreditInstruction ==
  ASSUME BaseInv, BaseInv', Credit, NEW t \in Threads, NEW type, CurrentIs(t, type), Done(t), Worker(t),
         UNCHANGED <<pc, batch, results, pos>>,
         \A u \in Threads : \A i \in pos[u]..Len(results[u]) :
           operationType'[results[u][i]] = operationType[results[u][i]],
         Stock' = Stock + (IF type = "RECEIVE" THEN 1 ELSE 0)
  PROVE  Credit'
<1> DEFINE one == IF type = "RECEIVE" THEN 1 ELSE 0
           r == ToRepost(t)
           r2 == ToRepost(t)'
<1>1. r = r2 + one
  BY InstructionRepost
<1>2. r2 \in Nat /\ one \in Nat /\ Stock \in Int
  BY RepostTermsNow, RepostTermsNext DEF RepostTerms
<1>3. Stock' + r2 = Stock + r
  <2> HIDE DEF r, r2, one
  <2>1. Stock' = Stock + one
    BY DEF one
  <2> QED
    BY <1>1, <1>2, <2>1
<1>4. \A u \in Threads \ {t} : ToRepost(u)' = ToRepost(u)
  BY RepostSame, WorkerOnly DEF OthersStay
<1> QED
  BY <1>3, <1>4, CreditMoved

\* Either way of dropping a receive adds one to those dropped.
LEMMA DropCounted ==
  ASSUME BaseInv, \/ lost' = [lost EXCEPT !.noBuffer = @ + 1]
                  \/ lost' = [lost EXCEPT !.refused = @ + 1]
  PROVE  Dropped' = Dropped + 1 /\ lost'.error = lost.error
<1>1. lost \in [{"noBuffer", "refused", "error"} -> Nat]
  BY DEF BaseInv, Types
<1>2. lost.noBuffer \in Nat /\ lost.refused \in Nat
  BY <1>1
<1>3. CASE lost' = [lost EXCEPT !.noBuffer = @ + 1]
  <2>1. /\ lost'.noBuffer = lost.noBuffer + 1 /\ lost'.refused = lost.refused
        /\ lost'.error = lost.error
    BY <1>1, <1>3
  <2> QED
    BY <1>2, <2>1 DEF Dropped
<1>4. CASE lost' = [lost EXCEPT !.refused = @ + 1]
  <2>1. /\ lost'.noBuffer = lost.noBuffer /\ lost'.refused = lost.refused + 1
        /\ lost'.error = lost.error
    BY <1>1, <1>4
  <2> QED
    BY <1>2, <2>1 DEF Dropped
<1> QED
  BY <1>3, <1>4

LEMMA CreditPostReceive ==
  ASSUME BaseInv, BaseInv', Credit, Own, Unharmed', [Next]_vars, NEW t \in Threads, PostReceive(t)
  PROVE  Credit'
<1> DEFINE c == Head(freeBufferIndex)
           o == outstanding["OP_RECEIVE"]
           m == Dropped
           n == lost.error
<1>1. CurrentIs(t, "RECEIVE") /\ Done(t) /\ Worker(t) /\ UNCHANGED <<cq, pc, batch, results, pos>>
  BY DEF PostReceive, Worker
<1>2. o \in Int /\ m \in Nat /\ n \in Nat /\ Stock = o + m + n
  BY DropType DEF BaseInv, Types, Kinds, Stock
<1>3. lost \in [{"noBuffer", "refused", "error"} -> Nat]
  BY DEF BaseInv, Types
<1>4. CASE freeBufferIndex = <<>>
  <2>1. operationType' = operationType /\ outstanding' = outstanding
        /\ lost' = [lost EXCEPT !.noBuffer = @ + 1]
    BY <1>4, HarmStays DEF PostReceive, manager
  <2>2. Stock' = o + (m + 1) + n
    BY <1>3, <2>1, DropCounted DEF Stock
  <2>3. Stock' = Stock + 1
    <3> HIDE DEF o, m, n
    <3> QED
      BY <1>2, <2>2
  <2>4. Stock' = Stock + (IF "RECEIVE" = "RECEIVE" THEN 1 ELSE 0)
    BY <2>3
  <2> QED
    BY <1>1, <2>1, <2>4, CreditInstruction
<1>5. CASE freeBufferIndex # <<>>
  <2>1. c \in Buffers /\ Nowhere(c)
    BY <1>5, FreeHead, FreeNowhere DEF Own
  <2>2. CASE Post("OP_RECEIVE", c) /\ lost' = lost
    <3>1. "OP_RECEIVE" \in Kinds
      BY DEF Kinds
    <3>2. outstanding'["OP_RECEIVE"] = o + 1 /\ operationType' = [operationType EXCEPT ![c] = "OP_RECEIVE"]
      BY <2>1, <2>2, <3>1, PostCounts
    <3>3. Stock' = (o + 1) + m + n
      BY <2>2, <3>2 DEF Stock, Dropped
    <3>4. Stock' = Stock + 1
      <4> HIDE DEF o, m, n
      <4> QED
        BY <1>2, <3>3
    <3>5. Stock' = Stock + (IF "RECEIVE" = "RECEIVE" THEN 1 ELSE 0)
      BY <3>4
    <3>6. \A u \in Threads : \A i \in pos[u]..Len(results[u]) :
            operationType'[results[u][i]] = operationType[results[u][i]]
      <4> HIDE DEF c
      <4> QED
        BY <2>1, <3>2, RepostApart
    <3> QED
      BY <1>1, <3>5, <3>6, CreditInstruction
  \* Refused: the receive is given up, and its buffer goes back to the pool.
  <2>3. CASE /\ outstanding' = outstanding /\ lost' = [lost EXCEPT !.refused = @ + 1]
             /\ operationType' = [operationType EXCEPT ![c] = "OP_RECEIVE"]
    <3>1. Stock' = o + (m + 1) + n
      BY <1>3, <2>3, DropCounted DEF Stock
    <3>2. Stock' = Stock + 1
      <4> HIDE DEF o, m, n
      <4> QED
        BY <1>2, <3>1
    <3>3. Stock' = Stock + (IF "RECEIVE" = "RECEIVE" THEN 1 ELSE 0)
      BY <3>2
    <3>4. \A u \in Threads : \A i \in pos[u]..Len(results[u]) :
            operationType'[results[u][i]] = operationType[results[u][i]]
      <4> HIDE DEF c
      <4> QED
        BY <2>1, <2>3, RepostApart
    <3> QED
      BY <1>1, <3>3, <3>4, CreditInstruction
  <2>4. Unharmed
    BY HarmStays
  <2> QED
    BY <1>5, <2>2, <2>3, <2>4 DEF PostReceive
<1> QED
  BY <1>4, <1>5

LEMMA CreditPostSend ==
  ASSUME BaseInv, BaseInv', Credit, Own, NEW t \in Threads, PostSend(t)
  PROVE  Credit'
<1>1. CurrentIs(t, "SEND") /\ Done(t) /\ Worker(t) /\ UNCHANGED <<cq, pc, batch, results, pos, lost>>
  BY DEF PostSend, Worker, history
<1>2. PICK c \in Buffers : Head(instructions[t]) = Send(c)
  BY <1>1, InstructionIs
<1>3. Head(instructions[t]).buf = c
  BY <1>2 DEF Send
<1>4. Nowhere(c)
  <2>1. pc[t] = "process" /\ instructions[t] # <<>>
    BY <1>1 DEF CurrentIs
  <2>2. Head(instructions[t]) \in Carrying(c)
    BY <1>2 DEF Carrying
  <2> QED
    BY <2>1, <2>2, CarriedNowhere DEF Own
<1>5. /\ outstanding'["OP_RECEIVE"] = outstanding["OP_RECEIVE"]
      /\ operationType' = operationType \/ operationType' = [operationType EXCEPT ![c] = "OP_SEND"]
  <2>1. CASE Post("OP_SEND", c)
    <3>1. "OP_SEND" \in Kinds /\ "OP_RECEIVE" \in Kinds \ {"OP_SEND"}
      BY DEF Kinds
    <3> QED
      BY <2>1, <3>1, PostCounts
  <2>2. CASE outstanding' = outstanding
    BY <1>3, <2>2 DEF PostSend, Post
  <2> QED
    BY <1>3, <2>1, <2>2 DEF PostSend
<1>6. \A u \in Threads : \A i \in pos[u]..Len(results[u]) :
        operationType'[results[u][i]] = operationType[results[u][i]]
  BY <1>4, <1>5, RepostApart
<1>7. Stock' = Stock + (IF "SEND" = "RECEIVE" THEN 1 ELSE 0)
  <2>1. Stock' = Stock /\ Stock \in Int
    BY <1>1, <1>5, RepostTermsNow DEF Stock, Dropped, RepostTerms
  <2> QED
    BY <2>1
<1> QED
  BY <1>1, <1>6, <1>7, CreditInstruction

LEMMA CreditFreeBuffer ==
  ASSUME BaseInv, BaseInv', Credit, NEW t \in Threads, FreeBuffer(t)
  PROVE  Credit'
<1>1. /\ CurrentIs(t, "FREEBUFFER") /\ Done(t) /\ Worker(t)
      /\ UNCHANGED <<outstanding, operationType, pc, batch, results, pos, lost>>
  BY DEF FreeBuffer, Worker, windows, history
<1>2. Stock' = Stock + (IF "FREEBUFFER" = "RECEIVE" THEN 1 ELSE 0)
  <2>1. Stock' = Stock /\ Stock \in Int
    BY <1>1, RepostTermsNow DEF Stock, Dropped, RepostTerms
  <2> QED
    BY <2>1
<1> QED
  BY <1>1, <1>2, CreditInstruction

LEMMA CreditNext ==
  ASSUME BaseInv, BaseInv', [Next]_vars, Own, Known, Credit, Unharmed'
  PROVE  Credit'
<1>p. pc \in [Threads -> PCs]
  BY DEF BaseInv, Types
<1>1. ASSUME NEW t \in Threads, Worker(t) PROVE Credit'
  <2>o. OthersStay(t)
    BY <1>1, WorkerOnly
  <2>a. ASSUME NEW l, pc[t] # "sorting", l # "sorting", pc' = [pc EXCEPT ![t] = l],
               UNCHANGED <<results, pos, instructions, operationType, outstanding, lost>>
        PROVE  Credit'
    <3>1. pc'[t] # "sorting"
      BY <1>p, <2>a
    <3> QED
      BY <2>a, <2>o, <3>1, CreditIdle
  <2>1. CASE RIONotify(t)
    BY <2>1, <2>a DEF RIONotify, Goto, manager, thread, history
  <2>2. CASE GetQueuedCompletionStatus(t)
    <3>1. PICK l \in {"dequeue", "accept", "exited", "notify", "quit"} : pc' = [pc EXCEPT ![t] = l]
      BY <2>2, GetGoes
    <3> QED
      BY <2>2, <2>a, <3>1 DEF GetQueuedCompletionStatus, manager, thread, history
  <2>3. CASE Quit(t)
    BY <2>3, <2>a DEF Quit, Goto, manager, thread, history
  <2>4. CASE Accept(t)
    BY <2>4, <2>a DEF Accept, Goto, manager, thread, history
  <2>5. CASE DequeueEnter(t)
    BY <2>5, <2>a DEF DequeueEnter, Goto, manager, windows
  <2>6. CASE DequeueLeave(t)
    BY <2>6, CreditDequeueLeave
  <2>7. CASE Sort(t)
    BY <2>7, CreditSort
  <2>8. CASE NextResult(t)
    BY <2>8, CreditNextResult
  <2>9. CASE EndOfResults(t)
    BY <2>9, <2>a DEF EndOfResults, Goto, manager, thread, windows, history
  <2>10. CASE PostReceive(t)
    BY <2>10, CreditPostReceive
  <2>11. CASE PostSend(t)
    BY <2>11, CreditPostSend
  <2>12. CASE FreeBuffer(t)
    BY <2>12, CreditFreeBuffer
  <2> QED
    BY <1>1, <2>1, <2>2, <2>3, <2>4, <2>5, <2>6, <2>7, <2>8, <2>9, <2>10, <2>11, <2>12 DEF Worker
<1>2. CASE Environment \/ JoinAndShutdown
  <2>1. /\ UNCHANGED <<pc, batch, results, pos, instructions, freeBufferIndex, operationType>>
        /\ UNCHANGED <<outstanding, lost, faults>>
    BY <1>2, OutsideStays
  <2> QED
    BY <2>1, CreditOutside
<1>3. CASE UNCHANGED vars
  BY <1>3, CreditOutside DEF vars, windows, manager, thread, history
<1> QED
  BY <1>1, <1>2, <1>3 DEF Next

LEMMA CreditInit == Init => Credit
<1> SUFFICES ASSUME Init PROVE Credit
  OBVIOUS
<1>1. ASSUME NEW t \in Threads PROVE ToRepost(t) = 0
  <2>1. pc[t] = "notify" /\ results[t] = <<>> /\ pos[t] = 1 /\ instructions[t] = <<>>
    BY DEF Init
  <2>2. CountFrom(<<>>, 1, Receiving) = 0 /\ CountIn(<<>>, {Receive}) = 0
    BY CountFromStart, CountEmpty
  <2>3. ToRepost(t) = CountFrom(<<>>, 1, Receiving) + CountIn(<<>>, {Receive})
    BY <2>1, BaseInit, RepostTermsNow DEF RepostTerms
  <2>4. ToRepost(t) = 0 + 0
    BY <2>2, <2>3
  <2> QED
    BY <2>4
<1>2. [t \in Threads |-> ToRepost(t)] = [t \in Threads |-> 0]
  BY <1>1
<1>3. RepostSum = 0
  BY <1>2, ThreadsAssumption, SumOfZeros DEF RepostSum
<1>4. Stock = MaxReceives + (0 + 0) + 0
  BY DEF Init, Stock, Dropped, Kinds
<1> QED
  BY <1>3, <1>4, BoundsAssumption DEF Credit

LEMMA CreditInvariant == Spec => []CreditInv
<1>1. Init => CreditInv
  BY CreditInit DEF CreditInv
<1>2. BaseInv /\ BaseInv' /\ OwnInv /\ KnownInv /\ CreditInv /\ [Next]_vars => CreditInv'
  BY CreditNext, HarmStays DEF CreditInv, KnownInv, OwnInv
<1> QED
  BY <1>1, <1>2, OwnInvariant, KnownInvariant, BaseInvariant, PTL DEF Spec

\* The receives of the service are conserved, for any number of workers, segments and
\* receives: each is outstanding, about to be posted again, or lost in one of three ways.
THEOREM ReceivesAccounted == Spec => []ReceiveCredit
<1>1. BaseInv /\ CreditInv => ReceiveCredit
  <2> SUFFICES ASSUME BaseInv, Credit, Unharmed PROVE
        outstanding["OP_RECEIVE"] + SumFunction([t \in Threads |-> ToRepost(t)])
          + lost.noBuffer + lost.refused + lost.error = MaxReceives
    BY DEF CreditInv, ReceiveCredit
  <2> DEFINE o == outstanding["OP_RECEIVE"]
             d == lost.noBuffer
             e == lost.refused
             n == lost.error
             f == [t \in Threads |-> ToRepost(t)]
             x == SumFunction(f)
  <2>1. o \in Int /\ d \in Nat /\ e \in Nat /\ n \in Nat
    BY DEF BaseInv, Types, Kinds
  <2>2. x \in Int
    <3>1. f \in [Threads -> Int]
      BY RepostTermsNow DEF RepostTerms
    <3> HIDE DEF f
    <3> QED
      BY <3>1, ThreadsAssumption, SumInt
  <2>3. o + (d + e) + n + x = MaxReceives
    BY DEF Credit, Stock, Dropped, RepostSum
  <2> HIDE DEF o, d, e, n, x
  <2>4. o + x + d + e + n = MaxReceives
    BY <2>1, <2>2, <2>3
  <2> QED
    BY <2>4 DEF o, d, e, n, x
<1> QED
  BY <1>1, BaseInvariant, CreditInvariant, PTL

-----------------------------------------------------------------------------
(* Why few receives are left without a buffer: the pool, the request queues  *)
(* and the workers' hands hold all the segments between them.               *)

\* How many segments worker t holds, and how many are in the pool or on a request queue.
Moving  == Instructions \ {Receive}
Load(t) ==
  (IF pc[t] = "sorting" THEN Len(batch[t]) ELSE 0) + (Len(results[t]) + 1 - pos[t])
    + CountIn(instructions[t], Moving)
Spread  == Len(freeBufferIndex) + outstanding["OP_RECEIVE"] + outstanding["OP_SEND"]
LoadSum == SumFunction([t \in Threads |-> Load(t)])

\* A worker holds no more than one dequeue gave it.
Placed ==
  /\ Spread + LoadSum = Cardinality(Buffers)
  /\ \A t \in Threads : Load(t) <= DequeueCount

PlacedInv == Unharmed => Placed

\* The terms of Load are numbers.
LoadTerms ==
  /\ \A t \in Threads :
       /\ Len(batch[t]) \in Nat /\ Len(results[t]) + 1 - pos[t] \in Nat
       /\ CountIn(instructions[t], Moving) \in Nat /\ Load(t) \in Nat
       /\ pc[t] = "sorting" =>
            Load(t) = Len(batch[t]) + (Len(results[t]) + 1 - pos[t]) + CountIn(instructions[t], Moving)
       /\ pc[t] # "sorting" =>
            Load(t) = (Len(results[t]) + 1 - pos[t]) + CountIn(instructions[t], Moving)
  /\ Spread \in Int

LEMMA LoadTermsNow == BaseInv => LoadTerms
<1> SUFFICES ASSUME BaseInv PROVE LoadTerms
  OBVIOUS
<1>1. ASSUME NEW t \in Threads
      PROVE  /\ Len(batch[t]) \in Nat /\ Len(results[t]) + 1 - pos[t] \in Nat
             /\ CountIn(instructions[t], Moving) \in Nat /\ Load(t) \in Nat
             /\ pc[t] = "sorting" =>
                  Load(t) = Len(batch[t]) + (Len(results[t]) + 1 - pos[t])
                              + CountIn(instructions[t], Moving)
             /\ pc[t] # "sorting" =>
                  Load(t) = (Len(results[t]) + 1 - pos[t]) + CountIn(instructions[t], Moving)
  <2> DEFINE x == Len(batch[t])
             y == Len(results[t]) + 1 - pos[t]
             z == CountIn(instructions[t], Moving)
  <2>1. /\ batch[t] \in Seq(Completion) /\ results[t] \in Seq(Buffers)
        /\ pos[t] \in 1..(Len(results[t]) + 1) /\ instructions[t] \in Seq(Instructions)
    BY DEF BaseInv, Types, PlaceOf
  <2>2. x \in Nat
    BY <2>1
  <2>3. y \in Nat
    <3> DEFINE n == Len(results[t])
               p == pos[t]
    <3>1. n \in Nat /\ p \in 1..(n + 1)
      BY <2>1
    <3> HIDE DEF n, p
    <3>2. n + 1 - p \in Nat
      BY <3>1
    <3> QED
      BY <3>2 DEF n, p
  <2>4. z \in Nat
    BY <2>1, CountType
  <2>5. Load(t) = (IF pc[t] = "sorting" THEN x ELSE 0) + y + z
    BY DEF Load
  <2> HIDE DEF x, y, z
  <2>6. CASE pc[t] = "sorting"
    <3>1. Load(t) = x + y + z
      BY <2>5, <2>6
    <3> QED
      BY <2>2, <2>3, <2>4, <2>6, <3>1 DEF x, y, z
  <2>7. CASE pc[t] # "sorting"
    <3>1. Load(t) = y + z
      BY <2>3, <2>5, <2>7
    <3> QED
      BY <2>2, <2>3, <2>4, <2>7, <3>1 DEF x, y, z
  <2> QED
    BY <2>6, <2>7
<1>2. Spread \in Int
  <2>1. outstanding["OP_RECEIVE"] \in Int /\ outstanding["OP_SEND"] \in Int
    BY DEF BaseInv, Types, Kinds
  <2>2. Len(freeBufferIndex) \in Nat
    BY DEF BaseInv, Types
  <2> QED
    BY <2>1, <2>2 DEF Spread
<1> QED
  BY <1>1, <1>2 DEF LoadTerms

LEMMA LoadTermsNext == BaseInv' => LoadTerms'
BY LoadTermsNow, PTL

LEMMA PlacedMoved ==
  ASSUME BaseInv, BaseInv', Placed, NEW t \in Threads, OthersStay(t),
         Spread' + Load(t)' = Spread + Load(t), Load(t)' <= DequeueCount
  PROVE  Placed'
<1>1. LoadTerms /\ LoadTerms'
  BY LoadTermsNow, LoadTermsNext
<1>2. \A u \in Threads \ {t} : Load(u)' = Load(u)
  BY DEF OthersStay, OfWorker, Load, CountIn, PlacesIn, Moving, Instructions
<1> DEFINE f == [u \in Threads |-> Load(u)]
           g == [u \in Threads |-> Load(u)']
           a == Spread
           c == Spread'
<1>3. f \in [Threads -> Int] /\ g \in [Threads -> Int] /\ a \in Int /\ c \in Int
  <2>1. Spread \in Int /\ \A u \in Threads : Load(u) \in Nat
    BY <1>1 DEF LoadTerms
  <2>2. Spread' \in Int /\ \A u \in Threads : Load(u)' \in Nat
    BY <1>1 DEF LoadTerms
  <2> QED
    BY <2>1, <2>2
<1>4. \A u \in Threads \ {t} : g[u] = f[u]
  BY <1>2
<1>5. c + g[t] = a + f[t]
  OBVIOUS
<1>6. LoadSum = SumFunction(f) /\ LoadSum' = SumFunction(g)
  BY DEF LoadSum
<1>7. a + SumFunction(f) = Cardinality(Buffers)
  BY <1>6 DEF Placed
<1> HIDE DEF f, g, a, c
<1>8. c + SumFunction(g) = a + SumFunction(f)
  BY <1>3, <1>4, <1>5, IntoHand
<1>9. Spread' + LoadSum' = Cardinality(Buffers)
  BY <1>6, <1>7, <1>8 DEF c
<1>10. \A u \in Threads : Load(u)' <= DequeueCount
  BY <1>2 DEF Placed
<1> QED
  BY <1>9, <1>10 DEF Placed

LEMMA PlacedIdle ==
  ASSUME BaseInv, BaseInv', Placed, NEW t \in Threads, OthersStay(t),
         pc[t] # "sorting", pc'[t] # "sorting",
         results'[t] = results[t], pos'[t] = pos[t], instructions'[t] = instructions[t],
         UNCHANGED <<freeBufferIndex, outstanding>>
  PROVE  Placed'
<1>1. Load(t)' = Load(t)
  BY DEF Load, CountIn, PlacesIn, Moving, Instructions
<1>2. Spread' = Spread
  BY DEF Spread
<1> QED
  BY <1>1, <1>2, PlacedMoved DEF Placed

LEMMA PlacedOutside ==
  ASSUME BaseInv, BaseInv', Placed, UNCHANGED <<pc, batch, results, pos, instructions>>,
         UNCHANGED <<freeBufferIndex, outstanding>>
  PROVE  Placed'
<1>1. PICK t \in Threads : TRUE
  BY ThreadsAssumption
<1>2. OthersStay(t)
  BY DEF OthersStay, OfWorker
<1>3. Load(t)' = Load(t)
  BY DEF Load, CountIn, PlacesIn, Moving, Instructions
<1>4. Spread' = Spread
  BY DEF Spread
<1> QED
  BY <1>2, <1>3, <1>4, PlacedMoved DEF Placed

LEMMA PlacedDequeueLeave ==
  ASSUME BaseInv, BaseInv', Placed, Own, NEW t \in Threads, DequeueLeave(t), Unharmed'
  PROVE  Placed'
<1> DEFINE s == batch[t]
           x == OfKind(s, "OP_RECEIVE")
           y == OfKind(s, "OP_SEND")
           o == outstanding["OP_RECEIVE"]
           p == outstanding["OP_SEND"]
           n == Len(s)
           f == Len(freeBufferIndex)
<1>1. /\ pc[t] = "dequeuing" /\ freeBufferIndex' = freeBufferIndex /\ OthersStay(t)
      /\ s \in Seq(Completion) /\ batch'[t] = s
      /\ pos[t] = Len(results[t]) + 1 /\ pos'[t] = 1
      /\ results[t] \in Seq(Buffers) /\ results'[t] = <<>>
      /\ instructions[t] = <<>> /\ instructions'[t] = <<>>
      /\ outstanding' = [k \in Kinds |-> outstanding[k] - OfKind(s, k)]
      /\ IF s = <<>> THEN pc'[t] = "process" ELSE pc'[t] = "sorting"
  BY LeaveIs, WorkerOnly
<1>2. outstanding'["OP_RECEIVE"] = o - x /\ outstanding'["OP_SEND"] = p - y
      /\ o \in Int /\ p \in Int /\ f \in Nat
  BY <1>1 DEF BaseInv, Types, Kinds
<1>3. x + y = n /\ x \in Nat /\ y \in Nat /\ n \in Nat
  <2> DEFINE C == OfTheKind("OP_RECEIVE")
             D == OfTheKind("OP_SEND")
  <2>1. C \cap D = {} /\ Completion \subseteq C \cup D
    BY DEF OfTheKind, Completion, Kinds
  <2>2. x = CountIn(s, C) /\ y = CountIn(s, D) /\ x \in Nat /\ y \in Nat
    BY <1>1, OfKindIs
  <2> HIDE DEF C, D, s
  <2>3. CountIn(s, C) + CountIn(s, D) = Len(s)
    BY <1>1, <2>1, CountSplit
  <2>4. Len(s) \in Nat
    BY <1>1
  <2> QED
    BY <2>2, <2>3, <2>4
<1>4. CountIn(<<>>, Moving) = 0
  BY CountEmpty
<1>5. Load(t) = 0
  <2> DEFINE m == Len(results[t])
  <2>1. m \in Nat
    BY <1>1
  <2>2. Load(t) = (m + 1 - (m + 1)) + 0
    BY <1>1, <1>4, LoadTermsNow DEF LoadTerms
  <2> HIDE DEF m
  <2> QED
    BY <2>1, <2>2
<1>6. Load(t)' = n
  <2>1. Len(<<>>) = 0
    OBVIOUS
  <2>0. Moving' = Moving
    BY DEF Moving, Instructions
  <2>2. CASE s = <<>>
    <3>1. Load(t)' = (0 + 1 - 1) + 0
      BY <1>1, <1>4, <2>0, <2>1, <2>2, LoadTermsNext DEF LoadTerms
    <3>2. n = 0
      BY <2>2
    <3> QED
      BY <3>1, <3>2
  <2>3. CASE s # <<>>
    <3>1. Load(t)' = Len(batch'[t]) + (0 + 1 - 1) + 0
      BY <1>1, <1>4, <2>0, <2>1, <2>3, LoadTermsNext DEF LoadTerms
    <3>2. Load(t)' = n + 0 + 0
      BY <1>1, <3>1
    <3> HIDE DEF n
    <3> QED
      BY <1>3, <3>2
  <2> QED
    BY <2>2, <2>3
<1>7. Load(t)' <= DequeueCount
  BY <1>6 DEF BaseInv, PlaceOf
<1>8. Spread' + Load(t)' = Spread + Load(t)
  <2>1. Spread = f + o + p
    BY DEF Spread
  <2>2. Spread' = f + (o - x) + (p - y)
    BY <1>1, <1>2 DEF Spread
  <2> HIDE DEF x, y, o, p, n, f
  <2> QED
    BY <1>2, <1>3, <1>5, <1>6, <2>1, <2>2
<1> QED
  BY <1>1, <1>7, <1>8, PlacedMoved

LEMMA PlacedSort ==
  ASSUME BaseInv, BaseInv', Placed, NEW t \in Threads, Sort(t)
  PROVE  Placed'
<1> DEFINE s == batch[t]
           n == Len(s)
           r == Len(results[t])
           r2 == Len(results'[t])
           f == Len(freeBufferIndex)
           f2 == Len(freeBufferIndex')
           h == Load(t)
           h2 == Load(t)'
           o == outstanding["OP_RECEIVE"]
           p == outstanding["OP_SEND"]
<1>1. /\ pc[t] = "sorting" /\ pos[t] = 1 /\ pos'[t] = 1 /\ OthersStay(t)
      /\ instructions[t] = <<>> /\ instructions'[t] = <<>>
      /\ results[t] \in Seq(Buffers) /\ Head(s).buf \in Buffers /\ outstanding' = outstanding
      /\ n \in Nat /\ n >= 1 /\ Len(batch'[t]) = n - 1
      /\ pc'[t] = IF n = 1 THEN "process" ELSE "sorting"
  BY SortIs, SortTo, WorkerOnly
<1>2. r \in Nat /\ f \in Nat /\ o \in Int /\ p \in Int
  <2>1. r \in Nat
    BY <1>1
  <2>2. f \in Nat /\ o \in Int /\ p \in Int
    BY DEF BaseInv, Types, Kinds
  <2> QED
    BY <2>1, <2>2
<1>3. (r2 = r + 1 /\ f2 = f) \/ (r2 = r /\ f2 = f + 1)
  <2>1. freeBufferIndex \in Seq(Buffers)
    BY DEF BaseInv, Types
  <2> DEFINE c == Head(s).buf
             q == results[t]
  <2>2. Len(Append(q, c)) = Len(q) + 1 /\ Len(Append(freeBufferIndex, c)) = Len(freeBufferIndex) + 1
    <3>1. q \in Seq(Buffers) /\ c \in Buffers
      BY <1>1
    <3> HIDE DEF c, q
    <3> QED
      BY <2>1, <3>1
  <2>3. CASE results'[t] = Append(q, c) /\ freeBufferIndex' = freeBufferIndex
    BY <2>2, <2>3
  <2>4. CASE results'[t] = q /\ freeBufferIndex' = Append(freeBufferIndex, c)
    BY <2>2, <2>4
  <2> QED
    BY <2>3, <2>4, SortTo
<1>4. CountIn(<<>>, Moving) = 0 /\ Moving' = Moving
  BY CountEmpty DEF Moving, Instructions
<1>5. h = n + r
  <2>1. h = n + (r + 1 - 1) + 0
    BY <1>1, <1>4, LoadTermsNow DEF LoadTerms
  <2> HIDE DEF h, n, r
  <2> QED
    BY <1>1, <1>2, <2>1
<1>6. h2 = n - 1 + r2
  <2>0. r2 \in Nat
    <3> HIDE DEF r2, r
    <3> QED
      BY <1>2, <1>3
  <2>1. CASE n = 1
    <3>1. h2 = (r2 + 1 - 1) + 0
      BY <1>1, <1>4, <2>1, LoadTermsNext DEF LoadTerms
    <3> HIDE DEF h2, n, r2
    <3> QED
      BY <2>0, <2>1, <3>1
  <2>2. CASE n # 1
    <3>1. h2 = (n - 1) + (r2 + 1 - 1) + 0
      BY <1>1, <1>4, <2>2, LoadTermsNext DEF LoadTerms
    <3> HIDE DEF h2, n, r2
    <3> QED
      BY <1>1, <2>0, <3>1
  <2> QED
    BY <2>1, <2>2
<1>7. h <= DequeueCount /\ DequeueCount \in Nat
  BY BoundsAssumption DEF Placed
<1>8. Spread = f + o + p /\ Spread' = f2 + o + p
  BY <1>1 DEF Spread
<1>9. Spread' + h2 = Spread + h /\ h2 <= DequeueCount
  <2> HIDE DEF n, r, r2, f, f2, h, h2, o, p
  <2>1. n \in Nat
    BY <1>1
  <2> QED
    BY <1>2, <1>3, <1>5, <1>6, <1>7, <1>8, <2>1
<1> QED
  BY <1>1, <1>9, PlacedMoved

LEMMA PlacedNextResult ==
  ASSUME BaseInv, BaseInv', Placed, NEW t \in Threads, NextResult(t)
  PROVE  Placed'
<1> DEFINE r == Len(results[t])
           p == pos[t]
           c == results[t][p]
           h == Load(t)
           h2 == Load(t)'
<1>1. /\ p \in Nat /\ r \in Nat /\ p >= 1 /\ p <= r /\ c \in Buffers
      /\ pc[t] = "process" /\ pc'[t] = "process" /\ instructions[t] = <<>>
      /\ results'[t] = results[t] /\ pos'[t] = p + 1 /\ instructions'[t] = GetInstructions(c)
  BY ResultIs
<1>2. UNCHANGED <<freeBufferIndex, outstanding>>
  BY DEF NextResult, windows, manager
<1>3. CountIn(<<>>, Moving) = 0 /\ Moving' = Moving
  BY CountEmpty DEF Moving, Instructions
<1>4. CountIn(GetInstructions(c), Moving) = 1
  <2>1. /\ Receive \in Instructions /\ Send(c) \in Instructions /\ FreeInst(c) \in Instructions
    BY <1>1 DEF Instructions
  <2>2. Send(c) # Receive /\ FreeInst(c) # Receive
    <3>1. Receive.type = "RECEIVE" /\ Send(c).type = "SEND" /\ FreeInst(c).type = "FREEBUFFER"
      BY DEF Receive, Send, FreeInst
    <3> QED
      BY <3>1
  <2>3. Send(c) \in Moving /\ FreeInst(c) \in Moving /\ Receive \notin Moving
    BY <2>1, <2>2 DEF Moving
  <2> DEFINE x == Receive
             y == Send(c)
             z == FreeInst(c)
             D == Moving
  <2>4. {x, y, z} \subseteq Instructions /\ x \notin D /\ y \in D /\ z \in D
    BY <2>1, <2>3
  <2>5. CountIn(<<z>>, D) = 1 /\ CountIn(<<x, y>>, D) = 1
    <3> HIDE DEF x, y, z, D
    <3>1. CountIn(<<z>>, D) = IF z \in D THEN 1 ELSE 0
      BY <2>4, CountShort
    <3>2. CountIn(<<x, y>>, D) = (IF x \in D THEN 1 ELSE 0) + (IF y \in D THEN 1 ELSE 0)
      BY <2>4, CountShort
    <3> QED
      BY <2>4, <3>1, <3>2
  <2> QED
    BY <2>5 DEF GetInstructions
<1>5. h = (r + 1 - p) + 0
  BY <1>1, <1>3, LoadTermsNow DEF LoadTerms
<1>6. h2 = (r + 1 - (p + 1)) + 1
  BY <1>1, <1>3, <1>4, LoadTermsNext DEF LoadTerms
<1>7. h2 = h
  <2> HIDE DEF h, h2, r, p
  <2> QED
    BY <1>1, <1>5, <1>6
<1>8. Spread' = Spread
  BY <1>2 DEF Spread
<1>9. OthersStay(t)
  BY ResultIs, WorkerOnly
<1> QED
  BY <1>7, <1>8, <1>9, PlacedMoved DEF Placed

\* An instruction done: a segment it moved leaves the worker's hand.
LEMMA PlacedInstruction ==
  ASSUME BaseInv, BaseInv', Placed, NEW t \in Threads, NEW type, CurrentIs(t, type), Done(t), Worker(t),
         UNCHANGED <<pc, batch, results, pos>>,
         Spread' = Spread + (IF type = "RECEIVE" THEN 0 ELSE 1)
  PROVE  Placed'
<1> DEFINE i == instructions[t]
           j == instructions'[t]
           one == IF type = "RECEIVE" THEN 0 ELSE 1
           y == Len(results[t]) + 1 - pos[t]
           x == CountIn(i, Moving)
           x2 == CountIn(j, Moving)
           h == Load(t)
           h2 == Load(t)'
<1>1. /\ pc[t] = "process" /\ i \in Seq(Instructions) /\ i # <<>> /\ Head(i) \in Instructions
      /\ Tail(i) \in Seq(Instructions) /\ j = Tail(i) /\ Head(i).type = type
      /\ type = "RECEIVE" => Head(i) = Receive
  BY InstructionIs
<1>2. x = x2 + one
  <2>1. Head(i) = Receive <=> type = "RECEIVE"
    BY <1>1 DEF Receive
  <2>2. Head(i) \in Moving <=> type # "RECEIVE"
    BY <1>1, <2>1 DEF Moving
  <2> HIDE DEF i
  <2>3. CountIn(i, Moving) = CountIn(Tail(i), Moving) + (IF Head(i) \in Moving THEN 1 ELSE 0)
    BY <1>1, CountTail
  <2> QED
    BY <1>1, <2>2, <2>3
<1>3. h = y + x /\ y \in Nat /\ x \in Nat
  BY <1>1, LoadTermsNow DEF LoadTerms
<1>4. Moving' = Moving
  BY DEF Moving, Instructions
<1>5. h2 = y + x2 /\ x2 \in Nat
  BY <1>1, <1>4, LoadTermsNext DEF LoadTerms
<1>6. h <= DequeueCount /\ DequeueCount \in Nat /\ Spread \in Int /\ one \in Nat
  BY BoundsAssumption, LoadTermsNow DEF Placed, LoadTerms
<1>7. Spread' + h2 = Spread + h /\ h2 <= DequeueCount
  <2>1. Spread' = Spread + one
    OBVIOUS
  <2> HIDE DEF h, h2, x, x2, y, one
  <2> QED
    BY <1>2, <1>3, <1>5, <1>6, <2>1
<1>8. OthersStay(t)
  BY WorkerOnly
<1> QED
  BY <1>7, <1>8, PlacedMoved

\* What the pool and the request queues gain and lose by an instruction.
LEMMA PoolLengths ==
  ASSUME BaseInv
  PROVE  /\ Len(freeBufferIndex) \in Nat
         /\ \A c \in Buffers : Len(Append(freeBufferIndex, c)) = Len(freeBufferIndex) + 1
         /\ freeBufferIndex # <<>> =>
              /\ Len(Tail(freeBufferIndex)) = Len(freeBufferIndex) - 1
              /\ Len(Append(Tail(freeBufferIndex), Head(freeBufferIndex))) = Len(freeBufferIndex)
<1>1. freeBufferIndex \in Seq(Buffers)
  BY DEF BaseInv, Types
<1>2. Len(freeBufferIndex) \in Nat /\ \A c \in Buffers : Len(Append(freeBufferIndex, c)) = Len(freeBufferIndex) + 1
  BY <1>1
<1>3. ASSUME freeBufferIndex # <<>>
      PROVE  /\ Len(Tail(freeBufferIndex)) = Len(freeBufferIndex) - 1
             /\ Len(Append(Tail(freeBufferIndex), Head(freeBufferIndex))) = Len(freeBufferIndex)
  <2> DEFINE s == Tail(freeBufferIndex)
             c == Head(freeBufferIndex)
  <2>1. s \in Seq(Buffers) /\ c \in Buffers /\ Len(s) = Len(freeBufferIndex) - 1
    BY <1>1, <1>3
  <2>2. Len(Append(s, c)) = Len(s) + 1
    <3> HIDE DEF s, c
    <3> QED
      BY <2>1
  <2> HIDE DEF s, c
  <2>3. Len(Append(s, c)) = Len(freeBufferIndex)
    BY <1>2, <2>1, <2>2
  <2> QED
    BY <2>1, <2>3 DEF s, c
<1> QED
  BY <1>2, <1>3

LEMMA PlacedPostReceive ==
  ASSUME BaseInv, BaseInv', Placed, NEW t \in Threads, PostReceive(t)
  PROVE  Placed'
<1> DEFINE f == Len(freeBufferIndex)
           f2 == Len(freeBufferIndex')
           o == outstanding["OP_RECEIVE"]
           o2 == outstanding'["OP_RECEIVE"]
           p == outstanding["OP_SEND"]
<1>1. CurrentIs(t, "RECEIVE") /\ Done(t) /\ Worker(t) /\ UNCHANGED <<pc, batch, results, pos>>
  BY DEF PostReceive, Worker
<1>2. o \in Int /\ p \in Int /\ f \in Nat
  BY PoolLengths DEF BaseInv, Types, Kinds
<1>3. f2 + o2 = f + o /\ outstanding'["OP_SEND"] = p
  <2>1. CASE UNCHANGED <<freeBufferIndex, outstanding>>
    BY <2>1
  <2>2. CASE /\ freeBufferIndex # <<>> /\ freeBufferIndex' = Tail(freeBufferIndex)
             /\ Post("OP_RECEIVE", Head(freeBufferIndex))
    <3>1. "OP_RECEIVE" \in Kinds /\ "OP_SEND" \in Kinds \ {"OP_RECEIVE"} /\ Head(freeBufferIndex) \in Buffers
      BY <2>2, FreeHead DEF Kinds
    <3>2. o2 = o + 1 /\ outstanding'["OP_SEND"] = p
      BY <2>2, <3>1, PostCounts
    <3>3. f2 = f - 1
      BY <2>2, PoolLengths
    <3> HIDE DEF f, f2, o, o2
    <3> QED
      BY <1>2, <3>2, <3>3
  <2>3. CASE /\ freeBufferIndex # <<>> /\ outstanding' = outstanding
             /\ freeBufferIndex' = Append(Tail(freeBufferIndex), Head(freeBufferIndex))
    BY <2>3, PoolLengths
  <2> QED
    BY <2>1, <2>2, <2>3 DEF PostReceive, manager
<1>4. Spread' = Spread + (IF "RECEIVE" = "RECEIVE" THEN 0 ELSE 1)
  <2>1. Spread = f + o + p
    BY DEF Spread
  <2>2. Spread' = f2 + o2 + p
    BY <1>3 DEF Spread
  <2>3. f2 \in Nat /\ o2 \in Int
    BY PoolLengths, LoadTermsNext DEF BaseInv, Types, Kinds
  <2> HIDE DEF f, f2, o, o2, p
  <2>4. Spread' = Spread + 0
    BY <1>2, <1>3, <2>1, <2>2, <2>3
  <2> QED
    BY <2>4
<1> QED
  BY <1>1, <1>4, PlacedInstruction

LEMMA PlacedPostSend ==
  ASSUME BaseInv, BaseInv', Placed, NEW t \in Threads, PostSend(t)
  PROVE  Placed'
<1> DEFINE f == Len(freeBufferIndex)
           f2 == Len(freeBufferIndex')
           o == outstanding["OP_RECEIVE"]
           p == outstanding["OP_SEND"]
           p2 == outstanding'["OP_SEND"]
<1>1. CurrentIs(t, "SEND") /\ Done(t) /\ Worker(t) /\ UNCHANGED <<pc, batch, results, pos>>
  BY DEF PostSend, Worker
<1>2. o \in Int /\ p \in Int /\ f \in Nat
  BY PoolLengths DEF BaseInv, Types, Kinds
<1>3. PICK c \in Buffers : Head(instructions[t]) = Send(c)
  BY <1>1, InstructionIs
<1>4. Head(instructions[t]).buf = c
  BY <1>3 DEF Send
<1>5. outstanding'["OP_RECEIVE"] = o /\ ((f2 = f + 1 /\ p2 = p) \/ (f2 = f /\ p2 = p + 1))
  <2>1. CASE freeBufferIndex' = Append(freeBufferIndex, c) /\ outstanding' = outstanding
    BY <2>1, PoolLengths
  <2>2. CASE Post("OP_SEND", c) /\ freeBufferIndex' = freeBufferIndex
    <3>1. "OP_SEND" \in Kinds /\ "OP_RECEIVE" \in Kinds \ {"OP_SEND"}
      BY DEF Kinds
    <3> QED
      BY <2>2, <3>1, PostCounts
  <2> QED
    BY <1>4, <2>1, <2>2 DEF PostSend
<1>6. Spread' = Spread + (IF "SEND" = "RECEIVE" THEN 0 ELSE 1)
  <2>1. Spread = f + o + p
    BY DEF Spread
  <2>2. Spread' = f2 + o + p2
    BY <1>5 DEF Spread
  <2> HIDE DEF f, f2, o, p, p2
  <2>3. Spread' = Spread + 1
    BY <1>2, <1>5, <2>1, <2>2
  <2> QED
    BY <2>3
<1> QED
  BY <1>1, <1>6, PlacedInstruction

LEMMA PlacedFreeBuffer ==
  ASSUME BaseInv, BaseInv', Placed, NEW t \in Threads, FreeBuffer(t)
  PROVE  Placed'
<1>1. /\ CurrentIs(t, "FREEBUFFER") /\ Done(t) /\ Worker(t)
      /\ UNCHANGED <<outstanding, pc, batch, results, pos>>
      /\ freeBufferIndex' = Append(freeBufferIndex, Head(instructions[t]).buf)
  BY DEF FreeBuffer, Worker, windows
<1>2. PICK c \in Buffers : Head(instructions[t]) = FreeInst(c)
  BY <1>1, InstructionIs
<1>3. Len(freeBufferIndex') = Len(freeBufferIndex) + 1
  BY <1>1, <1>2, PoolLengths DEF FreeInst
<1>4. Spread' = Spread + (IF "FREEBUFFER" = "RECEIVE" THEN 0 ELSE 1)
  <2> DEFINE f == Len(freeBufferIndex)
             o == outstanding["OP_RECEIVE"]
             p == outstanding["OP_SEND"]
  <2>1. f \in Nat /\ o \in Int /\ p \in Int /\ Spread = f + o + p
    BY PoolLengths DEF BaseInv, Types, Kinds, Spread
  <2>2. Spread' = f + 1 + o + p
    BY <1>1, <1>3 DEF Spread
  <2> HIDE DEF f, o, p
  <2>3. Spread' = Spread + 1
    BY <2>1, <2>2
  <2> QED
    BY <2>3
<1> QED
  BY <1>1, <1>4, PlacedInstruction

LEMMA PlacedNext ==
  ASSUME BaseInv, BaseInv', [Next]_vars, Own, Placed, Unharmed'
  PROVE  Placed'
<1>p. pc \in [Threads -> PCs]
  BY DEF BaseInv, Types
<1>1. ASSUME NEW t \in Threads, Worker(t) PROVE Placed'
  <2>o. OthersStay(t)
    BY <1>1, WorkerOnly
  <2>a. ASSUME NEW l, pc[t] # "sorting", l # "sorting", pc' = [pc EXCEPT ![t] = l],
               UNCHANGED <<results, pos, instructions, freeBufferIndex, outstanding>>
        PROVE  Placed'
    <3>1. pc'[t] # "sorting"
      BY <1>p, <2>a
    <3> QED
      BY <2>a, <2>o, <3>1, PlacedIdle
  <2>1. CASE RIONotify(t)
    BY <2>1, <2>a DEF RIONotify, Goto, manager, thread
  <2>2. CASE GetQueuedCompletionStatus(t)
    <3>1. PICK l \in {"dequeue", "accept", "exited", "notify", "quit"} : pc' = [pc EXCEPT ![t] = l]
      BY <2>2, GetGoes
    <3> QED
      BY <2>2, <2>a, <3>1 DEF GetQueuedCompletionStatus, manager, thread
  <2>3. CASE Quit(t)
    BY <2>3, <2>a DEF Quit, Goto, manager, thread
  <2>4. CASE Accept(t)
    BY <2>4, <2>a DEF Accept, Goto, manager, thread
  <2>5. CASE DequeueEnter(t)
    BY <2>5, <2>a DEF DequeueEnter, Goto, manager, windows
  <2>6. CASE DequeueLeave(t)
    BY <2>6, PlacedDequeueLeave
  <2>7. CASE Sort(t)
    BY <2>7, PlacedSort
  <2>8. CASE NextResult(t)
    BY <2>8, PlacedNextResult
  <2>9. CASE EndOfResults(t)
    BY <2>9, <2>a DEF EndOfResults, Goto, manager, thread, windows
  <2>10. CASE PostReceive(t)
    BY <2>10, PlacedPostReceive
  <2>11. CASE PostSend(t)
    BY <2>11, PlacedPostSend
  <2>12. CASE FreeBuffer(t)
    BY <2>12, PlacedFreeBuffer
  <2> QED
    BY <1>1, <2>1, <2>2, <2>3, <2>4, <2>5, <2>6, <2>7, <2>8, <2>9, <2>10, <2>11, <2>12 DEF Worker
<1>2. CASE Environment \/ JoinAndShutdown
  <2>1. /\ UNCHANGED <<pc, batch, results, pos, instructions, freeBufferIndex, operationType>>
        /\ UNCHANGED <<outstanding, lost, faults>>
    BY <1>2, OutsideStays
  <2> QED
    BY <2>1, PlacedOutside
<1>3. CASE UNCHANGED vars
  BY <1>3, PlacedOutside DEF vars, windows, manager, thread
<1> QED
  BY <1>1, <1>2, <1>3 DEF Next

LEMMA PlacedInit == Init => Placed
<1> SUFFICES ASSUME Init PROVE Placed
  OBVIOUS
<1>1. ASSUME NEW t \in Threads PROVE Load(t) = 0
  <2>1. pc[t] = "notify" /\ results[t] = <<>> /\ pos[t] = 1 /\ instructions[t] = <<>>
    BY DEF Init
  <2>2. Len(<<>>) = 0 /\ CountIn(<<>>, Moving) = 0
    BY CountEmpty
  <2>3. Load(t) = (0 + 1 - 1) + 0
    BY <2>1, <2>2, BaseInit, LoadTermsNow DEF LoadTerms
  <2> QED
    BY <2>3
<1>2. [t \in Threads |-> Load(t)] = [t \in Threads |-> 0]
  BY <1>1
<1>3. LoadSum = 0
  BY <1>2, ThreadsAssumption, SumOfZeros DEF LoadSum
<1>4. PICK order \in Orders : freeBufferIndex = SubSeq(order, MaxReceives + 1, Cardinality(Buffers))
  BY DEF Init
<1> DEFINE n == Cardinality(Buffers)
           f == Len(freeBufferIndex)
<1>5. n \in Nat /\ MaxReceives \in Nat /\ MaxReceives <= n
  BY BuffersAssumption, BoundsAssumption, FS_CardinalityType
<1>6. f = n - MaxReceives
  <2>1. order \in Seq(Buffers) /\ Len(order) = n
    BY <1>5 DEF Orders
  <2> HIDE DEF n
  <2>2. Len(SubSeq(order, MaxReceives + 1, n)) = n - MaxReceives
    BY <1>5, <2>1
  <2> QED
    BY <1>4, <2>2 DEF n
<1>7. Spread = f + MaxReceives + 0
  BY DEF Init, Spread, Kinds
<1> HIDE DEF n, f
<1>8. Spread + LoadSum = n
  BY <1>3, <1>5, <1>6, <1>7
<1>9. \A t \in Threads : Load(t) <= DequeueCount
  BY <1>1, BoundsAssumption
<1> QED
  BY <1>8, <1>9 DEF Placed, n

LEMMA PlacedInvariant == Spec => []PlacedInv
<1>1. Init => PlacedInv
  BY PlacedInit DEF PlacedInv
<1>2. BaseInv /\ BaseInv' /\ OwnInv /\ PlacedInv /\ [Next]_vars => PlacedInv'
  BY PlacedNext, HarmStays DEF PlacedInv, OwnInv
<1> QED
  BY <1>1, <1>2, OwnInvariant, BaseInvariant, PTL DEF Spec

\* A segment for every request the two queues can hold and every result a worker can.
\* A worker with a receive to post: one receive at least is on its way.
LEMMA RepostHeld ==
  ASSUME BaseInv, NEW t \in Threads, CurrentIs(t, "RECEIVE"), Done(t)
  PROVE  RepostSum \in Int /\ RepostSum >= 1
<1> DEFINE r == ToRepost(t)
           f == [u \in Threads |-> ToRepost(u)]
<1>1. r >= 1
  <2> DEFINE i == instructions[t]
  <2>1. i \in Seq(Instructions) /\ i # <<>> /\ Head(i) = Receive /\ pc[t] = "process"
    BY InstructionIs
  <2> HIDE DEF i
  <2>2. 1 \in 1..Len(i) /\ i[1] \in {Receive}
    BY <2>1
  <2>3. CountIn(i, {Receive}) >= 1
    BY <2>1, <2>2, CountOne
  <2> DEFINE x == CountIn(i, {Receive})
             y == CountFrom(results[t], pos[t], Receiving)
  <2>4. r = y + x /\ y \in Nat /\ x \in Nat
    BY <2>1, RepostTermsNow DEF RepostTerms, i
  <2> HIDE DEF x, y, r
  <2> QED
    BY <2>3, <2>4 DEF x
<1>2. \A u \in Threads : ToRepost(u) \in Nat
  BY RepostTermsNow DEF RepostTerms
<1>3. f \in [Threads -> Int] /\ (\A u \in Threads : f[u] >= 0) /\ f[t] = r /\ r \in Nat
  BY <1>2
<1>4. RepostSum = SumFunction(f)
  BY DEF RepostSum
<1> HIDE DEF f, r
<1>5. SumFunction(f) >= f[t] /\ SumFunction(f) \in Int
  BY <1>3, ThreadsAssumption, SumAtLeast, SumInt
<1> QED
  BY <1>1, <1>3, <1>4, <1>5

\* A worker with a receive to post and an empty pool: the receive in its hand has no
\* place on the request queue, nor have those dropped before, so all the segments are in
\* the places left on the two queues and in the workers' hands.
LEMMA DropNeedsHands ==
  ASSUME BaseInv, RequestInv, Credit, Placed, freeBufferIndex = <<>>,
         NEW t \in Threads, CurrentIs(t, "RECEIVE"), Done(t)
  PROVE  lost.noBuffer + 1 + Cardinality(Buffers)
           <= MaxReceives + MaxSends + Cardinality(Threads) * DequeueCount
<1> DEFINE o == outstanding["OP_RECEIVE"]
           p == outstanding["OP_SEND"]
           k == Cardinality(Threads) * DequeueCount
           n == Cardinality(Buffers)
           x == LoadSum
           y == RepostSum
           d == lost.noBuffer
           e == lost.refused
           f == lost.error
<1>1. y \in Int /\ y >= 1
  BY RepostHeld
<1>2. x <= k /\ x \in Int /\ k \in Int
  <2> DEFINE h == [u \in Threads |-> Load(u)]
             g == [u \in Threads |-> DequeueCount]
  <2>1. \A u \in Threads : Load(u) \in Nat /\ Load(u) <= DequeueCount
    BY LoadTermsNow DEF LoadTerms, Placed
  <2>2. DequeueCount \in Nat /\ Cardinality(Threads) \in Nat
    BY BoundsAssumption, ThreadsAssumption, FS_CardinalityType
  <2>3. h \in [Threads -> Int] /\ g \in [Threads -> Int] /\ \A u \in Threads : h[u] <= g[u]
    BY <2>1, <2>2
  <2>4. x = SumFunction(h)
    BY DEF LoadSum
  <2>5. SumFunction(g) = DequeueCount * Cardinality(Threads)
    BY <2>2, ThreadsAssumption, SumOfSame
  <2>6. k = DequeueCount * Cardinality(Threads) /\ k \in Int
    BY <2>2
  <2> HIDE DEF h, g, x, k
  <2>7. SumFunction(h) <= SumFunction(g) /\ SumFunction(h) \in Int
    BY <2>3, ThreadsAssumption, SumLess, SumInt
  <2> QED
    BY <2>4, <2>5, <2>6, <2>7
<1>3. o \in Int /\ p \in Int /\ p <= MaxSends
  BY DEF BaseInv, Types, Kinds, RequestInv, Limit
<1>4. d \in Nat /\ e \in Nat /\ f \in Nat
  BY DEF BaseInv, Types
<1>5. o + (d + e) + f + y = MaxReceives
  BY DEF Credit, Stock, Dropped
<1>6. MaxReceives \in Nat /\ MaxSends \in Nat /\ n \in Nat
  BY BoundsAssumption, BuffersAssumption, FS_CardinalityType
<1>7. 0 + o + p + x = n
  <2>1. Len(freeBufferIndex) = 0
    OBVIOUS
  <2> QED
    BY <2>1 DEF Placed, Spread
<1>8. d + 1 + n <= MaxReceives + MaxSends + k
  <2> HIDE DEF o, p, k, n, x, y, d, e, f
  <2> QED
    BY <1>1, <1>2, <1>3, <1>4, <1>5, <1>6, <1>7
<1> QED
  BY <1>8

LEMMA DropNext ==
  ASSUME BaseInv, RequestInv, [Next]_vars, Credit, Placed, Unharmed, DropsBounded
  PROVE  DropsBounded'
<1>1. lost \in [{"noBuffer", "refused", "error"} -> Nat]
  BY DEF BaseInv, Types
<1>2. ASSUME lost'.noBuffer = lost.noBuffer PROVE DropsBounded'
  BY <1>2 DEF DropsBounded
<1>3. ASSUME NEW t \in Threads, Worker(t) PROVE DropsBounded'
  <2>1. CASE PostReceive(t)
    <3>1. CurrentIs(t, "RECEIVE") /\ Done(t)
      BY <2>1 DEF PostReceive
    <3>2. CASE freeBufferIndex = <<>>
      <4>1. lost'.noBuffer = lost.noBuffer + 1
        BY <1>1, <2>1, <3>2 DEF PostReceive
      <4> QED
        BY <3>1, <3>2, <4>1, DropNeedsHands DEF DropsBounded
    <3>3. CASE freeBufferIndex # <<>>
      <4>1. lost' = lost \/ lost' = [lost EXCEPT !.refused = @ + 1]
        BY <2>1, <3>3 DEF PostReceive
      <4> QED
        BY <1>1, <1>2, <4>1
    <3> QED
      BY <3>2, <3>3
  <2>2. CASE Sort(t)
    <3>1. \/ lost' = lost
          \/ lost' = IF Head(batch[t]).kind = "OP_RECEIVE" THEN [lost EXCEPT !.error = @ + 1] ELSE lost
      BY <2>2, SortTo
    <3> QED
      BY <1>1, <1>2, <3>1
  <2>3. CASE RIONotify(t) \/ GetQueuedCompletionStatus(t) \/ Quit(t) \/ Accept(t) \/ DequeueEnter(t)
    BY <1>2, <2>3 DEF RIONotify, GetQueuedCompletionStatus, Quit, Accept, DequeueEnter, history
  <2>4. CASE DequeueLeave(t) \/ NextResult(t) \/ EndOfResults(t) \/ PostSend(t) \/ FreeBuffer(t)
    BY <1>2, <2>4 DEF DequeueLeave, NextResult, EndOfResults, PostSend, FreeBuffer, history
  <2> QED
    BY <1>3, <2>1, <2>2, <2>3, <2>4 DEF Worker
<1>4. CASE Environment \/ JoinAndShutdown
  BY <1>2, <1>4, OutsideStays
<1>5. CASE UNCHANGED vars
  BY <1>2, <1>5 DEF vars, history
<1> QED
  BY <1>3, <1>4, <1>5 DEF Next

\* However long the service runs, the receives it loses for want of a segment are
\* bounded by what its workers can hold at once: one for each of those results that has
\* no segment of its own in the pool.  With the pool of _tmain, MaxReceives + MaxSends
\* segments, that is Cardinality(Threads) * DequeueCount; no assumption on the pool is made.
THEOREM DropsStayBounded == Spec => []DropsBounded
<1>1. Init => DropsBounded
  BY DEF Init, DropsBounded
<1>2. BaseInv /\ RequestInv /\ CreditInv /\ PlacedInv /\ DropsBounded /\ [Next]_vars => DropsBounded'
  <2> SUFFICES ASSUME BaseInv, RequestInv, CreditInv, PlacedInv, DropsBounded, [Next]_vars, Unharmed'
               PROVE  DropsBounded'
    BY DEF DropsBounded
  <2>1. Unharmed
    BY HarmStays
  <2> QED
    BY <2>1, DropNext DEF CreditInv, PlacedInv
<1>3. StateInv => BaseInv /\ RequestInv
  BY DEF StateInv
<1> QED
  BY <1>1, <1>2, <1>3, StateInvariant, CreditInvariant, PlacedInvariant, PTL DEF Spec
=============================================================================
