---------------------------- MODULE DiscoveryProofs ----------------------------
(***************************************************************************)
(* Proofs about Discovery, for any number of devices, libupnp threads and  *)
(* user threads, and visitors that come and go in any order.               *)
(***************************************************************************)
EXTENDS Discovery, SequenceTheorems, TLAPS

\* A libupnp thread has a task from the message on, the explorer from the take
\* on.
Tasked ==
  /\ \A t \in NetThreads : tpc[t] # "idle" => task[t] \in Task
  /\ epc \in {"insert", "visit", "byebye", "lost"} => tsk \in Task

\* addCallback() keeps o_callbacks_mutex from the push to the end, and what it
\* pushed is there.
Registering ==
  \A u \in Users :
    IF upc[u] = "addCallback"
      THEN /\ callbacks_mutex = u
           /\ uarg[u] \in Visitors /\ Contains(o_callbacks, uarg[u])
      ELSE uarg[u] = None

Shape == TypeOK /\ Tasked /\ Registering

-----------------------------------------------------------------------------
(* The vectors of visitors.                                                 *)

LEMMA AppendIs ==
  ASSUME NEW S, NEW s \in Seq(S), NEW e \in S
  PROVE  /\ Append(s, e) \in Seq(S) /\ Len(Append(s, e)) = Len(s) + 1
         /\ Contains(Append(s, e), e)
         /\ \A x : Contains(Append(s, e), x) <=> Contains(s, x) \/ x = e
<1>1. /\ Append(s, e) \in Seq(S) /\ Len(Append(s, e)) = Len(s) + 1
      /\ Len(s) \in Nat
      /\ \A i \in 1..Len(s) : Append(s, e)[i] = s[i]
      /\ Append(s, e)[Len(s) + 1] = e
  BY AppendProperties, LenProperties
<1>2. ASSUME NEW x
      PROVE  Contains(Append(s, e), x) <=> Contains(s, x) \/ x = e
  <2>1. Contains(s, x) => Contains(Append(s, e), x)
    BY <1>1 DEF Contains
  <2>2. Contains(Append(s, e), e)
    BY <1>1 DEF Contains
  <2>3. Contains(Append(s, e), x) => Contains(s, x) \/ x = e
    <3> SUFFICES ASSUME NEW i \in 1..(Len(s) + 1), Append(s, e)[i] = x
                 PROVE  Contains(s, x) \/ x = e
      BY <1>1 DEF Contains
    <3>1. CASE i = Len(s) + 1
      BY <3>1, <1>1
    <3>2. CASE i \in 1..Len(s)
      BY <3>2, <1>1 DEF Contains
    <3> QED  BY <3>1, <3>2, <1>1
  <2> QED  BY <2>1, <2>2, <2>3
<1> QED  BY <1>1, <1>2

\* An erased vector has the others where they were, or one place to the left.
LEMMA EraseIs ==
  ASSUME NEW S, NEW s \in Seq(S), NEW idx \in Nat, idx < Len(s)
  PROVE  /\ Erase(s, idx) \in Seq(S)
         /\ Len(Erase(s, idx)) = Len(s) - 1
         /\ \A i \in 1..(Len(s) - 1) :
              Erase(s, idx)[i] = IF i <= idx THEN s[i] ELSE s[i + 1]
<1> DEFINE a == SubSeq(s, 1, idx)
           b == SubSeq(s, idx + 2, Len(s))
<1>1. Len(s) \in Nat /\ \A i \in 1..Len(s) : s[i] \in S
  BY LenProperties, ElementOfSeq
<1>2. Erase(s, idx) = a \o b
  <2>1. (idx + 1) - 1 = idx /\ (idx + 1) + 1 = idx + 2 /\ ~(idx >= Len(s))
    BY <1>1
  <2> QED  BY <2>1 DEF Erase, RemoveAt
<1>3. a \in Seq(S) /\ Len(a) = idx /\ \A i \in 1..idx : a[i] = s[i]
  <2>1. 1 \in Int /\ idx \in Int /\ \A i \in 1..idx : s[i] \in S
    BY <1>1
  <2> QED  BY <2>1, SubSeqProperties
<1>4. /\ b \in Seq(S) /\ Len(b) = Len(s) - 1 - idx
      /\ \A i \in 1..(Len(s) - 1 - idx) : b[i] = s[idx + 1 + i]
  <2>1. idx + 2 \in Int /\ Len(s) \in Int /\ \A i \in (idx + 2)..Len(s) : s[i] \in S
    BY <1>1
  <2> QED  BY <2>1, <1>1, SubSeqProperties
<1>5. /\ a \o b \in Seq(S) /\ Len(a \o b) = Len(s) - 1
      /\ \A i \in 1..(Len(s) - 1) : (a \o b)[i] = IF i <= idx THEN a[i] ELSE b[i - idx]
  <2> HIDE DEF a, b
  <2>1. /\ a \o b \in Seq(S) /\ Len(a \o b) = Len(a) + Len(b)
        /\ \A i \in 1..(Len(a) + Len(b)) :
             (a \o b)[i] = IF i <= Len(a) THEN a[i] ELSE b[i - Len(a)]
    BY <1>3, <1>4, ConcatProperties
  <2>2. Len(a) + Len(b) = Len(s) - 1 /\ Len(a) = idx
    BY <1>1, <1>3, <1>4
  <2> QED  BY <2>1, <2>2
<1>6. ASSUME NEW i \in 1..(Len(s) - 1)
      PROVE  (a \o b)[i] = IF i <= idx THEN s[i] ELSE s[i + 1]
  <2> HIDE DEF a, b
  <2>1. CASE i <= idx
    BY <2>1, <1>1, <1>3, <1>5
  <2>2. CASE i > idx
    <3>1. i - idx \in 1..(Len(s) - 1 - idx) /\ idx + 1 + (i - idx) = i + 1
      BY <2>2, <1>1
    <3>2. (a \o b)[i] = b[i - idx]
      BY <2>2, <1>1, <1>5
    <3>3. b[i - idx] = s[idx + 1 + (i - idx)]
      BY <3>1, <1>4
    <3> QED  BY <3>1, <3>2, <3>3, <2>2, <1>1
  <2>3. i <= idx \/ (i > idx /\ ~(i <= idx))
    BY <1>1
  <2> QED  BY <2>1, <2>2, <2>3
<1> QED  BY <1>2, <1>5, <1>6

\* Nobody joins a vector by an erasure, with a stale index or not.
LEMMA EraseOnlyRemoves ==
  ASSUME NEW S, NEW s \in Seq(S), NEW idx \in Nat
  PROVE  /\ Erase(s, idx) \in Seq(S)
         /\ \A x : Contains(Erase(s, idx), x) => Contains(s, x)
<1>0. Len(s) \in Nat
  BY LenProperties
<1>1. CASE idx >= Len(s)
  BY <1>1 DEF Erase
<1>2. CASE idx < Len(s)
  <2>1. ASSUME NEW x, Contains(Erase(s, idx), x)
        PROVE  Contains(s, x)
    <3>1. PICK i \in 1..(Len(s) - 1) : Erase(s, idx)[i] = x
      BY <2>1, <1>2, EraseIs DEF Contains
    <3>2. s[i] = x \/ s[i + 1] = x
      BY <3>1, <1>2, EraseIs
    <3> QED  BY <3>2, <1>0 DEF Contains
  <2> QED  BY <2>1, <1>2, EraseIs
<1> QED  BY <1>0, <1>1, <1>2

-----------------------------------------------------------------------------
(* Types.                                                                   *)

LEMMA PoolSteps ==
  ASSUME Shape, NEW d \in Devices, Forget(d)
  PROVE  /\ view' \in [Visitors -> [Devices -> Desc]]
         /\ m_devices' \in [Devices -> Desc] /\ expired' \subseteq Devices
BY BoundAssumption DEF Shape, TypeOK, Forget, Lost, Desc

LEMMA ShapeInit == Init => Shape
<1> SUFFICES ASSUME Init PROVE Shape
  OBVIOUS
<1>1. 0 \in Desc
  BY BoundAssumption DEF Desc
<1>2. TypeOK
  <2>1. /\ on \subseteq Devices /\ desc \in [Devices -> Desc]
        /\ last \in [Devices -> {"none", "alive", "byebye"}]
        /\ o_downloading \subseteq Devices
        /\ m_devices \in [Devices -> Desc] /\ expired \subseteq Devices
        /\ overtaken \subseteq Devices
        /\ view \in [Visitors -> [Devices -> Desc]] /\ satisfied \subseteq Visitors
    BY <1>1 DEF Init
  <2>2. /\ tpc \in [NetThreads -> NetPC] /\ task \in [NetThreads -> Task \cup {None}]
        /\ epc \in ExplorerPC /\ tsk \in Task \cup {None}
        /\ theDevDir \in {"none", "up", "terminated"}
        /\ queue \in Seq(Task) /\ running \in BOOLEAN
    BY EmptySeq DEF Init, NetPC, ExplorerPC
  <2>3. /\ pool_mutex \in Threads \cup {None} /\ callbacks_mutex \in Threads \cup {None}
        /\ o_callbacks \in Seq(Visitors \cup {Waker}) /\ o_lostCallbacks \in Seq(Visitors)
        /\ handle \in [Visitors -> Nat \cup {None}]
        /\ lostHandle \in [Visitors -> Nat \cup {None}] /\ moved \subseteq Visitors
        /\ upc \in [Users -> UserPC] /\ uarg \in [Users -> Visitors \cup {None}]
    BY EmptySeq DEF Init, UserPC
  <2> QED  BY <2>1, <2>2, <2>3 DEF TypeOK
<1>3. Tasked /\ Registering
  BY DEF Init, Tasked, Registering
<1> QED  BY <1>2, <1>3 DEF Shape

LEMMA ShapeNetwork ==
  ASSUME Shape, Network
  PROVE  Shape'
<1> USE DEF Shape
<1> PICK d \in Devices :
      \/ ComeUp(d) \/ GoSilently(d) \/ Expires(d)
      \/ \E t \in NetThreads : Announce(d, t) \/ GoWithByebye(d, t)
  BY DEF Network
<1>1. CASE ComeUp(d)
  BY <1>1, BoundAssumption
     DEF ComeUp, TypeOK, Tasked, Registering, Desc, msgVars, explorerVars, queueVars,
         directoryVars, poolVars, callbackVars, viewVars, foundVars, lostVars, userVars
<1>2. CASE GoSilently(d)
  BY <1>2
     DEF GoSilently, TypeOK, Tasked, Registering, msgVars, explorerVars, queueVars,
         directoryVars, poolVars, callbackVars, viewVars, foundVars, lostVars, userVars
<1>3. CASE Expires(d)
  BY <1>3
     DEF Expires, TypeOK, Tasked, Registering, netVars, msgVars, explorerVars,
         queueVars, callbackVars, viewVars, foundVars, lostVars, userVars
<1>4. ASSUME NEW t \in NetThreads, Announce(d, t) \/ GoWithByebye(d, t)
      PROVE  Shape'
  <2>1. [alive |-> TRUE, dev |-> d, desc |-> 0] \in Task
        /\ [alive |-> FALSE, dev |-> d, desc |-> 0] \in Task
    BY BoundAssumption DEF Task, Desc
  <2>a. PICK new \in Task :
          /\ task' = [task EXCEPT ![t] = new]
          /\ \E pc \in NetPC : tpc' = [tpc EXCEPT ![t] = pc]
          /\ \E m \in {"alive", "byebye"} : last' = [last EXCEPT ![d] = m]
          /\ overtaken' \subseteq overtaken \cup {d}
    BY <1>4, <2>1 DEF Announce, GoWithByebye, Receive, NetPC
  <2>2. Tasked'
    BY <1>4, <2>a DEF Announce, GoWithByebye, TypeOK, Tasked, explorerVars
  <2>3. TypeOK'
    <3>1. /\ tpc' \in [NetThreads -> NetPC] /\ task' \in [NetThreads -> Task \cup {None}]
          /\ last' \in [Devices -> {"none", "alive", "byebye"}]
          /\ overtaken' \subseteq Devices
      BY <2>a DEF TypeOK
    <3> QED
      BY <1>4, <3>1
         DEF Announce, GoWithByebye, TypeOK, explorerVars, queueVars, directoryVars,
             poolVars, callbackVars, viewVars, foundVars, lostVars, userVars
  <2>4. Registering'
    BY <1>4
       DEF Announce, GoWithByebye, Registering, directoryVars, callbackVars, viewVars,
           foundVars, lostVars, userVars
  <2> QED  BY <2>2, <2>3, <2>4
<1> QED  BY <1>1, <1>2, <1>3, <1>4

LEMMA ShapeNetThread ==
  ASSUME Shape, NEW t \in NetThreads, NetThread(t)
  PROVE  Shape'
<1> USE DEF Shape
<1>1. CASE DownloadStart(t)
  <2>1. /\ tpc' \in [NetThreads -> NetPC] /\ task' \in [NetThreads -> Task \cup {None}]
        /\ Tasked'
    BY <1>1
       DEF DownloadStart, NetGoes, NetDone, TypeOK, Tasked, NetPC, explorerVars
  <2>2. task[t].dev \in Devices
    BY <1>1 DEF DownloadStart, Tasked, Task
  <2> QED
    BY <1>1, <2>1, <2>2
       DEF DownloadStart, TypeOK, Registering, netVars, explorerVars, queueVars,
           directoryVars, poolVars, callbackVars, viewVars, foundVars, lostVars,
           userVars
<1>2. CASE Download(t)
  <2>1. task[t] \in Task /\ [task[t] EXCEPT !.desc = desc[task[t].dev]] \in Task
    BY <1>2 DEF Download, TypeOK, Tasked, Task
  <2>2. task' \in [NetThreads -> Task \cup {None}] /\ task'[t] \in Task
        /\ \A s \in NetThreads : s # t => task'[s] = task[s]
    BY <1>2, <2>1 DEF Download, TypeOK
  <2> QED
    BY <1>2, <2>2
       DEF Download, TypeOK, Tasked, Registering, NetPC, netVars, explorerVars,
           queueVars, directoryVars, poolVars, callbackVars, viewVars, foundVars,
           lostVars, userVars
<1>3. CASE DownloadEnd(t)
  BY <1>3
     DEF DownloadEnd, Kept, NetGoes, NetDone, TypeOK, Tasked, Registering, NetPC,
         netVars, explorerVars, queueVars, directoryVars, poolVars, callbackVars,
         viewVars, foundVars, lostVars, userVars
<1>4. CASE Put(t)
  <2>1. queue' \in Seq(Task) /\ running' \in BOOLEAN
    <3>1. task[t] \in Task /\ queue \in Seq(Task) /\ running \in BOOLEAN
      BY <1>4 DEF Put, TypeOK, Tasked
    <3>2. CASE Queue!Accept(task[t], queue)
      BY <3>1, <3>2, AppendProperties DEF Queue!Accept
    <3>3. CASE UNCHANGED <<queue, running>>
      BY <3>1, <3>3
    <3> QED  BY <1>4, <3>2, <3>3 DEF Put
  <2> QED
    BY <1>4, <2>1
       DEF Put, NetDone, TypeOK, Tasked, Registering, NetPC, netVars, directoryVars,
           poolVars, callbackVars, viewVars, foundVars, lostVars, userVars
<1> QED  BY <1>1, <1>2, <1>3, <1>4 DEF NetThread

\* A thread that goes on with its expiry leaves what it is about alone.
LEMMA GotoIs ==
  ASSUME Shape, NEW th \in Threads, NEW pc, Goto(th, pc),
         PC(th) \in {"expire", "expiring"},
         pc \in IF th = Explorer THEN {"expiring", "take"} ELSE {"expiring", "traverse"}
  PROVE  /\ epc' \in ExplorerPC /\ upc' \in [Users -> UserPC]
         /\ epc' \in {epc, "expiring", "take"}
         /\ \A u \in Users : /\ upc[u] = "addCallback" <=> upc'[u] = "addCallback"
         /\ UNCHANGED <<tsk, uarg>>
BY DEF Shape, TypeOK, Threads, Goto, PC, ExplorerPC, UserPC

LEMMA ShapeExpiring ==
  ASSUME Shape, NEW th \in Threads, Expiring(th)
  PROVE  Shape'
<1> USE DEF Shape
<1>1. CASE ExpireOne(th)
  <2>1. PICK d \in expired : Forget(d)
    BY <1>1 DEF ExpireOne
  <2>2. /\ view' \in [Visitors -> [Devices -> Desc]]
        /\ m_devices' \in [Devices -> Desc] /\ expired' \subseteq Devices
    BY <2>1, PoolSteps DEF TypeOK
  <2> QED
    BY <1>1, <2>1, <2>2
       DEF ExpireOne, Forget, TypeOK, Tasked, Registering, netVars, msgVars,
           explorerVars, queueVars, foundVars, lostVars, userVars
<1>2. CASE ExpireLock(th) \/ ExpireUnlock(th)
  <2>1. /\ epc' \in ExplorerPC /\ upc' \in [Users -> UserPC]
        /\ epc' \in {epc, "expiring", "take"}
        /\ \A u \in Users : /\ upc[u] = "addCallback" <=> upc'[u] = "addCallback"
        /\ UNCHANGED <<tsk, uarg>>
    <3>1. CASE ExpireLock(th)
      BY <3>1, GotoIs DEF ExpireLock
    <3>2. CASE ExpireUnlock(th)
      BY <3>2, GotoIs DEF ExpireUnlock
    <3> QED  BY <1>2, <3>1, <3>2
  <2> QED
    BY <1>2, <2>1
       DEF ExpireLock, ExpireUnlock, TypeOK, Tasked, Registering, netVars, msgVars,
           queueVars, callbackVars, viewVars, foundVars, lostVars
<1> QED  BY <1>1, <1>2 DEF Expiring

LEMMA ShapeExplore ==
  ASSUME Shape, Explore
  PROVE  Shape'
<1> USE DEF Shape
<1>1. CASE Take
  <2>1. /\ Head(queue) \in Task /\ Tail(queue) \in Seq(Task)
    BY <1>1, HeadTailProperties DEF Take, TypeOK
  <2>2. queue' = Tail(queue) /\ UNCHANGED running
    BY <1>1 DEF Take, Queue!Deliver
  <2> QED
    BY <1>1, <2>1, <2>2
       DEF Take, TypeOK, Tasked, Registering, ExplorerPC, netVars, msgVars,
           directoryVars, poolVars, callbackVars, viewVars, foundVars, lostVars,
           userVars
<1>2. CASE TakeWait \/ TakeTimeout \/ Exit \/ ParseFails
  BY <1>2
     DEF TakeWait, TakeTimeout, AfterTimeout, Exit, ParseFails, TaskDone, TypeOK,
         Tasked, Registering, ExplorerPC, netVars, msgVars, queueVars, directoryVars,
         poolVars, callbackVars, viewVars, foundVars, lostVars, userVars
<1>3. CASE Insert
  <2>1. tsk \in Task /\ tsk.dev \in Devices /\ tsk.desc \in Desc
    BY <1>3 DEF Insert, Tasked, Task
  <2> QED
    BY <1>3, <2>1
       DEF Insert, Stored, TypeOK, Tasked, Registering, ExplorerPC, netVars, msgVars,
           queueVars, callbackVars, viewVars, foundVars, lostVars, userVars
<1>4. CASE Visit
  <2>1. tsk \in Task /\ tsk.dev \in Devices /\ tsk.desc \in Desc
    BY <1>4 DEF Visit, Tasked, Task
  <2> QED
    BY <1>4, <2>1
       DEF Visit, TaskDone, Found, TypeOK, Tasked, Registering, ExplorerPC, netVars,
           msgVars, queueVars, poolVars, foundVars, lostVars, userVars
<1>5. CASE ByebyeLock
  BY <1>5
     DEF ByebyeLock, TaskDone, TypeOK, Tasked, Registering, ExplorerPC, Threads,
         netVars, msgVars, queueVars, callbackVars, viewVars, foundVars, lostVars,
         userVars
<1>6. CASE ByebyeLost
  <2>1. tsk \in Task /\ tsk.dev \in Devices
    BY <1>6 DEF ByebyeLost, Tasked, Task
  <2>2. /\ view' \in [Visitors -> [Devices -> Desc]]
        /\ m_devices' \in [Devices -> Desc] /\ expired' \subseteq Devices
    BY <1>6, <2>1, PoolSteps DEF ByebyeLost
  <2> QED
    BY <1>6, <2>2
       DEF ByebyeLost, TaskDone, Forget, TypeOK, Tasked, Registering, ExplorerPC,
           netVars, msgVars, queueVars, foundVars, lostVars, userVars
<1>7. CASE Expiring(Explorer)
  BY <1>7, ShapeExpiring DEF Threads
<1> QED  BY <1>1, <1>2, <1>3, <1>4, <1>5, <1>6, <1>7 DEF Explore

LEMMA ShapeConstruct ==
  ASSUME Shape, Construct
  PROVE  Shape'
<1> USE DEF Shape
<1>1. /\ o_callbacks' \in Seq(Visitors \cup {Waker})
      /\ \A c : Contains(o_callbacks, c) => Contains(o_callbacks', c)
  <2>1. o_callbacks' = Append(o_callbacks, Waker)
    BY DEF Construct
  <2>2. o_callbacks \in Seq(Visitors \cup {Waker}) /\ Waker \in Visitors \cup {Waker}
    BY DEF TypeOK
  <2> QED  BY <2>1, <2>2, AppendIs
<1> QED
  BY <1>1
     DEF Construct, TypeOK, Tasked, Registering, ExplorerPC, netVars, msgVars,
         poolVars, lostVars, viewVars, userVars

LEMMA ShapeUserCall ==
  ASSUME Shape, NEW u \in Users, UserCall(u)
  PROVE  Shape'
<1> USE DEF Shape
<1>1. CASE Lookup(u) \/ TerminateCall(u)
  BY <1>1
     DEF Lookup, TerminateCall, UserGoes, TypeOK, Tasked, Registering, UserPC, netVars,
         msgVars, explorerVars, queueVars, directoryVars, poolVars, callbackVars,
         viewVars, foundVars, lostVars
<1>2. ASSUME NEW c \in Visitors, AddCallback(u, c)
      PROVE  Shape'
  <2>1. /\ o_callbacks' \in Seq(Visitors \cup {Waker}) /\ Contains(o_callbacks', c)
    BY <1>2, AppendIs DEF AddCallback, TypeOK
  <2>2. \A v \in Users : upc[v] # "addCallback"
    BY <1>2, NameAssumption DEF AddCallback, Registering, Threads
  <2>3. Registering'
    BY <1>2, <2>1, <2>2 DEF AddCallback, TypeOK, Registering
  <2>4. /\ view' \in [Visitors -> [Devices -> Desc]]
        /\ upc' \in [Users -> UserPC] /\ uarg' \in [Users -> Visitors \cup {None}]
    BY <1>2, BoundAssumption DEF AddCallback, Untold, TypeOK, UserPC, Desc
  <2> QED
    BY <1>2, <2>1, <2>3, <2>4
       DEF AddCallback, TypeOK, Tasked, Threads, netVars, msgVars, explorerVars,
           queueVars, poolVars, lostVars
<1>3. ASSUME NEW c \in Visitors, DelCallback(u, c)
      PROVE  Shape'
  <2>1. o_callbacks' \in Seq(Visitors \cup {Waker})
    BY <1>3, EraseOnlyRemoves DEF DelCallback, TypeOK
  <2>2. \A v \in Users : upc[v] # "addCallback"
    BY <1>3, NameAssumption DEF DelCallback, Registering, Threads
  <2>3. /\ view' \in [Visitors -> [Devices -> Desc]] /\ satisfied' \subseteq Visitors
        /\ moved' \subseteq Visitors /\ handle' \in [Visitors -> Nat \cup {None}]
    BY <1>3, BoundAssumption DEF DelCallback, Untold, Shifted, TypeOK, Desc
  <2> QED
    BY <1>3, <2>1, <2>2, <2>3
       DEF DelCallback, TypeOK, Tasked, Registering, netVars, msgVars, explorerVars,
           queueVars, poolVars, lostVars, userVars
<1>4. ASSUME NEW c \in Visitors, AddLostCallback(u, c) \/ DelLostCallback(u, c)
      PROVE  Shape'
  <2>1. o_lostCallbacks' \in Seq(Visitors) /\ lostHandle' \in [Visitors -> Nat \cup {None}]
    <3>1. CASE AddLostCallback(u, c)
      BY <3>1, AppendIs, LenProperties DEF AddLostCallback, NewIndex, TypeOK
    <3>2. CASE DelLostCallback(u, c)
      BY <3>2, EraseOnlyRemoves DEF DelLostCallback, TypeOK
    <3> QED  BY <1>4, <3>1, <3>2
  <2> QED
    BY <1>4, <2>1
       DEF AddLostCallback, DelLostCallback, TypeOK, Tasked, Registering, netVars,
           msgVars, explorerVars, queueVars, poolVars, foundVars, viewVars, userVars
<1> QED  BY <1>1, <1>2, <1>3, <1>4 DEF UserCall

LEMMA ShapeUserStep ==
  ASSUME Shape, NEW u \in Users, UserStep(u)
  PROVE  Shape'
<1> USE DEF Shape
<1>1. CASE AddCallbackTraverse(u)
  <2>1. uarg[u] \in Visitors /\ Contains(o_callbacks, uarg[u])
    BY <1>1 DEF AddCallbackTraverse, Registering
  <2>2. NewIndex(o_callbacks) \in Nat
    BY <2>1, LenProperties DEF TypeOK, Contains, NewIndex
  <2>3. \A v \in Users : upc[v] = "addCallback" => v = u
    BY <1>1 DEF AddCallbackTraverse, Registering
  <2>4. Registering'
    BY <1>1, <2>3 DEF AddCallbackTraverse, TypeOK, Registering
  <2>5. /\ view' \in [Visitors -> [Devices -> Desc]] /\ satisfied' \subseteq Visitors
        /\ handle' \in [Visitors -> Nat \cup {None}]
        /\ upc' \in [Users -> UserPC] /\ uarg' \in [Users -> Visitors \cup {None}]
    BY <1>1, <2>1, <2>2, BoundAssumption
       DEF AddCallbackTraverse, Shown, TypeOK, UserPC, Desc
  <2> QED
    BY <1>1, <2>4, <2>5
       DEF AddCallbackTraverse, TypeOK, Tasked, netVars, msgVars, explorerVars,
           queueVars, poolVars, lostVars
<1>2. CASE Expiring(u)
  BY <1>2, ShapeExpiring DEF Threads
<1>3. CASE Traverse(u) \/ TerminateStop(u) \/ TerminateJoin(u)
  <2>1. PICK from \in UserPC \ {"addCallback"}, to \in UserPC \ {"addCallback"} :
          UserGoes(u, from, to)
    BY <1>3 DEF Traverse, TerminateStop, TerminateJoin, UserPC
  <2>2. upc' \in [Users -> UserPC] /\ Registering'
    BY <2>1
       DEF UserGoes, TypeOK, Registering, directoryVars, callbackVars, viewVars,
           foundVars
  <2>3. /\ queue' \in Seq(Task) /\ running' \in BOOLEAN
        /\ UNCHANGED <<theDevDir, epc, tsk>>
    BY <1>3
       DEF Traverse, TerminateStop, TerminateJoin, Queue!Stop, TypeOK, explorerVars,
           queueVars
  <2> QED
    BY <2>1, <2>2, <2>3
       DEF UserGoes, TypeOK, Tasked, netVars, msgVars, directoryVars, poolVars,
           callbackVars, viewVars, foundVars, lostVars
<1> QED  BY <1>1, <1>2, <1>3 DEF UserStep

LEMMA ShapeStep ==
  ASSUME Shape, [Next]_vars
  PROVE  Shape'
<1>1. CASE UNCHANGED vars
  BY <1>1
     DEF Shape, TypeOK, Tasked, Registering, vars, netVars, msgVars, explorerVars,
         queueVars, directoryVars, poolVars, callbackVars, viewVars, foundVars,
         lostVars, userVars
<1> QED
  BY <1>1, ShapeNetwork, ShapeConstruct, ShapeExplore, ShapeNetThread, ShapeUserCall,
     ShapeUserStep DEF Next

\* The directory (discovery.cxx): every variable keeps its type, the explorer and
\* the libupnp threads always have the task they work on, and addCallback() keeps
\* its lock.
THEOREM DiscoveryTypeCorrect == Spec => [](TypeOK /\ Tasked /\ Registering)
<1>1. Shape /\ [Next]_vars => Shape'
  BY ShapeStep
<1> QED  BY ShapeInit, <1>1, PTL DEF Spec, Shape

-----------------------------------------------------------------------------
(* The URLs being downloaded.                                               *)

DownloadInv == Shape /\ DownloadingExact

\* What does not receive or download leaves the network, the URLs and their
\* threads alone.
LEMMA OnlyNetThreadsDownload ==
  ASSUME Shape, Construct \/ Explore \/ \E u \in Users : UserCall(u) \/ UserStep(u)
  PROVE  UNCHANGED <<netVars, msgVars>>
<1>1. CASE Construct
  BY <1>1 DEF Construct
<1>2. CASE Explore
  BY <1>2
     DEF Explore, Take, TakeWait, TakeTimeout, Exit, ParseFails, Insert, Visit,
         ByebyeLock, ByebyeLost, Expiring, ExpireLock, ExpireOne, ExpireUnlock
<1>3. ASSUME NEW u \in Users, UserCall(u)
      PROVE  UNCHANGED <<netVars, msgVars>>
  BY <1>3
     DEF UserCall, Lookup, TerminateCall, UserGoes, AddCallback, DelCallback,
         AddLostCallback, DelLostCallback
<1>4. ASSUME NEW u \in Users, UserStep(u)
      PROVE  UNCHANGED <<netVars, msgVars>>
  BY <1>4
     DEF UserStep, AddCallbackTraverse, Expiring, ExpireLock, ExpireOne, ExpireUnlock,
         Traverse, TerminateStop, TerminateJoin, UserGoes
<1> QED  BY <1>1, <1>2, <1>3, <1>4

LEMMA DownloadingStep ==
  ASSUME Shape, DownloadingExact, [Next]_vars
  PROVE  DownloadingExact'
<1>1. ASSUME UNCHANGED msgVars
      PROVE  DownloadingExact'
  BY <1>1 DEF DownloadingExact, Downloaders, msgVars
<1>2. CASE Network
  <2> PICK d \in Devices :
        \/ ComeUp(d) \/ GoSilently(d) \/ Expires(d)
        \/ \E t \in NetThreads : Announce(d, t) \/ GoWithByebye(d, t)
    BY <1>2 DEF Network
  <2>1. CASE ComeUp(d) \/ GoSilently(d) \/ Expires(d)
    BY <2>1, <1>1 DEF ComeUp, GoSilently, Expires
  <2>2. ASSUME NEW t \in NetThreads, Announce(d, t) \/ GoWithByebye(d, t)
        PROVE  DownloadingExact'
    <3>1. /\ tpc[t] = "idle" /\ tpc'[t] \in {"alive", "put"}
          /\ \A s \in NetThreads : s # t => tpc'[s] = tpc[s] /\ task'[s] = task[s]
          /\ UNCHANGED o_downloading
      BY <2>2 DEF Announce, GoWithByebye, Receive, Shape, TypeOK
    <3>2. \A e \in Devices : Downloaders(e)' = Downloaders(e)
      BY <3>1 DEF Downloaders
    <3> QED  BY <3>1, <3>2 DEF DownloadingExact
  <2> QED  BY <2>1, <2>2
<1>3. ASSUME NEW t \in NetThreads, NetThread(t)
      PROVE  DownloadingExact'
  <2> PICK url : url = task[t].dev
    OBVIOUS
  <2>1. /\ tpc[t] # "idle"
        /\ \A s \in NetThreads : s # t => tpc'[s] = tpc[s] /\ task'[s] = task[s]
    BY <1>3
       DEF NetThread, DownloadStart, Download, DownloadEnd, Put, NetGoes, NetDone,
           Shape, TypeOK
  <2>2. url \in Devices /\ (tpc'[t] # "idle" => task'[t].dev = url)
    <3>1. task[t] \in Task /\ url \in Devices
      BY <2>1 DEF Shape, Tasked, Task
    <3>2. \/ task' = task \/ task' = [task EXCEPT ![t].desc = desc[task[t].dev]]
          \/ tpc'[t] = "idle"
      BY <1>3
         DEF NetThread, DownloadStart, Download, DownloadEnd, Put, NetGoes, NetDone,
             Shape, TypeOK
    <3> QED  BY <3>1, <3>2 DEF Shape, TypeOK, Task
  <2>3. \A e \in Devices : e # url => Downloaders(e)' = Downloaders(e)
    BY <2>1, <2>2 DEF Downloaders
  <2>4. CASE DownloadStart(t) /\ url \in o_downloading
    <3>1. o_downloading' = o_downloading /\ tpc[t] = "alive" /\ tpc'[t] = "idle"
      BY <2>4 DEF DownloadStart, NetDone, Downloading, Shape, TypeOK
    <3>2. Downloaders(url)' = Downloaders(url)
      BY <3>1, <2>1 DEF Downloaders
    <3> QED  BY <3>1, <3>2, <2>2, <2>3 DEF DownloadingExact
  <2>5. CASE DownloadStart(t) /\ url \notin o_downloading
    <3>1. o_downloading' = o_downloading \cup {url} /\ tpc'[t] = "download"
      BY <2>5 DEF DownloadStart, NetGoes, Downloading, Shape, TypeOK
    <3>2. Downloaders(url) = {}
      BY <2>2, <2>5 DEF DownloadingExact
    <3>3. Downloaders(url)' = {t}
      BY <3>1, <3>2, <2>1, <2>2 DEF Downloaders
    <3> QED  BY <3>1, <3>3, <2>2, <2>3 DEF DownloadingExact
  <2>6. CASE Download(t)
    <3>1. /\ o_downloading' = o_downloading
          /\ tpc[t] = "download" /\ tpc'[t] = "downloaded"
      BY <2>6 DEF Download, Shape, TypeOK
    <3>2. Downloaders(url)' = Downloaders(url)
      BY <3>1, <2>1, <2>2 DEF Downloaders
    <3> QED  BY <3>1, <3>2, <2>2, <2>3 DEF DownloadingExact
  <2>7. CASE DownloadEnd(t)
    <3>1. /\ o_downloading' = o_downloading \ {url}
          /\ tpc[t] = "downloaded" /\ tpc'[t] \in {"idle", "put"}
      BY <2>7 DEF DownloadEnd, NetGoes, NetDone, Kept, Shape, TypeOK
    <3>2. Downloaders(url) = {t}
      BY <3>1, <2>2 DEF DownloadingExact, Downloaders
    <3>3. Downloaders(url)' = {}
      BY <3>1, <3>2, <2>1 DEF Downloaders
    <3> QED  BY <3>1, <3>3, <2>2, <2>3 DEF DownloadingExact
  <2>8. CASE Put(t)
    <3>1. o_downloading' = o_downloading /\ tpc[t] = "put" /\ tpc'[t] = "idle"
      BY <2>8 DEF Put, NetDone, Shape, TypeOK
    <3>2. Downloaders(url)' = Downloaders(url)
      BY <3>1, <2>1 DEF Downloaders
    <3> QED  BY <3>1, <3>2, <2>2, <2>3 DEF DownloadingExact
  <2> QED  BY <1>3, <2>4, <2>5, <2>6, <2>7, <2>8 DEF NetThread
<1>4. CASE UNCHANGED vars
  BY <1>4, <1>1 DEF vars
<1> QED  BY <1>1, <1>2, <1>3, <1>4, OnlyNetThreadsDownload DEF Next

\* cluCallBack(): o_downloading has a URL exactly while one thread downloads it,
\* with any number of threads and devices and whether the downloads work.
THEOREM OneDownloadPerURL == Spec => []DownloadingExact
<1>1. Init => DownloadInv
  BY ShapeInit DEF DownloadInv, Init, DownloadingExact, Downloaders
<1>2. DownloadInv /\ [Next]_vars => DownloadInv'
  BY ShapeStep, DownloadingStep DEF DownloadInv
<1>3. DownloadInv => DownloadingExact
  BY DEF DownloadInv
<1> QED  BY <1>1, <1>2, <1>3, PTL DEF Spec

-----------------------------------------------------------------------------
(* What moves the pool, the explorer and the visitors' views.               *)

\* Before getTheDir() nothing came in, and the explorer is not there.
BeforeStart ==
  theDevDir = "none" =>
    /\ epc = "out" /\ ~running /\ queue = <<>>
    /\ \A t \in NetThreads : tpc[t] = "idle"
    /\ \A d \in Devices : last[d] = "none"

LEMMA BeforeStartStep ==
  ASSUME Shape, BeforeStart, [Next]_vars
  PROVE  BeforeStart'
<1> SUFFICES ASSUME theDevDir' = "none" PROVE BeforeStart'
  BY DEF BeforeStart
<1>1. ASSUME UNCHANGED <<queueVars, epc, tpc, last>>
      PROVE  BeforeStart'
  BY <1>1 DEF BeforeStart, queueVars
<1>2. CASE Network
  BY <1>1, <1>2
     DEF Network, ComeUp, GoSilently, Expires, Announce, GoWithByebye, Receive, netVars,
         msgVars, explorerVars, queueVars
<1>3. CASE Construct
  BY <1>3 DEF Construct
<1>4. CASE Explore
  <2>1. theDevDir = "none"
    BY <1>4
       DEF Explore, Take, TakeWait, TakeTimeout, Exit, ParseFails, Insert, Visit,
           ByebyeLock, ByebyeLost, Expiring, ExpireLock, ExpireOne, ExpireUnlock,
           explorerVars, queueVars
  <2>2. epc # "out"
    BY <1>4
       DEF Explore, Take, TakeWait, TakeTimeout, Exit, ParseFails, Insert, Visit,
           ByebyeLock, ByebyeLost, Expiring, ExpireLock, ExpireOne, ExpireUnlock, PC,
           Taking
  <2> QED  BY <2>1, <2>2 DEF BeforeStart
<1>5. ASSUME NEW t \in NetThreads, NetThread(t)
      PROVE  BeforeStart'
  BY <1>5
     DEF NetThread, DownloadStart, Download, DownloadEnd, Put, BeforeStart,
         explorerVars, queueVars
<1>6. ASSUME NEW u \in Users, Expiring(u)
      PROVE  BeforeStart'
  BY <1>1, <1>6, NameAssumption
     DEF Expiring, ExpireLock, ExpireOne, ExpireUnlock, Goto, netVars, msgVars,
         explorerVars
<1>7. ASSUME NEW u \in Users, UserCall(u)
      PROVE  BeforeStart'
  BY <1>1, <1>7
     DEF UserCall, Lookup, TerminateCall, UserGoes, AddCallback, DelCallback,
         AddLostCallback, DelLostCallback, netVars, msgVars, explorerVars
<1>8. ASSUME NEW u \in Users, AddCallbackTraverse(u) \/ Traverse(u) \/ TerminateJoin(u)
      PROVE  BeforeStart'
  BY <1>1, <1>8
     DEF AddCallbackTraverse, Traverse, TerminateJoin, UserGoes, netVars, msgVars,
         explorerVars
<1>9. ASSUME NEW u \in Users, TerminateStop(u)
      PROVE  BeforeStart'
  <2>1. running' = FALSE /\ UNCHANGED <<queue, theDevDir, epc, tpc, last>>
    BY <1>9 DEF TerminateStop, Queue!Stop, UserGoes, netVars, msgVars
  <2> QED  BY <2>1 DEF BeforeStart
<1>10. CASE UNCHANGED vars
  BY <1>1, <1>10 DEF vars, netVars, msgVars, explorerVars
<1> QED
  BY <1>2, <1>3, <1>4, <1>5, <1>6, <1>7, <1>8, <1>9, <1>10 DEF Next, UserStep

\* A step that leaves the pool and the explorer's task alone, and takes the
\* explorer to or from nothing that is about a task, except to drop one whose
\* document cannot be parsed.
PoolKept ==
  /\ UNCHANGED m_devices
  /\ \/ UNCHANGED <<epc, tsk>>
     \/ /\ epc \in Taking \cup {"out", "expire", "expiring", "insert"}
        /\ epc' \in Taking \cup {"out", "expire", "expiring"}
  /\ UNCHANGED expired \/ \E d \in Devices : Expires(d)

LEMMA ExpiringKeeps ==
  ASSUME NEW th, ExpireLock(th) \/ ExpireUnlock(th)
  PROVE  PoolKept /\ UNCHANGED <<queue, running, msgVars, last, theDevDir>>
BY DEF ExpireLock, ExpireUnlock, Goto, PC, PoolKept, Taking, queueVars, netVars

LEMMA PoolMoves ==
  ASSUME BeforeStart, [Next]_vars
  PROVE  \/ Take \/ Insert \/ Visit \/ ByebyeLock \/ ByebyeLost
         \/ \E th \in Threads : ExpireOne(th)
         \/ PoolKept
<1>1. CASE Network
  BY <1>1
     DEF Network, ComeUp, GoSilently, Expires, Announce, GoWithByebye, PoolKept,
         explorerVars, directoryVars, poolVars
<1>2. CASE Construct
  BY <1>2 DEF Construct, BeforeStart, PoolKept, Taking, poolVars
<1>3. CASE TakeWait \/ TakeTimeout \/ Exit \/ ParseFails
  BY <1>3
     DEF TakeWait, TakeTimeout, AfterTimeout, Exit, ParseFails, TaskDone, PoolKept,
         Taking, directoryVars, poolVars
<1>4. ASSUME NEW th \in Threads, Expiring(th)
      PROVE  ExpireOne(th) \/ PoolKept
  BY <1>4, ExpiringKeeps DEF Expiring
<1>5. ASSUME NEW t \in NetThreads, NetThread(t)
      PROVE  PoolKept
  BY <1>5
     DEF NetThread, DownloadStart, Download, DownloadEnd, Put, PoolKept, explorerVars,
         directoryVars, poolVars
<1>6. ASSUME NEW u \in Users, UserCall(u)
      PROVE  PoolKept
  BY <1>6
     DEF UserCall, Lookup, TerminateCall, UserGoes, AddCallback, DelCallback,
         AddLostCallback, DelLostCallback, PoolKept, explorerVars, directoryVars,
         poolVars
<1>7. ASSUME NEW u \in Users,
             AddCallbackTraverse(u) \/ Traverse(u) \/ TerminateStop(u) \/ TerminateJoin(u)
      PROVE  PoolKept
  BY <1>7
     DEF AddCallbackTraverse, Traverse, TerminateStop, TerminateJoin, UserGoes,
         PoolKept, explorerVars, directoryVars, poolVars
<1>8. CASE UNCHANGED vars
  BY <1>8 DEF vars, PoolKept, explorerVars, directoryVars, poolVars
<1>9. Explorer \in Threads /\ \A u \in Users : u \in Threads
  BY DEF Threads
<1> QED
  BY <1>1, <1>2, <1>3, <1>4, <1>5, <1>6, <1>7, <1>8, <1>9 DEF Next, Explore, UserStep

\* A step that tells the visitors nothing, and registers none in full.
ViewsKept ==
  /\ UNCHANGED viewVars
  /\ \A c \in Visitors :
       handle'[c] # None /\ Contains(o_callbacks', c) /\ Contains(o_lostCallbacks', c)
         => handle[c] # None /\ Contains(o_callbacks, c) /\ Contains(o_lostCallbacks, c)

LEMMA ViewsMove ==
  ASSUME Shape, [Next]_vars
  PROVE  \/ Visit \/ ByebyeLost
         \/ \E th \in Threads : ExpireOne(th)
         \/ \E u \in Users : AddCallbackTraverse(u)
         \/ \E u \in Users, c \in Visitors : AddCallback(u, c) \/ DelCallback(u, c)
         \/ ViewsKept
<1>1. ASSUME UNCHANGED callbackVars
      PROVE  ViewsKept
  BY <1>1 DEF ViewsKept, callbackVars, viewVars, foundVars, lostVars
<1>2. CASE Network
  BY <1>1, <1>2
     DEF Network, ComeUp, GoSilently, Expires, Announce, GoWithByebye, directoryVars,
         userVars
<1>3. CASE Construct
  <2>1. o_callbacks' = Append(o_callbacks, Waker) /\ UNCHANGED <<handle, lostVars, viewVars>>
    BY <1>3 DEF Construct
  <2>2. o_callbacks \in Seq(Visitors \cup {Waker}) /\ Waker \in Visitors \cup {Waker}
    BY DEF Shape, TypeOK
  <2>3. \A c \in Visitors : Contains(o_callbacks', c) => Contains(o_callbacks, c)
    BY <2>1, <2>2, AppendIs, NameAssumption
  <2> QED  BY <2>1, <2>3 DEF ViewsKept, lostVars
<1>4. CASE Explore
  BY <1>1, <1>4
     DEF Explore, Take, TakeWait, TakeTimeout, Exit, ParseFails, Insert, ByebyeLock,
         Expiring, ExpireLock, ExpireUnlock, Goto, directoryVars, userVars, Threads
<1>5. ASSUME NEW t \in NetThreads, NetThread(t)
      PROVE  ViewsKept
  BY <1>1, <1>5
     DEF NetThread, DownloadStart, Download, DownloadEnd, Put, directoryVars, userVars
<1>6. ASSUME NEW u \in Users, Expiring(u)
      PROVE  ViewsKept \/ ExpireOne(u)
  BY <1>1, <1>6 DEF Expiring, ExpireLock, ExpireUnlock, Goto
<1>7. ASSUME NEW u \in Users,
             \/ Lookup(u) \/ TerminateCall(u)
             \/ Traverse(u) \/ TerminateStop(u) \/ TerminateJoin(u)
      PROVE  ViewsKept
  BY <1>1, <1>7
     DEF Lookup, TerminateCall, Traverse, TerminateStop, TerminateJoin, UserGoes,
         directoryVars
<1>8. ASSUME NEW u \in Users, NEW c \in Visitors, AddLostCallback(u, c)
      PROVE  ViewsKept
  <2>1. \A x : Contains(o_lostCallbacks', x) <=> Contains(o_lostCallbacks, x) \/ x = c
    BY <1>8, AppendIs DEF AddLostCallback, Shape, TypeOK
  <2>2. ~Contains(o_callbacks, c) /\ UNCHANGED <<foundVars, viewVars>>
    BY <1>8 DEF AddLostCallback
  <2> QED  BY <2>1, <2>2 DEF ViewsKept, foundVars
<1>9. ASSUME NEW u \in Users, NEW c \in Visitors, DelLostCallback(u, c)
       PROVE  ViewsKept
  <2>1. \A x : Contains(o_lostCallbacks', x) => Contains(o_lostCallbacks, x)
    BY <1>9, EraseOnlyRemoves DEF DelLostCallback, Shape, TypeOK
  <2> QED  BY <1>9, <2>1 DEF DelLostCallback, ViewsKept, foundVars
<1>10. CASE UNCHANGED vars
  BY <1>1, <1>10 DEF vars, directoryVars
<1>11. \A u \in Users : u \in Threads
  BY DEF Threads
<1> QED
  BY <1>2, <1>3, <1>4, <1>5, <1>6, <1>7, <1>8, <1>9, <1>10, <1>11
     DEF Next, UserCall, UserStep

-----------------------------------------------------------------------------
(* The visitors and the pool.                                               *)

\* What the explorer is about to show is in the pool, and did not expire.
VisitFresh ==
  epc = "visit" => m_devices[tsk.dev] = tsk.desc /\ tsk.dev \notin expired

ViewInv == Shape /\ BeforeStart /\ VisitFresh /\ ViewTracksPool

LEMMA VisitFreshStep ==
  ASSUME ~SlowVisits, Shape, BeforeStart, VisitFresh, [Next]_vars
  PROVE  VisitFresh'
<1>1. CASE Take \/ Visit \/ ByebyeLock \/ ByebyeLost
  BY <1>1 DEF Take, Visit, ByebyeLock, ByebyeLost, TaskDone, VisitFresh
<1>2. CASE Insert
  BY <1>2 DEF Insert, Stored, VisitFresh, Shape, TypeOK, Tasked, Task
<1>3. ASSUME NEW th \in Threads, ExpireOne(th)
      PROVE  VisitFresh'
  BY <1>3 DEF ExpireOne, Forget, VisitFresh, Shape, TypeOK, explorerVars
<1>4. CASE PoolKept
  BY <1>4 DEF PoolKept, Expires, VisitFresh, Taking
<1> QED  BY <1>1, <1>2, <1>3, <1>4, PoolMoves

LEMMA ForgetTells ==
  ASSUME Shape, NEW d \in Devices, Forget(d), NEW c \in Visitors, NEW e \in Devices,
         Contains(o_lostCallbacks, c)
  PROVE  IF e = d THEN view'[c][e] = 0 /\ m_devices'[e] = 0
                  ELSE view'[c][e] = view[c][e] /\ m_devices'[e] = m_devices[e]
BY DEF Forget, Lost, Shape, TypeOK

LEMMA ViewStep ==
  ASSUME ~SlowVisits, Shape, BeforeStart, VisitFresh, ViewTracksPool, [Next]_vars
  PROVE  ViewTracksPool'
<1> SUFFICES ASSUME NEW c \in Visitors, NEW e \in Devices, handle'[c] # None,
                    Contains(o_callbacks', c), Contains(o_lostCallbacks', c)
             PROVE  \/ view'[c][e] = m_devices'[e]
                    \/ view'[c][e] = 0 /\ c \in satisfied'
                    \/ epc' = "visit" /\ tsk'.dev = e
  BY DEF ViewTracksPool
<1> DEFINE Told == \/ view[c][e] = m_devices[e]
                   \/ view[c][e] = 0 /\ c \in satisfied
                   \/ epc = "visit" /\ tsk.dev = e
<1>1. CASE Visit
  BY <1>1
     DEF Visit, TaskDone, Found, ViewTracksPool, VisitFresh, Shape, TypeOK, Tasked,
         Task, poolVars, foundVars, lostVars
<1>2. ASSUME NEW d \in Devices, Forget(d), (epc' = epc /\ tsk' = tsk) \/ epc = "lost"
      PROVE  \/ view'[c][e] = m_devices'[e]
             \/ view'[c][e] = 0 /\ c \in satisfied'
             \/ epc' = "visit" /\ tsk'.dev = e
  <2>1. Told /\ Contains(o_lostCallbacks, c) /\ UNCHANGED satisfied
    BY <1>2 DEF Forget, ViewTracksPool, foundVars, lostVars
  <2> QED  BY <1>2, <2>1, ForgetTells
<1>3. CASE ByebyeLost
  <2>1. tsk.dev \in Devices
    BY <1>3 DEF ByebyeLost, Shape, Tasked, Task
  <2> QED  BY <1>2, <1>3, <2>1 DEF ByebyeLost
<1>4. ASSUME NEW th \in Threads, ExpireOne(th)
      PROVE  \/ view'[c][e] = m_devices'[e]
             \/ view'[c][e] = 0 /\ c \in satisfied'
             \/ epc' = "visit" /\ tsk'.dev = e
  <2>1. PICK d \in Devices : Forget(d)
    BY <1>4 DEF ExpireOne, Shape, TypeOK
  <2> QED  BY <1>2, <1>4, <2>1 DEF ExpireOne, explorerVars
<1>5. ASSUME NEW u \in Users, AddCallbackTraverse(u)
      PROVE  \/ view'[c][e] = m_devices'[e]
             \/ view'[c][e] = 0 /\ c \in satisfied'
             \/ epc' = "visit" /\ tsk'.dev = e
  <2>1. UNCHANGED <<m_devices, epc, tsk, o_callbacks, o_lostCallbacks>>
    BY <1>5 DEF AddCallbackTraverse, explorerVars, poolVars, lostVars
  <2>2. PICK devs \in ShownSets :
          /\ view' = Shown(uarg[u], devs)
          /\ satisfied' = IF devs = Pool THEN satisfied \ {uarg[u]}
                                         ELSE satisfied \cup {uarg[u]}
    BY <1>5 DEF AddCallbackTraverse
  <2>3. CASE uarg[u] = c
    <3>1. view'[c][e] = IF e \in devs THEN m_devices[e] ELSE 0
      BY <2>2, <2>3 DEF Shown, Shape, TypeOK
    <3>2. CASE e \in devs \/ e \notin Pool
      BY <3>1, <3>2, <2>1 DEF Pool
    <3>3. CASE e \in Pool /\ e \notin devs
      BY <3>1, <3>3, <2>2, <2>3
    <3> QED  BY <3>2, <3>3
  <2>4. CASE uarg[u] # c
    <3>1. handle[c] # None /\ view'[c] = view[c] /\ (c \in satisfied => c \in satisfied')
      BY <1>5, <2>2, <2>4 DEF AddCallbackTraverse, Shown, Shape, TypeOK
    <3> QED  BY <2>1, <3>1 DEF ViewTracksPool
  <2> QED  BY <2>3, <2>4
<1>6. ASSUME NEW u \in Users, NEW b \in Visitors, AddCallback(u, b) \/ DelCallback(u, b)
      PROVE  \/ view'[c][e] = m_devices'[e]
             \/ view'[c][e] = 0 /\ c \in satisfied'
             \/ epc' = "visit" /\ tsk'.dev = e
  <2>1. b # c /\ handle[c] # None
    BY <1>6 DEF AddCallback, DelCallback, Shape, TypeOK
  <2>2. /\ UNCHANGED <<m_devices, epc, tsk, o_lostCallbacks>>
        /\ view'[c] = view[c] /\ (c \in satisfied => c \in satisfied')
    BY <1>6, <2>1
       DEF AddCallback, DelCallback, Untold, explorerVars, poolVars, lostVars, Shape,
           TypeOK
  <2>3. Contains(o_callbacks, c)
    <3>1. /\ o_callbacks \in Seq(Visitors \cup {Waker}) /\ b \in Visitors \cup {Waker}
          /\ handle[b] \in Nat \cup {None}
      BY DEF Shape, TypeOK
    <3>2. CASE AddCallback(u, b)
      BY <2>1, <3>1, <3>2, AppendIs DEF AddCallback
    <3>3. CASE DelCallback(u, b)
      BY <3>1, <3>3, EraseOnlyRemoves DEF DelCallback
    <3> QED  BY <1>6, <3>2, <3>3
  <2> QED  BY <2>1, <2>2, <2>3 DEF ViewTracksPool
<1>7. CASE ViewsKept
  <2>1. Told /\ UNCHANGED <<view, satisfied>>
    BY <1>7 DEF ViewsKept, ViewTracksPool, viewVars
  <2>2. CASE Take
    BY <2>1, <2>2 DEF Take, Taking, directoryVars, poolVars
  <2>3. CASE Insert
    BY <2>1, <2>3 DEF Insert, Shape, TypeOK
  <2>4. CASE ByebyeLock
    BY <2>1, <2>4 DEF ByebyeLock
  <2>5. CASE PoolKept
    BY <2>1, <2>5 DEF PoolKept, Taking
  <2> QED  BY <1>1, <1>3, <1>4, <2>2, <2>3, <2>4, <2>5, PoolMoves
<1> QED  BY <1>1, <1>3, <1>4, <1>5, <1>6, <1>7, ViewsMove

\* discoExplorer() and addCallback(): every visitor with both its functions
\* registered was told of exactly the devices in the pool, but for those it did not
\* want to see, whatever the number of threads and visitors and the order of
\* registrations, insertions, byebyes and expiries; supposing that no device expires
\* between its insertion and its visit, a few instructions later.
THEOREM VisitorsAreUpToDate ==
  ASSUME ~SlowVisits
  PROVE  Spec => []ViewTracksPool
<1>1. Init => ViewInv
  <2> SUFFICES ASSUME Init PROVE ViewInv
    OBVIOUS
  <2>1. BeforeStart /\ VisitFresh /\ ViewTracksPool
    BY DEF Init, BeforeStart, VisitFresh, ViewTracksPool
  <2> QED  BY <2>1, ShapeInit DEF ViewInv
<1>2. ViewInv /\ [Next]_vars => ViewInv'
  BY ShapeStep, BeforeStartStep, VisitFreshStep, ViewStep DEF ViewInv
<1>3. ViewInv => ViewTracksPool
  BY DEF ViewInv
<1> QED  BY <1>1, <1>2, <1>3, PTL DEF Spec

-----------------------------------------------------------------------------
(* Byebyes.                                                                 *)

\* The last task of d in the queue is a byebye.
ByebyeQueued(d) ==
  \E i \in 1..Len(queue) :
    /\ queue[i].dev = d /\ ~queue[i].alive
    /\ \A j \in 1..Len(queue) : queue[j].dev = d => j <= i

\* No task of d is queued, and the explorer is at its byebye or d is out of the
\* pool for good.
Leaving(d) ==
  /\ \A i \in 1..Len(queue) : queue[i].dev # d
  /\ \/ epc \in {"byebye", "lost"} /\ tsk.dev = d
     \/ m_devices[d] = 0 /\ ~(epc = "insert" /\ tsk.dev = d)

\* The last message of d is a byebye, that passed no announcement.
LastWord(d) == last[d] = "byebye" /\ d \notin overtaken

\* Where the last byebye of a device is: with a libupnp thread, in the queue,
\* with the explorer, or done with.
ByebyeOnItsWay ==
  \A d \in Devices : running /\ LastWord(d) =>
    \/ \E t \in NetThreads : tpc[t] = "put" /\ task[t].dev = d /\ ~task[t].alive
    \/ ByebyeQueued(d)
    \/ Leaving(d)

\* No thread has an announcement in hand that would be queued behind it.
InHand == \A d \in Devices : LastWord(d) => ~Announced(d)

ByebyeInv == Shape /\ BeforeStart /\ InHand /\ ByebyeOnItsWay

LEMMA QueueMoves ==
  ASSUME BeforeStart, [Next]_vars, running'
  PROVE  \/ Take \/ Construct
         \/ \E d \in Devices, t \in NetThreads : Announce(d, t) \/ GoWithByebye(d, t)
         \/ \E t \in NetThreads : NetThread(t)
         \/ UNCHANGED <<queue, running, tpc, task, last, overtaken>>
<1>1. CASE Network
  BY <1>1
     DEF Network, ComeUp, GoSilently, Expires, netVars, msgVars, explorerVars, queueVars
<1>2. CASE Explore
  BY <1>2
     DEF Explore, TakeWait, TakeTimeout, Exit, ParseFails, Insert, Visit, ByebyeLock,
         ByebyeLost, Expiring, ExpireLock, ExpireOne, ExpireUnlock, netVars, msgVars,
         explorerVars, queueVars
<1>3. ASSUME NEW u \in Users, Expiring(u)
      PROVE  UNCHANGED <<queue, running, tpc, task, last, overtaken>>
  BY <1>3
     DEF Expiring, ExpireLock, ExpireOne, ExpireUnlock, netVars, msgVars, explorerVars,
         queueVars
<1>4. ASSUME NEW u \in Users, UserCall(u)
      PROVE  UNCHANGED <<queue, running, tpc, task, last, overtaken>>
  BY <1>4
     DEF UserCall, Lookup, TerminateCall, UserGoes, AddCallback, DelCallback,
         AddLostCallback, DelLostCallback, netVars, msgVars, explorerVars, queueVars
<1>5. ASSUME NEW u \in Users, AddCallbackTraverse(u) \/ Traverse(u) \/ TerminateJoin(u)
      PROVE  UNCHANGED <<queue, running, tpc, task, last, overtaken>>
  BY <1>5
     DEF AddCallbackTraverse, Traverse, TerminateJoin, UserGoes, netVars, msgVars,
         explorerVars, queueVars
<1>6. ASSUME NEW u \in Users, TerminateStop(u)
      PROVE  FALSE
  BY <1>6 DEF TerminateStop, Queue!Stop
<1>7. CASE UNCHANGED vars
  BY <1>7 DEF vars, netVars, msgVars, explorerVars, queueVars
<1> QED  BY <1>1, <1>2, <1>3, <1>4, <1>5, <1>6, <1>7 DEF Next, UserStep

\* A thread that goes on keeps the device and the kind of its task.
LEMMA TaskKept ==
  ASSUME Shape, NEW t \in NetThreads, NetThread(t)
  PROVE  /\ tpc[t] # "idle" /\ task[t] \in Task /\ UNCHANGED <<last, overtaken>>
         /\ tpc'[t] # "idle" => task'[t].dev = task[t].dev /\ task'[t].alive = task[t].alive
         /\ \A s \in NetThreads : s # t => tpc'[s] = tpc[s] /\ task'[s] = task[s]
<1>1. /\ tpc[t] # "idle" /\ task[t] \in Task /\ UNCHANGED <<last, overtaken>>
      /\ \A s \in NetThreads : s # t => tpc'[s] = tpc[s] /\ task'[s] = task[s]
  BY DEF NetThread, DownloadStart, Download, DownloadEnd, Put, NetGoes, NetDone,
         netVars, Shape, TypeOK, Tasked
<1>2. \/ task' = task \/ task' = [task EXCEPT ![t].desc = desc[task[t].dev]]
      \/ tpc'[t] = "idle"
  BY DEF NetThread, DownloadStart, Download, DownloadEnd, Put, NetGoes, NetDone, Shape,
         TypeOK
<1> QED  BY <1>1, <1>2 DEF Shape, TypeOK, Task

LEMMA InHandStep ==
  ASSUME Shape, BeforeStart, InHand, [Next]_vars
  PROVE  InHand'
<1>1. ASSUME UNCHANGED <<tpc, task, last, overtaken>>
      PROVE  InHand'
  BY <1>1 DEF InHand, LastWord, Announced
<1>2. ASSUME NEW d \in Devices, NEW t \in NetThreads, Announce(d, t) \/ GoWithByebye(d, t)
      PROVE  InHand'
  <2> SUFFICES ASSUME NEW e \in Devices, LastWord(e)'
               PROVE  ~Announced(e)'
    BY DEF InHand
  <2>1. PICK alive \in BOOLEAN, pc \in NetPC : Receive(t, d, alive, pc)
    BY <1>2 DEF Announce, GoWithByebye, NetPC
  <2>2. /\ tpc[t] = "idle" /\ task'[t].dev = d /\ task'[t].alive = alive
        /\ \A s \in NetThreads : s # t => tpc'[s] = tpc[s] /\ task'[s] = task[s]
    BY <2>1 DEF Receive, Shape, TypeOK
  <2>3. ~Announced(e)
    <3>1. CASE e = d
      BY <2>1, <3>1 DEF Receive, LastWord, Shape, TypeOK
    <3>2. CASE e # d
      BY <2>1, <3>2 DEF Receive, LastWord, InHand, Shape, TypeOK
    <3> QED  BY <3>1, <3>2
  <2>4. ~(task'[t].dev = e /\ task'[t].alive)
    BY <2>1, <2>2 DEF Receive, LastWord, Shape, TypeOK
  <2> QED  BY <2>2, <2>3, <2>4 DEF Announced
<1>3. ASSUME NEW t \in NetThreads, NetThread(t)
      PROVE  InHand'
  BY <1>3, TaskKept DEF InHand, LastWord, Announced
<1>4. CASE UNCHANGED vars
  BY <1>1, <1>4 DEF vars, netVars, msgVars
<1> QED
  BY <1>1, <1>2, <1>3, <1>4, OnlyNetThreadsDownload
     DEF Next, Network, ComeUp, GoSilently, Expires, netVars, msgVars

LEMMA ByebyeStep ==
  ASSUME Shape, BeforeStart, InHand, ByebyeOnItsWay, [Next]_vars
  PROVE  ByebyeOnItsWay'
<1> SUFFICES ASSUME NEW d \in Devices, running', LastWord(d)'
             PROVE  \/ \E t \in NetThreads : /\ tpc'[t] = "put" /\ task'[t].dev = d
                                             /\ ~task'[t].alive
                    \/ ByebyeQueued(d)'
                    \/ Leaving(d)'
  BY DEF ByebyeOnItsWay
<1> DEFINE Held == \E t \in NetThreads : tpc[t] = "put" /\ task[t].dev = d /\ ~task[t].alive
<1>0. Len(queue) \in Nat /\ \A i \in 1..Len(queue) : queue[i] \in Task
  BY LenProperties, ElementOfSeq DEF Shape, TypeOK
\* The pool and the explorer, while the queue stays.
<1>1. ASSUME UNCHANGED queue, Leaving(d)
      PROVE  Leaving(d)'
  <2>1. CASE Take
    BY <1>1, <2>1, <1>0, HeadTailProperties DEF Take, Taking, Leaving, Queue!Deliver,
                                                Shape, TypeOK
  <2>2. CASE Insert
    BY <1>1, <2>2 DEF Insert, Leaving, Shape, TypeOK, Tasked, Task
  <2>3. CASE Visit
    BY <1>1, <2>3 DEF Visit, TaskDone, Leaving, poolVars
  <2>4. CASE ByebyeLock
    BY <1>1, <2>4 DEF ByebyeLock, TaskDone, Present, Leaving
  <2>5. CASE ByebyeLost
    BY <1>1, <2>5 DEF ByebyeLost, TaskDone, Forget, Leaving, Shape, TypeOK, Tasked, Task
  <2>6. ASSUME NEW th \in Threads, ExpireOne(th)
        PROVE  Leaving(d)'
    BY <1>1, <2>6 DEF ExpireOne, Forget, Leaving, Shape, TypeOK, explorerVars
  <2>7. CASE PoolKept
    BY <1>1, <2>7 DEF PoolKept, Taking, Leaving
  <2> QED  BY <2>1, <2>2, <2>3, <2>4, <2>5, <2>6, <2>7, PoolMoves
<1>2. ASSUME UNCHANGED queue, ByebyeQueued(d)
      PROVE  ByebyeQueued(d)'
  BY <1>2 DEF ByebyeQueued
<1>3. CASE Take
  <2>1. /\ queue # <<>> /\ running /\ queue' = Tail(queue) /\ tsk' = Head(queue)
        /\ epc' = IF tsk'.alive THEN "insert" ELSE "byebye"
        /\ UNCHANGED <<last, overtaken, tpc, task, m_devices>>
    BY <1>3 DEF Take, Queue!Deliver, netVars, msgVars, directoryVars, poolVars
  <2>a. epc \in Taking /\ LastWord(d)
    BY <1>3, <2>1 DEF Take, LastWord
  <2>2. /\ Len(queue) >= 1 /\ Head(queue) = queue[1] /\ Len(queue') = Len(queue) - 1
        /\ \A i \in 1..Len(queue') : queue'[i] = queue[i + 1]
    BY <2>1, <1>0, HeadTailProperties, EmptySeq DEF Shape, TypeOK
  <2>3. CASE Held
    BY <2>1, <2>3
  <2>4. CASE Leaving(d)
    <3>1. tsk'.dev # d /\ m_devices'[d] = 0
      BY <2>1, <2>2, <2>a, <2>4, <1>0 DEF Leaving, Taking
    <3>2. \A i \in 1..Len(queue') : queue'[i].dev # d
      BY <2>2, <2>4, <1>0 DEF Leaving
    <3> QED  BY <3>1, <3>2 DEF Leaving
  <2>5. CASE ByebyeQueued(d)
    <3>1. PICK i \in 1..Len(queue) :
            /\ queue[i].dev = d /\ ~queue[i].alive
            /\ \A j \in 1..Len(queue) : queue[j].dev = d => j <= i
      BY <2>5 DEF ByebyeQueued
    <3>2. CASE i = 1
      <4>1. tsk'.dev = d /\ epc' = "byebye"
        BY <2>1, <2>2, <3>1, <3>2
      <4>2. \A j \in 1..Len(queue') : queue'[j].dev # d
        BY <2>2, <3>1, <3>2, <1>0
      <4> QED  BY <4>1, <4>2 DEF Leaving
    <3>3. CASE i # 1
      <4>1. i - 1 \in 1..Len(queue') /\ queue'[i - 1] = queue[i]
        BY <2>2, <3>3, <1>0
      <4>2. \A j \in 1..Len(queue') : queue'[j].dev = d => j <= i - 1
        BY <2>2, <3>1, <1>0
      <4> QED  BY <4>1, <4>2, <3>1 DEF ByebyeQueued
    <3> QED  BY <3>2, <3>3
  <2> QED  BY <2>1, <2>a, <2>3, <2>4, <2>5 DEF ByebyeOnItsWay
<1>4. CASE Construct
  BY <1>4 DEF Construct, BeforeStart, LastWord, netVars
<1>5. ASSUME NEW e \in Devices, NEW t \in NetThreads, Announce(e, t) \/ GoWithByebye(e, t)
      PROVE  Held' \/ ByebyeQueued(d)' \/ Leaving(d)'
  <2>1. /\ tpc[t] = "idle" /\ UNCHANGED <<queue, running>>
        /\ task'[t].dev = e
        /\ e # d => LastWord(d)
        /\ e = d => tpc'[t] = "put" /\ ~task'[t].alive
        /\ \A s \in NetThreads : s # t => tpc'[s] = tpc[s] /\ task'[s] = task[s]
    <3>1. PICK alive \in BOOLEAN, pc \in NetPC :
            /\ Receive(t, e, alive, pc)
            /\ ~alive => pc = "put"
      BY <1>5 DEF Announce, GoWithByebye, NetPC
    <3>2. UNCHANGED <<queue, running>>
      BY <1>5 DEF Announce, GoWithByebye, explorerVars, queueVars
    <3>3. /\ task'[t] = [alive |-> alive, dev |-> e, desc |-> 0] /\ tpc'[t] = pc
          /\ last' = [last EXCEPT ![e] = IF alive THEN "alive" ELSE "byebye"]
          /\ tpc[t] = "idle"
          /\ \A s \in NetThreads : s # t => tpc'[s] = tpc[s] /\ task'[s] = task[s]
      BY <3>1 DEF Receive, Shape, TypeOK
    <3>4. e = d => ~alive
      BY <3>3 DEF LastWord, Shape, TypeOK
    <3>5. e # d => LastWord(d)
      BY <3>1, <3>3 DEF Receive, LastWord, Shape, TypeOK
    <3>6. task'[t].dev = e /\ task'[t].alive = alive
      BY <3>3
    <3> QED  BY <3>1, <3>2, <3>3, <3>4, <3>5, <3>6
  <2>2. CASE e = d
    BY <2>1, <2>2
  <2>3. CASE e # d
    <3>1. Held => Held'
      BY <2>1
    <3> QED  BY <3>1, <2>1, <2>3, <1>1, <1>2 DEF ByebyeOnItsWay
  <2> QED  BY <2>2, <2>3
<1>6. ASSUME NEW t \in NetThreads, NetThread(t)
      PROVE  Held' \/ ByebyeQueued(d)' \/ Leaving(d)'
  <2>1. UNCHANGED running /\ LastWord(d)
    BY <1>6, TaskKept
       DEF NetThread, DownloadStart, Download, DownloadEnd, Put, Queue!Accept, LastWord,
           explorerVars, queueVars
  <2>2. CASE DownloadStart(t) \/ Download(t) \/ DownloadEnd(t)
    <3>1. tpc[t] # "put" /\ UNCHANGED queue
      BY <2>2 DEF DownloadStart, Download, DownloadEnd, explorerVars, queueVars
    <3>2. Held => Held'
      BY <3>1, <1>6, TaskKept
    <3> QED  BY <3>1, <3>2, <2>1, <1>1, <1>2 DEF ByebyeOnItsWay
  <2>3. CASE Put(t)
    <3>1. queue' = Append(queue, task[t]) /\ task[t] \in Task
      BY <2>3, <2>1 DEF Put, Queue!Accept, Shape, Tasked
    <3>2. /\ Len(queue') = Len(queue) + 1 /\ queue'[Len(queue) + 1] = task[t]
          /\ \A i \in 1..Len(queue) : queue'[i] = queue[i]
      BY <3>1, AppendProperties DEF Shape, TypeOK
    <3>3. CASE task[t].dev = d
      <4>1. ~task[t].alive
        BY <2>1, <2>3, <3>1, <3>3 DEF Put, InHand, Announced, Task
      <4> QED  BY <3>2, <3>3, <4>1, <1>0 DEF ByebyeQueued
    <3>4. CASE task[t].dev # d
      <4>1. Held' \/ ByebyeQueued(d) \/ Leaving(d)
        BY <2>1, <3>4, <1>6, TaskKept DEF ByebyeOnItsWay
      <4>2. ASSUME ByebyeQueued(d)
            PROVE  ByebyeQueued(d)'
        BY <3>2, <3>4, <4>2, <1>0 DEF ByebyeQueued
      <4>3. ASSUME Leaving(d)
            PROVE  Leaving(d)'
        <5>1. \A i \in 1..Len(queue') : queue'[i].dev # d
          BY <3>2, <3>4, <4>3, <1>0 DEF Leaving
        <5>2. UNCHANGED <<epc, tsk, m_devices>>
          BY <2>3 DEF Put, directoryVars, poolVars
        <5> QED  BY <4>3, <5>1, <5>2 DEF Leaving
      <4> QED  BY <4>1, <4>2, <4>3
    <3> QED  BY <3>3, <3>4
  <2> QED  BY <1>6, <2>2, <2>3 DEF NetThread
<1>7. CASE UNCHANGED <<queue, running, tpc, task, last, overtaken>>
  BY <1>7, <1>1, <1>2 DEF ByebyeOnItsWay, LastWord
<1> QED  BY <1>3, <1>4, <1>5, <1>6, <1>7, QueueMoves

\* cluCallBack() and discoExplorer(): when no message is being handled, no device
\* whose last message was a byebye is in the directory, unless that byebye came in
\* while another thread had an announcement of the device in hand; for any number of
\* devices and of libupnp threads.
THEOREM ByebyesAreRespected == Spec => []ByebyeRespected
<1>1. Init => ByebyeInv
  <2> SUFFICES ASSUME Init PROVE ByebyeInv
    OBVIOUS
  <2>1. BeforeStart /\ InHand /\ ByebyeOnItsWay
    BY DEF Init, BeforeStart, InHand, LastWord, ByebyeOnItsWay
  <2> QED  BY <2>1, ShapeInit DEF ByebyeInv
<1>2. ByebyeInv /\ [Next]_vars => ByebyeInv'
  BY ShapeStep, BeforeStartStep, InHandStep, ByebyeStep DEF ByebyeInv
<1>3. ByebyeInv => ByebyeRespected
  <2> SUFFICES ASSUME ByebyeInv, Quiet, NEW d \in Devices, LastWord(d)
               PROVE  m_devices[d] = 0
    BY DEF ByebyeRespected, LastWord
  <2>1. ~ByebyeQueued(d)
    BY EmptySeq DEF Quiet, ByebyeQueued
  <2> QED  BY <2>1 DEF ByebyeInv, ByebyeOnItsWay, Quiet, Taking, Leaving
<1> QED  BY <1>1, <1>2, <1>3, PTL DEF Spec

-----------------------------------------------------------------------------
(* Visitors that come and go.                                               *)

\* A visitor is in o_callbacks once at most.  It counts as moved as long as it is
\* registered or there, and as long as it is not moved its handle is where it is,
\* but for the one that addCallback() has just put at the end.
Once(s, x) == \A i, j \in 1..Len(s) : s[i] = x /\ s[j] = x => i = j
Exact(c) ==
  /\ Once(o_callbacks, c)
  /\ c \in moved => Contains(o_callbacks, c) \/ handle[c] # None
  /\ c \notin moved /\ handle[c] # None =>
       handle[c] + 1 \in 1..Len(o_callbacks) /\ o_callbacks[handle[c] + 1] = c
  /\ c \notin moved /\ Contains(o_callbacks, c) =>
       handle[c] # None \/ \E u \in Users : uarg[u] = c
  /\ \A u \in Users : uarg[u] = c =>
       c \notin moved /\ handle[c] = None /\ o_callbacks[Len(o_callbacks)] = c
HandleExact == \A c \in Visitors : Exact(c)

HandleInv == Shape /\ HandleExact

\* The steps that register, and all the others.
LEMMA HandlesMove ==
  ASSUME [Next]_vars
  PROVE  \/ Construct
         \/ \E u \in Users : AddCallbackTraverse(u)
         \/ \E u \in Users, c \in Visitors : AddCallback(u, c) \/ DelCallback(u, c)
         \/ UNCHANGED <<foundVars, uarg>>
<1>1. CASE Network
  BY <1>1
     DEF Network, ComeUp, GoSilently, Expires, Announce, GoWithByebye, directoryVars,
         callbackVars, userVars
<1>2. CASE Explore
  BY <1>2
     DEF Explore, Take, TakeWait, TakeTimeout, Exit, ParseFails, Insert, Visit,
         ByebyeLock, ByebyeLost, Expiring, ExpireLock, ExpireOne, ExpireUnlock, Goto,
         Forget, directoryVars, callbackVars, userVars
<1>3. ASSUME NEW t \in NetThreads, NetThread(t)
      PROVE  UNCHANGED <<foundVars, uarg>>
  BY <1>3
     DEF NetThread, DownloadStart, Download, DownloadEnd, Put, directoryVars,
         callbackVars, userVars
<1>4. ASSUME NEW u \in Users,
             \/ Lookup(u) \/ TerminateCall(u) \/ Expiring(u)
             \/ Traverse(u) \/ TerminateStop(u) \/ TerminateJoin(u)
             \/ \E c \in Visitors : AddLostCallback(u, c) \/ DelLostCallback(u, c)
      PROVE  UNCHANGED <<foundVars, uarg>>
  BY <1>4
     DEF Lookup, TerminateCall, Expiring, ExpireLock, ExpireOne, ExpireUnlock, Goto,
         Forget, Traverse, TerminateStop, TerminateJoin, UserGoes, AddLostCallback,
         DelLostCallback, directoryVars, callbackVars, userVars
<1>5. CASE UNCHANGED vars
  BY <1>5 DEF vars, directoryVars, callbackVars, userVars
<1> QED  BY <1>1, <1>2, <1>3, <1>4, <1>5 DEF Next, UserCall, UserStep

\* What erase() leaves where it is, and what it removes.
LEMMA ErasedIs ==
  ASSUME NEW S, NEW s \in Seq(S), NEW idx \in Nat, NEW x, Once(s, x)
  PROVE  LET r == Erase(s, idx) IN
         /\ Once(r, x)
         /\ Contains(r, x) => Contains(s, x)
         /\ idx + 1 \in 1..Len(s) /\ s[idx + 1] = x => ~Contains(r, x)
         /\ \A p \in 1..Len(s) : s[p] = x /\ p <= idx => p \in 1..Len(r) /\ r[p] = x
<1> DEFINE r == Erase(s, idx)
           n == Len(s)
<1>1. n \in Nat
  BY LenProperties
<1>2. CASE idx >= n
  <2>1. r = s /\ ~(idx + 1 \in 1..n)
    BY <1>1, <1>2 DEF Erase
  <2> QED  BY <2>1
<1>3. CASE idx < n
  <2>1. /\ Len(r) = n - 1
        /\ \A i \in 1..(n - 1) : r[i] = IF i <= idx THEN s[i] ELSE s[i + 1]
    BY <1>3, EraseIs
  <2>2. \A i \in 1..(n - 1) :
          r[i] = x => \E k \in {i, i + 1} : k \in 1..n /\ s[k] = x /\ k # idx + 1
                                            /\ (k <= idx <=> k = i)
    BY <2>1, <1>1
  <2>3. Once(r, x)
    <3> SUFFICES ASSUME NEW i \in 1..(n - 1), NEW j \in 1..(n - 1), r[i] = x, r[j] = x
                 PROVE  i = j
      BY <2>1 DEF Once
    <3>1. PICK k \in {i, i + 1} : k \in 1..n /\ s[k] = x /\ (k <= idx <=> k = i)
      BY <2>2
    <3>2. PICK l \in {j, j + 1} : l \in 1..n /\ s[l] = x /\ (l <= idx <=> l = j)
      BY <2>2
    <3>3. k = l
      BY <3>1, <3>2 DEF Once
    <3> QED  BY <3>1, <3>2, <3>3, <1>1
  <2>4. Contains(r, x) => Contains(s, x)
    BY <2>1, <2>2 DEF Contains
  <2>5. idx + 1 \in 1..n /\ s[idx + 1] = x => ~Contains(r, x)
    BY <2>1, <2>2 DEF Contains, Once
  <2>6. \A p \in 1..n : s[p] = x /\ p <= idx => p \in 1..Len(r) /\ r[p] = x
    BY <2>1, <1>1, <1>3
  <2> QED  BY <2>3, <2>4, <2>5, <2>6
<1> QED  BY <1>1, <1>2, <1>3

LEMMA HandleStep ==
  ASSUME Shape, HandleExact, [Next]_vars
  PROVE  HandleExact'
<1> DEFINE CB == Visitors \cup {Waker}
           n == Len(o_callbacks)
<1>0. o_callbacks \in Seq(CB) /\ n \in Nat
  BY LenProperties DEF Shape, TypeOK
<1>1. ASSUME NEW e \in CB, o_callbacks' = Append(o_callbacks, e)
      PROVE  /\ Len(o_callbacks') = n + 1 /\ o_callbacks'[n + 1] = e
             /\ \A i \in 1..n : o_callbacks'[i] = o_callbacks[i]
             /\ \A x : Contains(o_callbacks', x) <=> Contains(o_callbacks, x) \/ x = e
  BY <1>0, <1>1, AppendProperties, AppendIs
<1>2. CASE Construct
  <2>1. /\ o_callbacks' = Append(o_callbacks, Waker) /\ UNCHANGED <<handle, moved, uarg>>
        /\ \A u \in Users : uarg[u] = None
    BY <1>2, NameAssumption DEF Construct, userVars, Shape, Registering, Threads
  <2>2. \A c \in Visitors : c # Waker /\ c # None
    BY NameAssumption
  <2> HIDE DEF CB
  <2>3. Waker \in CB
    BY DEF CB
  <2> QED  BY <2>1, <2>2, <2>3, <1>0, <1>1 DEF HandleExact, Exact, Once
<1>3. ASSUME NEW u \in Users, NEW c \in Visitors, AddCallback(u, c)
      PROVE  HandleExact'
  <2>1. /\ o_callbacks' = Append(o_callbacks, c) /\ ~Contains(o_callbacks, c)
        /\ UNCHANGED <<handle, moved>> /\ handle[c] = None
        /\ \A v \in Users : uarg'[v] = IF v = u THEN c ELSE None
    BY <1>3, NameAssumption DEF AddCallback, Shape, TypeOK, Registering, Threads
  <2>2. (\A i \in 1..n : o_callbacks[i] # c) /\ c \notin moved
    BY <2>1 DEF Contains, HandleExact, Exact, Once
  <2>3. \A b \in Visitors : b # None
    BY NameAssumption
  <2> HIDE DEF CB
  <2>4. c \in CB
    BY DEF CB
  <2>5. /\ Len(o_callbacks') = n + 1 /\ o_callbacks'[n + 1] = c
        /\ \A i \in 1..n : o_callbacks'[i] = o_callbacks[i]
        /\ \A x : Contains(o_callbacks', x) <=> Contains(o_callbacks, x) \/ x = c
    BY <2>1, <2>4, <1>1
  <2>6. ASSUME NEW b \in Visitors, b # c
        PROVE  Exact(b)'
    <3>1. Exact(b) /\ \A v \in Users : uarg'[v] # b
      BY <2>1, <2>3, <2>6 DEF HandleExact
    <3>2. \A i \in 1..Len(o_callbacks') :
            o_callbacks'[i] = b => i \in 1..n /\ o_callbacks[i] = b
      BY <2>5, <2>6, <1>0
    <3>3. Contains(o_callbacks', b) <=> Contains(o_callbacks, b)
      BY <2>5, <2>6
    <3>4. \A v \in Users : uarg[v] # b
      BY <1>3, NameAssumption DEF AddCallback, Shape, Registering, Threads
    <3>5. b \notin moved /\ handle[b] # None =>
            handle[b] + 1 \in 1..(n + 1) /\ o_callbacks'[handle[b] + 1] = b
      BY <3>1, <2>5, <1>0 DEF Exact, Once
    <3> QED  BY <3>1, <3>2, <3>3, <3>4, <3>5, <2>1, <2>5 DEF Exact, Once
  <2>7. Exact(c)'
    BY <2>1, <2>2, <2>3, <2>5, <1>0 DEF Exact, Once
  <2> QED  BY <2>6, <2>7 DEF HandleExact
<1>4. ASSUME NEW u \in Users, AddCallbackTraverse(u)
      PROVE  HandleExact'
  <2>1. PICK c \in Visitors : uarg[u] = c /\ Contains(o_callbacks, c)
    BY <1>4 DEF AddCallbackTraverse, Shape, Registering
  <2>2. n >= 1
    BY <2>1, <1>0 DEF Contains
  <2>3. /\ UNCHANGED <<o_callbacks, moved>> /\ n - 1 \in Nat /\ n - 1 # None
        /\ \A b \in Visitors : handle'[b] = IF b = c THEN n - 1 ELSE handle[b]
        /\ \A v \in Users : uarg'[v] = None
    <3>1. /\ UNCHANGED <<o_callbacks, moved>> /\ n - 1 \in Nat
          /\ \A b \in Visitors : handle'[b] = IF b = c THEN n - 1 ELSE handle[b]
      BY <1>4, <2>1, <2>2, <1>0 DEF AddCallbackTraverse, NewIndex, Shape, TypeOK
    <3>2. \A v \in Users : upc[v] = "addCallback" => v = u
      BY <1>4 DEF AddCallbackTraverse, Shape, Registering
    <3>3. \A v \in Users : uarg'[v] = None
      BY <1>4, <3>2 DEF AddCallbackTraverse, Shape, TypeOK, Registering
    <3> QED  BY <3>1, <3>3, NameAssumption
  <2>4. \A b \in Visitors : b # None
    BY NameAssumption
  <2>5. /\ \A v \in Users : upc[v] = "addCallback" => v = u
        /\ \A v \in Users : uarg[v] # None => v = u
    BY <1>4 DEF AddCallbackTraverse, Shape, Registering
  <2>6. o_callbacks[n] = c /\ (n - 1) + 1 = n /\ n \in 1..n
    BY <2>1, <2>2, <1>0 DEF HandleExact, Exact, Once
  <2> QED  BY <2>1, <2>3, <2>4, <2>5, <2>6 DEF HandleExact, Exact, Once
<1>5. ASSUME NEW u \in Users, NEW c \in Visitors, DelCallback(u, c)
      PROVE  HandleExact'
  <2> DEFINE h == handle[c]
  <2>1. /\ o_callbacks' = Erase(o_callbacks, h) /\ UNCHANGED uarg
        /\ h # None /\ h \in Nat
        /\ \A b \in Visitors : handle'[b] = IF b = c THEN None ELSE handle[b]
        /\ moved' = {b \in moved \cup Shifted(c) :
                       Contains(o_callbacks', b) \/ handle'[b] # None}
    BY <1>5 DEF DelCallback, userVars, Shape, TypeOK
  <2>2. \A v \in Users, b \in Visitors : uarg[v] # b
    BY <1>5, NameAssumption DEF DelCallback, Shape, Registering, Threads
  <2>3. ASSUME NEW b \in Visitors
        PROVE  /\ Once(o_callbacks', b)
               /\ Contains(o_callbacks', b) => Contains(o_callbacks, b)
               /\ h + 1 \in 1..n /\ o_callbacks[h + 1] = b => ~Contains(o_callbacks', b)
               /\ \A p \in 1..n : o_callbacks[p] = b /\ p <= h =>
                    p \in 1..Len(o_callbacks') /\ o_callbacks'[p] = b
    <3>1. Once(o_callbacks, b)
      BY DEF HandleExact, Exact
    <3> DEFINE r == Erase(o_callbacks, h)
    <3> HIDE DEF CB, h
    <3>2. /\ Once(r, b)
          /\ Contains(r, b) => Contains(o_callbacks, b)
          /\ h + 1 \in 1..n /\ o_callbacks[h + 1] = b => ~Contains(r, b)
          /\ \A p \in 1..n :
               o_callbacks[p] = b /\ p <= h => p \in 1..Len(r) /\ r[p] = b
      BY <3>1, <2>1, <1>0, ErasedIs
    <3> QED  BY <3>2, <2>1
  <2>4. c \in moved' \/ ~Contains(o_callbacks', c)
    <3>1. c \notin moved => h + 1 \in 1..n /\ o_callbacks[h + 1] = c
      BY <2>1 DEF HandleExact, Exact
    <3> QED  BY <3>1, <2>1, <2>3
  <2>5. ASSUME NEW b \in Visitors \ {c}, b \notin moved',
               Contains(o_callbacks', b) \/ handle[b] # None
        PROVE  /\ handle[b] # None
               /\ handle[b] + 1 \in 1..Len(o_callbacks')
               /\ o_callbacks'[handle[b] + 1] = b
    <3>1. b \notin moved /\ b \notin Shifted(c)
      BY <2>1, <2>5
    <3>2. handle[b] # None
      BY <3>1, <2>2, <2>3, <2>5 DEF HandleExact, Exact
    <3>3. handle[b] + 1 \in 1..n /\ o_callbacks[handle[b] + 1] = b
      BY <3>1, <3>2 DEF HandleExact, Exact
    <3>4. handle[b] + 1 <= h
      BY <3>1, <3>3, <2>1, <1>0 DEF Shifted
    <3> QED  BY <3>2, <3>3, <3>4, <2>3
  <2>6. ASSUME NEW b \in Visitors
        PROVE  /\ b \in moved' => Contains(o_callbacks', b) \/ handle'[b] # None
               /\ b \notin moved' /\ handle'[b] # None =>
                    /\ handle'[b] + 1 \in 1..Len(o_callbacks')
                    /\ o_callbacks'[handle'[b] + 1] = b
               /\ b \notin moved' /\ Contains(o_callbacks', b) => handle'[b] # None
    BY <2>1, <2>4, <2>5
  <2> QED  BY <2>1, <2>2, <2>3, <2>6 DEF HandleExact, Exact
<1>6. CASE UNCHANGED <<foundVars, uarg>>
  BY <1>6 DEF HandleExact, Exact, Once, foundVars
<1> QED  BY <1>2, <1>3, <1>4, <1>5, <1>6, HandlesMove

\* addCallback() and delCallback(): with any number of visitors and threads, a visitor
\* is not called after it was unregistered, or before it is registered, if no earlier
\* delCallback() moved it: while none did, its index is where it is.
THEOREM UnregisteredAreNotCalled == Spec => NotCalledUnregistered
<1>1. Init => HandleInv
  <2> SUFFICES ASSUME Init PROVE HandleInv
    OBVIOUS
  <2>1. HandleExact
    BY EmptySeq, NameAssumption DEF Init, HandleExact, Exact, Once, Contains
  <2> QED  BY <2>1, ShapeInit DEF HandleInv
<1>2. HandleInv /\ [Next]_vars => HandleInv'
  BY ShapeStep, HandleStep DEF HandleInv
<1>3. ASSUME HandleInv, [Next]_vars, NEW c \in Visitors \ moved,
             handle[c] = None, \A u \in Users : uarg'[u] # c /\ uarg[u] # c,
             NEW d \in Devices
      PROVE  view'[c][d] \in {view[c][d], 0}
  <2>1. ~Contains(o_callbacks, c)
    BY <1>3 DEF HandleInv, HandleExact, Exact
  <2>2. CASE Visit
    BY <2>1, <2>2 DEF Visit, Found
  <2>3. ASSUME NEW e, Forget(e)
        PROVE  view'[c][d] \in {view[c][d], 0}
    BY <1>3, <2>3 DEF Forget, Lost, HandleInv, Shape, TypeOK
  <2>4. ASSUME NEW u \in Users, AddCallbackTraverse(u)
        PROVE  view'[c][d] \in {view[c][d], 0}
    BY <1>3, <2>4 DEF AddCallbackTraverse, Shown, HandleInv, Shape, TypeOK
  <2>5. ASSUME NEW u \in Users, NEW b \in Visitors, AddCallback(u, b) \/ DelCallback(u, b)
        PROVE  view'[c][d] \in {view[c][d], 0}
    <3>1. view' = Untold(b)
      BY <2>5 DEF AddCallback, DelCallback
    <3> QED  BY <3>1, <1>3 DEF Untold, HandleInv, Shape, TypeOK
  <2>6. CASE ViewsKept
    BY <2>6 DEF ViewsKept, viewVars
  <2> QED
    BY <1>3, <2>2, <2>3, <2>4, <2>5, <2>6, ViewsMove
       DEF HandleInv, ByebyeLost, ExpireOne
<1>4. HandleInv /\ [Next]_vars => [\A c \in Visitors \ moved : NotCalled(c)]_vars
  BY <1>3 DEF NotCalled
<1> QED  BY <1>1, <1>2, <1>4, PTL DEF Spec, NotCalledUnregistered
=============================================================================
