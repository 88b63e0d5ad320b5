--------------------------- MODULE WorkQueueProofs ---------------------------
(***************************************************************************)
(* Proofs about WorkQueue, for every number of clients, workers and tasks  *)
(* and every m_high and m_low.                                             *)
(***************************************************************************)
EXTENDS WorkQueue, FiniteSetTheorems, TLAPS

\* Where the sleepers are: the counters say how many threads wait, this says
\* that only a thread inside of a wait can be on a condition variable.
SleepersPlaced ==
  /\ wcond \subseteq {w \in Workers : wpc[w] = "take"}
  /\ ccond \subseteq {c \in Clients : cpc[c] # "idle"}
  /\ ~Timed => \A w \in Workers : wpc[w] # "timedout"

\* The part of the invariant that the other parts rest on.
Shape == TypeOK /\ CountersExact /\ SleepersPlaced

-----------------------------------------------------------------------------
(* Counting.  The counters are sizes of sets of workers; adding a worker to *)
(* such a set or removing one is what ++ and -- do, and none of them wraps. *)

LEMMA CountChange ==
  ASSUME NEW S \in SUBSET Workers, NEW x \in Workers
  PROVE  /\ IsFiniteSet(S)
         /\ Cardinality(S) \in 0..UIntMax
         /\ Cardinality(S) = 0 <=> S = {}
         /\ x \notin S => Inc(Cardinality(S)) = Cardinality(S \cup {x})
         /\ x \in S => Dec(Cardinality(S)) = Cardinality(S \ {x})
<1> USE SizeAssumption
<1>1. IsFiniteSet(S) /\ Cardinality(S) <= Cardinality(Workers)
  BY FS_Subset
<1>2. Cardinality(S) \in Nat /\ Cardinality(Workers) \in Nat
  BY <1>1, FS_CardinalityType
<1>3. Cardinality(S) = 0 <=> S = {}
  BY <1>1, FS_EmptySet
<1>4. x \notin S => Inc(Cardinality(S)) = Cardinality(S \cup {x})
  <2>1. x \notin S => Cardinality(S \cup {x}) = Cardinality(S) + 1
    BY <1>1, FS_AddElement
  <2> QED  BY <2>1, <1>1, <1>2 DEF Inc
<1>5. x \in S => Dec(Cardinality(S)) = Cardinality(S \ {x})
  <2>1. x \in S => Cardinality(S \ {x}) = Cardinality(S) - 1
    BY <1>1, FS_RemoveElement
  <2> QED  BY <2>1, <1>2, <1>3 DEF Dec
<1> QED  BY <1>1, <1>2, <1>3, <1>4, <1>5

\* What the counters tell: no worker waits, no worker has left, all have left.
LEMMA CountersTell ==
  ASSUME Shape
  PROVE  /\ m_workers_waiting = 0 <=> WaitingWorkers = {}
         /\ m_workers_exited = 0 <=> ExitedWorkers = {}
         /\ AllExited <=> ExitedWorkers = m_worker_threads
<1> USE SizeAssumption DEF Shape, TypeOK, CountersExact
<1>1. WaitingWorkers \subseteq Workers /\ ExitedWorkers \subseteq m_worker_threads
  BY DEF WaitingWorkers, ExitedWorkers
<1>2. IsFiniteSet(m_worker_threads) /\ IsFiniteSet(WaitingWorkers)
      /\ IsFiniteSet(ExitedWorkers)
  BY <1>1, FS_Subset
<1>3. /\ m_workers_waiting = 0 <=> WaitingWorkers = {}
      /\ m_workers_exited = 0 <=> ExitedWorkers = {}
  BY <1>2, FS_EmptySet
<1>4. AllExited <=> ExitedWorkers = m_worker_threads
  <2>1. Cardinality(ExitedWorkers) <= Cardinality(m_worker_threads)
    BY <1>1, <1>2, FS_Subset
  <2>2. Cardinality(ExitedWorkers) = Cardinality(m_worker_threads)
          => ExitedWorkers = m_worker_threads
    BY <1>1, <1>2, FS_Subset
  <2>3. /\ Cardinality(ExitedWorkers) \in Nat
        /\ Cardinality(m_worker_threads) \in Nat
    BY <1>2, FS_CardinalityType
  <2>4. m_workers_exited = Cardinality(ExitedWorkers)
    OBVIOUS
  <2> HIDE DEF Shape, TypeOK, CountersExact
  <2> QED  BY <2>1, <2>2, <2>3, <2>4 DEF AllExited
<1> QED  BY <1>3, <1>4

\* waitIdle()'s test compares counters; this is what it means for the workers.
LEMMA IdleMeans ==
  ASSUME Shape, ~NotIdle
  PROVE  /\ m_worker_threads = WaitingWorkers \cup ExitedWorkers
         /\ m_queue = <<>> \/ ExitedWorkers = m_worker_threads
<1> USE SizeAssumption DEF Shape, TypeOK, CountersExact
<1>1. /\ WaitingWorkers \subseteq m_worker_threads
      /\ ExitedWorkers \subseteq m_worker_threads
      /\ WaitingWorkers \cap ExitedWorkers = {}
  BY DEF WaitingWorkers, ExitedWorkers
<1>2. /\ IsFiniteSet(m_worker_threads)
      /\ IsFiniteSet(WaitingWorkers)
      /\ IsFiniteSet(ExitedWorkers)
  BY <1>1, FS_Subset
<1>3. /\ IsFiniteSet(WaitingWorkers \cup ExitedWorkers)
      /\ Cardinality(WaitingWorkers \cup ExitedWorkers)
           = m_workers_waiting + m_workers_exited
  <2>1. /\ IsFiniteSet(WaitingWorkers \cup ExitedWorkers)
        /\ Cardinality(WaitingWorkers \cup ExitedWorkers)
             = Cardinality(WaitingWorkers) + Cardinality(ExitedWorkers)
                 - Cardinality(WaitingWorkers \cap ExitedWorkers)
    BY <1>2, FS_Union
  <2>2. Cardinality(WaitingWorkers \cap ExitedWorkers) = 0
    BY <1>1, FS_EmptySet
  <2> QED  BY <2>1, <2>2
<1>4. Cardinality(WaitingWorkers \cup ExitedWorkers) >= Cardinality(m_worker_threads)
  <2>1. Cardinality(m_worker_threads) \in Nat
    BY <1>2, FS_CardinalityType
  <2> QED  BY <1>3, <2>1 DEF NotIdle
<1>5. m_worker_threads = WaitingWorkers \cup ExitedWorkers
  <2>1. WaitingWorkers \cup ExitedWorkers \subseteq m_worker_threads
    BY <1>1
  <2>2. Cardinality(WaitingWorkers \cup ExitedWorkers) <= Cardinality(m_worker_threads)
    BY <2>1, <1>2, FS_Subset
  <2>3. /\ Cardinality(m_worker_threads) \in Nat
        /\ Cardinality(WaitingWorkers \cup ExitedWorkers) \in Nat
    BY <1>2, <1>3, FS_CardinalityType
  <2>4. Cardinality(m_worker_threads) = Cardinality(WaitingWorkers \cup ExitedWorkers)
    BY <1>4, <2>2, <2>3
  <2> QED  BY <2>1, <2>4, <1>2, FS_Subset
<1>6. m_queue = <<>> \/ ExitedWorkers = m_worker_threads
  <2>1. Len(m_queue) > 0 \/ m_queue = <<>>
    OBVIOUS
  <2>2. Len(m_queue) > 0 => AllExited
    <3>1. Cardinality(m_worker_threads) \in Nat
      BY <1>2, FS_CardinalityType
    <3> QED  BY <3>1 DEF NotIdle, AllExited
  <2> QED  BY <2>1, <2>2, CountersTell
<1> QED  BY <1>5, <1>6

-----------------------------------------------------------------------------
(* The shape invariant, action by action.                                   *)

LEMMA InitShape == Init => Shape
<1> SUFFICES ASSUME Init PROVE Shape
  OBVIOUS
<1>1. ExitedWorkers = {} /\ WaitingWorkers = {}
  BY DEF Init, ExitedWorkers, WaitingWorkers
<1>2. TypeOK
  BY SizeAssumption DEF Init, TypeOK, ClientPC, WorkerPC
<1>3. CountersExact
  BY <1>1, FS_EmptySet DEF Init, CountersExact
<1> QED  BY <1>2, <1>3 DEF Shape, SleepersPlaced, Init

\* notify_one() takes a thread away or leaves nobody behind.
LEMMA NotifiedMembers ==
  ASSUME NEW cond, NEW after \in Notified(cond)
  PROVE  /\ after \subseteq cond
         /\ cond # {} => \E x \in cond : after = cond \ {x}
BY DEF Notified

\* What a push leaves on the queue: the old tasks or none, and one more.
LEMMA PushQueue ==
  ASSUME m_queue \in Seq(Tasks), NEW c, Push(c)
  PROVE  /\ m_queue' \in Seq(Tasks)
         /\ Len(m_queue') \in Nat /\ Len(m_queue') <= Len(m_queue) + 1
<1>1. PICK t \in Tasks, kept \in {<<>>, m_queue} : m_queue' = Append(kept, t)
  BY DEF Push
<1>2. kept \in Seq(Tasks) /\ (Len(kept) = 0 \/ Len(kept) = Len(m_queue))
  <2>1. <<>> \in Seq(Tasks) /\ Len(<<>>) = 0
    OBVIOUS
  <2>2. CASE kept = <<>>
    BY <2>1, <2>2
  <2>3. CASE kept = m_queue
    BY <2>3
  <2> QED  BY <2>2, <2>3
<1>3. Append(kept, t) \in Seq(Tasks) /\ Len(Append(kept, t)) = Len(kept) + 1
  BY <1>2
<1>4. Len(kept) + 1 <= Len(m_queue) + 1
  BY <1>2
<1> QED  BY <1>1, <1>3, <1>4

\* Actions that leave the workers and their counters alone.
LEMMA ClientShape ==
  ASSUME Shape, NEW c \in Clients,
         PutCall(c) \/ PutResume(c) \/ WaitIdleCall(c) \/ WaitIdleResume(c)
           \/ CloseShop(c)
  PROVE  Shape'
<1> USE DEF Shape, lifeVars, clientVars, workerVars, queueVars
<1>1. UNCHANGED <<wpc, m_workers_waiting, lifeVars>>
  BY DEF PutCall, PutResume, WaitIdleCall, WaitIdleResume, CloseShop
<1>2. wcond' \subseteq wcond
  BY NotifiedMembers
     DEF PutCall, PutResume, WaitIdleCall, WaitIdleResume, CloseShop, Push, PushWakes
<1>3. /\ ccond' \in SUBSET Clients
      /\ cpc' \in [Clients -> ClientPC]
      /\ \A x \in ccond' : cpc'[x] # "idle"
  BY DEF PutCall, PutResume, WaitIdleCall, WaitIdleResume, CloseShop, Push,
         ClientSleeps, ClientPC, TypeOK, SleepersPlaced
<1>4. m_clients_waiting' \in 0..UIntMax
  BY SizeAssumption
     DEF PutCall, PutResume, WaitIdleCall, WaitIdleResume, CloseShop, Inc, Dec,
         TypeOK
<1>5. m_queue' \in Seq(Tasks) /\ m_openforbusiness' \in BOOLEAN
  <2>1. Push(c) => m_queue' \in Seq(Tasks)
    BY PushQueue DEF TypeOK
  <2> QED  BY <2>1 DEF PutCall, PutResume, WaitIdleCall, WaitIdleResume, CloseShop, TypeOK
<1>6. TypeOK' /\ SleepersPlaced'
  BY <1>1, <1>2, <1>3, <1>4, <1>5 DEF TypeOK, SleepersPlaced
<1>7. CountersExact'
  BY <1>1 DEF CountersExact, ExitedWorkers, WaitingWorkers
<1> QED  BY <1>6, <1>7

LEMMA StartShape ==
  ASSUME Shape, Start
  PROVE  Shape'
<1> USE DEF Shape, Start, lifeVars, clientVars, workerVars, queueVars
<1>1. PICK new \in SUBSET (Workers \ m_worker_threads) :
        /\ m_worker_threads' = m_worker_threads \cup new
        /\ wpc' = [w \in Workers |-> IF w \in new THEN "run" ELSE wpc[w]]
  OBVIOUS
<1>2. TypeOK'
  BY <1>1 DEF TypeOK, WorkerPC
<1>3. /\ WaitingWorkers' = WaitingWorkers
      /\ ExitedWorkers' = ExitedWorkers
  BY <1>1 DEF WaitingWorkers, ExitedWorkers, CountersExact
<1>4. m_worker_threads' = {w \in Workers : wpc'[w] # "out"}
  BY <1>1 DEF CountersExact, TypeOK
<1>5. CountersExact'
  BY <1>3, <1>4 DEF CountersExact
<1>6. SleepersPlaced'
  BY <1>1 DEF SleepersPlaced, CountersExact
<1> QED  BY <1>2, <1>5, <1>6

LEMMA TerminateShape ==
  ASSUME Shape, TerminateCall \/ TerminateResume
  PROVE  Shape'
<1> USE DEF Shape, lifeVars, clientVars, workerVars, queueVars
<1>1. PICK n \in 0..UIntMax :
        /\ TerminateLoop(n)
        /\ Owner \notin ccond
        /\ UNCHANGED queueVars
  BY SizeAssumption
     DEF TerminateCall, TerminateResume, TypeOK, Dec, SleepersPlaced
<1>2. CASE ~AllExited
  <2>1. TypeOK'
    <3>1. Inc(n) \in 0..UIntMax
      BY SizeAssumption DEF Inc
    <3>2. /\ m_ok' \in BOOLEAN /\ wcond' \subseteq Workers
          /\ m_clients_waiting' \in 0..UIntMax
          /\ UNCHANGED <<m_worker_threads, m_workers_exited, m_workers_waiting,
                         wpc, m_queue, m_openforbusiness>>
      BY <1>1, <1>2, <3>1 DEF TerminateLoop
    <3>3. ccond' \subseteq Clients /\ cpc' \in [Clients -> ClientPC]
      BY <1>1, <1>2, OwnerAssumption
         DEF TerminateLoop, TypeOK, ClientSleeps, ClientPC
    <3> QED  BY <3>2, <3>3 DEF TypeOK
  <2>2. CountersExact'
    BY <1>1, <1>2 DEF TerminateLoop, CountersExact, WaitingWorkers, ExitedWorkers
  <2>3. SleepersPlaced'
    BY <1>1, <1>2, OwnerAssumption
       DEF TerminateLoop, SleepersPlaced, ClientSleeps, TypeOK
  <2> QED  BY <2>1, <2>2, <2>3
<1>3. CASE AllExited
  <2>1. ExitedWorkers = m_worker_threads
    BY <1>3, CountersTell
  <2>2. TypeOK'
    BY <1>1, <1>3, SizeAssumption DEF TerminateLoop, TypeOK, ClientPC, WorkerPC
  <2>3. WaitingWorkers' = {} /\ ExitedWorkers' = {}
    BY <1>1, <1>3 DEF TerminateLoop, WaitingWorkers, ExitedWorkers
  <2>4. CountersExact'
    BY <1>1, <1>3, <2>3, FS_EmptySet DEF TerminateLoop, CountersExact
  <2>5. wcond = {}
    BY <2>1 DEF SleepersPlaced, ExitedWorkers, CountersExact, TypeOK
  <2>6. SleepersPlaced'
    BY <1>1, <1>3, <2>5, OwnerAssumption DEF TerminateLoop, SleepersPlaced, TypeOK
  <2> QED  BY <2>2, <2>4, <2>6
<1> QED  BY <1>2, <1>3

\* Common to the first turn of take()'s loop and to the later ones.
LEMMA TakeLoopShape ==
  ASSUME Shape, NEW w \in m_worker_threads, w \notin wcond, w \notin ExitedWorkers,
         TakeLoop(w, Cardinality(WaitingWorkers \ {w})),
         UNCHANGED <<m_openforbusiness, m_clients_waiting, cpc, lifeVars>>
  PROVE  Shape'
<1> USE DEF Shape, lifeVars
<1>0. w \in Workers /\ wpc[w] \notin {"out", "done"}
  BY DEF TypeOK, ExitedWorkers, CountersExact
<1>1. PICK pc \in {"take", "run"} : wpc' = [wpc EXCEPT ![w] = pc]
  BY DEF TakeLoop, Pop
<1>2. /\ ExitedWorkers' = ExitedWorkers
      /\ m_worker_threads' = {v \in Workers : wpc'[v] # "out"}
  BY <1>0, <1>1 DEF ExitedWorkers, CountersExact, TypeOK
<1>3. /\ ccond' \subseteq ccond
      /\ wcond' \subseteq wcond \cup {w}
      /\ w \in wcond' => pc = "take"
  BY <1>0, <1>1, NotifiedMembers DEF TakeLoop, Pop, SleepWakes, PopWakes, TypeOK
<1>4. m_workers_waiting' = Cardinality(WaitingWorkers')
  <2>1. CASE TooFew
    <3>1. WaitingWorkers' = (WaitingWorkers \ {w}) \cup {w}
      BY <1>0, <2>1 DEF TakeLoop, WaitingWorkers, TypeOK
    <3>2. m_workers_waiting' = Inc(Cardinality(WaitingWorkers \ {w}))
      BY <2>1 DEF TakeLoop
    <3> QED  BY <1>0, <3>1, <3>2, CountChange DEF WaitingWorkers
  <2>2. CASE ~TooFew
    <3>1. WaitingWorkers' = WaitingWorkers \ {w}
      BY <1>0, <2>2 DEF TakeLoop, Pop, WaitingWorkers, TypeOK
    <3> QED  BY <2>2, <3>1 DEF TakeLoop
  <2> QED  BY <2>1, <2>2
<1>5. m_queue' \in Seq(Tasks)
  <2>1. CASE TooFew
    BY <2>1 DEF TakeLoop, TypeOK
  <2>2. CASE ~TooFew
    <3>1. m_queue # <<>> /\ m_queue' = Tail(m_queue)
      BY <2>2, SizeAssumption DEF TooFew, TakeLoop, Pop
    <3> QED  BY <3>1 DEF TypeOK
  <2> QED  BY <2>1, <2>2
<1>6. m_workers_waiting' \in 0..UIntMax
  BY <1>0, <1>4, CountChange DEF WaitingWorkers
<1>7. TypeOK'
  BY <1>0, <1>1, <1>3, <1>5, <1>6 DEF TypeOK, WorkerPC
<1>8. CountersExact'
  BY <1>2, <1>4 DEF CountersExact
<1>9. SleepersPlaced'
  BY <1>0, <1>1, <1>3 DEF SleepersPlaced, TypeOK
<1> QED  BY <1>7, <1>8, <1>9

\* A worker whose wait is over, or that leaves.
LEMMA WorkerShape ==
  ASSUME Shape, NEW w \in Workers,
         \/ TakeCall(w) \/ TakeResume(w) \/ TakeExpires(w) \/ TakeTimedOut(w)
         \/ workerExit(w)
  PROVE  Shape'
<1> USE DEF Shape, lifeVars, clientVars, workerVars, queueVars
<1>1. CASE (TakeCall(w) \/ TakeResume(w)) /\ Ok
  <2>1. /\ w \in m_worker_threads
        /\ w \notin wcond
        /\ w \notin ExitedWorkers
    BY <1>1 DEF TakeCall, TakeResume, CountersExact, SleepersPlaced, ExitedWorkers
  <2>2. CASE TakeCall(w)
    <3>1. WaitingWorkers \ {w} = WaitingWorkers
      BY <2>2 DEF TakeCall, WaitingWorkers
    <3> QED  BY <1>1, <2>1, <2>2, <3>1, TakeLoopShape DEF TakeCall, CountersExact
  <2>3. CASE TakeResume(w)
    <3>1. w \in WaitingWorkers
      BY <2>3 DEF TakeResume, WaitingWorkers
    <3>2. Dec(m_workers_waiting) = Cardinality(WaitingWorkers \ {w})
      BY <3>1, CountChange DEF WaitingWorkers, CountersExact
    <3> QED  BY <1>1, <2>1, <2>3, <3>2, TakeLoopShape DEF TakeResume
  <2> QED  BY <1>1, <2>2, <2>3
<1>2. CASE TakeCall(w) /\ ~Ok
  <2>1. WaitingWorkers' = WaitingWorkers /\ ExitedWorkers' = ExitedWorkers
    BY <1>2 DEF TakeCall, WaitingWorkers, ExitedWorkers, TypeOK
  <2>2. CountersExact'
    BY <1>2, <2>1 DEF TakeCall, CountersExact, TypeOK
  <2>3. TypeOK' /\ SleepersPlaced'
    BY <1>2 DEF TakeCall, TypeOK, WorkerPC, SleepersPlaced
  <2> QED  BY <2>2, <2>3
<1>3. CASE (TakeResume(w) /\ ~Ok) \/ TakeTimedOut(w)
  <2>1. /\ w \in WaitingWorkers
        /\ WaitingWorkers' = WaitingWorkers \ {w}
        /\ ExitedWorkers' = ExitedWorkers
    BY <1>3 DEF TakeResume, TakeTimedOut, WaitingWorkers, ExitedWorkers, TypeOK
  <2>2. m_workers_waiting' = Cardinality(WaitingWorkers \ {w})
    <3>1. m_workers_waiting' = Dec(m_workers_waiting)
      BY <1>3 DEF TakeResume, TakeTimedOut
    <3> QED  BY <2>1, <3>1, CountChange DEF WaitingWorkers, CountersExact
  <2>3. CountersExact'
    BY <1>3, <2>1, <2>2 DEF TakeResume, TakeTimedOut, CountersExact, TypeOK
  <2>4. m_workers_waiting' \in 0..UIntMax
    BY <2>2, CountChange DEF WaitingWorkers
  <2>5. TypeOK' /\ SleepersPlaced'
    BY <1>3, <2>4
       DEF TakeResume, TakeTimedOut, TypeOK, WorkerPC, SleepersPlaced
  <2> QED  BY <2>3, <2>5
<1>4. CASE TakeExpires(w)
  <2>1. WaitingWorkers' = WaitingWorkers /\ ExitedWorkers' = ExitedWorkers
    BY <1>4 DEF TakeExpires, WaitingWorkers, ExitedWorkers, TypeOK
  <2>2. CountersExact'
    BY <1>4, <2>1 DEF TakeExpires, CountersExact, TypeOK
  <2>3. TypeOK' /\ SleepersPlaced'
    BY <1>4 DEF TakeExpires, TypeOK, WorkerPC, SleepersPlaced
  <2> QED  BY <2>2, <2>3
<1>5. CASE workerExit(w)
  <2>1. /\ w \notin ExitedWorkers
        /\ ExitedWorkers' = ExitedWorkers \cup {w}
        /\ WaitingWorkers' = WaitingWorkers
    BY <1>5 DEF workerExit, WaitingWorkers, ExitedWorkers, TypeOK
  <2>2. m_workers_exited' = Cardinality(ExitedWorkers')
    BY <1>5, <2>1, CountChange DEF workerExit, ExitedWorkers, CountersExact
  <2>3. CountersExact'
    BY <1>5, <2>1, <2>2 DEF workerExit, CountersExact, TypeOK
  <2>4. m_workers_exited' \in 0..UIntMax
    BY <2>2, CountChange DEF ExitedWorkers
  <2>5. TypeOK' /\ SleepersPlaced'
    BY <1>5, <2>4
       DEF workerExit, TypeOK, WorkerPC, SleepersPlaced, ExitWakes
  <2> QED  BY <2>3, <2>5
<1> QED  BY <1>1, <1>2, <1>3, <1>4, <1>5

LEMMA NextShape == Shape /\ [Next]_vars => Shape'
<1> SUFFICES ASSUME Shape, [Next]_vars PROVE Shape'
  OBVIOUS
<1>1. CASE SpuriousWakeup
  <2>1. UNCHANGED <<wpc, m_workers_waiting, m_workers_exited, m_worker_threads, m_ok>>
    BY <1>1 DEF SpuriousWakeup, lifeVars
  <2>2. CountersExact'
    BY <2>1 DEF Shape, CountersExact, WaitingWorkers, ExitedWorkers
  <2> QED  BY <1>1, <2>2
           DEF Shape, SpuriousWakeup, TypeOK, SleepersPlaced, queueVars, lifeVars
<1>2. CASE UNCHANGED vars
  BY <1>2 DEF Shape, TypeOK, CountersExact, SleepersPlaced, WaitingWorkers,
              ExitedWorkers, vars, queueVars, clientVars, workerVars, lifeVars
<1> QED  BY <1>1, <1>2, StartShape, TerminateShape, ClientShape, WorkerShape DEF Next

\* Whatever the clients and workers do, every variable keeps its type, and the
\* counters that put(), take(), waitIdle() and setTerminateAndWait() decide on
\* are exact: they neither drift nor wrap.
THEOREM ShapeHolds == Spec => []Shape
BY InitShape, NextShape, PTL DEF Spec

THEOREM TypeCorrect == Spec => []TypeOK
BY ShapeHolds, PTL DEF Shape

THEOREM Counters == Spec => []CountersExact
BY ShapeHolds, PTL DEF Shape

-----------------------------------------------------------------------------
(* put() blocks at m_high.                                                  *)

\* A put() that was woken with others looks again before it pushes, so m_high
\* is never passed.
THEOREM BoundHolds == Spec => []QueueBound
<1>1. Init => QueueBound
  BY SizeAssumption DEF Init, QueueBound
<1>2. Shape /\ QueueBound /\ [Next]_vars => QueueBound'
  <2> SUFFICES ASSUME Shape, QueueBound, [Next]_vars PROVE QueueBound'
    OBVIOUS
  <2> USE DEF queueVars, clientVars, workerVars, lifeVars
  <2>1. ASSUME NEW c \in Clients, PutCall(c) \/ PutResume(c) PROVE QueueBound'
    <3>1. CASE ~Full /\ Push(c)
      <4>0. m_queue \in Seq(Tasks)
        BY DEF Shape, TypeOK
      <4>1. m_queue \in Seq(Tasks) /\ Len(m_queue) \in Nat
        BY <4>0
      <4>2. Len(m_queue') \in Nat /\ Len(m_queue') <= Len(m_queue) + 1
        BY <3>1, <4>1, PushQueue
      <4>3. m_high > 0 => Len(m_queue) < m_high
        BY <3>1, <4>1, SizeAssumption DEF Full
      <4>4. m_high \in Nat
        BY SizeAssumption
      <4>5. m_high > 0 => Len(m_queue') <= m_high
        BY <4>1, <4>2, <4>3, <4>4
      <4> QED  BY <4>5 DEF QueueBound
    <3>2. CASE UNCHANGED m_queue
      BY <3>2 DEF QueueBound
    <3> QED  BY <2>1, <3>1, <3>2 DEF PutCall, PutResume
  <2>2. ASSUME NEW w \in Workers, TakeCall(w) \/ TakeResume(w) PROVE QueueBound'
    <3>1. CASE ~TooFew /\ Pop(w)
      <4>1. m_queue # <<>> /\ m_queue' = Tail(m_queue) /\ m_queue \in Seq(Tasks)
        BY <3>1, SizeAssumption DEF TooFew, Pop, Shape, TypeOK
      <4>2. Len(m_queue') = Len(m_queue) - 1
        BY <4>1
      <4> QED  BY <4>1, <4>2, SizeAssumption DEF QueueBound
    <3>2. CASE UNCHANGED m_queue
      BY <3>2 DEF QueueBound
    <3> QED  BY <2>2, <3>1, <3>2 DEF TakeCall, TakeResume, TakeLoop
  <2>3. CASE UNCHANGED m_queue
    BY <2>3 DEF QueueBound
  <2> QED
    BY <2>1, <2>2, <2>3
       DEF Next, vars, Start, TerminateCall, TerminateResume, SpuriousWakeup,
           CloseShop, WaitIdleCall, WaitIdleResume, TakeExpires, TakeTimedOut,
           workerExit
<1> QED  BY <1>1, <1>2, ShapeHolds, PTL DEF Spec

-----------------------------------------------------------------------------
(* Wakeups.                                                                 *)

\* A push leaves a woken worker: there is one on its way, or it wakes one.
LEMMA PushWakesOne ==
  ASSUME Shape, NEW c, Push(c), UNCHANGED <<m_worker_threads, wpc>>
  PROVE  /\ wcond = {} => wcond' = {}
         /\ wcond # {} => \E x \in wcond : wcond' = wcond \ {x}
<1>1. wcond # {} => m_workers_waiting > 0
  <2>1. wcond # {} => WaitingWorkers # {}
    BY DEF Shape, SleepersPlaced, WaitingWorkers
  <2>2. m_workers_waiting \in Nat
    BY SizeAssumption DEF Shape, TypeOK
  <2> QED  BY <2>1, <2>2, CountersTell
<1> QED  BY <1>1, NotifiedMembers DEF Push, PushWakes

\* There is always an awake worker when there is enough to take.
THEOREM StrandedTask == Spec => []NoStrandedTask
<1>1. Init => NoStrandedTask
  BY DEF Init, NoStrandedTask, Ok
<1>2. Shape /\ NoStrandedTask /\ [Next]_vars => NoStrandedTask'
  <2> SUFFICES ASSUME Shape, NoStrandedTask, [Next]_vars, Ok', ~TooFew'
               PROVE  Awake' # {}
    BY DEF NoStrandedTask
  <2> USE DEF queueVars, clientVars, workerVars, lifeVars
  <2>0. wcond \subseteq m_worker_threads
    BY DEF Shape, SleepersPlaced, CountersExact
  <2>1. CASE Start
    <3>1. PICK new \in SUBSET (Workers \ m_worker_threads) :
            new # {} /\ m_worker_threads' = m_worker_threads \cup new
      BY <2>1 DEF Start
    <3>2. PICK w \in new : TRUE
      BY <3>1
    <3>3. w \in Awake'
      <4>1. w \in m_worker_threads'
        BY <3>1, <3>2
      <4>2. w \notin wcond'
        BY <2>0, <2>1, <3>1, <3>2 DEF Start
      <4> QED  BY <4>1, <4>2 DEF Awake
    <3> QED  BY <3>3
  <2>2. CASE TerminateCall \/ TerminateResume
    BY <2>2 DEF TerminateCall, TerminateResume, TerminateLoop, Ok
  <2>3. ASSUME NEW c \in Clients, PutCall(c) \/ PutResume(c) PROVE Awake' # {}
    <3>1. CASE Push(c)
      <4>1. m_worker_threads # {} /\ UNCHANGED <<m_worker_threads, wpc>>
        BY <2>3 DEF Ok, PutCall, PutResume
      <4> QED  BY <2>0, <3>1, <4>1, PushWakesOne DEF Awake
    <3>2. CASE UNCHANGED <<m_queue, wcond>>
      BY <2>3, <3>2 DEF NoStrandedTask, PutCall, PutResume, Ok, TooFew, Awake
    <3> QED  BY <2>3, <3>1, <3>2 DEF PutCall, PutResume
  <2>4. ASSUME NEW w \in Workers, TakeCall(w) \/ TakeResume(w) PROVE Awake' # {}
    <3>1. w \in m_worker_threads /\ w \notin wcond
      BY <2>4 DEF TakeCall, TakeResume, Shape, CountersExact, SleepersPlaced
    <3>2. UNCHANGED m_worker_threads
      BY <2>4 DEF TakeCall, TakeResume
    <3>3. CASE wcond' \subseteq wcond
      BY <3>1, <3>2, <3>3 DEF Awake
    <3>4. CASE TooFew /\ UNCHANGED m_queue
      BY <3>4 DEF TooFew
    <3> QED  BY <2>4, <3>3, <3>4 DEF TakeCall, TakeResume, TakeLoop, Pop
  <2>5. CASE /\ UNCHANGED <<m_queue, m_worker_threads>>
             /\ wcond' \subseteq wcond
             /\ Ok' => Ok
    BY <2>5 DEF NoStrandedTask, TooFew, Awake
  <2>6. ASSUME NEW c \in Clients,
               WaitIdleCall(c) \/ WaitIdleResume(c) \/ CloseShop(c)
        PROVE  Awake' # {}
    BY <2>5, <2>6 DEF WaitIdleCall, WaitIdleResume, CloseShop, Ok
  <2>7. ASSUME NEW w \in Workers,
               TakeExpires(w) \/ TakeTimedOut(w) \/ workerExit(w)
        PROVE  Awake' # {}
    BY <2>5, <2>7 DEF TakeExpires, TakeTimedOut, workerExit, Ok
  <2>8. CASE SpuriousWakeup \/ UNCHANGED vars
    BY <2>5, <2>8 DEF SpuriousWakeup, vars, Ok
  <2> QED  BY <2>1, <2>2, <2>3, <2>4, <2>6, <2>7, <2>8 DEF Next
<1> QED  BY <1>1, <1>2, ShapeHolds, PTL DEF Spec

\* NotIdle is what waitIdle() sleeps on: there is a task, or a worker out of
\* its wait.
LEMMA NotIdleMeans ==
  ASSUME Shape, NotIdle
  PROVE  /\ ExitedWorkers # m_worker_threads
         /\ Ok /\ m_queue = <<>> => \E w \in m_worker_threads : w \notin WaitingWorkers
<1> USE SizeAssumption DEF Shape, TypeOK, CountersExact
<1>1. IsFiniteSet(m_worker_threads) /\ Cardinality(m_worker_threads) \in Nat
  BY FS_Subset, FS_CardinalityType
<1>2. ~AllExited
  BY <1>1 DEF NotIdle, AllExited
<1>3. ASSUME Ok, m_queue = <<>>, m_worker_threads \subseteq WaitingWorkers
      PROVE  FALSE
  <2>1. WaitingWorkers = m_worker_threads
    BY <1>3 DEF WaitingWorkers
  <2>2. m_workers_waiting = Cardinality(m_worker_threads)
    BY <2>1
  <2>3. Len(m_queue) = 0 /\ m_workers_exited = 0
    BY <1>3 DEF Ok
  <2> HIDE DEF Shape, TypeOK, CountersExact
  <2> QED  BY <1>1, <2>2, <2>3 DEF NotIdle
<1> QED  BY <1>2, <1>3, CountersTell

\* As long as a client sleeps, a worker is left that will notify it.
THEOREM ExitWakesHolds == Spec => []ExitWakesClients
<1>1. Init => ExitWakesClients
  BY DEF Init, ExitWakesClients
<1>2. Shape /\ ExitWakesClients /\ [Next]_vars => ExitWakesClients'
  <2> SUFFICES ASSUME Shape, ExitWakesClients, [Next]_vars PROVE ExitWakesClients'
    OBVIOUS
  <2> DEFINE Left == \E w \in m_worker_threads : wpc[w] # "done"
  <2> USE DEF queueVars, clientVars, workerVars, lifeVars
  <2>0. Left <=> ExitedWorkers # m_worker_threads
    BY DEF Shape, TypeOK, CountersExact, ExitedWorkers
  <2>1. CASE Start
    BY <2>1 DEF Start, ExitWakesClients, Shape, TypeOK, CountersExact
  <2>2. CASE TerminateCall \/ TerminateResume
    <3>1. CASE ~AllExited
      <4>1. Left
        BY <2>0, <3>1, CountersTell
      <4> QED  BY <2>2, <3>1, <4>1
               DEF TerminateCall, TerminateResume, TerminateLoop, ExitWakesClients
    <3>2. CASE AllExited
      <4>1. ccond = {}
        BY <2>0, <3>2, CountersTell DEF ExitWakesClients
      <4> QED  BY <2>2, <3>2, <4>1
               DEF TerminateCall, TerminateResume, TerminateLoop, ExitWakesClients
    <3> QED  BY <3>1, <3>2
  <2>3. ASSUME NEW c \in Clients, PutCall(c) \/ PutResume(c) PROVE ExitWakesClients'
    <3>1. Ok => Left
      BY <2>0, CountersTell DEF Ok
    <3>2. Left => Left'
      BY <2>3 DEF PutCall, PutResume
    <3>3. ccond' \subseteq ccond \/ Ok
      BY <2>3 DEF PutCall, PutResume, Push
    <3> QED  BY <3>1, <3>2, <3>3 DEF ExitWakesClients
  <2>4. ASSUME NEW c \in Clients, WaitIdleCall(c) \/ WaitIdleResume(c) \/ CloseShop(c)
        PROVE  ExitWakesClients'
    <3>1. Left => Left'
      BY <2>4 DEF WaitIdleCall, WaitIdleResume, CloseShop
    <3>2. ccond' \subseteq ccond \/ NotIdle
      BY <2>4 DEF WaitIdleCall, WaitIdleResume, CloseShop
    <3> QED  BY <2>0, <3>1, <3>2, NotIdleMeans DEF ExitWakesClients
  <2>5. ASSUME NEW w \in Workers,
               \/ TakeCall(w) \/ TakeResume(w) \/ TakeExpires(w) \/ TakeTimedOut(w)
        PROVE  ExitWakesClients'
    <3>1. ccond' \subseteq ccond
      BY <2>5, NotifiedMembers
         DEF TakeCall, TakeResume, TakeLoop, Pop, SleepWakes, PopWakes,
             TakeExpires, TakeTimedOut
    <3>2. ExitedWorkers' = ExitedWorkers /\ m_worker_threads' = m_worker_threads
      BY <2>5
         DEF TakeCall, TakeResume, TakeLoop, Pop, TakeExpires, TakeTimedOut,
             Shape, TypeOK, ExitedWorkers
    <3>3. Left' <=> ExitedWorkers' # m_worker_threads'
      <4>1. Shape'
        BY NextShape
      <4> QED  BY <4>1 DEF Shape, TypeOK, CountersExact, ExitedWorkers
    <3> QED  BY <2>0, <3>1, <3>2, <3>3 DEF ExitWakesClients
  <2>6. ASSUME NEW w \in Workers, workerExit(w) PROVE ExitWakesClients'
    BY <2>6 DEF workerExit, ExitWakes, ExitWakesClients
  <2>7. CASE SpuriousWakeup \/ UNCHANGED vars
    BY <2>7 DEF SpuriousWakeup, vars, ExitWakesClients
  <2> QED  BY <2>1, <2>2, <2>3, <2>4, <2>5, <2>6, <2>7 DEF Next
<1> QED  BY <1>1, <1>2, ShapeHolds, PTL DEF Spec

\* With m_low = 1 the last worker to fall asleep finds the queue empty and
\* wakes every client: a client never sleeps beside workers that all sleep.
THEOREM StrandedClient == Spec => []NoStrandedClient
<1>1. Init => NoStrandedClient
  BY DEF Init, NoStrandedClient
<1>2. Shape /\ NoStrandedTask /\ NoStrandedTask' /\ NoStrandedClient /\ [Next]_vars
        => NoStrandedClient'
  <2> SUFFICES ASSUME Shape, NoStrandedTask, NoStrandedTask', NoStrandedClient,
                      [Next]_vars, Ok', m_low = 1, ccond' # {}
               PROVE  Awake' # {}
    BY DEF NoStrandedClient
  <2> USE DEF queueVars, clientVars, workerVars, lifeVars
  <2>0. /\ m_queue \in Seq(Tasks) /\ wcond \subseteq WaitingWorkers
        /\ WaitingWorkers \subseteq m_worker_threads
    BY DEF Shape, TypeOK, SleepersPlaced, CountersExact, WaitingWorkers
  <2>1. CASE Start
    <3>1. PICK new \in SUBSET (Workers \ m_worker_threads) :
            new # {} /\ m_worker_threads' = m_worker_threads \cup new
      BY <2>1 DEF Start
    <3>2. PICK w \in new : TRUE
      BY <3>1
    <3> QED  BY <2>0, <2>1, <3>1, <3>2 DEF Start, Awake
  <2>2. CASE TerminateCall \/ TerminateResume
    BY <2>2 DEF TerminateCall, TerminateResume, TerminateLoop, Ok
  <2>3. ASSUME NEW c \in Clients, PutCall(c) \/ PutResume(c) PROVE Awake' # {}
    <3>1. CASE Push(c)
      <4>1. Len(m_queue') # 0 /\ Len(m_queue') \in Nat
        <5>1. PICK t \in Tasks, kept \in {<<>>, m_queue} : m_queue' = Append(kept, t)
          BY <3>1 DEF Push
        <5>2. kept \in Seq(Tasks)
          <6>1. <<>> \in Seq(Tasks)
            OBVIOUS
          <6> QED  BY <2>0, <6>1
        <5> QED  BY <5>1, <5>2
      <4>2. ~TooFew'
        BY <4>1 DEF TooFew
      <4> QED  BY <4>2 DEF NoStrandedTask
    <3>2. CASE Ok /\ Full /\ UNCHANGED m_queue
      <4>1. Len(m_queue) \in Nat /\ Len(m_queue) >= m_high /\ m_high > 0
        BY <2>0, <3>2 DEF Full
      <4>2. ~TooFew'
        BY <3>2, <4>1, SizeAssumption DEF TooFew
      <4> QED  BY <4>2 DEF NoStrandedTask
    <3> QED  BY <2>3, <3>1, <3>2 DEF PutCall, PutResume, Ok
  <2>4. ASSUME NEW c \in Clients,
               WaitIdleCall(c) \/ WaitIdleResume(c) \/ CloseShop(c)
        PROVE  Awake' # {}
    <3>0. Ok /\ UNCHANGED <<m_queue, m_worker_threads, wcond>>
      BY <2>4 DEF WaitIdleCall, WaitIdleResume, CloseShop, Ok
    <3>1. CASE ccond' \subseteq ccond
      BY <3>0, <3>1 DEF NoStrandedClient, Awake
    <3>2. CASE NotIdle
      <4>1. CASE m_queue = <<>>
        BY <2>0, <3>0, <3>2, <4>1, NotIdleMeans DEF Awake
      <4>2. CASE m_queue # <<>>
        <5>1. Len(m_queue) # 0 /\ Len(m_queue) \in Nat
          BY <2>0, <4>2
        <5>2. ~TooFew
          BY <5>1 DEF TooFew
        <5> QED  BY <3>0, <5>2 DEF NoStrandedTask, Awake
      <4> QED  BY <4>1, <4>2
    <3> QED  BY <2>4, <3>1, <3>2 DEF WaitIdleCall, WaitIdleResume, CloseShop
  <2>5. ASSUME NEW w \in Workers, TakeCall(w) \/ TakeResume(w) PROVE Awake' # {}
    <3>0. Ok /\ w \in m_worker_threads /\ w \notin wcond
      BY <2>5 DEF TakeCall, TakeResume, Ok, Shape, CountersExact, SleepersPlaced
    <3>1. CASE TooFew
      <4>1. m_queue = <<>>
        BY <2>0, <3>1 DEF TooFew
      <4>2. ccond' = {}
        BY <2>5, <3>0, <3>1, <4>1 DEF TakeCall, TakeResume, TakeLoop, SleepWakes
      <4> QED  BY <4>2
    <3>2. CASE ~TooFew
      <4>1. w \in Awake'
        BY <2>5, <3>0, <3>2 DEF TakeCall, TakeResume, TakeLoop, Pop, Awake
      <4> QED  BY <4>1
    <3> QED  BY <3>1, <3>2
  <2>6. CASE /\ UNCHANGED m_worker_threads
             /\ wcond' \subseteq wcond /\ ccond' \subseteq ccond
             /\ Ok' => Ok
    BY <2>6 DEF NoStrandedClient, Awake
  <2>7. ASSUME NEW w \in Workers,
               TakeExpires(w) \/ TakeTimedOut(w) \/ workerExit(w)
        PROVE  Awake' # {}
    BY <2>6, <2>7 DEF TakeExpires, TakeTimedOut, workerExit, ExitWakes, Ok
  <2>8. CASE SpuriousWakeup \/ UNCHANGED vars
    BY <2>6, <2>8 DEF SpuriousWakeup, vars, Ok
  <2> QED  BY <2>1, <2>2, <2>3, <2>4, <2>5, <2>7, <2>8 DEF Next
<1> QED  BY <1>1, <1>2, ShapeHolds, StrandedTask, PTL DEF Spec

-----------------------------------------------------------------------------
(* What a return tells.                                                     *)

\* waitIdle() returns to a quiet queue: its comparison of counters means that
\* no worker is executing a task.
THEOREM IdleSound == Spec => WaitIdleSound
<1>1. Shape /\ [Next]_vars =>
        \A c \in Clients :
          cpc[c] = "waitIdle" /\ cpc'[c] = "idle" =>
            /\ m_queue = <<>> \/ \A w \in m_worker_threads : wpc[w] = "done"
            /\ \A w \in m_worker_threads : wpc[w] \in {"take", "timedout", "done"}
  <2> SUFFICES ASSUME Shape, [Next]_vars, NEW c \in Clients,
                      cpc[c] = "waitIdle", cpc'[c] = "idle"
               PROVE  ~NotIdle
    BY IdleMeans DEF WaitingWorkers, ExitedWorkers
  <2>1. c \in Clients /\ WaitIdleResume(c) => ~NotIdle
    BY DEF WaitIdleResume, ClientSleeps, Shape, TypeOK
  <2>2. ASSUME NEW d \in Clients,
               PutCall(d) \/ PutResume(d) \/ CloseShop(d) \/ WaitIdleCall(d)
                 \/ (WaitIdleResume(d) /\ d # c)
        PROVE  FALSE
    BY <2>2 DEF PutCall, PutResume, CloseShop, WaitIdleCall, WaitIdleResume, Push,
                ClientSleeps, clientVars, Shape, TypeOK
  <2>3. ~(TerminateCall \/ TerminateResume)
    BY DEF TerminateCall, TerminateResume, TerminateLoop, ClientSleeps, Shape, TypeOK
  <2>4. cpc' # cpc
    OBVIOUS
  <2> QED
    BY <2>1, <2>2, <2>3, <2>4
       DEF Next, vars, clientVars, Start, SpuriousWakeup, TakeCall, TakeResume,
           TakeExpires, TakeTimedOut, workerExit
<1> QED  BY <1>1, ShapeHolds, PTL DEF Spec, WaitIdleSound

\* setTerminateAndWait() joins no thread that still has to take m_mutex.
THEOREM JoinsOnlyExitedHolds == Spec => JoinsOnlyExited
<1>1. Shape /\ [Next]_vars =>
        \A w \in m_worker_threads \ m_worker_threads' : wpc[w] = "done"
  <2> SUFFICES ASSUME Shape, [Next]_vars,
                      NEW w \in m_worker_threads, w \notin m_worker_threads'
               PROVE  w \in ExitedWorkers
    BY DEF ExitedWorkers
  <2>1. CASE TerminateCall \/ TerminateResume
    BY <2>1, CountersTell DEF TerminateCall, TerminateResume, TerminateLoop
  <2>2. CASE m_worker_threads \subseteq m_worker_threads'
    BY <2>2
  <2> QED
    BY <2>1, <2>2
       DEF Next, vars, lifeVars, Start, SpuriousWakeup, PutCall, PutResume,
           CloseShop, WaitIdleCall, WaitIdleResume, TakeCall, TakeResume,
           TakeExpires, TakeTimedOut, workerExit
<1> QED  BY <1>1, ShapeHolds, PTL DEF Spec, JoinsOnlyExited

\* No wakeup is lost, of a worker or of a client.
THEOREM NoLostWakeupHolds == Spec => []NoLostWakeup
<1>1. NoStrandedTask /\ NoStrandedClient /\ ExitWakesClients => NoLostWakeup
  BY DEF NoLostWakeup
<1> QED  BY <1>1, StrandedTask, StrandedClient, ExitWakesHolds, PTL

\* The returns from the waits tell the truth of the workers.
THEOREM WaitsSoundHolds == Spec => WaitsSound
BY IdleSound, JoinsOnlyExitedHolds DEF WaitsSound

-----------------------------------------------------------------------------
(* One wakeup for one task.                                                 *)

\* The woken workers are finitely many; one more or one less changes their
\* number by one.
LEMMA SignalledCount ==
  ASSUME NEW S \in SUBSET Workers, NEW x \in Workers
  PROVE  /\ Cardinality(S) \in Nat
         /\ Cardinality(S \cup {x}) \in Nat
         /\ Cardinality(S \ {x}) \in Nat
         /\ Cardinality(S \ {x}) + 1 >= Cardinality(S)
         /\ x \notin S => Cardinality(S \cup {x}) = Cardinality(S) + 1
<1>1. IsFiniteSet(S)
  BY SizeAssumption, FS_Subset
<1>2. /\ IsFiniteSet(S \ {x})
      /\ Cardinality(S \ {x}) = IF x \in S THEN Cardinality(S) - 1 ELSE Cardinality(S)
  BY <1>1, FS_RemoveElement
<1>3. /\ IsFiniteSet(S \cup {x})
      /\ Cardinality(S \cup {x}) = IF x \in S THEN Cardinality(S) ELSE Cardinality(S) + 1
  BY <1>1, FS_AddElement
<1>4. /\ Cardinality(S) \in Nat
      /\ Cardinality(S \cup {x}) \in Nat
      /\ Cardinality(S \ {x}) \in Nat
  BY <1>1, <1>2, <1>3, FS_CardinalityType
<1> QED  BY <1>2, <1>3, <1>4

\* Without timed waits, a worker sleeps on only if each task that could be
\* taken has a worker of its own that was woken for it: put()'s single
\* notify_one() is enough, for every m_low and number of workers.
THEOREM OneWakeup == Spec => []OneWakeupPerTask
<1>1. Init => OneWakeupPerTask
  BY DEF Init, OneWakeupPerTask
<1>2. Shape /\ OneWakeupPerTask /\ [Next]_vars => OneWakeupPerTask'
  <2> SUFFICES ASSUME Shape, OneWakeupPerTask, [Next]_vars, Ok', ~Timed, wcond' # {}
               PROVE  Len(m_queue') < m_low + Cardinality(Signalled')
    BY DEF OneWakeupPerTask
  <2> USE DEF queueVars, clientVars, workerVars, lifeVars
  <2>0. /\ m_queue \in Seq(Tasks) /\ Len(m_queue) \in Nat /\ m_low \in Nat \ {0}
        /\ Signalled \subseteq Workers
        /\ wcond \subseteq m_worker_threads
        /\ wpc \in [Workers -> WorkerPC]
    <3>1. m_queue \in Seq(Tasks) /\ wpc \in [Workers -> WorkerPC]
      BY DEF Shape, TypeOK
    <3> QED  BY <3>1, SizeAssumption
             DEF Shape, TypeOK, SleepersPlaced, CountersExact, Signalled, Awake
  <2>1. CASE Start
    <3>1. ~Ok => wcond = {}
      BY <2>0, <2>1 DEF Start, Ok
    <3>2. wcond # {} => Len(m_queue) < m_low + Cardinality(Signalled)
      BY <3>1 DEF OneWakeupPerTask
    <3>3. UNCHANGED <<m_queue, wcond>>
      BY <2>1 DEF Start
    <3>4. Signalled' = Signalled
      <4>1. PICK new \in SUBSET (Workers \ m_worker_threads) :
              /\ m_worker_threads' = m_worker_threads \cup new
              /\ wpc' = [w \in Workers |-> IF w \in new THEN "run" ELSE wpc[w]]
        BY <2>1 DEF Start
      <4> QED  BY <2>1, <4>1 DEF Start, Signalled, Awake, Shape, TypeOK
    <3> QED  BY <3>2, <3>3, <3>4
  <2>2. CASE TerminateCall \/ TerminateResume
    BY <2>2 DEF TerminateCall, TerminateResume, TerminateLoop, Ok
  <2>3. CASE /\ UNCHANGED <<m_queue, wcond>> /\ Ok
             /\ Signalled' = Signalled
    BY <2>3 DEF OneWakeupPerTask
  <2>4. ASSUME NEW c \in Clients, PutCall(c) \/ PutResume(c)
        PROVE  Len(m_queue') < m_low + Cardinality(Signalled')
    <3>0. Ok /\ UNCHANGED <<m_worker_threads, wpc>>
      BY <2>4 DEF PutCall, PutResume, Ok
    <3>1. CASE Push(c)
      <4>1. PICK x \in wcond : wcond' = wcond \ {x}
        BY <3>0, <3>1, PushWakesOne
      <4>2. /\ x \in Workers /\ x \notin Signalled
            /\ Signalled' = Signalled \cup {x}
        BY <2>0, <3>0, <4>1 DEF Signalled, Awake, Shape, SleepersPlaced, TypeOK
      <4>3. Len(m_queue') \in Nat /\ Len(m_queue') <= Len(m_queue) + 1
        BY <2>0, <3>1, PushQueue
      <4>4. Len(m_queue) < m_low + Cardinality(Signalled)
        BY <3>0, <4>1 DEF OneWakeupPerTask
      <4>5. /\ Cardinality(Signalled') = Cardinality(Signalled) + 1
            /\ Cardinality(Signalled) \in Nat
        BY <2>0, <4>2, SignalledCount
      <4> QED  BY <2>0, <4>3, <4>4, <4>5
    <3>2. CASE UNCHANGED <<m_queue, wcond>>
      BY <2>3, <3>0, <3>2 DEF Signalled, Awake
    <3> QED  BY <2>4, <3>1, <3>2 DEF PutCall, PutResume
  <2>5. ASSUME NEW c \in Clients,
               WaitIdleCall(c) \/ WaitIdleResume(c) \/ CloseShop(c)
        PROVE  Len(m_queue') < m_low + Cardinality(Signalled')
    BY <2>3, <2>5 DEF WaitIdleCall, WaitIdleResume, CloseShop, Ok, Signalled, Awake
  <2>6. ASSUME NEW w \in Workers, TakeCall(w) \/ TakeResume(w)
        PROVE  Len(m_queue') < m_low + Cardinality(Signalled')
    <3>0. Ok /\ UNCHANGED m_worker_threads
      BY <2>6 DEF TakeCall, TakeResume, Ok
    <3>1. CASE TooFew
      <4>1. Len(m_queue') < m_low
        BY <2>6, <3>0, <3>1 DEF TakeCall, TakeResume, TakeLoop, TooFew
      <4>2. Signalled' \subseteq Workers
        BY <2>0, <3>0 DEF Signalled, Awake, Shape, CountersExact
      <4>3. Cardinality(Signalled') \in Nat
        BY <4>2, SignalledCount
      <4>4. m_queue' = m_queue
        BY <2>6, <3>0, <3>1 DEF TakeCall, TakeResume, TakeLoop
      <4> QED  BY <2>0, <4>1, <4>3, <4>4
    <3>2. CASE ~TooFew
      <4>1. /\ m_queue' = Tail(m_queue) /\ wcond' = wcond
            /\ wpc' = [wpc EXCEPT ![w] = "run"]
        BY <2>6, <3>0, <3>2 DEF TakeCall, TakeResume, TakeLoop, Pop
      <4>2. Signalled' = Signalled \ {w}
        BY <2>0, <3>0, <4>1 DEF Signalled, Awake, Shape, TypeOK
      <4>3. m_queue # <<>>
        BY <2>0, <3>2 DEF TooFew
      <4>4. Len(m_queue') = Len(m_queue) - 1
        BY <2>0, <4>1, <4>3
      <4>5. Len(m_queue) < m_low + Cardinality(Signalled)
        BY <3>0, <4>1 DEF OneWakeupPerTask
      <4>6. /\ Cardinality(Signalled) \in Nat /\ Cardinality(Signalled') \in Nat
            /\ Cardinality(Signalled') + 1 >= Cardinality(Signalled)
        BY <2>0, <4>2, SignalledCount
      <4>7. Cardinality(Signalled') = Cardinality(Signalled) \/ w \in Signalled
        <5>1. w \notin Signalled => Signalled \ {w} = Signalled
          OBVIOUS
        <5> QED  BY <4>2, <5>1
      <4> QED  BY <2>0, <4>4, <4>5, <4>6
    <3> QED  BY <3>1, <3>2
  <2>7. ASSUME NEW w \in Workers,
               TakeExpires(w) \/ TakeTimedOut(w) \/ workerExit(w)
        PROVE  Len(m_queue') < m_low + Cardinality(Signalled')
    <3>1. CASE TakeTimedOut(w)
      <4>1. Signalled' = Signalled
        BY <2>0, <3>1 DEF TakeTimedOut, Signalled, Awake
      <4> QED  BY <2>3, <3>1, <4>1 DEF TakeTimedOut, Ok
    <3> QED  BY <2>7, <3>1 DEF TakeExpires, workerExit, Ok
  <2>8. CASE SpuriousWakeup
    <3>0. Ok /\ UNCHANGED <<m_queue, m_worker_threads, wpc>>
      BY <2>8 DEF SpuriousWakeup, Ok
    <3>1. CASE UNCHANGED wcond
      BY <2>3, <3>0, <3>1 DEF Signalled, Awake
    <3>2. CASE \E x \in wcond : wcond' = wcond \ {x}
      <4>1. PICK x \in wcond : wcond' = wcond \ {x}
        BY <3>2
      <4>2. /\ x \in Workers /\ x \notin Signalled
            /\ Signalled' = Signalled \cup {x}
        BY <2>0, <3>0, <4>1 DEF Signalled, Awake, Shape, SleepersPlaced, TypeOK
      <4>3. Len(m_queue) < m_low + Cardinality(Signalled)
        BY <3>0, <4>1 DEF OneWakeupPerTask
      <4>4. /\ Cardinality(Signalled') = Cardinality(Signalled) + 1
            /\ Cardinality(Signalled) \in Nat
        BY <2>0, <4>2, SignalledCount
      <4> QED  BY <2>0, <3>0, <4>3, <4>4
    <3> QED  BY <2>8, <3>1, <3>2 DEF SpuriousWakeup
  <2>9. CASE UNCHANGED vars
    BY <2>3, <2>9 DEF vars, Ok, Signalled, Awake
  <2> QED  BY <2>1, <2>2, <2>4, <2>5, <2>6, <2>7, <2>8, <2>9 DEF Next
<1> QED  BY <1>1, <1>2, ShapeHolds, PTL DEF Spec

-----------------------------------------------------------------------------
(* The queue implements the pool.                                           *)

\* Every step of the queue is a step of the pool, or changes nothing of it.
LEMMA PoolStep == Shape /\ QueueBound' /\ [Next]_vars => [Pool!Next]_(Pool!vars)
<1> SUFFICES ASSUME Shape, QueueBound', [Next]_vars
             PROVE  Pool!Next \/ UNCHANGED Pool!vars
  OBVIOUS
<1> USE DEF queueVars, clientVars, workerVars, lifeVars
<1> DEFINE busy == {w \in Workers : wpc[w] = "run"}
           idlers == {c \in Clients : cpc[c] = "waitIdle"}
<1>0. /\ wpc \in [Workers -> WorkerPC] /\ cpc \in [Clients -> ClientPC]
      /\ m_queue \in Seq(Tasks)
  BY DEF Shape, TypeOK
<1>1. CASE UNCHANGED <<m_queue, busy, idlers>> /\ Ok' = Ok
  BY <1>1 DEF Pool!vars
<1>2. CASE Start
  <2>1. PICK new \in SUBSET (Workers \ m_worker_threads) :
          /\ new # {}
          /\ wpc' = [w \in Workers |-> IF w \in new THEN "run" ELSE wpc[w]]
    BY <1>2 DEF Start
  <2>2. busy' = busy \cup new /\ new \in SUBSET Workers
    BY <1>0, <2>1
  <2>3. Ok' \in {Ok, TRUE}
    BY <1>2 DEF Start, Ok
  <2>4. UNCHANGED <<m_queue, idlers>>
    BY <1>2 DEF Start
  <2>5. Pool!Begin(new)
    BY <2>1, <2>2, <2>3, <2>4 DEF Pool!Begin
  <2> QED  BY <2>1, <2>5 DEF Pool!Next
<1>3. CASE TerminateCall \/ TerminateResume
  <2>1. UNCHANGED <<m_queue, idlers>>
    <3>1. UNCHANGED m_queue
      BY <1>3 DEF TerminateCall, TerminateResume
    <3>2. PICK pc \in {"terminate", "idle"} : cpc' = [cpc EXCEPT ![Owner] = pc]
      <4>1. \E n : TerminateLoop(n)
        BY <1>3 DEF TerminateCall, TerminateResume
      <4> QED  BY <4>1 DEF TerminateLoop, ClientSleeps
    <3>3. cpc[Owner] # "waitIdle"
      BY <1>3 DEF TerminateCall, TerminateResume
    <3> QED  BY <1>0, <3>1, <3>2, <3>3
  <2>2. CASE ~AllExited
    <3>1. Ok' = FALSE /\ UNCHANGED busy
      BY <1>3, <2>2 DEF TerminateCall, TerminateResume, TerminateLoop, Ok
    <3> QED  BY <2>1, <3>1 DEF Pool!Stop, Pool!Next
  <2>3. CASE AllExited
    <3>1. ExitedWorkers = m_worker_threads
      BY <2>3, CountersTell
    <3>2. Ok = FALSE
      BY <3>1, CountersTell DEF Ok
    <3>3. Ok' = FALSE
      BY <1>3, <2>3 DEF TerminateCall, TerminateResume, TerminateLoop, Ok
    <3>4. busy = {} /\ busy' = {}
      BY <1>3, <2>3, <3>1
         DEF TerminateCall, TerminateResume, TerminateLoop, Shape, CountersExact,
             ExitedWorkers
    <3> QED  BY <1>1, <2>1, <3>2, <3>3, <3>4
  <2> QED  BY <2>2, <2>3
<1>4. ASSUME NEW c \in Clients, PutCall(c) \/ PutResume(c)
      PROVE  Pool!Next \/ UNCHANGED Pool!vars
  <2>1. UNCHANGED <<busy, idlers>> /\ Ok' = Ok
    <3>1. PICK pc \in {"put", "idle"} : cpc' = [cpc EXCEPT ![c] = pc]
      BY <1>4 DEF PutCall, PutResume, Push, ClientSleeps
    <3>2. cpc[c] # "waitIdle"
      BY <1>4 DEF PutCall, PutResume
    <3>3. UNCHANGED idlers
      BY <1>0, <3>1, <3>2
    <3> QED  BY <1>4, <3>3 DEF PutCall, PutResume, Ok
  <2>2. CASE Ok /\ Push(c)
    <3>1. PICK t \in Tasks, kept \in {m_queue, <<>>} : m_queue' = Append(kept, t)
      BY <2>2 DEF Push
    <3>2. Pool!Accept(t, kept)
      BY <2>1, <2>2, <3>1 DEF Pool!Accept, QueueBound
    <3> QED  BY <3>1, <3>2 DEF Pool!Next
  <2>3. CASE UNCHANGED m_queue
    BY <1>1, <2>1, <2>3
  <2> QED  BY <1>4, <2>2, <2>3 DEF PutCall, PutResume
<1>5. ASSUME NEW c \in Clients, WaitIdleCall(c) \/ WaitIdleResume(c) \/ CloseShop(c)
      PROVE  Pool!Next \/ UNCHANGED Pool!vars
  <2>1. UNCHANGED <<m_queue, busy>> /\ Ok' = Ok
    BY <1>5 DEF WaitIdleCall, WaitIdleResume, CloseShop, Ok
  <2>2. CASE WaitIdleCall(c) \/ (WaitIdleResume(c) /\ NotIdle)
    <3>1. idlers' = idlers \cup {c}
      BY <1>0, <2>2 DEF WaitIdleCall, WaitIdleResume, ClientSleeps
    <3> QED  BY <2>1, <3>1 DEF Pool!WaitIdle, Pool!Next
  <2>3. CASE WaitIdleResume(c) /\ ~NotIdle
    <3>1. idlers' = idlers \ {c}
      BY <1>0, <2>3 DEF WaitIdleResume
    <3>2. busy = {}
      BY <2>3, IdleMeans
         DEF WaitingWorkers, ExitedWorkers, Shape, CountersExact
    <3>3. m_queue = <<>> \/ ~Ok
      BY <2>3, IdleMeans, CountersTell DEF Ok
    <3> QED  BY <2>1, <3>1, <3>2, <3>3 DEF Pool!Idle, Pool!Next
  <2>4. CASE CloseShop(c)
    BY <1>1, <2>1, <2>4 DEF CloseShop
  <2> QED  BY <1>5, <2>2, <2>3, <2>4
<1>6. ASSUME NEW w \in Workers, TakeCall(w) \/ TakeResume(w)
      PROVE  Pool!Next \/ UNCHANGED Pool!vars
  <2>1. UNCHANGED idlers /\ Ok' = Ok
    BY <1>6 DEF TakeCall, TakeResume, Ok
  <2>2. CASE Ok /\ ~TooFew
    <3>1. m_queue' = Tail(m_queue) /\ wpc' = [wpc EXCEPT ![w] = "run"]
      BY <1>6, <2>2 DEF TakeCall, TakeResume, TakeLoop, Pop
    <3>2. m_queue # <<>>
      BY <1>0, <2>2, SizeAssumption DEF TooFew
    <3>3. busy' = busy \cup {w}
      BY <1>0, <3>1
    <3> QED  BY <2>1, <2>2, <3>1, <3>2, <3>3 DEF Pool!Deliver, Pool!Next
  <2>3. CASE ~(Ok /\ ~TooFew)
    <3>1. PICK pc \in {"take", "fail"} : wpc' = [wpc EXCEPT ![w] = pc]
      BY <1>6, <2>3 DEF TakeCall, TakeResume, TakeLoop
    <3>2. busy' = busy \ {w}
      BY <1>0, <3>1
    <3>3. UNCHANGED m_queue
      BY <1>6, <2>3 DEF TakeCall, TakeResume, TakeLoop
    <3> QED  BY <2>1, <3>2, <3>3 DEF Pool!Finish, Pool!Next
  <2> QED  BY <2>2, <2>3
<1>7. ASSUME NEW w \in Workers, TakeExpires(w) PROVE Pool!Next \/ UNCHANGED Pool!vars
  <2>1. UNCHANGED <<m_queue, busy, idlers>> /\ Ok' = Ok
    BY <1>0, <1>7 DEF TakeExpires, Ok
  <2> QED  BY <1>1, <2>1
<1>8. ASSUME NEW w \in Workers, TakeTimedOut(w) PROVE Pool!Next \/ UNCHANGED Pool!vars
  <2>1. UNCHANGED <<m_queue, idlers>> /\ Ok' = Ok
    BY <1>8 DEF TakeTimedOut, Ok
  <2>2. Timed /\ w \notin busy /\ busy' = busy \cup {w}
    BY <1>0, <1>8, FlagAssumption DEF TakeTimedOut, Shape, SleepersPlaced
  <2> QED  BY <2>1, <2>2 DEF Pool!Poll, Pool!Next
<1>9. ASSUME NEW w \in Workers, workerExit(w) PROVE Pool!Next \/ UNCHANGED Pool!vars
  <2>1. UNCHANGED <<m_queue, idlers>> /\ Ok' = FALSE
    BY <1>9 DEF workerExit, Ok
  <2>2. busy' = busy \ {w}
    BY <1>0, <1>9 DEF workerExit
  <2> QED  BY <2>1, <2>2 DEF Pool!Stop, Pool!Next
<1>10. CASE SpuriousWakeup \/ UNCHANGED vars
  <2>1. UNCHANGED <<m_queue, busy, idlers>> /\ Ok' = Ok
    BY <1>10 DEF SpuriousWakeup, vars, Ok
  <2> QED  BY <1>1, <2>1
<1> QED  BY <1>2, <1>3, <1>4, <1>5, <1>6, <1>7, <1>8, <1>9, <1>10 DEF Next

\* put(), take(), waitIdle() and setTerminateAndWait() do what TaskPool says,
\* whatever the threads that call them do.
THEOREM Refinement == Spec => ImplementsPool
<1>1. Init => Pool!Init
  BY DEF Init, Pool!Init, Ok
<1> QED
  BY <1>1, PoolStep, ShapeHolds, BoundHolds, PTL DEF Spec, ImplementsPool, Pool!Spec
=============================================================================
