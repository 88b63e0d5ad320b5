------------------------------ MODULE WorkQueue ------------------------------
(***************************************************************************)
(* The synchronised task queue of libupnpp/workqueue.h: client threads put *)
(* tasks, worker threads take them, clients may wait for the queue to be   *)
(* idle, and an owner thread starts the workers and terminates them.       *)
(*                                                                         *)
(* Everything a method does between two waits happens with m_mutex held,   *)
(* so each such stretch is one action.  A condition variable is the set of *)
(* the threads asleep on it: a thread that has been notified has left the  *)
(* set and has still to get the mutex back (its ...Resume action).         *)
(* The m_tottasks, m_nowake, m_workersleeps and m_clientsleeps counters    *)
(* only feed a log message and are left out.                               *)
(*                                                                         *)
(* A definition named Operation_Fault is a mutated form of Operation: the  *)
(* properties are tested by checking that they fail with it.               *)
(***************************************************************************)
EXTENDS Naturals, Sequences, FiniteSets

CONSTANTS
  Tasks,     \* the tasks that clients put
  Clients,   \* the client threads
  Owner,     \* the client that calls start() and setTerminateAndWait()
  Workers,   \* identities for the worker threads
  m_high,    \* queue size at which put() blocks, 0 for no limit
  m_low,     \* queue size below which take() blocks
  Timed,     \* does take() get a waitdur (the discovery worker's one minute)?
  MayAbort,  \* may a worker call workerExit() after a fatal error of its own?
  UIntMax    \* the largest unsigned int

ASSUME OwnerAssumption == Owner \in Clients
ASSUME SizeAssumption ==
  /\ m_high \in Nat
  /\ m_low \in Nat \ {0}
  /\ IsFiniteSet(Workers)
  /\ UIntMax \in Nat
  /\ Cardinality(Workers) < UIntMax
ASSUME FlagAssumption == Timed \in BOOLEAN /\ MayAbort \in BOOLEAN

VARIABLES
  m_queue,           \* the tasks, oldest first
  m_ok,              \* cleared by termination and by workerExit()
  m_openforbusiness, \* cleared by closeShop()
  m_worker_threads,  \* the workers started and not joined yet
  m_workers_exited,  \* how many of them called workerExit()
  m_clients_waiting, \* unsigned count of clients in a wait
  m_workers_waiting, \* unsigned count of workers in a wait
  ccond,             \* the clients asleep on m_ccond
  wcond,             \* the workers asleep on m_wcond
  cpc,               \* what each client is inside of
  wpc                \* where each worker is

queueVars  == <<m_queue, m_openforbusiness>>
clientVars == <<m_clients_waiting, ccond, cpc>>
workerVars == <<m_workers_waiting, wcond, wpc>>
lifeVars   == <<m_ok, m_worker_threads, m_workers_exited>>
vars == <<queueVars, clientVars, workerVars, lifeVars>>

ClientPC == {"idle", "put", "waitIdle", "terminate"}

\* "out": no such thread; "run": outside of the queue, executing a task;
\* "take": in take()'s wait; "timedout": the wait expired, the mutex is not
\* back yet; "fail": take() returned false; "done": workerExit() was called.
WorkerPC == {"out", "run", "take", "timedout", "fail", "done"}

TypeOK ==
  /\ m_queue \in Seq(Tasks)
  /\ m_ok \in BOOLEAN
  /\ m_openforbusiness \in BOOLEAN
  /\ m_worker_threads \subseteq Workers
  /\ m_workers_exited \in 0..UIntMax
  /\ m_clients_waiting \in 0..UIntMax
  /\ m_workers_waiting \in 0..UIntMax
  /\ ccond \subseteq Clients
  /\ wcond \subseteq Workers
  /\ cpc \in [Clients -> ClientPC]
  /\ wpc \in [Workers -> WorkerPC]

Init ==
  /\ m_queue = <<>>
  /\ m_ok = TRUE
  /\ m_openforbusiness = TRUE
  /\ m_worker_threads = {}
  /\ m_workers_exited = 0
  /\ m_clients_waiting = 0
  /\ m_workers_waiting = 0
  /\ ccond = {}
  /\ wcond = {}
  /\ cpc = [c \in Clients |-> "idle"]
  /\ wpc = [w \in Workers |-> "out"]

-----------------------------------------------------------------------------
(* ok(), the tests of the three wait loops, unsigned arithmetic, notify_one *)

Ok == m_ok /\ m_workers_exited = 0 /\ m_worker_threads # {}

Full_OffByOne == m_high > 0 /\ Len(m_queue) > m_high
Full == m_high > 0 /\ Len(m_queue) >= m_high

TooFew == Len(m_queue) < m_low

NotIdle ==
  \/ Len(m_queue) > 0 /\ m_workers_exited < Cardinality(m_worker_threads)
  \/ m_workers_waiting + m_workers_exited < Cardinality(m_worker_threads)

Inc(n) == IF n = UIntMax THEN 0 ELSE n + 1
Dec_Signed(n) == n - 1
Dec(n) == IF n = 0 THEN UIntMax ELSE n - 1

\* The values a condition variable can have after notify_one().
Notified(cond) == IF cond = {} THEN {cond} ELSE {cond \ {x} : x \in cond}

\* put() wakes one worker, if any waits.
PushWakes_Nobody == {wcond}
PushWakes == IF m_workers_waiting > 0 THEN Notified(wcond) ELSE {wcond}

\* A worker that goes to sleep on an empty queue wakes all the clients.
SleepWakes_One == IF m_queue = <<>> THEN Notified(ccond) ELSE {ccond}
SleepWakes == IF m_queue = <<>> THEN {{}} ELSE {ccond}

\* A worker that pops a task wakes one client, if any waits.
PopWakes == IF m_clients_waiting > 0 THEN Notified(ccond) ELSE {ccond}

\* workerExit() wakes all the clients.
ExitWakes_Nobody == ccond
ExitWakes == {}

\* setTerminateAndWait() has nothing left to wait for.
AllExited_OrWaiting ==
  m_workers_exited + m_workers_waiting >= Cardinality(m_worker_threads)
AllExited == m_workers_exited >= Cardinality(m_worker_threads)

-----------------------------------------------------------------------------
(* Clients.  A call that returns false at once changes nothing and is not   *)
(* an action.  The arguments of put() are not looked at before the push,    *)
(* so they are chosen there.                                                *)

\* The end of put(): flush if asked, push, wake one worker if any waits.
\* A task is a fresh object: it is not on the queue already.
Push(c) ==
  /\ \E t \in Tasks, flushprevious \in BOOLEAN :
       /\ \A i \in 1..Len(m_queue) : m_queue[i] # t
       /\ m_queue' = Append(IF flushprevious THEN <<>> ELSE m_queue, t)
  /\ wcond' \in PushWakes
  /\ cpc' = [cpc EXCEPT ![c] = "idle"]
  /\ UNCHANGED ccond

\* m_clients_waiting++ and m_ccond.wait(), in the method named by where.
ClientSleeps(c, where) ==
  /\ ccond' = ccond \cup {c}
  /\ cpc' = [cpc EXCEPT ![c] = where]

\* put() is called.
PutCall(c) ==
  /\ cpc[c] = "idle"
  /\ Ok /\ m_openforbusiness
  /\ IF Full
       THEN /\ ClientSleeps(c, "put")
            /\ m_clients_waiting' = Inc(m_clients_waiting)
            /\ UNCHANGED <<m_queue, wcond>>
       ELSE Push(c) /\ UNCHANGED m_clients_waiting
  /\ UNCHANGED <<m_openforbusiness, m_workers_waiting, wpc, lifeVars>>

\* put() has the mutex back after its wait.
PutResume(c) ==
  /\ cpc[c] = "put" /\ c \notin ccond
  /\ \/ /\ ~Ok
        /\ cpc' = [cpc EXCEPT ![c] = "idle"]
        /\ m_clients_waiting' = Dec(m_clients_waiting)
        /\ UNCHANGED <<m_queue, ccond, wcond>>
     \/ /\ Ok /\ Full
        /\ ClientSleeps(c, "put")
        /\ m_clients_waiting' = Inc(Dec(m_clients_waiting))
        /\ UNCHANGED <<m_queue, wcond>>
     \/ /\ Ok /\ ~Full
        /\ Push(c)
        /\ m_clients_waiting' = Dec(m_clients_waiting)
  /\ UNCHANGED <<m_openforbusiness, m_workers_waiting, wpc, lifeVars>>

\* waitIdle() is called and has to wait.
WaitIdleCall(c) ==
  /\ cpc[c] = "idle"
  /\ NotIdle
  /\ ClientSleeps(c, "waitIdle")
  /\ m_clients_waiting' = Inc(m_clients_waiting)
  /\ UNCHANGED <<queueVars, workerVars, lifeVars>>

\* waitIdle() has the mutex back after its wait.
WaitIdleResume(c) ==
  /\ cpc[c] = "waitIdle" /\ c \notin ccond
  /\ IF NotIdle
       THEN /\ ClientSleeps(c, "waitIdle")
            /\ m_clients_waiting' = Inc(Dec(m_clients_waiting))
       ELSE /\ cpc' = [cpc EXCEPT ![c] = "idle"]
            /\ m_clients_waiting' = Dec(m_clients_waiting)
            /\ UNCHANGED ccond
  /\ UNCHANGED <<queueVars, workerVars, lifeVars>>

\* closeShop(): a plain store, made without the mutex.
CloseShop(c) ==
  /\ cpc[c] = "idle"
  /\ m_openforbusiness' = FALSE
  /\ UNCHANGED <<m_queue, clientVars, workerVars, lifeVars>>

\* start(nworkers, ...): the threads exist before the mutex is released, so
\* that the first take() of each finds m_worker_threads filled.
Start ==
  /\ cpc[Owner] = "idle"
  /\ \E new \in SUBSET (Workers \ m_worker_threads) :
       /\ new # {}
       /\ m_worker_threads' = m_worker_threads \cup new
       /\ wpc' = [w \in Workers |-> IF w \in new THEN "run" ELSE wpc[w]]
  /\ UNCHANGED <<queueVars, clientVars, m_workers_waiting, wcond,
                 m_ok, m_workers_exited>>

\* setTerminateAndWait()'s loop: wake the workers and sleep, or, once all
\* of them called workerExit(), join them and reset.
TerminateLoop(waiting) ==
  \/ /\ ~AllExited
     /\ m_ok' = FALSE
     /\ wcond' = {}
     /\ ClientSleeps(Owner, "terminate")
     /\ m_clients_waiting' = Inc(waiting)
     /\ UNCHANGED <<m_worker_threads, m_workers_exited, m_workers_waiting, wpc>>
  \/ /\ AllExited
     /\ m_worker_threads' = {}
     /\ m_workers_exited' = 0
     /\ m_clients_waiting' = 0
     /\ m_workers_waiting' = 0
     /\ m_ok' = TRUE
     /\ wpc' = [w \in Workers |-> "out"]
     /\ cpc' = [cpc EXCEPT ![Owner] = "idle"]
     /\ UNCHANGED <<ccond, wcond>>

TerminateCall ==
  /\ cpc[Owner] = "idle"
  /\ m_worker_threads # {}
  /\ TerminateLoop(m_clients_waiting)
  /\ UNCHANGED queueVars

TerminateResume ==
  /\ cpc[Owner] = "terminate" /\ Owner \notin ccond
  /\ TerminateLoop(Dec(m_clients_waiting))
  /\ UNCHANGED queueVars

-----------------------------------------------------------------------------
(* Workers: loop on take(), execute the task, and call workerExit() when    *)
(* take() returns false.                                                    *)

\* The end of take(): pop a task, wake one client if any waits.
Pop(w) ==
  /\ m_queue' = Tail(m_queue)
  /\ ccond' \in PopWakes
  /\ wpc' = [wpc EXCEPT ![w] = "run"]
  /\ UNCHANGED wcond

\* One turn of take()'s loop: sleep, after waking the clients if the queue
\* is empty, or go on to the pop.  waiting is the count at this point.
TakeLoop(w, waiting) ==
  IF TooFew
    THEN /\ m_workers_waiting' = Inc(waiting)
         /\ ccond' \in SleepWakes
         /\ wcond' = wcond \cup {w}
         /\ wpc' = [wpc EXCEPT ![w] = "take"]
         /\ UNCHANGED m_queue
    ELSE /\ Pop(w)
         /\ m_workers_waiting' = waiting

TakeCall(w) ==
  /\ wpc[w] = "run"
  /\ \/ /\ ~Ok
        /\ wpc' = [wpc EXCEPT ![w] = "fail"]
        /\ UNCHANGED <<m_queue, ccond, m_workers_waiting, wcond>>
     \/ Ok /\ TakeLoop(w, m_workers_waiting)
  /\ UNCHANGED <<m_openforbusiness, m_clients_waiting, cpc, lifeVars>>

TakeResume_NoOkTest(w) ==
  /\ wpc[w] = "take" /\ w \notin wcond
  /\ m_queue # <<>>
  /\ TakeLoop(w, Dec(m_workers_waiting))
  /\ UNCHANGED <<m_openforbusiness, m_clients_waiting, cpc, lifeVars>>
TakeResume(w) ==
  /\ wpc[w] = "take" /\ w \notin wcond
  /\ \/ /\ ~Ok
        /\ wpc' = [wpc EXCEPT ![w] = "fail"]
        /\ m_workers_waiting' = Dec(m_workers_waiting)
        /\ UNCHANGED <<m_queue, ccond, wcond>>
     \/ Ok /\ TakeLoop(w, Dec(m_workers_waiting))
  /\ UNCHANGED <<m_openforbusiness, m_clients_waiting, cpc, lifeVars>>

\* wait_for() expires: the worker leaves the condition variable.  A worker
\* that was notified reports a timeout too when the mutex comes back late.
TakeExpires(w) ==
  /\ Timed
  /\ wpc[w] = "take"
  /\ wcond' = wcond \ {w}
  /\ wpc' = [wpc EXCEPT ![w] = "timedout"]
  /\ UNCHANGED <<queueVars, clientVars, m_workers_waiting, lifeVars>>

\* take() returns true with a null task, whatever ok() and the queue say.
TakeTimedOut_NoDecrement(w) ==
  /\ wpc[w] = "timedout"
  /\ wpc' = [wpc EXCEPT ![w] = "run"]
  /\ UNCHANGED <<queueVars, clientVars, m_workers_waiting, wcond, lifeVars>>
TakeTimedOut(w) ==
  /\ wpc[w] = "timedout"
  /\ wpc' = [wpc EXCEPT ![w] = "run"]
  /\ m_workers_waiting' = Dec(m_workers_waiting)
  /\ UNCHANGED <<queueVars, clientVars, wcond, lifeVars>>

workerExit(w) ==
  /\ wpc[w] = "fail" \/ (MayAbort /\ wpc[w] = "run")
  /\ m_workers_exited' = Inc(m_workers_exited)
  /\ m_ok' = FALSE
  /\ ccond' = ExitWakes
  /\ wpc' = [wpc EXCEPT ![w] = "done"]
  /\ UNCHANGED <<queueVars, m_clients_waiting, cpc, m_workers_waiting, wcond,
                 m_worker_threads>>

\* The wakeups for no reason that the standard allows a wait.
SpuriousWakeup ==
  /\ \/ /\ \E c \in ccond : ccond' = ccond \ {c}
        /\ UNCHANGED wcond
     \/ /\ \E w \in wcond : wcond' = wcond \ {w}
        /\ UNCHANGED ccond
  /\ UNCHANGED <<queueVars, m_clients_waiting, cpc, m_workers_waiting, wpc,
                 lifeVars>>

-----------------------------------------------------------------------------

Next ==
  \/ Start \/ TerminateCall \/ TerminateResume \/ SpuriousWakeup
  \/ \E c \in Clients :
       \/ PutCall(c) \/ PutResume(c) \/ CloseShop(c)
       \/ WaitIdleCall(c) \/ WaitIdleResume(c)
  \/ \E w \in Workers :
       \/ TakeCall(w) \/ TakeResume(w) \/ TakeExpires(w) \/ TakeTimedOut(w)
       \/ workerExit(w)

Spec == Init /\ [][Next]_vars

\* A thread that may run gets the mutex and runs: every wait is a wait on a
\* condition variable, and a worker's task ends.  Nothing obliges a client
\* to make a call, a worker to abort, or a wait to end spuriously.
Fairness ==
  /\ WF_vars(TerminateResume)
  /\ \A c \in Clients : WF_vars(PutResume(c)) /\ WF_vars(WaitIdleResume(c))
  /\ \A w \in Workers :
       /\ WF_vars(TakeCall(w)) /\ WF_vars(TakeResume(w))
       /\ WF_vars(TakeTimedOut(w))
       /\ WF_vars(wpc[w] = "fail" /\ workerExit(w))

FairSpec == Spec /\ Fairness

-----------------------------------------------------------------------------
(* Properties.                                                             *)

WaitingWorkers == {w \in Workers : wpc[w] \in {"take", "timedout"}}
ExitedWorkers == {w \in Workers : wpc[w] = "done"}
Awake == m_worker_threads \ wcond
Signalled == {w \in Awake : wpc[w] = "take"}

\* put() blocks at m_high tasks: several clients may be woken for one free
\* place, and each has to look again before it pushes.
QueueBound == m_high > 0 => Len(m_queue) <= m_high

\* The unsigned counters that the waits are decided on are exact, and once a
\* worker has left, the queue stays not ok until the owner has joined them all.
CountersExact ==
  /\ m_worker_threads = {w \in Workers : wpc[w] # "out"}
  /\ m_workers_exited = Cardinality(ExitedWorkers)
  /\ m_workers_waiting = Cardinality(WaitingWorkers)
  /\ m_ok => ExitedWorkers = {}

\* No lost wakeup on the worker side: whenever there are enough tasks for a
\* take(), and the queue is ok, some worker is awake to take one.
NoStrandedTask == Ok /\ ~TooFew => Awake # {}

\* put()'s "Just wake one worker, there is only one new task": without
\* timed waits, a worker stays asleep only if each task that could be taken
\* has a woken worker of its own, which is not busy with another task.
OneWakeupPerTask ==
  Ok /\ ~Timed /\ wcond # {}
    => Len(m_queue) < m_low + Cardinality(Signalled)

\* No lost wakeup on the client side, for the m_low = 1 that libupnpp uses:
\* while a client sleeps in put() or waitIdle() some worker is awake, whatever
\* client take()'s notify_one() has picked.
NoStrandedClient == Ok /\ m_low = 1 /\ ccond # {} => Awake # {}

\* take()'s "No reason to wake up more than one client thread", for every
\* m_low: a put() asleep in front of a queue that has room has somebody awake
\* to get it out of there.
OneClientWakeupSuffices ==
  Ok /\ ~Full /\ (\E c \in ccond : cpc[c] = "put")
    => \/ Awake # {}
       \/ \E c \in Clients \ ccond : cpc[c] # "idle"

\* After a worker has left, or while the owner waits for them to leave, the
\* sleeping clients are still waiting for something: a worker that is yet to
\* call workerExit() and will notify them.
ExitWakesClients ==
  ccond # {} => \E w \in m_worker_threads : wpc[w] # "done"

\* Nobody sleeps on without somebody awake who is to wake him: not a worker
\* beside tasks, not a client beside a free place, an idle queue, or workers
\* that have left.
NoLostWakeup == NoStrandedTask /\ NoStrandedClient /\ ExitWakesClients

\* "Client/Worker threads currently waiting for a job": a client that sleeps
\* is counted, as take() looks at the count before it notifies.
SleepersCounted == ccond # {} => m_clients_waiting > 0

\* "Waits until the task queue is empty and the workers are all back
\* sleeping (or exited)": what is so when waitIdle() returns after a wait.
WaitIdleSound ==
  [][\A c \in Clients :
       cpc[c] = "waitIdle" /\ cpc'[c] = "idle" =>
         /\ m_queue = <<>> \/ \A w \in m_worker_threads : wpc[w] = "done"
         /\ \A w \in m_worker_threads : wpc[w] \in {"take", "timedout", "done"}
    ]_vars

\* The queue seen as the pool of TaskPool: a worker outside of take() may be
\* executing a task.  Pool!Spec is what put(), take() and waitIdle() promise.
Pool == INSTANCE TaskPool WITH
  Bound <- m_high,
  Polls <- Timed,
  pending <- m_queue,
  running <- Ok,
  busy <- {w \in Workers : wpc[w] = "run"},
  idlers <- {c \in Clients : cpc[c] = "waitIdle"}

\* Every behaviour of the queue is one of the pool: FIFO delivery of each task
\* to one worker, nothing accepted or delivered once stopped, and waitIdle()
\* returning only to a quiet pool.
ImplementsPool == Pool!Spec

\* setTerminateAndWait() joins a thread only when the thread is about to end:
\* a worker that still needs m_mutex would never end, with the mutex held.
JoinsOnlyExited ==
  [][\A w \in m_worker_threads \ m_worker_threads' : wpc[w] = "done"]_vars

\* What the returns from the waits tell of the workers is true: waitIdle() finds
\* none of them executing a task, setTerminateAndWait() joins the ended ones.
WaitsSound == WaitIdleSound /\ JoinsOnlyExited

\* "Reset to start state": the queue that setTerminateAndWait() leaves behind
\* is one that start() and put() can use again.
ResetIsStartState ==
  [][m_worker_threads # {} /\ m_worker_threads' = {} => m_openforbusiness']_vars

\* "Forbid inputting new tasks": nothing is pushed on a closed queue.
ClosedMeansClosed ==
  [][~m_openforbusiness /\ m_queue' # <<>> => Len(m_queue') <= Len(m_queue)]_vars

\* setTerminateAndWait() returns.
TerminateReturns == cpc[Owner] = "terminate" ~> cpc[Owner] = "idle"

\* A task that was put is taken or flushed, or the queue is terminated.
TaskLeaves ==
  m_low = 1 =>
    \A t \in Tasks :
      (Ok /\ \E i \in 1..Len(m_queue) : m_queue[i] = t)
        ~> ~Ok \/ \A i \in 1..Len(m_queue) : m_queue[i] # t

\* Calls and tasks end: setTerminateAndWait() returns, from whatever the clients
\* and the workers do, and a task does not stay in the queue.  No timed wait is
\* obliged to expire, so that none has to heal a wakeup that was lost.
QueueProgress == TerminateReturns /\ TaskLeaves
=============================================================================
