------------------------------ MODULE Discovery ------------------------------
(***************************************************************************)
(* The device directory of libupnpp/control/discovery.cxx: libupnp threads *)
(* report the messages of the network (cluCallBack), download description  *)
(* documents and queue tasks; the explorer thread (discoExplorer) updates  *)
(* the pool of devices and calls the visitors; user threads register and   *)
(* unregister visitors, look devices up, which expires the stale ones, and *)
(* terminate.  The queue is the pool of TaskPool, which WorkQueue          *)
(* implements, with the explorer as its worker.                            *)
(*                                                                         *)
(* o_pool.m_mutex and o_callbacks_mutex are modelled where a thread keeps  *)
(* one of them while it waits for the other; a section that takes one      *)
(* mutex and waits for nothing is one action.  A description document is   *)
(* its version number, its URL is the device's: 0 stands for no document   *)
(* and for a device that is not in the pool.  The search window and the    *)
(* waits of the lookups are in SearchWindow.                               *)
(*                                                                         *)
(* A definition named Operation_Fault is a mutated form of Operation: the  *)
(* properties are tested by checking that they fail with it.               *)
(***************************************************************************)
EXTENDS Naturals, Sequences, SequencesExt

CONSTANTS
  Devices,     \* the root devices of the network
  NetThreads,  \* libupnp's callback threads
  Users,       \* threads of the program
  Visitors,    \* a visitor is a pair of a found and a lost function
  None,        \* no holder, no handle, no task
  MaxDesc,     \* bound: how many documents a device has, which it comes up with in turn
  MaxQueue,    \* bound: how many tasks can be queued
  SlowVisits   \* can a device expire between its insertion and its visit?

ASSUME BoundAssumption ==
  /\ MaxDesc \in Nat \ {0}
  /\ MaxQueue \in Nat \ {0}
  /\ SlowVisits \in BOOLEAN

VARIABLES
  on, desc,        \* network: the devices that are up, their documents
  last,            \* history: the last message of each device that came in
  overtaken,       \* history: the devices whose last byebye came in while
                   \* another thread had an announcement of theirs in hand
  o_downloading,   \* the URLs being downloaded
  tpc, task,       \* where each libupnp thread is, and the task it makes
  theDevDir,       \* the singleton: handlers are registered while it is "up"
  queue, running,  \* discoveredQueue, as a TaskPool
  epc, tsk,        \* where the explorer is, and its task
  m_devices,       \* the pool: the document of each device, 0 if absent
  expired,         \* the pool's devices that were not heard of in time
  pool_mutex,      \* holder of o_pool.m_mutex
  callbacks_mutex, \* holder of o_callbacks_mutex
  o_callbacks, o_lostCallbacks, \* vectors of visitors
  handle, lostHandle,  \* the index that addCallback() gave each visitor
  moved,           \* history: the visitors that are not, or no more, where
                   \* their index says
  upc, uarg,       \* where each user thread is, and with which visitor
  view,            \* history: what each visitor was told of each device
  satisfied        \* history: the visitors that returned false before they saw
                   \* the whole pool

netVars       == <<on, desc, last, overtaken>>
msgVars       == <<o_downloading, tpc, task>>
queueVars     == <<theDevDir, queue, running>>
explorerVars  == <<queueVars, epc, tsk>>
poolVars      == <<m_devices, expired, pool_mutex>>
foundVars     == <<o_callbacks, handle, moved>>
lostVars      == <<o_lostCallbacks, lostHandle>>
viewVars      == <<view, satisfied>>
callbackVars  == <<callbacks_mutex, foundVars, lostVars, viewVars>>
directoryVars == <<poolVars, callbackVars>>
userVars      == <<upc, uarg>>
vars == <<netVars, msgVars, explorerVars, directoryVars, userVars>>

Explorer == "explorer"
Waker == "deviceFound"   \* the directory's own visitor, of no interest to view
Threads == Users \cup {Explorer}
Desc == 0..MaxDesc

\* The threads and the visitors are told apart, and None is none of them.
ASSUME NameAssumption ==
  /\ Explorer \notin Users
  /\ Waker \notin Visitors
  /\ None \notin Nat \cup Threads \cup Visitors

Task == [alive : BOOLEAN, dev : Devices, desc : Desc]

NetPC == {"idle", "alive", "download", "downloaded", "put"}
ExplorerPC == {"out", "take", "waiting", "insert", "visit", "byebye", "lost",
               "expire", "expiring"}
UserPC == {"idle", "addCallback", "expire", "expiring", "traverse", "stopping",
           "joining"}

TypeOK ==
  /\ on \subseteq Devices /\ desc \in [Devices -> Desc]
  /\ last \in [Devices -> {"none", "alive", "byebye"}] /\ overtaken \subseteq Devices
  /\ o_downloading \subseteq Devices
  /\ tpc \in [NetThreads -> NetPC] /\ task \in [NetThreads -> Task \cup {None}]
  /\ theDevDir \in {"none", "up", "terminated"}
  /\ queue \in Seq(Task) /\ running \in BOOLEAN
  /\ epc \in ExplorerPC /\ tsk \in Task \cup {None}
  /\ m_devices \in [Devices -> Desc] /\ expired \subseteq Devices
  /\ pool_mutex \in Threads \cup {None} /\ callbacks_mutex \in Threads \cup {None}
  /\ o_callbacks \in Seq(Visitors \cup {Waker}) /\ o_lostCallbacks \in Seq(Visitors)
  /\ handle \in [Visitors -> Nat \cup {None}]
  /\ lostHandle \in [Visitors -> Nat \cup {None}]
  /\ moved \subseteq Visitors
  /\ upc \in [Users -> UserPC] /\ uarg \in [Users -> Visitors \cup {None}]
  /\ view \in [Visitors -> [Devices -> Desc]] /\ satisfied \subseteq Visitors

Queue == INSTANCE TaskPool WITH
  Tasks <- Task, Clients <- NetThreads, Workers <- {Explorer}, Bound <- 0,
  Polls <- TRUE, pending <- queue, idlers <- {},
  busy <- IF epc \in {"out", "take", "waiting"} THEN {} ELSE {Explorer}

\* The static objects, before getTheDir().
Init ==
  /\ on = {} /\ desc = [d \in Devices |-> 0] /\ last = [d \in Devices |-> "none"]
  /\ overtaken = {}
  /\ o_downloading = {}
  /\ tpc = [t \in NetThreads |-> "idle"] /\ task = [t \in NetThreads |-> None]
  /\ theDevDir = "none"
  /\ queue = <<>> /\ running = FALSE
  /\ epc = "out" /\ tsk = None
  /\ m_devices = [d \in Devices |-> 0] /\ expired = {}
  /\ pool_mutex = None /\ callbacks_mutex = None
  /\ o_callbacks = <<>> /\ o_lostCallbacks = <<>>
  /\ handle = [c \in Visitors |-> None] /\ lostHandle = [c \in Visitors |-> None]
  /\ moved = {} /\ satisfied = {}
  /\ upc = [u \in Users |-> "idle"] /\ uarg = [u \in Users |-> None]
  /\ view = [c \in Visitors |-> [d \in Devices |-> 0]]

-----------------------------------------------------------------------------
(* The network.  A device comes up with a document, announces itself as     *)
(* often as it likes, and goes with a byebye message or without.  libupnp   *)
(* hands a message to one of its threads while our handlers are registered. *)

ComeUp(d) ==
  /\ d \notin on
  /\ on' = on \cup {d}
  /\ desc' = [desc EXCEPT ![d] = IF @ = MaxDesc THEN 1 ELSE @ + 1]
  /\ UNCHANGED <<last, overtaken, msgVars, explorerVars, directoryVars, userVars>>

\* A thread has an announcement of d in hand.
Announced(d) ==
  \E t \in NetThreads : tpc[t] # "idle" /\ task[t].dev = d /\ task[t].alive

\* A thread gets a message of d; pc is where the handling of it starts.
Receive(t, d, alive, pc) ==
  /\ theDevDir = "up"
  /\ tpc[t] = "idle"
  /\ tpc' = [tpc EXCEPT ![t] = pc]
  /\ task' = [task EXCEPT ![t] = [alive |-> alive, dev |-> d, desc |-> 0]]
  /\ last' = [last EXCEPT ![d] = IF alive THEN "alive" ELSE "byebye"]
  /\ overtaken' = IF ~alive /\ Announced(d) THEN overtaken \cup {d} ELSE overtaken \ {d}

Announce(d, t) ==
  /\ d \in on
  /\ Receive(t, d, TRUE, "alive")
  /\ UNCHANGED <<on, desc, o_downloading, explorerVars, directoryVars, userVars>>

GoWithByebye(d, t) ==
  /\ d \in on
  /\ on' = on \ {d}
  /\ Receive(t, d, FALSE, "put")
  /\ UNCHANGED <<desc, o_downloading, explorerVars, directoryVars, userVars>>

GoSilently(d) ==
  /\ d \in on
  /\ on' = on \ {d}
  /\ UNCHANGED <<desc, last, overtaken, msgVars, explorerVars, directoryVars, userVars>>

-----------------------------------------------------------------------------
(* cluCallBack(), in a libupnp thread.                                      *)

Downloading_Untested(d) == FALSE
Downloading(d) == d \in o_downloading

\* Thread t goes on, or has done with its task.
NetGoes(t, pc) == tpc' = [tpc EXCEPT ![t] = pc] /\ UNCHANGED task
NetDone(t) == tpc' = [tpc EXCEPT ![t] = "idle"] /\ task' = [task EXCEPT ![t] = None]

\* Note the URL as being downloaded, or drop the message if it is already.
DownloadStart(t) ==
  /\ tpc[t] = "alive"
  /\ o_downloading' = o_downloading \cup {task[t].dev}
  /\ IF Downloading(task[t].dev) THEN NetDone(t) ELSE NetGoes(t, "download")
  /\ UNCHANGED <<netVars, explorerVars, directoryVars, userVars>>

\* The document comes, if the device is up, or the download fails.
Download(t) ==
  /\ tpc[t] = "download"
  /\ tpc' = [tpc EXCEPT ![t] = "downloaded"]
  /\ \/ task[t].dev \in on /\ task' = [task EXCEPT ![t].desc = desc[task[t].dev]]
     \/ UNCHANGED task
  /\ UNCHANGED <<netVars, o_downloading, explorerVars, directoryVars, userVars>>

\* The URLs that are not erased after the download of t ended.
Kept_OnFailure(t) ==
  IF task[t].desc = 0 THEN o_downloading ELSE o_downloading \ {task[t].dev}
Kept(t) == o_downloading \ {task[t].dev}

\* Nothing is queued after a failure.
DownloadEnd(t) ==
  /\ tpc[t] = "downloaded"
  /\ o_downloading' = Kept(t)
  /\ IF task[t].desc = 0 THEN NetDone(t) ELSE NetGoes(t, "put")
  /\ UNCHANGED <<netVars, explorerVars, directoryVars, userVars>>

\* discoveredQueue.put(), which is not asked to flush the queue.  A task that
\* the queue refuses is deleted.
Put(t) ==
  /\ tpc[t] = "put"
  /\ NetDone(t)
  /\ UNCHANGED <<netVars, o_downloading, theDevDir, epc, tsk>>
  /\ \/ Len(queue) < MaxQueue /\ Queue!Accept(task[t], queue)
     \/ ~running /\ UNCHANGED <<queue, running>>
  /\ UNCHANGED <<directoryVars, userVars>>

-----------------------------------------------------------------------------
(* Calling the visitors, with o_callbacks_mutex held.                       *)

\* What they have been told after the found functions are called for d, whose
\* document is version, and after the lost functions are.  A visitor that
\* returns false is not called for the other services of the device: it was
\* told of the device.
Found(d, version) ==
  [c \in Visitors |->
     IF Contains(o_callbacks, c) THEN [view[c] EXCEPT ![d] = version] ELSE view[c]]
Lost_Silent(d) == view
Lost(d) ==
  [c \in Visitors |->
     IF Contains(o_lostCallbacks, c) THEN [view[c] EXCEPT ![d] = 0] ELSE view[c]]

\* What c was told after it is taken through the pool: of all the devices, or of
\* those up to the one for which it returns false.
Shown(c, devs) ==
  [view EXCEPT ![c] = [d \in Devices |-> IF d \in devs THEN m_devices[d] ELSE 0]]

\* A device leaves the pool, the lost functions being called first.
Forget(d) ==
  /\ callbacks_mutex = None
  /\ view' = Lost(d)
  /\ m_devices' = [m_devices EXCEPT ![d] = 0]
  /\ expired' = expired \ {d}
  /\ UNCHANGED <<callbacks_mutex, foundVars, lostVars, satisfied>>

-----------------------------------------------------------------------------
(* expireDevices(), run by the explorer and by the lookups.  The search it  *)
(* may start is in SearchWindow.                                            *)

PC(th) == IF th = Explorer THEN epc ELSE upc[th]

\* Thread th goes on to pc.
Goto(th, pc) ==
  /\ IF th = Explorer THEN epc' = pc /\ UNCHANGED upc
                      ELSE upc' = [upc EXCEPT ![th] = pc] /\ UNCHANGED epc
  /\ UNCHANGED <<tsk, uarg>>

ExpireLock(th) ==
  /\ PC(th) = "expire"
  /\ pool_mutex = None
  /\ pool_mutex' = th
  /\ Goto(th, "expiring")
  /\ UNCHANGED <<netVars, msgVars, queueVars, m_devices, expired, callbackVars>>

ExpireOne(th) ==
  /\ PC(th) = "expiring"
  /\ \E d \in expired : Forget(d)
  /\ UNCHANGED <<netVars, msgVars, explorerVars, pool_mutex, userVars>>

ExpireUnlock(th) ==
  /\ PC(th) = "expiring"
  /\ expired = {}
  /\ pool_mutex' = None
  /\ Goto(th, IF th = Explorer THEN "take" ELSE "traverse")
  /\ UNCHANGED <<netVars, msgVars, queueVars, m_devices, expired, callbackVars>>

\* Time passes: a device was not heard of for its expires seconds.  It counts
\* when a thread reads the clock, which is on its way into the loop.
Expires(d) ==
  /\ m_devices[d] # 0 /\ d \notin expired
  /\ \A th \in Threads : PC(th) # "expiring"
  /\ SlowVisits \/ ~(epc = "visit" /\ tsk.dev = d)
  /\ expired' = expired \cup {d}
  /\ UNCHANGED <<netVars, msgVars, explorerVars, m_devices, pool_mutex>>
  /\ UNCHANGED <<callbackVars, userVars>>

-----------------------------------------------------------------------------
(* discoExplorer().                                                         *)

Taking == {"take", "waiting"}
Take ==
  /\ epc \in Taking
  /\ queue # <<>>
  /\ tsk' = Head(queue)
  /\ epc' = IF Head(queue).alive THEN "insert" ELSE "byebye"
  /\ Queue!Deliver(Explorer)
  /\ UNCHANGED <<netVars, msgVars, theDevDir, directoryVars, userVars>>

\* Nothing to take: take() waits, for one minute at most.
TakeWait ==
  /\ epc = "take"
  /\ running /\ queue = <<>>
  /\ epc' = "waiting"
  /\ UNCHANGED <<netVars, msgVars, queueVars, tsk, directoryVars, userVars>>

\* A wait that timed out ends without a task, even if one has come meanwhile,
\* or the end.
AfterTimeout_NoExpire == "take"
AfterTimeout == "expire"
TakeTimeout ==
  /\ epc = "waiting"
  /\ epc' = AfterTimeout
  /\ UNCHANGED <<netVars, msgVars, queueVars, tsk, directoryVars, userVars>>

\* take() returns false, and the explorer calls workerExit().
TakeFails_Drained == ~running /\ queue = <<>>
TakeFails == ~running
Exit ==
  /\ epc \in Taking
  /\ TakeFails
  /\ epc' = "out"
  /\ UNCHANGED <<netVars, msgVars, queueVars, tsk, directoryVars, userVars>>

\* The explorer has done with its task.
TaskDone == epc' = "take" /\ tsk' = None

\* A document that cannot be parsed is dropped.
ParseFails ==
  /\ epc = "insert"
  /\ TaskDone
  /\ UNCHANGED <<netVars, msgVars, queueVars, directoryVars, userVars>>

\* What the pool has for the device of a task.
Stored == tsk.desc

Insert ==
  /\ epc = "insert"
  /\ pool_mutex = None
  /\ m_devices' = [m_devices EXCEPT ![tsk.dev] = Stored]
  /\ expired' = expired \ {tsk.dev}
  /\ epc' = "visit"
  /\ UNCHANGED <<netVars, msgVars, queueVars, tsk, pool_mutex>>
  /\ UNCHANGED <<callbackVars, userVars>>

Visit ==
  /\ epc = "visit"
  /\ callbacks_mutex = None
  /\ view' = Found(tsk.dev, tsk.desc)
  /\ TaskDone
  /\ UNCHANGED <<netVars, msgVars, queueVars, poolVars>>
  /\ UNCHANGED <<callbacks_mutex, foundVars, lostVars, satisfied, userVars>>

\* A byebye: look the device up, and keep the pool locked if it is there.
Present_Unexpired(d) == m_devices[d] # 0 /\ d \notin expired
Present(d) == m_devices[d] # 0
ByebyeLock ==
  /\ epc = "byebye"
  /\ pool_mutex = None
  /\ IF Present(tsk.dev)
       THEN epc' = "lost" /\ pool_mutex' = Explorer /\ UNCHANGED tsk
       ELSE TaskDone /\ UNCHANGED pool_mutex
  /\ UNCHANGED <<netVars, msgVars, queueVars, m_devices, expired>>
  /\ UNCHANGED <<callbackVars, userVars>>

ByebyeLost ==
  /\ epc = "lost"
  /\ Forget(tsk.dev)
  /\ pool_mutex' = None
  /\ TaskDone
  /\ UNCHANGED <<netVars, msgVars, queueVars, userVars>>

-----------------------------------------------------------------------------
(* User threads.                                                            *)

\* getTheDir(): the constructor adds deviceFound() to the callbacks, starts
\* the explorer and registers the handlers.
Construct ==
  /\ theDevDir = "none"
  /\ pool_mutex = None /\ callbacks_mutex = None
  /\ o_callbacks' = Append(o_callbacks, Waker)
  /\ epc' = "take" /\ running' = TRUE
  /\ theDevDir' = "up"
  /\ UNCHANGED <<netVars, msgVars, queue, tsk, poolVars>>
  /\ UNCHANGED <<callbacks_mutex, handle, moved, lostVars, viewVars, userVars>>

\* The index of what was just pushed.
NewIndex_BeforePush(cbs) == Len(cbs) - 2
NewIndex(cbs) == Len(cbs) - 1

\* The view of a visitor starts and ends with its registration.
Untold(c) == [view EXCEPT ![c] = [d \in Devices |-> 0]]

\* addCallback() keeps the callbacks locked, and then locks the pool.  A program
\* does not register a visitor that it has registered, or that is still there.
AddCallback(u, c) ==
  /\ upc[u] = "idle"
  /\ callbacks_mutex = None
  /\ ~Contains(o_callbacks, c) /\ handle[c] = None
  /\ Contains(o_lostCallbacks, c)
  /\ callbacks_mutex' = u
  /\ o_callbacks' = Append(o_callbacks, c)
  /\ view' = Untold(c)
  /\ upc' = [upc EXCEPT ![u] = "addCallback"]
  /\ uarg' = [uarg EXCEPT ![u] = c]
  /\ UNCHANGED <<netVars, msgVars, explorerVars, poolVars, handle, moved, lostVars>>
  /\ UNCHANGED satisfied

Pool == {d \in Devices : m_devices[d] # 0}
ShownSets == {devs \in SUBSET Pool : devs = {} => Pool = {}}
AddCallbackTraverse(u) ==
  /\ upc[u] = "addCallback"
  /\ pool_mutex = None
  /\ \E devs \in ShownSets :
       /\ view' = Shown(uarg[u], devs)
       /\ satisfied' = IF devs = Pool THEN satisfied \ {uarg[u]}
                                      ELSE satisfied \cup {uarg[u]}
  /\ callbacks_mutex' = None
  /\ handle' = [handle EXCEPT ![uarg[u]] = NewIndex(o_callbacks)]
  /\ upc' = [upc EXCEPT ![u] = "idle"]
  /\ uarg' = [uarg EXCEPT ![u] = None]
  /\ UNCHANGED <<netVars, msgVars, explorerVars, poolVars, o_callbacks, moved, lostVars>>

\* vector::erase(), if there is such an element.
Erase_OffByOne(cbs, idx) == IF idx > Len(cbs) \/ idx = 0 THEN cbs ELSE RemoveAt(cbs, idx)
Erase(cbs, idx) == IF idx >= Len(cbs) THEN cbs ELSE RemoveAt(cbs, idx + 1)

\* The other visitors that the erasure for c removes or moves.
Shifted(c) ==
  {b \in Visitors \ {c} :
     \E i \in 1..Len(o_callbacks) : i > handle[c] /\ o_callbacks[i] = b}

DelCallback(u, c) ==
  /\ upc[u] = "idle"
  /\ callbacks_mutex = None
  /\ handle[c] # None
  /\ o_callbacks' = Erase(o_callbacks, handle[c])
  /\ handle' = [handle EXCEPT ![c] = None]
  /\ moved' = {b \in moved \cup Shifted(c) :
                 Contains(o_callbacks', b) \/ handle'[b] # None}
  /\ view' = Untold(c) /\ satisfied' = satisfied \ {c}
  /\ UNCHANGED <<netVars, msgVars, explorerVars, poolVars, callbacks_mutex>>
  /\ UNCHANGED <<lostVars, userVars>>

\* A client registers its lost function first, and removes it last.
AddLostCallback(u, c) ==
  /\ upc[u] = "idle"
  /\ callbacks_mutex = None
  /\ ~Contains(o_lostCallbacks, c) /\ lostHandle[c] = None
  /\ ~Contains(o_callbacks, c) /\ handle[c] = None
  /\ o_lostCallbacks' = Append(o_lostCallbacks, c)
  /\ lostHandle' = [lostHandle EXCEPT ![c] = NewIndex(o_lostCallbacks')]
  /\ UNCHANGED <<netVars, msgVars, explorerVars, poolVars, callbacks_mutex>>
  /\ UNCHANGED <<foundVars, viewVars, userVars>>

DelLostCallback(u, c) ==
  /\ upc[u] = "idle"
  /\ callbacks_mutex = None
  /\ lostHandle[c] # None /\ handle[c] = None
  /\ \A v \in Users : uarg[v] # c
  /\ o_lostCallbacks' = Erase(o_lostCallbacks, lostHandle[c])
  /\ lostHandle' = [lostHandle EXCEPT ![c] = None]
  /\ UNCHANGED <<netVars, msgVars, explorerVars, poolVars, callbacks_mutex>>
  /\ UNCHANGED <<foundVars, viewVars, userVars>>

\* A step of u that is about nothing but where it is.
UserGoes(u, from, to) ==
  /\ upc[u] = from
  /\ upc' = [upc EXCEPT ![u] = to]
  /\ UNCHANGED <<netVars, msgVars, directoryVars, uarg>>

\* traverse() and getDevBySelector(): expireDevices() first, then a look at
\* the pool.
Lookup(u) == UserGoes(u, "idle", "expire") /\ UNCHANGED explorerVars

Traverse(u) ==
  /\ pool_mutex = None
  /\ UserGoes(u, "traverse", "idle")
  /\ UNCHANGED explorerVars

\* terminate(): unregister the handlers, stop the queue, join the explorer.
\* theDevDir stays, and is not started again.
TerminateCall(u) ==
  /\ theDevDir = "up"
  /\ theDevDir' = "terminated"
  /\ UserGoes(u, "idle", "stopping")
  /\ UNCHANGED <<queue, running, epc, tsk>>

TerminateStop(u) ==
  /\ UserGoes(u, "stopping", "joining")
  /\ UNCHANGED <<theDevDir, epc, tsk>>
  /\ Queue!Stop

TerminateJoin(u) ==
  /\ epc = "out"
  /\ UserGoes(u, "joining", "idle")
  /\ UNCHANGED explorerVars

-----------------------------------------------------------------------------

Network ==
  \E d \in Devices :
    \/ ComeUp(d) \/ GoSilently(d) \/ Expires(d)
    \/ \E t \in NetThreads : Announce(d, t) \/ GoWithByebye(d, t)
NetThread(t) == DownloadStart(t) \/ Download(t) \/ DownloadEnd(t) \/ Put(t)
Expiring(th) == ExpireLock(th) \/ ExpireOne(th) \/ ExpireUnlock(th)
Explore ==
  \/ Take \/ TakeWait \/ TakeTimeout \/ Exit \/ ParseFails \/ Insert \/ Visit
  \/ ByebyeLock \/ ByebyeLost \/ Expiring(Explorer)
\* terminate() is called before exit, and nothing is called after it.
UserCall(u) ==
  /\ theDevDir # "terminated"
  /\ \/ Lookup(u) \/ TerminateCall(u)
     \/ \E c \in Visitors :
          \/ AddCallback(u, c) \/ DelCallback(u, c)
          \/ AddLostCallback(u, c) \/ DelLostCallback(u, c)
UserStep(u) ==
  \/ AddCallbackTraverse(u) \/ Expiring(u) \/ Traverse(u)
  \/ TerminateStop(u) \/ TerminateJoin(u)

Next ==
  \/ Network \/ Construct \/ Explore
  \/ \E t \in NetThreads : NetThread(t)
  \/ \E u \in Users : UserCall(u) \/ UserStep(u)

Spec == Init /\ [][Next]_vars

\* Threads run, downloads end, and the time of a device that is off runs out,
\* whoever reads the clock meanwhile.  Nobody has to call us, and the network
\* does as it likes.
Fairness ==
  /\ WF_vars(Explore)
  /\ \A t \in NetThreads : WF_vars(NetThread(t))
  /\ \A u \in Users : WF_vars(UserStep(u))
  /\ \A d \in Devices : SF_vars(d \notin on /\ Expires(d))

FairSpec == Spec /\ Fairness

-----------------------------------------------------------------------------
(* Properties.                                                              *)

\* The threads that hold the slot of d in o_downloading.
Downloaders(d) ==
  {t \in NetThreads : tpc[t] \in {"download", "downloaded"} /\ task[t].dev = d}

\* o_downloading is what its comment says, the URLs currently downloading: it
\* has a URL exactly while a thread downloads it, and then only one thread
\* does, whatever messages come in meanwhile and whether the download works.
\* A URL that stayed behind would hide its device for good.
DownloadingExact ==
  /\ o_downloading = {d \in Devices : Downloaders(d) # {}}
  /\ \A d \in Devices : \A s, t \in Downloaders(d) : s = t

\* A visitor whose two functions are registered was told of exactly the
\* devices that are in the pool, with the same documents, but for the one that
\* the explorer is about to show, and for those that were there when it came and
\* that it did not want to see: addCallback() shows what is there, and no
\* insertion, byebye or expiry by any thread gets past it.
ViewTracksPool ==
  \A c \in Visitors, d \in Devices :
    handle[c] # None /\ Contains(o_callbacks, c) /\ Contains(o_lostCallbacks, c)
      => \/ view[c][d] = m_devices[d]
         \/ view[c][d] = 0 /\ c \in satisfied
         \/ epc = "visit" /\ tsk.dev = d

\* No message is being handled.
Quiet == running /\ queue = <<>> /\ epc \in Taking /\ \A t \in NetThreads : tpc[t] = "idle"

\* When every message was handled, by any number of threads, no device is in the
\* pool whose last message was a byebye, unless that byebye came in while
\* another thread was still busy with an announcement, which is then queued
\* behind it or not: cluCallBack() queues a byebye at once and an announcement
\* after its download.
ByebyeRespected ==
  Quiet => \A d \in Devices :
             last[d] = "byebye" /\ d \notin overtaken => m_devices[d] = 0

\* The same of every byebye: not so.
ByebyeHeeded == Quiet => \A d \in Devices : last[d] = "byebye" => m_devices[d] = 0

\* c is not called, whatever the explorer and the other visitors do.
NotCalled(c) ==
  (handle[c] = None /\ \A u \in Users : uarg'[u] # c /\ uarg[u] # c)
    => \A d \in Devices : view'[c][d] \in {view[c][d], 0}

\* Once delCallback() was called for a visitor, or before addCallback() is,
\* the visitor is not called: what it refers to may be gone.  With any number of
\* visitors, that come and go in any order, this is so of those that no
\* delCallback() of an earlier one moved: moving is all that can go wrong, and
\* it ends with the registration.
NotCalledUnregistered == [][\A c \in Visitors \ moved : NotCalled(c)]_vars

\* The same of every visitor, as discovery.hxx:95 has it: not so.
DelCallbackUnregisters == [][\A c \in Visitors : NotCalled(c)]_vars

\* addCallback() and the lookups are called in any order by any thread, and
\* the explorer goes on: nobody holds one of the two mutexes and waits for
\* the other one while the holder of that waits for the first.
NoLockCycle ==
  ~ \E u \in Users : /\ upc[u] = "addCallback"
                     /\ pool_mutex # None
                     /\ PC(pool_mutex) = "lost" \/ expired # {}

\* When all the devices are gone for good, the pool ends up empty, without
\* any call from the program: byebyes and the explorer's timeout do it.
EmptiesOnceGone ==
  <>[](on = {} /\ theDevDir = "up") => <>[](\A d \in Devices : m_devices[d] = 0)

\* A device that is gone for good is forgotten, even if others stay.
GoneIsForgotten ==
  \A d \in Devices : <>[](d \notin on /\ theDevDir = "up") => <>[](m_devices[d] = 0)

\* terminate() returns, whatever was queued and whatever the explorer did.
TerminateReturns ==
  \A u \in Users : upc[u] \in {"stopping", "joining"} ~> upc[u] = "idle"
=============================================================================
