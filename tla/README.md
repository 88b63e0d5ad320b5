# A TLA+ verification of libupnpp

libupnpp is a C++ layer over libupnp (npupnp). On the *control* side it finds
UPnP devices, gives typed access to their services and delivers their events;
on the *device* side it lets a program implement a device: description, actions,
events, a small virtual directory of files. libupnp calls it back from a pool
of threads, the library starts threads of its own, and the program has its own.
What is hard in it is how these threads meet, and that is what is modelled first.

Contents: 1 the system, 2 modules and code, 3 runs, 4 fairness and deadlock,
5 proofs, 6 disagreements between the code and what is said of it, 7 what is not
modelled, and the plan.

## 1. The system

Paths are relative to `src/libupnpp`. "Status" is that of the models here;
`PROJECT.json` has the same list in machine form, with the hazards line by line.

| component | state | operations | meets | status |
|---|---|---|---|---|
| task queue, `workqueue.h` | queue, two condition variables, counters of waiting clients, waiting and exited workers, `m_ok`, `m_openforbusiness` | `start`, `put`, `take` (timed or not), `waitIdle`, `closeShop`, `workerExit`, `setTerminateAndWait` | fed by discovery's message threads, emptied by the explorer | `WorkQueue`, proved |
| discovery, `control/discovery.cxx` | pool of devices, URLs under download, found and lost callbacks, last search, the singleton | `cluCallBack`, `discoExplorer`, `expireDevices`, `addCallback`/`delCallback`, `traverse`, `getDevBySelector`, `search`, `terminate` | libupnp threads, explorer thread, user threads; the queue; the program's visitors | `Discovery`, `SearchWindow`, proved |
| event subscriptions, `control/service.cxx` | `o_calls` (SID to callback), each service's SID and reporter | `registerCallback`, `unregisterCallback`, `installReporter`, `reSubscribe`, `srvCB`, `~Service` | libupnp threads deliver events; the program's reporters run in them | `Subscription`, proved |
| device event loop, `device/device.cxx` | `wkuptime`, `earlytime`, `needExit`, `devlock`, `evlooplock`, the services' changed state | `eventloop`, `notifyEvent`, `loopWakeup`, action and subscription requests, `shouldExit`, `~UpnpDevice` | loop thread, libupnp threads, the program's services | `DeviceEvents`, proved |
| device registry, `device/device.cxx`, `service.cxx` | table of devices, of services by id and in order, of actions, the XML documents | constructor, `addService`, `forgetService`, `addActionMapping`, `sCallBack`, `callBack`, `start` | libupnp threads dispatch through it while the program changes it | `Registry`, proved |
| library object, `upnpplib.cxx` | singleton, its error codes, options, table of handlers | `init`, `getLibUPnP`, the constructor, `registerHandler`, `initEvents` | every other component registers here | `Library`, proved |
| virtual directory, `device/vdir.cxx` | directories and file entries, open handles | `addFile`, `addVDir`, `vdopen`, `vdread`, `vdseek`, `vdgetinfo`, `vdclose` | libupnp's web server threads read what the program replaces | `VirtualDir`, proved |
| renderer and server proxies, `control/mediarenderer.cxx`, `mediaserver.cxx`, `device.cxx` | weak pointers to service objects | one accessor per service, `reSubscribeAll`, lists of devices | own the services above | `Renderer` (proved), without the lists |
| typed service, `control/typedservice.cxx` | found device, its search's lock, its description | `findTypedService`, `runAction` | a visitor in the explorer's thread and a waiter | `FindService` (proved), `Documents` |
| Songcast, `control/linnsongcast.cxx` | receivers' and senders' states | `getReceiverState`, `setReceiverPlaying`, `stopReceiver`, `setReceiversFromSender`, ... | each command is several remote calls | `Songcast`, proved |
| content directory, `control/cdirectory.cxx` | slice size | `readDirSlice`, `readDir`, `searchSlice`, `search`, `getMetadata` | servers that cut slices | `Browse`, proved |
| directory objects, `control/cdircontent.cxx` | containers and items | the DIDL-Lite parser, `getdidl` | | `Documents` |
| volume, `control/renderingcontrol.cxx`, `ohvolume.cxx` | range and step of the device | `setVolume`, `getVolume`, scaling both ways | a device whose range is not 0..100, others that move it | `Volume`, proved |
| transport and OpenHome services, `control/avtransport.cxx`, `oh*.cxx` | none beyond the event translation | `evtCallback`, queries, commands | the program's reporter | `Proxies` |
| OpenHome playlist and radio, `control/ohplaylist.cxx`, `ohradio.cxx` | none; the program holds ids and a token | `idArray`, `idArrayChanged`, `readList`, `insert`, `deleteId`, `deleteAll` | others that change the list | `Playlist`, `Proxies` |
| descriptions and protocol information, `control/description.cxx`, `conman.cxx`, `avlastchg.cxx` | trees of devices, services, actions | parsers | held by the discovery pool | `Documents` |
| text, `smallut.cpp`, `upnpavutils.cxx`, `soaphelp.cxx`, parts of `upnpplib.cxx` | none | lists with escapes, splitting, URLs, numbers, durations | | `Text`, `Proxies` in part |
| vendored code, `expatmm.h`, `base64.cxx`, `md5.cpp`, `log.cpp` | | | | `Sax`, `Base64`; the rest left aside |

How they interact. A message of the network reaches `o_callback` in a libupnp
thread, which hands it to `cluCallBack` (discovery), `srvCB` (events) or
`sCallBack` (devices). Discovery downloads the description in that same thread,
`put()`s a task on the `WorkQueue`, and its explorer thread takes it, updates
the pool and calls the visitors, of which one, `deviceFound`, wakes the lookups
that wait for a device. A program makes `Service` objects from what it found;
they subscribe, and their callbacks run inside of `srvCB`. On the device side
requests run in libupnp threads under the device's lock and wake up its event
loop, which polls the services and sends what has changed.

Where it is hard, and the properties that answer:

- *Wakeups.* Each `WorkQueue` has two condition variables with several kinds of
  sleepers on each, `notify_one` and timed waits: `NoLostWakeup`,
  `QueueProgress`. Discovery notifies without the lock its waiters hold: the
  third part of `WindowKept`.
- *Counters that decide.* `waitIdle()` and the termination look at counters, not
  at threads: `CountersExact`, `WaitsSound`.
- *Order.* Two libupnp threads handle messages of one device:
  `DownloadingExact`, `ByebyeRespected`. What a visitor has been told and what
  the pool has are changed under different locks: `ViewTracksPool`. Calls go on
  while a callback is removed: `NotCalledUnregistered`, `NeverCalledAfter`,
  `FindsWhatIsThere`.
- *Locks.* Two orders of nesting in discovery: `NoLockCycle`. Two locks of a
  device's event loop: `CallsReturn`.
- *Partial failure.* A subscription has three places that must tell the same,
  and each remote call can fail: `TablesAgree`; `reSubscribeAll()`
  is a row of such calls, during which objects go, come and lose their
  subscriptions: `OneHandleEach`. A Songcast command is
  a row of remote calls to several renderers: `AnswerTells`, `FollowsMaster`,
  `LeavesOthersAlone`. Initialisation fails and is tried again by others:
  `LibrarySound`.
- *What was looked up may have changed.* A file under its reader
  (`ServedFaithfully`), a service under its request (`RegistrySound`), a container
  or a playlist between two calls (`BrowseComplete`, `ListedAsHeld`), a volume
  between reading and setting it (`MovesAsAsked`).
- *Code apart that must agree.* Events, queries and commands
  (`ToldAsAskedAndMeant`), writers and readers of text (`TextSound`), a parser's
  members from one element to the next (`DocumentsAreRead`).
- *Time.* Windows and waits are moved and cut short by other threads:
  `WindowKept`, `LookupReturns`, `RoundsSpaced`, `ChangeFetched`.
- *Ends.* `QueueProgress`, `TerminateReturns`, `EmptiesOnceGone`, `CallsReturn`.

## 2. Modules and code

| module | models | instantiated by | proved in |
|---|---|---|---|
| `TaskPool` | abstract: what a task queue promises | `WorkQueue`, `Discovery` | |
| `WorkQueue` | `workqueue.h` | `Queue.cfg` | `WorkQueueProofs` |
| `Discovery` | `control/discovery.cxx`, messages to visitors; its queue is a `TaskPool` | `MCDiscovery` | `DiscoveryProofs` |
| `SearchWindow` | `control/discovery.cxx`, search window and waits | `MCSearchWindow` | `SearchWindowProofs` |
| `Subscription` | `control/service.cxx`, events | `MCSubscription` | `SubscriptionProofs` |
| `DeviceEvents` | `device/device.cxx`, loop and requests | `MCDeviceEvents` | `DeviceEventsProofs` |
| `Songcast` | `control/linnsongcast.cxx`, states and commands | `MCSongcast` | `SongcastProofs` |
| `VirtualDir` | `device/vdir.cxx` | `MCParts` | `DataProofs` |
| `Registry` | `device/device.cxx`, `service.cxx`: tables, dispatch, start | `MCParts` | `PartsProofs` |
| `Library` | `upnpplib.cxx`, and how it is used | `MCParts` | `PartsProofs` |
| `FindService` | `control/typedservice.cxx`, the search, with the visitors of `discovery.cxx` | `MCParts` | `PartsProofs` |
| `Renderer` | `control/mediarenderer.cxx` | `MCParts` | `PartsProofs` |
| `Proxies` | `control/avtransport.cxx`, `oh*.cxx`, `soaphelp.cxx`, durations | `MCParts` | `DataProofs` |
| `Volume` | `control/renderingcontrol.cxx`, `ohvolume.cxx` | `MCParts` | `PartsProofs` |
| `Browse` | `control/cdirectory.cxx` | `MCParts` | `PartsProofs` |
| `Playlist`, on `Sax` | `control/ohplaylist.cxx`, the parser of `ohradio.cxx` | `MCParts` | `DataProofs` |
| `Documents`, on `Sax` | `control/cdircontent.cxx`, `description.cxx`, `typedservice.cxx` (actions), `ohproduct.cxx` (sources), `avlastchg.cxx`, `conman.cxx` | `MCParts` | |
| `Text`, on `Base64` | `smallut.cpp`, `upnpplib.cxx`, `base64.cxx` | `MCParts` | `PartsProofs`, for base64 |
| `Sax` | `expatmm.h` | | `DataProofs`, under `Playlist` |

Common conventions. Variables and actions have the names of the code where they
stand for one thing of it. A thread's place is in a function (`tpc`, `epc`,
`upc`, `wpc`, ...). What a thread does between two points where it can wait for
another one (a mutex that somebody may hold for long, a condition variable, a
remote call) is one action. A condition variable is the set of the threads
asleep on it; a spurious wakeup is a member that leaves the set by itself.
`Operation_Fault` next to `Operation` is a mutated form of it, with which a
property is shown to fail.

**WorkQueue.** One `m_mutex` guards everything, so a stretch between two waits is
one action: `PutCall`/`PutResume`, `WaitIdleCall`/`WaitIdleResume`,
`TerminateCall`/`TerminateResume`, `TakeCall`/`TakeResume`, and for a timed
`take()` its expiry (`TakeExpires`) apart from the moment the worker has the
mutex back (`TakeTimedOut`), since notifications fall in between. Counters are
unsigned: `Inc` and `Dec` wrap at `UIntMax`. The owner is one of the clients.
`TaskPool` has neither mutex, condition variable nor counter: a bounded FIFO
whose tasks go to one worker each, that is fed only while it runs, and a
`waitIdle()` that ends in a quiet pool. `WorkQueue` implements it
(`ImplementsPool`), and `Discovery` uses it for its queue, so what is shown of
the explorer there does not rest on the queue's inner working.

**Discovery.** Each `NetThreads` member is a libupnp thread inside of
`cluCallBack`: note the URL (`DownloadStart`), `Download`, erase the URL
(`DownloadEnd`), `Put`; a byebye is put at once. The explorer takes a task,
inserts (`Insert`, the pool's mutex taken and released), then shows
(`Visit`, under `o_callbacks_mutex`); a visitor may return false, which ends a
traversal and says nothing to the explorer, and is then `satisfied` with what it
has seen; a byebye keeps the pool locked while the
lost functions run (`ByebyeLock`, `ByebyeLost`); `expireDevices()` is common to
explorer and users (`ExpireLock`, `ExpireOne`, `ExpireUnlock`). Users register
visitors, look devices up and terminate. `o_pool.m_mutex` and
`o_callbacks_mutex` are variables where somebody waits with one of them held.
The network is external: devices come up with a new document, announce
themselves, leave with or without a byebye. History: `view` is what each visitor has been
told; `overtaken` are the devices whose last byebye came in while another
thread had an announcement of theirs in hand; `moved` are the visitors that the
`erase()` of an earlier one took away from their index. They say in which cases the code
keeps what it promises: the properties that make no exception, `ByebyeHeeded` and
`DelCallbackUnregisters`, fail (section 6).

**SearchWindow.** Time in ticks. `o_lastSearch` is an age, `ms` what is left of a
wait. `ExpireDevices` is `expireDevices()` with the `search()` it may call, under
the pool's mutex, as one step inside the lookup that calls it. `LookSleeps` is
apart from `Look`, since the pool's mutex is released in between and
`deviceFound()` takes no lock: wakeups can be lost.

**Subscription.** One thread per `Service` object. `UpnpSubscribe` returns a fresh
SID and the first event is under way from then on; `Link` puts the callback in
`o_calls`; `UnSubscribe` (which may fail) and `Unlink` undo it. `SrvCBFind` to
`SrvCBCall` is the stretch in which `srvCB()` holds `cblock`. libupnp is
external: events, and a renewal that fails.

**DeviceEvents.** `Wait`, `Wakes` (go on, skip or exit), `GetEventData` per service
under `devlock`, `NotifyEvent` without it. Actions hold `devlock` from the change
to the end of `loopWakeup()`. A subscription request reads all data under the
lock and has it accepted without it. `Embedded` devices have a loop and services of
their own, are reached through their root device, and have no handle (it stays 0,
`device.cxx:114`, 276, 510, 634): they can neither accept a subscription nor send an event. `Silent`
services are those made with `noevents`: the loop takes their changes and sends
nothing. `wkuptime` and `earlytime` are static in the
code and so are common to all devices here, kept as the time since the first and
the distance of the second. Left out: the order in which the services are
polled (any order), and the periodic event of all variables, which the code
disables with `#ifndef`. The read and the write of the two static times by one
loop are taken as one access each.

**Songcast.** One command at a time, `Call` to `Return`; `i` is the renderer of the
list it is at, 0 the master of `setReceiversFromReceiver`. `Connect`, `Sender`
and `TransportState` are the calls of `getReceiverState` that matter; a renderer
that is not in the directory, has no such service or does not answer is a
`Connect` that fails. A helper on one renderer may also be given the state of an
earlier call, with its handles, and begins with its first change then
(`Begin`). `Found` is the `switch` on the state, `Change` each of the
calls that change a renderer: it succeeds, fails, or fails although the renderer
executed it. The renderers are external and start in any state; `Others` is
whoever else uses them, another thread of the program included, as the helpers
share no state. A call that times out and is executed later, during the next
one, is left out.

**VirtualDir.** Each callback holds `dirsmutex` throughout and is one step. The
web server asks, opens, seeks, reads and closes (`Serve`), in any order of its
threads, while `AddFile` replaces what a handle points at: bytes carry the version
of the content they are from. Buffers may be of no length. The web server seeks to
the start of a range, which is not negative, so negative offsets are left out.
`AddVDir` gives a directory to the program, whose
own operations are external.

**Registry.** A service object is made in two steps and ends in two, as the
constructors of base and derived class run in sequence (`AddService`,
`AddActionMapping`, `EndService`, `ForgetService`), and requests fall in between:
`SCallBack` finds the device, `FindService` the service, `CallAction` runs. The
code releases a lock between each two. `Start` puts the description of a root
device and its embedded ones into the virtual directory.

**Library.** `init()` and `getLibUPnP()` with the options given and the three ways
in which starting libupnp can end; the program itself, which may give both an
interface and an address, which `init()` refuses (`ProgramGets`); and the three
users, each with what it does when it is refused.

**FindService.** The explorer calls the visitors one by one with
`o_callbacks_mutex` held, in two halves for a visitor that writes two variables
(`Visit`); a seeker adds its visitor, waits, removes it by index, looks again
and binds. The window's end is one step at any time: `SearchWindow` has its
timing. The devices there are and what is searched for are constants, so that
the proof is for any of them.

**Renderer.** One kind of service for each accessor; an object is "held" as long
as the program has a handle. `ReSubscribeAll` is a loop, and each call of it to
the device a step: `Skip` a kind that has no object, `Renew` ends the old subscription
of one, `Subscribe` makes the new one, `Drop` gives up the loop's own handle, which
may be the last; `ReturnFalse` at an object that has no subscription, `ReturnTrue` at
the end. Each call may fail with or without effect at the device, and between
any two of them the device may restart (`DeviceRestarts`) and the program make, register and
release objects. That another thread uses the same weak pointer at the very
moment that the loop does is left out: the class has no lock and does not
support it.

**Proxies.** One variable of one service per behaviour, chosen from 62: `Codec`
says for each what `evtCallback()` makes of its text, what the query makes of
it, and what the commands send. Names that the code gets wrong are kept as
wrong. Metadata may have no item, two, one without a resource, or be no document. Commands that send nothing but their name are left out.

**Volume.** `SetVolume` is the first remote call and the computation,
`SendVolume` the second, `OtherSets` and `LimitChanges` come in between. The factor of
a range, its width divided by 100, is a double of the IEEE format. What is
computed with it differs from the exact fraction only where that is a whole
number: `FactorError` is by how much the double is off (nothing if 25 divides the
width), `Rounding` whether the product or the quotient then comes out above the whole number,
below it or at it, and `Scaled` and `DevVolTo0100` add what `ceil()`, `floor()` and the conversion to an integer
make of that. So 100 times the factor of 0..14 is sent as 15, and 17 of 0..17
is read as 99. A step that does not divide the range, and a factor that is off,
can take a volume that goes up above the last level: `MovesAsAsked` says where (`Divided`,
`FactorIsExact`), and is exact where neither is the case.

**Browse.** One step per slice. The container changes between slices, the server
sends shorter slices than asked, does not tell the total, or fails.

**Playlist.** The device keeps a list of tracks and a token; the program's vector of
ids gets old as others insert and delete, and has the ids of several answers if the
program does not empty it. A track may have no URI, or no metadata. `ReadList` is the request and the
parser, on the document the device sends, which may be cut short.

**Documents.** A document is chosen by its meaning, written as the events of expat
and read by the parser: a state is a document and what was made of it. The
parsers' members, which outlive an element, are the record `made`. The documents
are all those up to the bounds in the module: an object of up to three elements or
two of one, two levels of embedded devices, an action of two arguments or two of
one, and so on; and each of them cut in its middle. A directory may be quoted once more
than it should be (`parse()` takes that back) or twice; an item may be of one tag. `Sax` is how `expatmm.h` calls handlers; a text
is in chunks, as expat delivers it.

**Text.** One call per behaviour, on every input up to the bounds, with the loops
of the code as folds. `Base64` has bytes and six-bit values as numbers.

**MCParts.** The eleven modules above share no state. `part` says which of them
moves in a behaviour, the others stay as they start, so that one run checks all
without the product of their states; a property of one is about its part alone.

## 3. Runs

"Violation" runs are disagreements between the code and what is said of it
(section 6): TLC must find the counterexample.

| run | instance | shows |
|---|---|---|
| `queue` | 3 tasks, 3 clients, 2 workers, `m_high` 2, `m_low` 1, timed waits, workers may abort, fair | counters, no lost wakeup, sound `waitIdle` and termination, refinement of `TaskPool`; termination returns, a task does not stay |
| `disco_safety` | 1 device, 1 libupnp thread, 1 user, 2 visitors, 1 queued task | visitors know the pool exactly; no call after removal, but to a visitor that the removal of another has moved |
| `disco_live` | 1 device, 2 libupnp threads, 1 user, 2 queued tasks, fair | one download per URL; byebyes are respected, but for those that pass an announcement; the pool empties, `terminate()` returns |
| `disco_deadlock` | 1 libupnp thread, 1 user, 1 visitor | violation: the two nestings of the mutexes meet |
| `window` | 2 threads, window 2 + 1 ticks, period 4 | nobody is let through or fails early, nobody sleeps past a window, lookups return |
| `loop_one` | 1 device, 1 service, 1 subscriber, fair | spacing of rounds, changes fetched and told, actions and exit return |
| `loop_starve` | 2 devices, fair | violation: the static times starve a loop |
| `loop_stale` | 1 device, 1 service, 1 subscriber | violation: a change is lost between a subscription's data and its acceptance |
| `sub_safety` | 2 services, 3 SIDs, 2 events under way | callbacks and SIDs agree, nothing runs after removal |
| `sub_first` | the same | violation: the first event is dropped |
| `songcast` | 2 renderers, 2 senders, lists of up to two, 2 changes by others during a call | a renderer without a reason does what was asked, false means nothing was done, slaves follow the master, others are left alone |
| `parts` | eleven components, one in each behaviour; their bounds are below | one property each: `ServedFaithfully` (files), `RegistrySound`, `LibrarySound`, `FindsWhatIsThere`, `OneHandleEach` (renderer), `ToldAsAskedAndMeant` (proxies), `MovesAsAsked` (volume), `BrowseComplete`, `ListedAsHeld` (playlist), `DocumentsAreRead`, `TextSound` |

Why these bounds suffice for what they look for:

- *WorkQueue.* A lost wakeup needs a sleeper, a notifier and somebody that takes
  the place of the sleeper: two workers and a second client beside the owner
  are one more than that. A queue of two has empty, between and full. Nothing
  rests on the bound, as the invariants are proved for all sizes. `UIntMax` is 7:
  large enough to count all threads, small enough to see the wrap.
- *Discovery.* Tasks of different devices do not touch each other's entries, so
  one device and two threads give every race on one entry, among them the byebye
  that passes an announcement in `disco_live`. Two queued tasks and one in the
  explorer's hands are an announcement, a byebye and another announcement. Two
  visitors are the least for which an index goes stale: `disco_safety` has them,
  and for that one thread, one document and a queue of one. What those bounds leave out (an
  update of a document under two visitors, three visitors) is proved for all
  constants by `VisitorsAreUpToDate` and `UnregisteredAreNotCalled`. A visitor that
  is `satisfied` with a part of the pool needs two devices: only the theorem has it.
- *SearchWindow.* A window of two ticks and a grace of one have a moment in
  the window, one in the grace and one after it; the period is longer than the
  window, as 5 s is longer than 2.2 s. Two waiters, since one ends the
  wait for the other. The safety part is proved for all lengths.
- *Subscription.* Two services contend for `cblock` and for SIDs; three SIDs allow
  a service an old, a new and a foreign one. Proved for all.
- *DeviceEvents.* A loop that waits for two ticks has one in the middle, which is
  where an early wakeup is too close or not; two changes let the older one
  overtake. A second service would only repeat the polling. `loop_starve` has an
  embedded device beside its root; silent services, and embedded ones with
  subscribers, are in the theorem `ChangesAreTold`.
- *Songcast.* Two renderers are a list with a first and a last, a slave and its
  master, or the master among its slaves. Receivers at the first place of the
  sources, at another one, and none. Two changes by others can undo each other.
  Proved for all lists.
- *Parts.* Files: two additions are a content and its replacement, of sizes 1 and
  3 read with a buffer of 2, that is in less than one read, and in two, or with
  one of none; two
  requests, in a directory in a directory. Registry: a root device with two
  services, one embedded with a service of the same name, two service objects:
  one that replaces the other. Library: four initialisations are a failure, a
  second try, and one by each of two other users. Search: two seekers, with
  three devices of which one has two versions of a service, two announced.
  Renderer: two kinds of services, so that one comes before the other in
  `reSubscribeAll()`, two objects, and four SIDs: both are subscribed and both are
  renewed. Proxies: two
  changes, so that a value follows another, on every variable. Volume: ranges
  whose steps divide them or not, that start at 0 or above, smaller and larger
  than 100, empty, and with factors that are off and make a product or a quotient
  come out wrong; asks at both ends, beyond, and around the middle. Browse: slices of up
  to 2 of containers of up to 5, that is none to two full slices and a part,
  with two changes. Playlist: two tracks, three changes; tracks with a URI in one chunk, in three
  and without, with metadata that is read, left out, or spoils what follows.
  Documents: above.
  Text: up to four characters out of six that cover every class the functions tell
  apart, lists of two; integers of 8 bits, so that the lowest one is there; four
  bytes, which are a full group of three and a partial one.

The mutants of `PROJECT.json` show, for every property of a passing run, a
plausible fault of the code that breaks it under that run's own constants.

## 4. Fairness and deadlock

- `queue`: threads that can run do (weak fairness of each thread's steps, of
  the mutex being handed on); clients need not call anything. `TakeExpires` has
  no fairness: what is shown holds without the timeout that would repair a lost
  wakeup.
- `disco_live`: explorer, libupnp threads inside of `cluCallBack` and users inside
  of a call run; downloads end, as they have a timeout. A device that is off
  reaches its expiry (strong fairness: another thread that reads the clock
  may postpone the moment, not for ever). Nothing makes the network or the program
  do anything.
- `window`: time passes and threads run. `LookupReturns` also supposes that a
  thread that can run does so before the clock ticks and that a tick's worth of
  events is bounded (`Prompt`, `MaxEvents`), without which a lookup that is always
  late at the window's end may find the window moved again.
- `loop_one`, `loop_starve`: time passes, threads run. Strong fairness for the
  loop: it contends with actions for `devlock`, and a mutex goes to a thread that
  keeps waiting for it in the end.

`CHECK_DEADLOCK FALSE` stands where the system may stop: all of discovery's
threads idle after `terminate()` with no more documents to announce, or the lock
cycle, which has a run of its own; all services destroyed; and in `parts`, when a
component has done what its bounds allow, or its one call.

## 5. Proofs

TLAPS checks each theorem for all values of the constants that satisfy the
named assumptions of the modules.

**WorkQueueProofs.** Any number of clients, workers and tasks, any `m_high`, any
`m_low` but where said. `Shape` is the part of the inductive invariant that all
else rests on: types, the counters as sizes of sets of threads
(`CountersExact`), and where sleepers are (only inside of a wait). The properties
are not inductive without it: whether anyone is notified depends on counters, and
only their exactness says that a counter is not zero when somebody sleeps. On
top of it come the wakeup invariants: enough tasks on the queue have a worker
awake; without timed waits each takeable task has a woken worker of its own;
with `m_low = 1` a sleeping client has a worker that is not asleep; a sleeping
client has a worker that has still to call `workerExit()`. `Refinement` shows
that every step is one of `TaskPool` or stutters.

**SubscriptionProofs.** `Shape` (types, and which operation may be at which place)
holds for any program. With no reporter installed over another one
(`~ReinstallAllowed`) the invariant says in addition that SIDs are distinct, that
a service about to subscribe has none, that from link to unlink the SID of a
service leads to its callback, and that a callback that runs is linked. The last
one is where `cblock` comes in: while a callback runs no thread links or
unlinks. `Forgotten` follows, since a service without a SID can have no callback
linked, hence none running; `CalledWhole` needs `~DestroyRegistered` too.

**SearchWindowProofs.** For any lengths and with or without prompt threads: the last
search is never older than the first one as far as ages are told apart, so a
remaining delay of zero, or an initial search that is done, implies that the
first window is over; and what a thread has left to wait plus the age of the last
search is within the window, asleep or on its way to sleep, as searches only make
that age smaller and ticks move both.

**SongcastProofs.** For any renderers, senders and lists without repetition. The
invariant follows the call along its list: renderers that come later were sent
nothing (`Fresh`), those that are done with are as demanded unless told or used
by others (`Past`), and the current one is as far as the place in the code says
(`Reads`, `Progress`). `Asked` is why the master survives as its own slave: a
change begins only with a receiver that is free, and the master is not. What
each step ends in, the next renderer (`FinishKeeps`), the next remote call
(`GoOnKeeps`) or an initial error, is proved once.

**DiscoveryProofs.** For any devices, documents, libupnp threads, users and visitors;
`Shape` says in addition to the types that threads and explorer have the task
they work on and that `addCallback()` keeps its lock. Each theorem has its own
strengthening.
- `OneDownloadPerURL`: that `o_downloading` is exactly what the threads download is
  inductive with the types.
- `VisitorsAreUpToDate`: what a visitor knows and what the pool has change in
  different steps under different locks, which agree only because the explorer's
  place tells which device it has still to show (`VisitFresh`): that one is in the
  pool as it is about to be shown. Its hypothesis, `~SlowVisits`, is that no device
  expires between its insertion and its visit, a few instructions later; without
  it the theorem is false, as section 6 shows.
- `ByebyesAreRespected`: the last byebye of a device, unless it has passed an
  announcement, is with its libupnp thread, in
  the queue behind every announcement of the device, with the explorer, or done
  with (`ByebyeOnItsWay`), while no thread has an announcement of the device in hand
  (`InHand`): a thread that gets one afterwards makes it the last message. For any
  number of libupnp threads.
- `UnregisteredAreNotCalled`, an action property: a visitor that was not moved is
  in `o_callbacks` once at most, at its handle, and no longer than it has one
  (`HandleExact`); `ErasedIs` says what an `erase()` at any index, a stale one
  included, leaves of that. For any number of visitors in any order.

**DeviceEventsProofs.** For any devices, embedded or not, services, silent or not, control points, values and waiting
times. `WakeupsAreSpaced` is an action property; `SpacedInv` relates the ages of a
device's last rounds to the static times that all devices share: an early round
leaves the one before it as old as `earlytime`, which was younger. `ChangesAreTold`
rests on `EventToCome`: a control point knows the state of the service, or the
service is marked as changed, or an event with that state is in the loop's
hands. It is about services whose answer to a request for all of their data
leaves them marked as changed; the run `loop_stale` has the others.

**DataProofs.** The three components of `MCParts` that serve or read data, each under
its own specification (`VDirSpec`, `ProxiesSpec`, `PlaylistSpec`).
- *VirtualDir.* For any directories, names, contents, sizes of buffers and requests.
  `ReadSoFar` follows a read: what was got since the last seek is contiguous, of
  versions up to that of the entry, and within the entry's size where it is of the
  entry's version; `Openable` is what keeps `vdopen()` from failing between the
  answer of `vdgetinfo()` and it.
- *Proxies.* For any number of changes and whatever fails. What a reporter is told, what
  the program meant and what a query may return are each tied to what the device
  shows (`ToldOfShown`, `MeantIsShown`, `AnswerIsShown`). The last one is the hard one:
  a query goes through its elements with one string, so for each element of each
  action `AllReadWell` says that it is put into the parameter of its own variable
  and decoded as its event is, unless it is in `Misread`; and `AnswerIs` folds that
  over the elements.
- *Playlist.* For lists of any length, and texts of any pieces. The parser is run over
  the document of a list as a whole: `Reaches(p, events, q)` says that it gets from `p`
  to `q`, and composes (`ReachesBetween`, `FlatReaches`). From there it goes by parts of a
  document, a leaf (`LeafIsRead`), an entry (`TrackIsRead`) and the entries of a list
  (`TracksAreRead`), with an invariant of what the parser has after the first so
  many (`AfterTracks`): those before the first that spoils it are listed, and once
  metadata was left behind, nothing is listed any more. A list that lacks its last
  event is an error (`ListIsRead`). The state's invariant adds that an id is given
  once (`OneOfAKind`) and that the ids end with those of the token's list (`IdsEndAs`), and `ListedAsHeld` follows.
- *The composition.* A behaviour of `PartsSpec` is one of each component
  (`PartsAreComponents`), so the theorems about them are about it too, and
  `AllTypesCorrect` collects the types.

**PartsProofs.** Six components of `MCParts`, each under its own specification
(`LibrarySpec`, `RegistrySpec`, `BrowseSpec`, `VolumeSpec`, `FindSpec`, `RendererSpec`);
and the functions of base64.
- *Library.* Types and `LibrarySound` are inductive together, by cases of who asks and
  how `GetLibUPnP` ends.
- *Registry.* The map and the vector agree in order because objects are numbered as
  they are made and `Reordered` puts the last one at the end: erasing keeps the
  order of the rest (`Erased`). For the description two facts more are needed:
  a device that is gone polls nothing, and what is described has been read.
- *Browse.* `GoingOn` says that a call is not over only after full slices, so that its
  offset is a multiple of the slice and no error is pending; `ReadAsItIs` and
  `NoneMissed` what was read by then, of a container that stays as it is and of one
  that grows; `Ended` what an end without error implies.
- *Volume.* A whole number that a double misses is missed by one unit at most, in
  the direction of rounding (`RoundingIs`, `ProductRoundingIs`), so what the code
  scales is the exact fraction, rounded, or one more where the factor is off
  (`ScaledIs`). From there linear facts of division with remainder (`DivIs`, `DivAtLeast`, ...) give that
  rounding errs by less than a step and in the direction chosen (`MovesThatWay`);
  the invariant carries the range with which a volume was worked out from the
  first remote call to the second (`Chosen`), since the limit may change between.
  That the doubles are the IEEE ones is in the definitions, and the run checks the
  cases; the theorem holds whatever the direction in which they err.
- *FindService.* For a thread that had no other one's visitor beside its own: its visitor
  is the last one, at the index that it has (`Placed`), what it has found is what
  it asked for, except between the two writes of the visitor (`FoundRight`), and
  nothing concluded is older than the last look (`Concluded`). That two threads with
  a visitor are both marked (`OverlapsAreSeen`) makes removal by index right for
  the others. The names, types, versions and the order of devices are arbitrary.
- *Renderer.* Every proxy that is held is the one that the pointer of its kind is to, and
  a pointer that is not null is to a proxy of its kind (`PointersAreRight`): so an
  accessor makes an object only when there is none. A SID is in one object at most
  and not above the last one given (`SidsAreRight`, `ProxyIsRight`), so what the loop
  gets is new to the device. `PassedBy` says what the loop has done with the objects behind
  it: none has a SID from before its start, and one without a SID means that a call
  has failed or something else was done meanwhile (`disturbed`). It is kept by
  the steps of the loop, of which only one moves on, and by everything that others do
  between them (`OutsideKept`).
- *Folds.* `base64_decode()`, a query, the parser and the renderer's answer are folds
  over a sequence, and a recursive function is a `CHOOSE`: `FoldExists` builds the function that is
  chosen, `FoldKeeps` says that a fold stays in a set in which each step stays.
  The set stands for the property, so that no operator has to be instantiated;
  `Induct` is the same for numbers, from the least counterexample (`LeastOf`).
- *Base64.* For byte sequences of any length. `DecodeRuns` gives the states of
  `base64_decode()` along a text, of which the last is what the fold returns, and
  `EncodedIs` the shape of the text: four characters for each three bytes, and the
  padding that the bytes left over ask for. By induction on the groups, the state
  after each is the bytes so far, with no partial one (`GroupsAreDecoded`);
  `EndOfEncoded` adds the padding, by cases of none, one or two bytes left. A blank is
  a step that stays where it is, so a text with one has the same run with that step
  taken out (`BlankIsSkipped`).

The assumptions on constants are typing: numbers are naturals (`MaxFinds`,
`Limits`, `MaxInits`), ranges have a maximum above their minimum and a step that
is not zero, slices are not empty, a visitor's name is not that of a thread,
a service's version is at least one.

Each run's merged property is a theorem of its own, next to those of its parts:
`NoLostWakeupHolds`, `WaitsSoundHolds`, `WindowKeptHolds`, `TablesAgreeHolds`,
`NeverCalledAfterHolds`, `AnswerTellsHolds`.

Only model-checked:

- Every liveness property (`QueueProgress`, `LookupReturns`, `ChangeFetched`,
  `CallsReturn`, `EmptiesOnceGone`, `TerminateReturns`): it rests on ENABLED, which
  the prover does not handle.
- `DocumentsAreRead`, `TextSound`: each compares a parser or a function on text with
  another definition of what it has to return. `Playlist` shows how such a proof
  goes (a thousand lines for a document of three levels), and that each parser of
  `Documents` would need its own; some of the functions on text are recursive
  over places found by searching. Of `TextSound`, what is said of base64 is proved
  for all byte sequences (`BytesComeBackFromBase64`), and the run checks that the
  other conjuncts hold for its small texts.
- The cases that a theorem's hypothesis leaves out are those of section 6.

## 6. Disagreements

Four have runs, quoted in `PROJECT.json` under "findings": `disco_deadlock`,
`loop_starve`, `loop_stale`, `sub_first`. Others are found by checking a property
that is in the module, as an invariant or property of the run named, or under
the constants named:

| property | where | what the code does |
|---|---|---|
| `WorkQueue!SleepersCounted` | `queue` | the reset at the end of a termination lets `m_clients_waiting` wrap while a woken client has still to decrement it |
| `WorkQueue!ResetIsStartState` | `queue` | a closed shop stays closed after the reset to "start state" |
| `WorkQueue!ClosedMeansClosed` | `queue` | a `put()` that slept puts its task into a shop that closed meanwhile |
| `WorkQueue!OneClientWakeupSuffices` | 3 tasks, 3 clients, 1 worker, `m_high` = `m_low` = 2, not timed | `take()` may spend its one notification on a `waitIdle()` client |
| `Discovery!DelCallbackUnregisters` | `disco_safety` | "the value returned by addCallback()" (`discovery.hxx:95`): `delCallback()` shifts the indexes of later callbacks, whose own `delCallback()` then removes another visitor or none |
| `Discovery!ByebyeHeeded` | `disco_live` | an announcement is queued after its download and a byebye at once: the byebye is applied first, and the device inserted although it has left |
| `Discovery!GoneIsForgotten` | 2 devices, no users, fair | on a network that is never silent for a minute nothing expires |
| `Discovery!ViewTracksPool` | `SlowVisits = TRUE` | a lost function is called before the found one |
| `SearchWindow!WindowOpensOnce`, `WokenWhenFound` | `window` | later searches open the window again for programs that do not traverse; wakeups are lost, within the bound of `SleepWithinWindow` |
| `SearchWindow!LookupReturns` | `DevicesExpire = TRUE` | each expiry searches and moves the window |
| `Subscription!Forgotten` | `ReinstallAllowed = TRUE` | an old SID stays linked |
| `Subscription!CalledWhole` | `DestroyRegistered = TRUE` | a callback runs while its object is being destroyed |
| `Subscription!ReSubscribed` | `sub_safety` | `reSubscribe()` returns true when the subscription failed |
| `VirtualDir!BelowIsForwarded` | `parts` | "Any request for a path below this point will be forwarded" (`vdir.hxx`): only files of the very directory are |
| `VirtualDir!AddedIsServed` | `parts` | `addFile()` accepts a file in a directory of operations, which is then asked of the operations |
| `VirtualDir!OpsMatchHandle` | `parts` | a second `addVDir()` gives open handles to operations that did not open them |
| `Registry!LiveServiceFound` | `parts` | a service that was replaced under its id takes the newer one out of the tables as it ends |
| `Registry!RunsOnWholeService`, `DeviceOutlivesRequest` | `parts` | an action runs on a service that is not made yet or is ending, a request on a device that is gone; `forgetService()` leaves the functions in the table |
| `Library!InitTells` | `parts` | "@return false for failure, true for success" (`upnpplib.hxx:122`): `init()` returns true when libupnp did not start |
| `Library!EventsHeard` | `parts` | after a first `initEvents()` that failed, the later ones return true and no event is heard |
| `Library!DirectoryHasClient` | `parts` | a device that is made first initialises the library for servers only, and the directory searches without a client |
| `FindService!NoDeadVisitor` | `parts` | "the value returned by addCallback()" (`discovery.hxx:95`) is an index that shifts: with two searches at a time the visitor of one that has returned is called |
| `FindService!BoundIsFound` | `parts` | the service that is bound is the first of the type and of no higher version, not the one found |
| `Renderer!TrueMeansRenewed` | `parts` | `reSubscribeAll()` says true when a new subscription failed, as `reSubscribe()` does not look at its result |
| `Renderer!RenewedIsKnown` | `parts` | the device restarts during the loop, and has forgotten what was renewed before |
| `Renderer!FalseMeansFailed` | `parts` | an object that never had a subscription ends the loop: those behind it are not renewed |
| `DeviceEvents`, by its definitions | | an embedded device has no handle of its own (`device.cxx:114`, 276): its `UpnpAcceptSubscription()` and `UpnpNotify()` are for handle 0 (510, 634) |
| `Proxies!AlwaysToldAsAsked` | `parts` | `PlayMode`, `RecordMedium` and `NextURIMetaData` are read under a wrong name, into a wrong field, or not parsed |
| `Proxies!OwnOrNothing` | `parts` | a query's string keeps the element before when one is missing: AbsTime is told as RelTime |
| `Proxies!FailureIsTold` | `parts` | `service.hxx:67`: not all services tell their reporter of a subscription that is not renewed |
| `Volume!SameVolumeStays` | `parts` | `OHVolume` lowers a volume that is set to what was read |
| `Volume!SentInRange` | `parts` | 100 of 0..14 is sent as 15, as 100 * 0.14 is above 14 in a double; with steps that do not divide the range, or a range that is not known, a volume out of the range is sent, too |
| `Volume!ReadsAsAsked` | `parts` | what was set is read back as one less, as 17 / 0.17 is below 100 in a double |
| `Browse!CappedIsComplete` | `parts` | a server that sends shorter slices than asked gives a list that ends early, with success |
| `Browse!EmptyIsRead` | `parts` | an empty container is an error of `readDir()` |
| `Playlist!AllTheGoodAreListed` | `parts` | the tracks after one with bad metadata are missing, with success |
| `Playlist!UrisAreWhole` | `parts` | a URI with an entity is cut to its last chunk |
| `Playlist!UrisAreTheirOwn` | `parts` | a track without a URI is listed with that of one before it which was left out |
| `Playlist!HeldAreTheList` | `parts` | `idArray()` puts the ids after those that the vector has (`upnpavutils.cxx:78-82`), under the new token |
| `Playlist!InsertFailsCleanly` | `parts` | `insert()` returns an error for a track that was inserted, when the answer lacks its id |
| `Documents!AllHaveDidl` | `parts` | an item of one tag, `<item/>`, has no text for `getdidl()`, as its start and its end are at one place (`cdircontent.cxx:128`) |
| `Documents!ValuesAreThereOnce` | `parts` | a value is compared with all values put together, so it is added again after another one (`cdircontent.cxx`, `addprop()`) |
| `Documents!ClassInDetail` | `parts` | an object read in detail has no class |
| `Documents!ArgumentsAreSentByName` | `parts` | `runAction()` gives values to the wrong arguments when one from the device comes in between |
| `Documents!DirectionsAreTrimmed` | `parts` | " in" is not "in" |
| `Documents!SourceNamesAreWhole` | `parts` | a source's name with an entity is its last chunk |
| `Text!StringsInverse` | `parts` | "Inverse operation" (`smallut.h:114`): not for a backslash |

`discovery.hxx:90-92` has a visitor called "once per device"; it is called for each
new description, and by `addCallback()` for what the pool has.

libupnpp itself uses its queue in a way that avoids the first four (one
explorer, `m_low` 1, never closed, never restarted).

## 7. Not modelled, and the plan

- `md5`, the log and the build: a standard computation, output, and nothing at
  run time. `httpdownload` is one transfer by libcurl; the models take its end,
  good or bad.
- `setupWebServer`, the choice of interfaces and addresses, `makeDevUUID`: they
  ask the system and libupnp for facts and pass them on.
- The generic parts of `smallut` (dates, sizes, regular expressions, bit names,
  locales), which the library does not need for its own control.
- Commands that send their name only (`play`, `stop`, `next`, ...) and muting: one
  remote call each, no state. `waitminsz()` of the queue has no caller.
- `uniSearch`, `getDescriptionDocuments`, `getSearchCapabilities`, the table of
  kinds of servers; the lists of all Songcast senders and receivers.
- Programs whose callbacks call back into the library under its locks
  (`discovery.cxx:356`, `service.cxx:226`): which functions a callback may use is
  said nowhere, so that no property can be stated.
- Data races on single words (`o_initialSearchDone`, the static times) and on the
  table of handlers (`upnpplib.cxx:166`) are taken as atomic accesses.
- The event loop, which walks a device's services without `devlock`, is not
  composed with `Registry`: a service that ends while its device's loop runs is
  left to the program by the code's own comment.

Plan: what is left is proof.

1. That the other parsers, which share `Sax` with that of `Playlist`, read what is
   written (`DocumentsAreRead`), by the same lemmas.
2. That an announcement overtaken by its byebye is the only way to a device that is
   gone and stays: the rest of `ByebyeHeeded` under an order of the two queued
   tasks, for which the code would have to be changed.
