----------------------------- MODULE DeviceEvents -----------------------------
(***************************************************************************)
(* How the device side sends its events, libupnpp/device/device.cxx: each  *)
(* UpnpDevice has an eventloop() that polls its services, every second or  *)
(* when an action wakes it up early; action and subscription requests run  *)
(* in libupnp threads; shouldExit() and ~UpnpDevice() end the loop.        *)
(*                                                                         *)
(* The loops of all devices share wkuptime and earlytime, which are static.*)
(* Time is counted in ticks and kept relative, and ages that are told from *)
(* no greater one stop growing.  What a loop does in the few instructions  *)
(* between two waits on a lock is one step.                                *)
(*                                                                         *)
(* A definition named Operation_Fault is a mutated form of Operation: the  *)
(* properties are tested by checking that they fail with it.               *)
(***************************************************************************)
EXTENDS Naturals, FiniteSetsExt

CONSTANTS
  Devices,
  Embedded,      \* those that are embedded: they have no handle of their own
  Services,      \* the services of each device
  Silent,        \* those that were made with noevents
  Subscribers,   \* control points: they subscribe to every service
  loopwait_ms,   \* what the loop waits for, in ticks
  AllClears,     \* does getEventData() of everything leave no change behind?
  MayEnd,        \* does the program end its devices?
  MaxValue       \* bound: the values a service goes through

ASSUME EventsAssumption ==
  /\ loopwait_ms \in Nat \ {0} /\ MaxValue \in Nat
  /\ AllClears \in BOOLEAN /\ MayEnd \in BOOLEAN
  /\ Embedded \subseteq Devices /\ Silent \subseteq Services

VARIABLES
  age,         \* time since a loop set wkuptime to now + loopwait_ms
  sincearly,   \* wkuptime - earlytime
  pc,          \* where each loop is
  left,        \* what is left of its wait
  evloopcond,  \* the loops asleep
  didearly,    \* was its last round an early one?
  polled,      \* the services it has polled in this round
  chg,         \* the event it is to send, if any
  needExit, registered, \* the device's flag, and its handle's state
  xpc,         \* the thread that ends the device
  apc,         \* the libupnp thread that runs the device's actions
  devlock,     \* does an action hold the device's lock?
  value,       \* the state of each service
  changed,     \* did it change since it was last returned by getEventData()?
  spc, snapshot, \* where each control point's subscription is, and its data
  view,        \* the state it was last told
  rounds       \* history: the time since the loop's last round and the one before

clockVars   == <<age, sincearly>>
loopVars    == <<pc, left, evloopcond, didearly, polled, chg, rounds>>
exitVars    == <<needExit, registered, xpc>>
actionVars  == <<apc, devlock>>
serviceVars == <<value, changed>>
subVars     == <<spc, snapshot, view>>
vars == <<clockVars, loopVars, exitVars, actionVars, serviceVars, subVars>>

Sub == Subscribers \X Devices \X Services
NoEvent == [service |-> "none"]
Ticks == 0..loopwait_ms

TypeOK ==
  /\ age \in Ticks /\ sincearly \in Ticks
  /\ pc \in [Devices -> {"start", "top", "wait", "poll", "out"}]
  /\ left \in [Devices -> Ticks]
  /\ evloopcond \subseteq {d \in Devices : pc[d] = "wait"}
  /\ didearly \in [Devices -> BOOLEAN]
  /\ polled \in [Devices -> SUBSET Services]
  /\ chg \in [Devices -> [service : Services, value : 0..MaxValue] \cup {NoEvent}]
  /\ needExit \in [Devices -> BOOLEAN] /\ registered \in [Devices -> BOOLEAN]
  /\ xpc \in [Devices -> {"none", "flag", "wake", "unregister", "join", "gone"}]
  /\ apc \in [Devices -> {"idle", "changed"}] /\ devlock \in [Devices -> BOOLEAN]
  /\ value \in [Devices -> [Services -> 0..MaxValue]]
  /\ changed \in [Devices -> SUBSET Services]
  /\ spc \in [Sub -> {"none", "data", "active"}]
  /\ snapshot \in [Sub -> 0..MaxValue] /\ view \in [Sub -> 0..MaxValue]
  /\ rounds \in [Devices -> Ticks \X Ticks]

\* Services are there, and their first state counts as changed.  The epoch of
\* the clock, where wkuptime and earlytime start, is long ago.
Init ==
  /\ age = loopwait_ms /\ sincearly = 0
  /\ pc = [d \in Devices |-> "start"]
  /\ left = [d \in Devices |-> 0]
  /\ evloopcond = {}
  /\ didearly = [d \in Devices |-> FALSE]
  /\ polled = [d \in Devices |-> {}]
  /\ chg = [d \in Devices |-> NoEvent]
  /\ needExit = [d \in Devices |-> FALSE]
  /\ registered = [d \in Devices |-> FALSE]
  /\ xpc = [d \in Devices |-> "none"]
  /\ apc = [d \in Devices |-> "idle"]
  /\ devlock = [d \in Devices |-> FALSE]
  /\ value = [d \in Devices |-> [s \in Services |-> 0]]
  /\ changed = [d \in Devices |-> Services]
  /\ spc = [u \in Sub |-> "none"]
  /\ snapshot = [u \in Sub |-> 0]
  /\ view = [u \in Sub |-> 0]
  /\ rounds = [d \in Devices |-> <<loopwait_ms, loopwait_ms>>]

Later(n) == Min({n + 1, loopwait_ms})
\* wait_for() counts down; it does not go below zero.
NextLeft_Late(n) == n - 1
NextLeft(n) == Max({n, 1}) - 1
Tick ==
  /\ age' = Later(age)
  /\ left' = [d \in Devices |-> NextLeft(left[d])]
  /\ rounds' = [d \in Devices |-> <<Later(rounds[d][1]), Later(rounds[d][2])>>]
  /\ UNCHANGED <<sincearly, pc, evloopcond, didearly, polled, chg>>
  /\ UNCHANGED <<exitVars, actionVars, serviceVars, subVars>>

-----------------------------------------------------------------------------
(* eventloop().                                                             *)

Goto(d, where) == pc' = [pc EXCEPT ![d] = where]

\* Internal::start() registers the device and announces it, or fails; an embedded
\* one has nothing to do.
Start(d) ==
  /\ pc[d] = "start"
  /\ IF d \in Embedded
     THEN Goto(d, "top") /\ UNCHANGED registered
     ELSE \/ Goto(d, "top") /\ registered' = [registered EXCEPT ![d] = TRUE]
          \/ Goto(d, "out") /\ registered' \in {registered, [registered EXCEPT ![d] = TRUE]}
  /\ UNCHANGED <<clockVars, left, evloopcond, didearly, polled, chg, rounds>>
  /\ UNCHANGED <<needExit, xpc, actionVars, serviceVars, subVars>>

\* Set wkuptime, take evlooplock and wait.
Wait(d) ==
  /\ pc[d] = "top"
  /\ sincearly' = Min({sincearly + age, loopwait_ms})
  /\ age' = 0
  /\ left' = [left EXCEPT ![d] = loopwait_ms]
  /\ evloopcond' = evloopcond \cup {d}
  /\ Goto(d, "wait")
  /\ UNCHANGED <<didearly, polled, chg, rounds>>
  /\ UNCHANGED <<exitVars, actionVars, serviceVars, subVars>>

\* The test after the wait: early, just after an early round, or neither.
TooClose_OffByOne(d) == left[d] > 0 /\ didearly[d] /\ sincearly + 1 < loopwait_ms
TooClose(d) == left[d] > 0 /\ didearly[d] /\ sincearly < loopwait_ms
Exits_OnTimeout(d) == needExit[d] /\ left[d] = 0
Exits(d) == needExit[d]
Skips(d) == ~Exits(d) /\ TooClose(d)

\* earlytime becomes wkuptime; a skipped wakeup leaves it.
EarlyTime_Refreshed(d) == IF left[d] > 0 THEN 0 ELSE sincearly
EarlyTime(d) == IF left[d] > 0 /\ ~Skips(d) THEN 0 ELSE sincearly

Wakes(d) ==
  /\ pc[d] = "wait"
  /\ evloopcond' = evloopcond \ {d}
  /\ CASE Exits(d) ->
            Goto(d, "out") /\ UNCHANGED <<sincearly, didearly, polled, rounds>>
       [] Skips(d) ->
            Goto(d, "top") /\ sincearly' = EarlyTime(d)
              /\ UNCHANGED <<didearly, polled, rounds>>
       [] OTHER ->
            /\ Goto(d, "poll") /\ sincearly' = EarlyTime(d)
            /\ didearly' = [didearly EXCEPT ![d] = left[d] > 0]
            /\ polled' = [polled EXCEPT ![d] = {}]
            /\ rounds' = [rounds EXCEPT ![d] = <<0, @[1]>>]
  /\ UNCHANGED <<age, left, chg>>
  /\ UNCHANGED <<exitVars, actionVars, serviceVars, subVars>>

\* getEventData() of one service, under devlock; a silent one has no event.
GetEventData(d, s) ==
  /\ pc[d] = "poll" /\ chg[d] = NoEvent
  /\ s \notin polled[d]
  /\ ~devlock[d]
  /\ polled' = [polled EXCEPT ![d] = @ \cup {s}]
  /\ chg' = [chg EXCEPT ![d] =
               IF s \in changed[d] \ Silent THEN [service |-> s, value |-> value[d][s]] ELSE NoEvent]
  /\ changed' = [changed EXCEPT ![d] = @ \ {s}]
  /\ UNCHANGED <<clockVars, pc, left, evloopcond, didearly, rounds>>
  /\ UNCHANGED <<exitVars, actionVars, value, subVars>>

\* UpnpNotify(), without devlock: libupnp sends the event to those whose
\* subscription was accepted, and returns an error for an unknown handle.
NotifyEvent(d) ==
  /\ chg[d] # NoEvent
  /\ view' = [u \in Sub |->
       IF registered[d] /\ spc[u] = "active" /\ u[2] = d /\ u[3] = chg[d].service
         THEN chg[d].value ELSE view[u]]
  /\ chg' = [chg EXCEPT ![d] = NoEvent]
  /\ UNCHANGED <<clockVars, pc, left, evloopcond, didearly, polled, rounds>>
  /\ UNCHANGED <<exitVars, actionVars, serviceVars, spc, snapshot>>

EndRound(d) ==
  /\ pc[d] = "poll" /\ chg[d] = NoEvent /\ polled[d] = Services
  /\ Goto(d, "top")
  /\ UNCHANGED <<clockVars, left, evloopcond, didearly, polled, chg, rounds>>
  /\ UNCHANGED <<exitVars, actionVars, serviceVars, subVars>>

-----------------------------------------------------------------------------
(* Requests, and the end.                                                   *)

\* libupnp knows a device, or the one that it is embedded in.
Reached(d) == IF d \in Embedded THEN \E r \in Devices \ Embedded : registered[r] ELSE registered[d]

\* An action, with devlock held, changes a service or nothing ...
Action(d) ==
  /\ apc[d] = "idle" /\ ~devlock[d] /\ Reached(d)
  /\ apc' = [apc EXCEPT ![d] = "changed"]
  /\ devlock' = [devlock EXCEPT ![d] = TRUE]
  /\ \/ UNCHANGED serviceVars
     \/ \E s \in Services :
          /\ value[d][s] < MaxValue
          /\ value' = [value EXCEPT ![d][s] = @ + 1]
          /\ changed' = [changed EXCEPT ![d] = @ \cup {s}]
  /\ UNCHANGED <<clockVars, loopVars, exitVars, subVars>>

\* ... and calls loopWakeup(), which takes no lock.
WakeupAllowed_Locked(d) == pc[d] # "poll"
WakeupAllowed(d) == TRUE
LoopWakeup(d) ==
  /\ apc[d] = "changed" /\ WakeupAllowed(d)
  /\ evloopcond' = evloopcond \ {d}
  /\ apc' = [apc EXCEPT ![d] = "idle"]
  /\ devlock' = [devlock EXCEPT ![d] = FALSE]
  /\ UNCHANGED <<clockVars, pc, left, didearly, polled, chg, rounds>>
  /\ UNCHANGED <<exitVars, serviceVars, subVars>>

\* A subscription request: all the data are read under devlock ...
LeftChanged_None(d, s) == changed[d] \ {s}
LeftChanged(d, s) == IF AllClears THEN changed[d] \ {s} ELSE changed[d]
SubscriptionRequest(u) ==
  /\ spc[u] = "none" /\ Reached(u[2]) /\ ~devlock[u[2]]
  /\ snapshot' = [snapshot EXCEPT ![u] = value[u[2]][u[3]]]
  /\ changed' = [changed EXCEPT ![u[2]] = LeftChanged(u[2], u[3])]
  /\ spc' = [spc EXCEPT ![u] = "data"]
  /\ UNCHANGED <<clockVars, loopVars, exitVars, actionVars, value, view>>

\* ... and sent without it by UpnpAcceptSubscription(), which may fail, and does
\* without a handle.
AcceptSubscription(u) ==
  /\ spc[u] = "data"
  /\ \/ /\ registered[u[2]]
        /\ spc' = [spc EXCEPT ![u] = "active"]
        /\ view' = [view EXCEPT ![u] = snapshot[u]]
     \/ spc' = [spc EXCEPT ![u] = "none"] /\ UNCHANGED view
  /\ UNCHANGED <<clockVars, loopVars, exitVars, actionVars, serviceVars, snapshot>>

UnSubscribe(u) ==
  /\ spc[u] = "active"
  /\ spc' = [spc EXCEPT ![u] = "none"]
  /\ UNCHANGED <<clockVars, loopVars, exitVars, actionVars, serviceVars, snapshot, view>>

End(d, from, to) == xpc[d] = from /\ xpc' = [xpc EXCEPT ![d] = to]
Unregistered(d) == registered' = [registered EXCEPT ![d] = FALSE]

\* shouldExit(), then ~UpnpDevice(): the flag is set without any lock.
ShouldExit(d) ==
  /\ MayEnd /\ pc[d] # "start"
  /\ End(d, "none", "flag") /\ Unregistered(d)
  /\ UNCHANGED <<clockVars, loopVars, needExit, actionVars, serviceVars, subVars>>

\* ~UpnpDevice() without shouldExit() sets the flag first.
Destroy(d) ==
  /\ MayEnd /\ pc[d] # "start"
  /\ End(d, "none", "flag")
  /\ UNCHANGED <<clockVars, loopVars, needExit, registered>>
  /\ UNCHANGED <<actionVars, serviceVars, subVars>>

SetNeedExit(d) ==
  /\ End(d, "flag", "wake")
  /\ needExit' = [needExit EXCEPT ![d] = TRUE]
  /\ UNCHANGED <<clockVars, loopVars, registered, actionVars, serviceVars, subVars>>

ExitNotify(d) ==
  /\ End(d, "wake", "unregister")
  /\ evloopcond' = evloopcond \ {d}
  /\ UNCHANGED <<clockVars, pc, left, didearly, polled, chg, rounds>>
  /\ UNCHANGED <<needExit, registered, actionVars, serviceVars, subVars>>

Unregister(d) ==
  /\ End(d, "unregister", "join") /\ Unregistered(d)
  /\ UNCHANGED <<clockVars, loopVars, needExit, actionVars, serviceVars, subVars>>

Join(d) ==
  /\ pc[d] = "out" /\ End(d, "join", "gone")
  /\ UNCHANGED <<clockVars, loopVars, needExit, registered>>
  /\ UNCHANGED <<actionVars, serviceVars, subVars>>

-----------------------------------------------------------------------------

\* A wait ends when it is notified, over, or for no reason.
Asleep(d) == d \in evloopcond /\ left[d] > 0

Run(d) ==
  \/ Start(d) \/ Wait(d) \/ (~Asleep(d) /\ Wakes(d))
  \/ (\E s \in Services : GetEventData(d, s)) \/ NotifyEvent(d) \/ EndRound(d)
RunExit(d) == SetNeedExit(d) \/ ExitNotify(d) \/ Unregister(d) \/ Join(d)

Next ==
  \/ Tick
  \/ \E d \in Devices :
       \/ Run(d) \/ (Asleep(d) /\ Wakes(d))
       \/ Action(d) \/ LoopWakeup(d)
       \/ ShouldExit(d) \/ Destroy(d) \/ RunExit(d)
  \/ \E u \in Sub : SubscriptionRequest(u) \/ AcceptSubscription(u) \/ UnSubscribe(u)

Spec == Init /\ [][Next]_vars

\* Time passes and threads run.  The loop may find devlock taken whenever it
\* gets to run, but a mutex goes to a thread that keeps waiting for it.
Fairness ==
  /\ WF_vars(Tick)
  /\ \A d \in Devices : SF_vars(Run(d)) /\ WF_vars(RunExit(d)) /\ WF_vars(LoopWakeup(d))

FairSpec == Spec /\ Fairness

-----------------------------------------------------------------------------
(* Properties.                                                              *)

\* loopWakeup() "Will only do something if the previous event is not too
\* recent": wakeups make two rounds run close to each other at most, as three
\* rounds of a loop always span its waiting time, whatever the actions do.
RoundsSpaced ==
  [][\A d \in Devices :
       pc[d] = "wait" /\ pc'[d] = "poll" => rounds[d][2] = loopwait_ms]_vars

\* "The loop runs every second to call the getEventData() methods": a change
\* is fetched, however often the loop is woken and skips a round.
ChangeFetched ==
  \A d \in Devices, s \in Services :
    s \in changed[d] ~> s \notin changed[d] \/ pc[d] = "out"

\* "To be called to get the event loop to return": the end of a device is not
\* held up by the loop, even if the notification is lost.
ExitReturns == \A d \in Devices : xpc[d] # "none" ~> xpc[d] = "gone"

\* "device action takes device lock / loop wakes up, takes loop lock ...": an
\* action that wakes up the loop returns, and so does the loop.
ActionReturns ==
  \A d \in Devices : apc[d] = "changed" ~> apc[d] = "idle"

\* Nobody who calls into the device while its loop runs is kept waiting for ever.
CallsReturn == ExitReturns /\ ActionReturns

\* Is a subscription accepted, with nothing left to fetch or to send for it?
Settled(u) ==
  /\ spc[u] = "active" /\ registered[u[2]]
  /\ u[3] \notin changed[u[2]] /\ chg[u[2]] = NoEvent

\* The loop "calls the getEventData() methods from the attached UpnpService
\* objects and generates UPnP events if they return changed variables": once
\* all is sent, a control point was told the state of the service.
SubscriberCurrent == \A u \in Sub : Settled(u) => view[u] = value[u[2]][u[3]]

\* A control point that was told of a change since it subscribed, were it only
\* an older one, misses none afterwards: only what came with the acceptance of
\* its subscription can be out of date and remain so.
ToldOfChanges ==
  ~AllClears =>
    \A u \in Sub : Settled(u) /\ view[u] # snapshot[u] => view[u] = value[u[2]][u[3]]
=============================================================================
