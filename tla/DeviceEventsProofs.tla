-------------------------- MODULE DeviceEventsProofs --------------------------
(***************************************************************************)
(* Proofs about DeviceEvents, for any number of devices, services and      *)
(* control points, any waiting time of the loops and any number of values. *)
(***************************************************************************)
EXTENDS DeviceEvents, TLAPS

Event == [service : Services, value : 0..MaxValue]

\* Before its loop registers it, a device has no handle and no subscription; an
\* embedded one never has a handle.
Unstarted ==
  /\ \A d \in Devices \ Embedded : pc[d] = "start" =>
       ~registered[d] /\ \A u \in Sub : u[2] = d => spc[u] = "none"
  /\ \A d \in Embedded : ~registered[d]

Shape == TypeOK /\ Unstarted

-----------------------------------------------------------------------------
(* Numbers, pairs and events.                                               *)

LEMMA MinOfTwo ==
  ASSUME NEW a \in Nat, NEW b \in Nat
  PROVE  Min({a, b}) = IF a <= b THEN a ELSE b
<1>1. Min({a, b}) \in {a, b} /\ \A y \in {a, b} : Min({a, b}) <= y
  <2>1. \E x \in {a, b} : \A y \in {a, b} : x <= y
    OBVIOUS
  <2> QED  BY <2>1 DEF Min
<1> QED  BY <1>1

LEMMA MaxOfTwo ==
  ASSUME NEW a \in Nat, NEW b \in Nat
  PROVE  Max({a, b}) = IF a >= b THEN a ELSE b
<1>1. Max({a, b}) \in {a, b} /\ \A y \in {a, b} : Max({a, b}) >= y
  <2>1. \E x \in {a, b} : \A y \in {a, b} : x >= y
    OBVIOUS
  <2> QED  BY <2>1 DEF Max
<1> QED  BY <1>1

\* A clock that stops at loopwait_ms, and a wait that stops at 0.
LEMMA TickIs ==
  ASSUME NEW n \in Ticks
  PROVE  /\ Later(n) = IF n = loopwait_ms THEN n ELSE n + 1
         /\ Later(n) \in Ticks
         /\ NextLeft(n) = IF n = 0 THEN 0 ELSE n - 1
         /\ NextLeft(n) \in Ticks
<1>1. n \in Nat /\ n + 1 \in Nat /\ n <= loopwait_ms /\ loopwait_ms \in Nat /\ 1 \in Nat
  BY EventsAssumption DEF Ticks
<1>2. Min({n + 1, loopwait_ms}) = IF n + 1 <= loopwait_ms THEN n + 1 ELSE loopwait_ms
  BY <1>1, MinOfTwo
<1>3. Max({n, 1}) = IF n >= 1 THEN n ELSE 1
  BY <1>1, MaxOfTwo
<1> QED  BY <1>1, <1>2, <1>3 DEF Later, NextLeft, Ticks

LEMMA SumIs ==
  ASSUME NEW m \in Ticks, NEW n \in Ticks
  PROVE  /\ Min({m + n, loopwait_ms}) = IF m + n <= loopwait_ms THEN m + n ELSE loopwait_ms
         /\ Min({m + n, loopwait_ms}) \in Ticks
<1>1. m + n \in Nat /\ loopwait_ms \in Nat
  BY EventsAssumption DEF Ticks
<1> QED  BY <1>1, MinOfTwo DEF Ticks

LEMMA EventIs ==
  ASSUME NEW s \in Services, NEW v \in 0..MaxValue
  PROVE  /\ [service |-> s, value |-> v] \in Event
         /\ [service |-> s, value |-> v] # NoEvent
<1>1. DOMAIN [service |-> s, value |-> v] # DOMAIN NoEvent
  <2>1. "value" \in DOMAIN [service |-> s, value |-> v]
    OBVIOUS
  <2>2. "value" \notin DOMAIN NoEvent
    BY DEF NoEvent
  <2> QED  BY <2>1, <2>2
<1> QED  BY <1>1 DEF Event

LEMMA SubIs == \A u \in Sub : u[2] \in Devices /\ u[3] \in Services
BY DEF Sub

-----------------------------------------------------------------------------
(* Types.                                                                   *)

LEMMA ShapeInit == Init => Shape
<1> SUFFICES ASSUME Init PROVE Shape
  OBVIOUS
<1>1. 0 \in Ticks /\ loopwait_ms \in Ticks /\ 0 \in 0..MaxValue
  BY EventsAssumption DEF Ticks
<1>2. TypeOK
  BY <1>1 DEF Init, TypeOK
<1>3. Unstarted
  BY SubIs, EventsAssumption DEF Init, Unstarted
<1> QED  BY <1>2, <1>3 DEF Shape

\* A loop that is not asleep moves on, and no loop goes back to its start.
LEMMA GotoIs ==
  ASSUME Shape, NEW d \in Devices, NEW where \in {"top", "poll", "out"}, Goto(d, where),
         evloopcond' = evloopcond \ {d}
  PROVE  /\ pc' \in [Devices -> {"start", "top", "wait", "poll", "out"}]
         /\ evloopcond' \subseteq {e \in Devices : pc'[e] = "wait"}
         /\ \A e \in Devices : pc'[e] = "start" => pc[e] = "start" /\ e # d
BY DEF Shape, TypeOK, Goto

LEMMA ShapeTick ==
  ASSUME Shape, Tick
  PROVE  Shape'
<1>1. Later(age) \in Ticks
  BY TickIs DEF Shape, TypeOK
<1>2. \A d \in Devices : /\ NextLeft(left[d]) \in Ticks
                         /\ Later(rounds[d][1]) \in Ticks /\ Later(rounds[d][2]) \in Ticks
  BY TickIs DEF Shape, TypeOK
<1> QED
  BY <1>1, <1>2
     DEF Shape, TypeOK, Unstarted, Tick, exitVars, actionVars, serviceVars, subVars

LEMMA ShapeWait ==
  ASSUME Shape, NEW d \in Devices, Wait(d)
  PROVE  Shape'
<1>1. sincearly' \in Ticks /\ age' \in Ticks /\ loopwait_ms \in Ticks
  <2>1. 0 \in Ticks /\ loopwait_ms \in Ticks
    BY EventsAssumption DEF Ticks
  <2> QED  BY <2>1, SumIs DEF Wait, Shape, TypeOK
<1> QED
  BY <1>1
     DEF Wait, Goto, Shape, TypeOK, Unstarted, exitVars, actionVars, serviceVars, subVars

LEMMA ShapeWakes ==
  ASSUME Shape, NEW d \in Devices, Wakes(d)
  PROVE  Shape'
<1>1. 0 \in Ticks
  BY EventsAssumption DEF Ticks
<1>2. /\ \E where \in {"out", "top", "poll"} : pc' = [pc EXCEPT ![d] = where]
      /\ sincearly' \in Ticks
      /\ didearly' \in [Devices -> BOOLEAN] /\ polled' \in [Devices -> SUBSET Services]
      /\ rounds' \in [Devices -> Ticks \X Ticks]
  <2>0. EarlyTime(d) \in Ticks
    BY <1>1 DEF EarlyTime, Shape, TypeOK
  <2>1. CASE Exits(d)
    <3>1. Goto(d, "out") /\ UNCHANGED <<sincearly, didearly, polled, rounds>>
      BY <2>1 DEF Wakes, Skips
    <3> QED  BY <3>1 DEF Goto, Shape, TypeOK
  <2>2. CASE ~Exits(d) /\ Skips(d)
    <3>1. /\ Goto(d, "top") /\ sincearly' = EarlyTime(d)
          /\ UNCHANGED <<didearly, polled, rounds>>
      BY <2>2 DEF Wakes
    <3> QED  BY <2>0, <3>1 DEF Goto, Shape, TypeOK
  <2>3. CASE ~Exits(d) /\ ~Skips(d)
    <3>1. /\ Goto(d, "poll") /\ sincearly' = EarlyTime(d)
          /\ didearly' = [didearly EXCEPT ![d] = left[d] > 0]
          /\ polled' = [polled EXCEPT ![d] = {}]
          /\ rounds' = [rounds EXCEPT ![d] = <<0, rounds[d][1]>>]
      BY <2>3 DEF Wakes
    <3>2. <<0, rounds[d][1]>> \in Ticks \X Ticks /\ (left[d] > 0) \in BOOLEAN
      BY <1>1 DEF Shape, TypeOK
    <3> QED  BY <2>0, <3>1, <3>2 DEF Goto, Shape, TypeOK
  <2> QED  BY <2>1, <2>2, <2>3
<1>3. evloopcond' = evloopcond \ {d}
  BY DEF Wakes
<1>4. /\ pc' \in [Devices -> {"start", "top", "wait", "poll", "out"}]
      /\ evloopcond' \subseteq {e \in Devices : pc'[e] = "wait"}
      /\ \A e \in Devices : pc'[e] = "start" => pc[e] = "start" /\ e # d
  BY <1>2, <1>3, GotoIs DEF Goto
<1>5. TypeOK'
  BY <1>2, <1>4
     DEF Wakes, Shape, TypeOK, exitVars, actionVars, serviceVars, subVars
<1>6. Unstarted'
  BY <1>4 DEF Wakes, Shape, Unstarted, exitVars, subVars
<1> QED  BY <1>5, <1>6 DEF Shape

LEMMA ShapeRound ==
  ASSUME Shape, NEW d \in Devices,
         Start(d) \/ (\E s \in Services : GetEventData(d, s)) \/ NotifyEvent(d) \/ EndRound(d)
  PROVE  Shape'
<1>1. CASE Start(d)
  <2>1. /\ \E where \in {"top", "out"} : Goto(d, where)
        /\ evloopcond' = evloopcond \ {d}
        /\ registered' \in {registered, [registered EXCEPT ![d] = TRUE]}
        /\ d \in Embedded => registered' = registered
    BY <1>1 DEF Start, Shape, TypeOK
  <2>2. /\ pc' \in [Devices -> {"start", "top", "wait", "poll", "out"}]
        /\ evloopcond' \subseteq {e \in Devices : pc'[e] = "wait"}
        /\ \A e \in Devices : pc'[e] = "start" => pc[e] = "start" /\ e # d
    BY <2>1, GotoIs
  <2>3. TypeOK'
    <3>1. UNCHANGED <<age, sincearly, left, didearly, polled, chg, rounds, needExit, xpc, apc,
                      devlock, value, changed, spc, snapshot, view>>
      BY <1>1 DEF Start, clockVars, actionVars, serviceVars, subVars
    <3>2. registered' \in [Devices -> BOOLEAN]
      BY <2>1 DEF Shape, TypeOK
    <3>3. evloopcond' \subseteq {e \in Devices : pc'[e] = "wait"}
      BY <2>2
    <3>4. pc' \in [Devices -> {"start", "top", "wait", "poll", "out"}]
      BY <2>2
    <3> QED  BY <3>1, <3>2, <3>3, <3>4 DEF Shape, TypeOK
  <2>4. Unstarted'
    <3>1. UNCHANGED spc
      BY <1>1 DEF Start, subVars
    <3>2. \A e \in Devices : e # d => registered'[e] = registered[e]
      BY <2>1 DEF Shape, TypeOK
    <3>3. \A e \in Embedded : ~registered'[e]
      BY <2>1, <3>2, EventsAssumption DEF Shape, Unstarted
    <3> QED  BY <2>2, <3>1, <3>2, <3>3 DEF Shape, Unstarted
  <2> QED  BY <2>3, <2>4 DEF Shape
<1>2. ASSUME NEW s \in Services, GetEventData(d, s)
      PROVE  Shape'
  <2>1. [service |-> s, value |-> value[d][s]] \in Event
    BY EventIs DEF Shape, TypeOK
  <2>2. /\ chg' \in [Devices -> Event \cup {NoEvent}]
        /\ polled' \in [Devices -> SUBSET Services]
        /\ changed' \in [Devices -> SUBSET Services]
    BY <1>2, <2>1 DEF GetEventData, Shape, TypeOK, Event
  <2> QED
    BY <1>2, <2>2
       DEF GetEventData, Shape, TypeOK, Unstarted, Event, clockVars, exitVars,
           actionVars, subVars
<1>3. CASE NotifyEvent(d)
  <2>1. chg[d].value \in 0..MaxValue
    BY <1>3 DEF NotifyEvent, Shape, TypeOK
  <2>2. view' \in [Sub -> 0..MaxValue]
    BY <1>3, <2>1 DEF NotifyEvent, Shape, TypeOK
  <2> QED
    BY <1>3, <2>2
       DEF NotifyEvent, Shape, TypeOK, Unstarted, clockVars, exitVars, actionVars,
           serviceVars
<1>4. CASE EndRound(d)
  BY <1>4
     DEF EndRound, Goto, Shape, TypeOK, Unstarted, clockVars, exitVars, actionVars,
         serviceVars, subVars
<1> QED  BY <1>1, <1>2, <1>3, <1>4

LEMMA ShapeRequest ==
  ASSUME Shape, NEW d \in Devices, Action(d) \/ LoopWakeup(d)
  PROVE  Shape'
<1>1. CASE Action(d)
  <2>1. /\ value' \in [Devices -> [Services -> 0..MaxValue]]
        /\ changed' \in [Devices -> SUBSET Services]
    <3>1. CASE UNCHANGED serviceVars
      BY <3>1 DEF serviceVars, Shape, TypeOK
    <3>2. ASSUME NEW s \in Services, value[d][s] < MaxValue,
                 value' = [value EXCEPT ![d][s] = @ + 1],
                 changed' = [changed EXCEPT ![d] = @ \cup {s}]
          PROVE  /\ value' \in [Devices -> [Services -> 0..MaxValue]]
                 /\ changed' \in [Devices -> SUBSET Services]
      <4>1. value[d][s] + 1 \in 0..MaxValue
        BY <3>2, EventsAssumption DEF Shape, TypeOK
      <4> QED  BY <3>2, <4>1 DEF Shape, TypeOK
    <3> QED  BY <1>1, <3>1, <3>2 DEF Action
  <2> QED
    BY <1>1, <2>1
       DEF Action, Shape, TypeOK, Unstarted, clockVars, loopVars, exitVars, subVars
<1>2. CASE LoopWakeup(d)
  BY <1>2
     DEF LoopWakeup, Shape, TypeOK, Unstarted, clockVars, exitVars, serviceVars, subVars
<1> QED  BY <1>1, <1>2

LEMMA ShapeEnd ==
  ASSUME Shape, NEW d \in Devices, ShouldExit(d) \/ Destroy(d) \/ RunExit(d)
  PROVE  Shape'
<1>1. /\ xpc' \in [Devices -> {"none", "flag", "wake", "unregister", "join", "gone"}]
      /\ registered' \in [Devices -> BOOLEAN]
      /\ \A e \in Devices : registered'[e] => registered[e]
      /\ needExit' \in [Devices -> BOOLEAN]
      /\ evloopcond' \subseteq evloopcond
  <2>1. /\ xpc \in [Devices -> {"none", "flag", "wake", "unregister", "join", "gone"}]
        /\ registered \in [Devices -> BOOLEAN] /\ needExit \in [Devices -> BOOLEAN]
    BY DEF Shape, TypeOK
  <2>2. /\ xpc' \in [Devices -> {"none", "flag", "wake", "unregister", "join", "gone"}]
        /\ needExit' \in [Devices -> BOOLEAN]
    BY <2>1 DEF ShouldExit, Destroy, RunExit, SetNeedExit, ExitNotify, Unregister, Join, End
  <2>3. registered' = registered \/ Unregistered(d)
    BY DEF ShouldExit, Destroy, RunExit, SetNeedExit, ExitNotify, Unregister, Join
  <2>4. evloopcond' \subseteq evloopcond
    BY DEF ShouldExit, Destroy, RunExit, SetNeedExit, ExitNotify, Unregister, Join, loopVars
  <2> QED  BY <2>1, <2>2, <2>3, <2>4 DEF Unregistered
<1>2. UNCHANGED <<clockVars, pc, left, didearly, polled, chg, rounds>>
  BY DEF ShouldExit, Destroy, RunExit, SetNeedExit, ExitNotify, Unregister, Join, loopVars
<1>3. UNCHANGED <<actionVars, serviceVars, subVars>>
  BY DEF ShouldExit, Destroy, RunExit, SetNeedExit, ExitNotify, Unregister, Join
<1>6. UNCHANGED <<age, sincearly, pc, left, didearly, polled, chg, rounds, apc, devlock, value,
                  changed, spc, snapshot, view>>
  BY <1>2, <1>3 DEF clockVars, actionVars, serviceVars, subVars
<1>4. TypeOK'
  <2>1. evloopcond' \subseteq {e \in Devices : pc'[e] = "wait"}
    BY <1>1, <1>6 DEF Shape, TypeOK
  <2> QED  BY <1>1, <1>6, <2>1 DEF Shape, TypeOK
<1>5. Unstarted'
  BY <1>1, <1>6, EventsAssumption DEF Shape, Unstarted
<1> QED  BY <1>4, <1>5 DEF Shape

LEMMA ShapeSubscriber ==
  ASSUME Shape, NEW u \in Sub,
         SubscriptionRequest(u) \/ AcceptSubscription(u) \/ UnSubscribe(u)
  PROVE  Shape'
<1>1. u[2] \in Devices /\ u[3] \in Services
  BY SubIs
<1>2. CASE SubscriptionRequest(u)
  BY <1>1, <1>2, SubIs
     DEF SubscriptionRequest, Reached, LeftChanged, Shape, TypeOK, Unstarted, clockVars,
         loopVars, exitVars, actionVars
<1>3. CASE AcceptSubscription(u) \/ UnSubscribe(u)
  <2>1. /\ spc' \in [Sub -> {"none", "data", "active"}] /\ view' \in [Sub -> 0..MaxValue]
        /\ \A w \in Sub : spc[w] = "none" => spc'[w] = "none"
    <3>1. /\ \E where \in {"none", "active"} : spc' = [spc EXCEPT ![u] = where]
          /\ spc[u] # "none"
      BY <1>3 DEF AcceptSubscription, UnSubscribe
    <3>2. view' = view \/ view' = [view EXCEPT ![u] = snapshot[u]]
      BY <1>3 DEF AcceptSubscription, UnSubscribe
    <3>3. view' \in [Sub -> 0..MaxValue]
      BY <3>2 DEF Shape, TypeOK
    <3>4. /\ spc' \in [Sub -> {"none", "data", "active"}]
          /\ \A w \in Sub : spc[w] = "none" => spc'[w] = "none"
      BY <3>1 DEF Shape, TypeOK
    <3> QED  BY <3>3, <3>4
  <2>2. UNCHANGED <<clockVars, loopVars, exitVars, actionVars, serviceVars, snapshot>>
    BY <1>3 DEF AcceptSubscription, UnSubscribe
  <2>3. TypeOK'
    BY <2>1, <2>2
       DEF Shape, TypeOK, clockVars, loopVars, exitVars, actionVars, serviceVars
  <2>4. Unstarted'
    BY <2>1, <2>2 DEF Shape, Unstarted, loopVars, exitVars
  <2> QED  BY <2>3, <2>4 DEF Shape
<1> QED  BY <1>2, <1>3

LEMMA ShapeStep ==
  ASSUME Shape, [Next]_vars
  PROVE  Shape'
<1>1. CASE UNCHANGED vars
  BY <1>1
     DEF vars, Shape, TypeOK, Unstarted, clockVars, loopVars, exitVars, actionVars,
         serviceVars, subVars
<1> QED
  BY <1>1, ShapeTick, ShapeWait, ShapeWakes, ShapeRound, ShapeRequest, ShapeEnd,
     ShapeSubscriber DEF Next, Run

\* The event loop and the requests (device.cxx): every variable keeps its type; a
\* loop that sleeps is at its wait.
THEOREM EventsTypeCorrect == Spec => []TypeOK
<1>1. Shape /\ [Next]_vars => Shape'
  BY ShapeStep
<1>2. Shape => TypeOK
  BY DEF Shape
<1> QED  BY ShapeInit, <1>1, <1>2, PTL DEF Spec

-----------------------------------------------------------------------------
(* The rounds of the loops.                                                 *)

\* The last round of a loop that waits is at least as old as its wkuptime, which
\* is the youngest of all, and as the part of its wait that is over; one that was
\* due in full leaves the one before it out of reach, and an early one leaves it
\* as old as earlytime, that it set to a wkuptime which was younger than that.
SpacedInv ==
  \A d \in Devices :
    /\ rounds[d][2] >= rounds[d][1]
    /\ pc[d] = "wait" => rounds[d][1] >= age /\ rounds[d][1] + left[d] >= loopwait_ms
    /\ ~didearly[d] => rounds[d][2] = loopwait_ms
    /\ didearly[d] => rounds[d][2] >= sincearly + age \/ rounds[d][2] = loopwait_ms

LoopInv == Shape /\ SpacedInv

LEMMA TicksAre ==
  /\ loopwait_ms \in Nat /\ loopwait_ms > 0 /\ 0 \in Ticks
  /\ \A n \in Ticks : n \in Nat /\ n <= loopwait_ms
BY EventsAssumption DEF Ticks

\* A step of a loop or of anybody else that neither waits nor wakes up.
LEMMA SpacedKept ==
  ASSUME Shape, SpacedInv, UNCHANGED <<clockVars, left, didearly, rounds>>,
         \A d \in Devices : pc'[d] = "wait" => pc[d] = "wait"
  PROVE  SpacedInv'
BY DEF SpacedInv, clockVars

LEMMA SpacedTick ==
  ASSUME Shape, SpacedInv, Tick
  PROVE  SpacedInv'
<1> SUFFICES ASSUME NEW d \in Devices
             PROVE  /\ rounds'[d][2] >= rounds'[d][1]
                    /\ pc'[d] = "wait" =>
                         rounds'[d][1] >= age' /\ rounds'[d][1] + left'[d] >= loopwait_ms
                    /\ ~didearly'[d] => rounds'[d][2] = loopwait_ms
                    /\ didearly'[d] =>
                         rounds'[d][2] >= sincearly' + age' \/ rounds'[d][2] = loopwait_ms
  BY DEF SpacedInv
<1>1. /\ rounds'[d][1] = Later(rounds[d][1]) /\ rounds'[d][2] = Later(rounds[d][2])
      /\ left'[d] = NextLeft(left[d]) /\ age' = Later(age)
      /\ UNCHANGED <<sincearly, pc, didearly>>
  BY DEF Tick
<1>2. /\ rounds[d][1] \in Ticks /\ rounds[d][2] \in Ticks /\ left[d] \in Ticks
      /\ age \in Ticks /\ sincearly \in Ticks
  BY DEF Shape, TypeOK
<1>3. /\ rounds[d][2] >= rounds[d][1]
      /\ pc[d] = "wait" => rounds[d][1] >= age /\ rounds[d][1] + left[d] >= loopwait_ms
      /\ ~didearly[d] => rounds[d][2] = loopwait_ms
      /\ didearly[d] => rounds[d][2] >= sincearly + age \/ rounds[d][2] = loopwait_ms
  BY DEF SpacedInv
<1>4. /\ rounds'[d][1] = IF rounds[d][1] = loopwait_ms THEN rounds[d][1] ELSE rounds[d][1] + 1
      /\ rounds'[d][2] = IF rounds[d][2] = loopwait_ms THEN rounds[d][2] ELSE rounds[d][2] + 1
      /\ age' = IF age = loopwait_ms THEN age ELSE age + 1
      /\ left'[d] = IF left[d] = 0 THEN 0 ELSE left[d] - 1
  BY <1>1, <1>2, TickIs
<1> QED  BY <1>1, <1>2, <1>3, <1>4, TicksAre

LEMMA SpacedWait ==
  ASSUME Shape, SpacedInv, NEW e \in Devices, Wait(e)
  PROVE  SpacedInv'
<1> SUFFICES ASSUME NEW d \in Devices
             PROVE  /\ rounds'[d][2] >= rounds'[d][1]
                    /\ pc'[d] = "wait" =>
                         rounds'[d][1] >= age' /\ rounds'[d][1] + left'[d] >= loopwait_ms
                    /\ ~didearly'[d] => rounds'[d][2] = loopwait_ms
                    /\ didearly'[d] =>
                         rounds'[d][2] >= sincearly' + age' \/ rounds'[d][2] = loopwait_ms
  BY DEF SpacedInv
<1>1. /\ age' = 0 /\ sincearly' = Min({sincearly + age, loopwait_ms})
      /\ UNCHANGED <<didearly, rounds>>
      /\ IF d = e THEN left'[d] = loopwait_ms ELSE left'[d] = left[d] /\ pc'[d] = pc[d]
  BY DEF Wait, Goto, Shape, TypeOK
<1>2. /\ rounds[d][1] \in Ticks /\ rounds[d][2] \in Ticks /\ left[d] \in Ticks
      /\ age \in Ticks /\ sincearly \in Ticks
  BY DEF Shape, TypeOK
<1>3. sincearly' = IF sincearly + age <= loopwait_ms THEN sincearly + age ELSE loopwait_ms
  BY <1>1, <1>2, SumIs
<1> QED  BY <1>1, <1>2, <1>3, TicksAre DEF SpacedInv

LEMMA SpacedWakes ==
  ASSUME Shape, SpacedInv, NEW e \in Devices, Wakes(e)
  PROVE  /\ SpacedInv'
         /\ pc'[e] = "poll" => rounds[e][2] = loopwait_ms
<1>1. /\ EarlyTime(e) \in Ticks /\ EarlyTime(e) <= sincearly
      /\ rounds[e][1] \in Ticks /\ rounds[e][2] \in Ticks /\ left[e] \in Ticks
      /\ age \in Ticks /\ sincearly \in Ticks
  BY TicksAre DEF EarlyTime, Shape, TypeOK
<1>2. /\ UNCHANGED <<age, left>> /\ pc[e] = "wait"
      /\ \A d \in Devices : d # e => pc'[d] = pc[d]
  BY DEF Wakes, Goto, Shape, TypeOK
<1>3. ASSUME sincearly' \in Ticks, sincearly' <= sincearly, NEW d \in Devices,
             pc'[d] = "wait" => pc[d] = "wait",
             didearly'[d] = didearly[d], rounds'[d] = rounds[d]
      PROVE  /\ rounds'[d][2] >= rounds'[d][1]
             /\ pc'[d] = "wait" =>
                  rounds'[d][1] >= age' /\ rounds'[d][1] + left'[d] >= loopwait_ms
             /\ ~didearly'[d] => rounds'[d][2] = loopwait_ms
             /\ didearly'[d] =>
                  rounds'[d][2] >= sincearly' + age' \/ rounds'[d][2] = loopwait_ms
  BY <1>1, <1>2, <1>3, TicksAre DEF SpacedInv, Shape, TypeOK
<1>4. CASE Exits(e) \/ Skips(e)
  <2>1. /\ pc'[e] # "wait" /\ pc'[e] # "poll" /\ sincearly' \in Ticks
        /\ sincearly' <= sincearly /\ UNCHANGED <<didearly, rounds>>
    <3>1. CASE Exits(e)
      BY <3>1, <1>1, TicksAre DEF Wakes, Skips, Goto, Shape, TypeOK
    <3>2. CASE Skips(e)
      BY <3>2, <1>1 DEF Wakes, Skips, Goto, Shape, TypeOK
    <3> QED  BY <1>4, <3>1, <3>2
  <2> QED  BY <1>2, <1>3, <2>1 DEF SpacedInv
<1>5. CASE ~Exits(e) /\ ~Skips(e)
  <2>1. /\ pc' = [pc EXCEPT ![e] = "poll"] /\ sincearly' = EarlyTime(e)
        /\ didearly' = [didearly EXCEPT ![e] = left[e] > 0]
        /\ rounds' = [rounds EXCEPT ![e] = <<0, rounds[e][1]>>]
    BY <1>5 DEF Wakes, Goto
  <2>2. /\ pc'[e] = "poll" /\ (didearly'[e] <=> left[e] > 0)
        /\ rounds'[e][1] = 0 /\ rounds'[e][2] = rounds[e][1]
        /\ \A d \in Devices : d # e => didearly'[d] = didearly[d] /\ rounds'[d] = rounds[d]
    BY <2>1 DEF Shape, TypeOK
  <2>3. left[e] > 0 => sincearly' = 0
    BY <1>5, <2>1 DEF EarlyTime
  <2>4. rounds[e][2] = loopwait_ms
    BY <1>1, <1>2, <1>5, TicksAre DEF SpacedInv, Skips, TooClose
  <2>5. \A d \in Devices :
          /\ rounds'[d][2] >= rounds'[d][1]
          /\ pc'[d] = "wait" =>
               rounds'[d][1] >= age' /\ rounds'[d][1] + left'[d] >= loopwait_ms
          /\ ~didearly'[d] => rounds'[d][2] = loopwait_ms
          /\ didearly'[d] =>
               rounds'[d][2] >= sincearly' + age' \/ rounds'[d][2] = loopwait_ms
    <3>1. ASSUME NEW d \in Devices, d # e
          PROVE  /\ rounds'[d][2] >= rounds'[d][1]
                 /\ pc'[d] = "wait" =>
                      rounds'[d][1] >= age' /\ rounds'[d][1] + left'[d] >= loopwait_ms
                 /\ ~didearly'[d] => rounds'[d][2] = loopwait_ms
                 /\ didearly'[d] =>
                      rounds'[d][2] >= sincearly' + age' \/ rounds'[d][2] = loopwait_ms
      BY <3>1, <1>1, <1>2, <1>3, <2>1, <2>2
    <3>2. /\ rounds'[e][2] >= rounds'[e][1]
          /\ ~didearly'[e] => rounds'[e][2] = loopwait_ms
          /\ didearly'[e] => rounds'[e][2] >= sincearly' + age'
      <4>1. rounds[e][1] >= age /\ rounds[e][1] + left[e] >= loopwait_ms
        BY <1>2 DEF SpacedInv
      <4> QED  BY <4>1, <1>1, <1>2, <2>2, <2>3, TicksAre
    <3> QED  BY <3>1, <3>2, <2>2
  <2> QED  BY <2>4, <2>5 DEF SpacedInv
<1> QED  BY <1>4, <1>5

LEMMA LoopMoves ==
  ASSUME Shape, [Next]_vars
  PROVE  \/ Tick
         \/ \E d \in Devices : Wait(d) \/ Wakes(d)
         \/ /\ UNCHANGED <<clockVars, left, didearly, rounds>>
            /\ \A d \in Devices : pc'[d] \in {"wait", "poll"} => pc'[d] = pc[d]
<1> DEFINE Kept == /\ UNCHANGED <<clockVars, left, didearly, rounds>>
                   /\ \A d \in Devices : pc'[d] \in {"wait", "poll"} => pc'[d] = pc[d]
<1>1. ASSUME NEW d \in Devices,
             \/ Start(d) \/ (\E s \in Services : GetEventData(d, s)) \/ NotifyEvent(d)
             \/ EndRound(d)
      PROVE  Kept
  BY <1>1 DEF Start, GetEventData, NotifyEvent, EndRound, Goto, Shape, TypeOK
<1>2. ASSUME NEW d \in Devices,
             Action(d) \/ LoopWakeup(d) \/ ShouldExit(d) \/ Destroy(d) \/ RunExit(d)
      PROVE  Kept
  BY <1>2
     DEF Action, LoopWakeup, ShouldExit, Destroy, RunExit, SetNeedExit, ExitNotify,
         Unregister, Join, loopVars
<1>3. ASSUME NEW u \in Sub,
             SubscriptionRequest(u) \/ AcceptSubscription(u) \/ UnSubscribe(u)
      PROVE  Kept
  BY <1>3 DEF SubscriptionRequest, AcceptSubscription, UnSubscribe, loopVars
<1>4. CASE UNCHANGED vars
  BY <1>4 DEF vars, loopVars
<1> QED  BY <1>1, <1>2, <1>3, <1>4 DEF Next, Run

\* eventloop(): three rounds of a loop span its waiting time at least, whatever the
\* actions of its device wake it up for, and though all the devices share the clocks
\* by which each of them judges how long ago its last early round was.
THEOREM WakeupsAreSpaced == Spec => RoundsSpaced
<1>1. Init => LoopInv
  <2> SUFFICES ASSUME Init PROVE LoopInv
    OBVIOUS
  <2>1. SpacedInv
    BY TicksAre DEF Init, SpacedInv
  <2> QED  BY <2>1, ShapeInit DEF LoopInv
<1>2. LoopInv /\ [Next]_vars => LoopInv'
  BY ShapeStep, LoopMoves, SpacedTick, SpacedWait, SpacedWakes, SpacedKept DEF LoopInv
<1>3. LoopInv /\ [Next]_vars =>
        [\A d \in Devices :
           pc[d] = "wait" /\ pc'[d] = "poll" => rounds[d][2] = loopwait_ms]_vars
  <2> SUFFICES ASSUME LoopInv, [Next]_vars, NEW d \in Devices,
                      pc[d] = "wait", pc'[d] = "poll"
               PROVE  rounds[d][2] = loopwait_ms
    OBVIOUS
  <2>1. CASE Tick
    BY <2>1 DEF Tick
  <2>2. ASSUME NEW e \in Devices, Wait(e)
        PROVE  FALSE
    BY <2>2 DEF Wait, Goto, LoopInv, Shape, TypeOK
  <2>3. ASSUME NEW e \in Devices, Wakes(e)
        PROVE  rounds[d][2] = loopwait_ms
    <3>1. d = e
      BY <2>3 DEF Wakes, Goto, LoopInv, Shape, TypeOK
    <3> QED  BY <2>3, <3>1, SpacedWakes DEF LoopInv
  <2> QED  BY <2>1, <2>2, <2>3, LoopMoves DEF LoopInv
<1> QED  BY <1>1, <1>2, <1>3, PTL DEF Spec, RoundsSpaced

-----------------------------------------------------------------------------
(* What the control points are told.                                        *)

\* An event to be sent has the state of its service, unless that changed again
\* and is to be fetched again.
EventCurrent ==
  \A d \in Devices :
    chg[d] # NoEvent => \/ chg[d].value = value[d][chg[d].service]
                       \/ chg[d].service \in changed[d]

\* A control point knows what its acceptance said or what is the case, or an
\* event is to come; of a silent service it knows no more than the first.
EventToCome ==
  /\ \A u \in Sub : spc[u] = "active" /\ registered[u[2]] =>
       \/ view[u] = snapshot[u]
       \/ /\ u[3] \notin Silent
          /\ \/ view[u] = value[u[2]][u[3]]
             \/ u[3] \in changed[u[2]]
             \/ chg[u[2]] # NoEvent /\ chg[u[2]].service = u[3]
  /\ \A d \in Devices : chg[d] # NoEvent => chg[d].service \notin Silent

ToldInv == Shape /\ EventCurrent /\ EventToCome

LEMMA ToldKept ==
  ASSUME Shape, EventCurrent, EventToCome,
         UNCHANGED <<chg, serviceVars, snapshot, view>>,
         \A u \in Sub : spc'[u] = "active" /\ registered'[u[2]] =>
                        spc[u] = "active" /\ registered[u[2]]
  PROVE  EventCurrent' /\ EventToCome'
BY DEF EventCurrent, EventToCome, serviceVars

LEMMA ToldFetch ==
  ASSUME Shape, EventCurrent, EventToCome, NEW e \in Devices, NEW s \in Services,
         GetEventData(e, s)
  PROVE  EventCurrent' /\ EventToCome'
<1> DEFINE new == [service |-> s, value |-> value[e][s]]
<1>1. new # NoEvent /\ new.service = s /\ new.value = value[e][s]
  BY EventIs DEF Shape, TypeOK
<1> HIDE DEF new
<1>2. /\ chg[e] = NoEvent
      /\ chg'[e] = IF s \in changed[e] \ Silent THEN new ELSE NoEvent
      /\ changed'[e] = changed[e] \ {s}
      /\ \A d \in Devices : d # e => chg'[d] = chg[d] /\ changed'[d] = changed[d]
      /\ UNCHANGED <<value, registered, spc, snapshot, view>>
  BY DEF GetEventData, new, exitVars, subVars, Shape, TypeOK
<1>3. EventCurrent'
  BY <1>1, <1>2 DEF EventCurrent
<1>4. EventToCome'
  BY <1>1, <1>2, SubIs DEF EventToCome
<1> QED  BY <1>3, <1>4

LEMMA ToldNotify ==
  ASSUME Shape, EventCurrent, EventToCome, NEW e \in Devices, NotifyEvent(e)
  PROVE  EventCurrent' /\ EventToCome'
<1>1. /\ chg[e] # NoEvent /\ chg'[e] = NoEvent
      /\ \A d \in Devices : d # e => chg'[d] = chg[d]
      /\ UNCHANGED <<value, changed, registered, spc, snapshot>>
  BY DEF NotifyEvent, exitVars, serviceVars, Shape, TypeOK
<1>2. \A u \in Sub : view'[u] =
        IF registered[e] /\ spc[u] = "active" /\ u[2] = e /\ u[3] = chg[e].service
          THEN chg[e].value ELSE view[u]
  BY DEF NotifyEvent
<1>3. EventCurrent'
  BY <1>1 DEF EventCurrent
<1>4. EventToCome'
  <2> SUFFICES ASSUME NEW u \in Sub, spc[u] = "active", registered[u[2]]
               PROVE  \/ view'[u] = snapshot[u]
                      \/ /\ u[3] \notin Silent
                         /\ \/ view'[u] = value[u[2]][u[3]]
                            \/ u[3] \in changed[u[2]]
                            \/ chg'[u[2]] # NoEvent /\ chg'[u[2]].service = u[3]
    BY <1>1 DEF EventToCome
  <2>1. u[2] \in Devices
    BY SubIs
  <2>2. CASE u[2] = e /\ u[3] = chg[e].service
    BY <1>1, <1>2, <2>2 DEF EventCurrent, EventToCome
  <2>3. CASE u[2] # e \/ u[3] # chg[e].service
    BY <1>1, <1>2, <2>1, <2>3 DEF EventToCome
  <2> QED  BY <2>2, <2>3
<1> QED  BY <1>3, <1>4

LEMMA ToldAction ==
  ASSUME Shape, EventCurrent, EventToCome, NEW e \in Devices, Action(e)
  PROVE  EventCurrent' /\ EventToCome'
<1>1. UNCHANGED <<chg, registered, spc, snapshot, view>>
  BY DEF Action, loopVars, exitVars, subVars
<1>2. CASE UNCHANGED serviceVars
  BY <1>1, <1>2, ToldKept
<1>3. ASSUME NEW s \in Services,
             value' = [value EXCEPT ![e][s] = @ + 1],
             changed' = [changed EXCEPT ![e] = @ \cup {s}]
      PROVE  EventCurrent' /\ EventToCome'
  <2>1. \A d \in Devices, t \in Services :
          /\ t \in changed[d] => t \in changed'[d]
          /\ value'[d][t] = value[d][t] \/ t \in changed'[d]
    BY <1>3 DEF Shape, TypeOK
  <2>2. EventCurrent'
    <3> SUFFICES ASSUME NEW d \in Devices, chg[d] # NoEvent
                 PROVE  \/ chg[d].value = value'[d][chg[d].service]
                        \/ chg[d].service \in changed'[d]
      BY <1>1 DEF EventCurrent
    <3>1. chg[d].service \in Services
      BY DEF Shape, TypeOK
    <3> QED  BY <2>1, <3>1 DEF EventCurrent
  <2>3. EventToCome'
    BY <1>1, <2>1, SubIs DEF EventToCome
  <2> QED  BY <2>2, <2>3
<1> QED  BY <1>2, <1>3 DEF Action

LEMMA ToldSubscriber ==
  ASSUME ~AllClears, Shape, EventCurrent, EventToCome, NEW w \in Sub,
         SubscriptionRequest(w) \/ AcceptSubscription(w) \/ UnSubscribe(w)
  PROVE  EventCurrent' /\ EventToCome'
<1>1. UNCHANGED <<chg, value, registered>>
  BY DEF SubscriptionRequest, AcceptSubscription, UnSubscribe, loopVars, exitVars,
         serviceVars
<1>2. UNCHANGED changed
  BY SubIs
     DEF SubscriptionRequest, AcceptSubscription, UnSubscribe, LeftChanged, serviceVars,
         Shape, TypeOK
<1>3. \A u \in Sub :
        IF u = w THEN spc'[u] = "active" => view'[u] = snapshot'[u]
                 ELSE spc'[u] = spc[u] /\ view'[u] = view[u] /\ snapshot'[u] = snapshot[u]
  BY DEF SubscriptionRequest, AcceptSubscription, UnSubscribe, Shape, TypeOK
<1>4. EventCurrent'
  BY <1>1, <1>2 DEF EventCurrent
<1>5. EventToCome'
  BY <1>1, <1>2, <1>3 DEF EventToCome
<1> QED  BY <1>4, <1>5

\* The end of a device takes its handle, and only its start gives it one.
LEMMA ToldOthers ==
  ASSUME Shape, EventCurrent, EventToCome,
         \/ Tick \/ UNCHANGED vars
         \/ \E d \in Devices :
              \/ Start(d) \/ Wait(d) \/ Wakes(d) \/ EndRound(d) \/ LoopWakeup(d)
              \/ ShouldExit(d) \/ Destroy(d) \/ RunExit(d)
  PROVE  EventCurrent' /\ EventToCome'
<1>1. CASE Tick \/ UNCHANGED vars
  BY <1>1, ToldKept DEF Tick, vars, loopVars, exitVars, subVars
<1>2. ASSUME NEW d \in Devices, Wait(d) \/ Wakes(d) \/ EndRound(d) \/ LoopWakeup(d)
      PROVE  EventCurrent' /\ EventToCome'
  BY <1>2, ToldKept DEF Wait, Wakes, EndRound, LoopWakeup, exitVars, subVars
<1>3. ASSUME NEW d \in Devices, ShouldExit(d) \/ Destroy(d) \/ RunExit(d)
      PROVE  EventCurrent' /\ EventToCome'
  <2>1. UNCHANGED <<chg, serviceVars, subVars>>
    BY <1>3
       DEF ShouldExit, Destroy, RunExit, SetNeedExit, ExitNotify, Unregister, Join,
           loopVars
  <2>2. registered' = registered \/ registered' = [registered EXCEPT ![d] = FALSE]
    BY <1>3
       DEF ShouldExit, Destroy, RunExit, SetNeedExit, ExitNotify, Unregister, Join,
           Unregistered
  <2>3. \A u \in Sub : registered'[u[2]] => registered[u[2]]
    BY <2>2, SubIs DEF Shape, TypeOK
  <2> QED  BY <2>1, <2>3, ToldKept DEF subVars
<1>4. ASSUME NEW d \in Devices, Start(d)
      PROVE  EventCurrent' /\ EventToCome'
  <2>1. /\ UNCHANGED <<chg, serviceVars, subVars>>
        /\ UNCHANGED registered \/ \A u \in Sub : u[2] = d => spc[u] = "none"
    BY <1>4 DEF Start, Shape, Unstarted
  <2>2. \A u \in Sub : u[2] # d => registered'[u[2]] = registered[u[2]]
    BY <1>4, SubIs DEF Start, Shape, TypeOK
  <2> QED  BY <2>1, <2>2, ToldKept DEF subVars
<1> QED  BY <1>1, <1>2, <1>3, <1>4

\* getEventData() and notifyEvent(): a control point that was told of any
\* change since its acceptance misses none of the later ones, with any number of
\* control points, services and values, if a request for all the data leaves what it
\* returned to be fetched again.
THEOREM ChangesAreTold == Spec => []ToldOfChanges
<1>1. CASE AllClears
  <2>1. ToldOfChanges
    BY <1>1 DEF ToldOfChanges
  <2> QED  BY <2>1, PTL
<1>2. CASE ~AllClears
  <2>1. Init => ToldInv
    <3> SUFFICES ASSUME Init PROVE ToldInv
      OBVIOUS
    <3>1. EventCurrent /\ EventToCome
      BY DEF Init, EventCurrent, EventToCome
    <3> QED  BY <3>1, ShapeInit DEF ToldInv
  <2>2. ToldInv /\ [Next]_vars => ToldInv'
    BY <1>2, ShapeStep, ToldFetch, ToldNotify, ToldAction, ToldSubscriber, ToldOthers
       DEF ToldInv, Next, Run
  <2>3. ToldInv => ToldOfChanges
    BY DEF ToldInv, EventToCome, ToldOfChanges, Settled
  <2> QED  BY <2>1, <2>2, <2>3, PTL DEF Spec
<1> QED  BY <1>1, <1>2
=============================================================================
