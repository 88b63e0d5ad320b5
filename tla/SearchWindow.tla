----------------------------- MODULE SearchWindow -----------------------------
(***************************************************************************)
(* The search window of libupnpp/control/discovery.cxx: user threads that  *)
(* call traverse() or look for one device (getDevBySelector) wait on       *)
(* devWaitCond for the window of the last search to end, and the explorer  *)
(* wakes them when it shows a device it has found (deviceFound).           *)
(*                                                                         *)
(* Time is counted in ticks and kept relative: o_lastSearch is the age of  *)
(* the last search, a wait is the ticks it has left.  An age that no test  *)
(* tells from a greater one stops growing.  The pool is whether it has the *)
(* device that is looked for; how it gets it is in Discovery.              *)
(*                                                                         *)
(* A definition named Operation_Fault is a mutated form of Operation: the  *)
(* properties are tested by checking that they fail with it.               *)
(***************************************************************************)
EXTENDS Naturals, FiniteSetsExt

CONSTANTS
  Users,           \* threads of the program
  o_searchTimeout, \* the search window, in ticks
  Grace,           \* the delay granted beyond it, 200 ms in the code
  Period,          \* age beyond which a lookup searches again, 5 s in the code
  DevicesExpire,   \* can expireDevices() find something to expire?
  Prompt,          \* do threads that can run do so before the clock ticks?
  MaxEvents        \* bound, if so: what can happen between two ticks

ASSUME WindowAssumption ==
  /\ o_searchTimeout \in Nat \ {0} /\ Grace \in Nat \ {0} /\ Period \in Nat
  /\ DevicesExpire \in BOOLEAN /\ Prompt \in BOOLEAN
  /\ MaxEvents \in Nat

VARIABLES
  o_lastSearch,        \* the age of the last search
  opened,              \* history: the age of the constructor's search
  o_initialSearchDone, \* set by the first traverse() that outwaits the window
  present,             \* is the device in the pool?
  epc,                 \* has the explorer to call deviceFound()?
  upc,                 \* where each user thread is
  ms,                  \* what is left of its timed wait
  devWaitCond,         \* the threads asleep
  events               \* what happened since the last tick, if Prompt

timeVars == <<o_lastSearch, opened>>
poolVars == <<present, epc>>
waitVars == <<upc, ms, devWaitCond>>
vars == <<timeVars, o_initialSearchDone, poolVars, waitVars, events>>

Window == o_searchTimeout + Grace
Oldest == Max({Window, Period + 1})
UserPC == {"idle", "traverse", "traverseWait", "visit",
           "look", "lookSleep", "lookWait", "failed"}

TypeOK ==
  /\ o_lastSearch \in 0..Oldest /\ opened \in 0..Window
  /\ o_initialSearchDone \in BOOLEAN
  /\ present \in BOOLEAN /\ epc \in {"take", "visit"}
  /\ upc \in [Users -> UserPC]
  /\ ms \in [Users -> 0..Window]
  /\ devWaitCond \subseteq Users
  /\ events \in 0..MaxEvents

\* The constructor's search was sent.
Init ==
  /\ o_lastSearch = 0 /\ opened = 0
  /\ o_initialSearchDone = FALSE
  /\ present = FALSE /\ epc = "take"
  /\ upc = [u \in Users |-> "idle"]
  /\ ms = [u \in Users |-> 0]
  /\ devWaitCond = {}
  /\ events = 0

Asleep(u) == u \in devWaitCond /\ ms[u] > 0

\* wait_for() counts down; it does not go below zero.
NextWait(n) == Max({n, 1}) - 1

Tick ==
  /\ Prompt => \A u \in Users : upc[u] = "idle" \/ Asleep(u)
  /\ o_lastSearch' = Min({o_lastSearch + 1, Oldest})
  /\ opened' = Min({opened + 1, Window})
  /\ ms' = [u \in Users |-> NextWait(ms[u])]
  /\ events' = 0
  /\ UNCHANGED <<o_initialSearchDone, poolVars, upc, devWaitCond>>

\* getRemainingDelayMs()
RemainingDelay_NoGrace ==
  IF o_initialSearchDone \/ o_lastSearch >= o_searchTimeout THEN 0 ELSE Window - o_lastSearch
RemainingDelay_Whole ==
  IF o_initialSearchDone \/ o_lastSearch >= Window THEN 0 ELSE Window
RemainingDelay_NoEnd == IF o_initialSearchDone THEN 0 ELSE Window - o_lastSearch
RemainingDelay_RoundedUp ==
  IF o_initialSearchDone THEN 0 ELSE Max({Window, o_lastSearch + 1}) - o_lastSearch
RemainingDelay ==
  IF o_initialSearchDone \/ o_lastSearch >= Window THEN 0 ELSE Window - o_lastSearch

-----------------------------------------------------------------------------
(* The explorer.                                                            *)

Insert ==
  /\ epc = "take"
  /\ present' = TRUE
  /\ epc' = "visit"
  /\ UNCHANGED <<timeVars, o_initialSearchDone, waitVars>>

\* notify_all(), without devWaitLock.
DeviceFound ==
  /\ epc = "visit"
  /\ devWaitCond' = {}
  /\ epc' = "take"
  /\ UNCHANGED <<timeVars, o_initialSearchDone, present, upc, ms>>

Byebye ==
  /\ epc = "take" /\ present
  /\ present' = FALSE
  /\ UNCHANGED <<timeVars, epc, o_initialSearchDone, waitVars>>

-----------------------------------------------------------------------------
(* The lookups.                                                             *)

\* The possible ages of the last search after search(), which may fail.
SearchedAgain ==
  IF o_lastSearch < o_searchTimeout THEN {o_lastSearch} ELSE {0, o_lastSearch}

\* expireDevices() and the search it starts, all with the pool locked.
ExpireDevices ==
  \E didsomething \in {FALSE, DevicesExpire} :
    /\ present' \in IF didsomething THEN {present, FALSE} ELSE {present}
    /\ o_lastSearch' \in IF didsomething \/ o_lastSearch > Period
                           THEN SearchedAgain ELSE {o_lastSearch}

\* By the explorer, after one minute without a message.
TakeTimeout ==
  /\ epc = "take"
  /\ ExpireDevices
  /\ UNCHANGED <<opened, o_initialSearchDone, epc, waitVars>>

Goto(u, pc) == upc' = [upc EXCEPT ![u] = pc]

TraverseCall(u) ==
  /\ upc[u] = "idle"
  /\ Goto(u, IF o_initialSearchDone THEN "visit" ELSE "traverse")
  /\ UNCHANGED <<timeVars, o_initialSearchDone, poolVars, ms, devWaitCond>>

\* One turn of the loop of traverse(), up to wait_for().
TraverseTest(u) ==
  /\ upc[u] = "traverse"
  /\ ms' = [ms EXCEPT ![u] = RemainingDelay]
  /\ IF RemainingDelay > 0
       THEN /\ Goto(u, "traverseWait") /\ devWaitCond' = devWaitCond \cup {u}
            /\ UNCHANGED o_initialSearchDone
       ELSE /\ Goto(u, "visit") /\ o_initialSearchDone' = TRUE
            /\ UNCHANGED devWaitCond
  /\ UNCHANGED <<timeVars, poolVars>>

\* A notification, the end of the wait or nothing at all wakes it.
AfterTraverseWait_NoLoop == "visit"
AfterTraverseWait == IF o_initialSearchDone THEN "visit" ELSE "traverse"
TraverseWakes(u) ==
  /\ upc[u] = "traverseWait"
  /\ Goto(u, AfterTraverseWait)
  /\ devWaitCond' = devWaitCond \ {u}
  /\ UNCHANGED <<timeVars, o_initialSearchDone, poolVars, ms>>

TraverseVisit(u) ==
  /\ upc[u] = "visit"
  /\ ExpireDevices
  /\ Goto(u, "idle")
  /\ UNCHANGED <<opened, o_initialSearchDone, epc, ms, devWaitCond>>

LookupCall(u) ==
  /\ upc[u] = "idle"
  /\ ExpireDevices
  /\ Goto(u, "look")
  /\ UNCHANGED <<opened, o_initialSearchDone, epc, ms, devWaitCond>>

\* One turn of the loop of getDevBySelector(): the delay, then the pool.
Look(u) ==
  /\ upc[u] = "look"
  /\ ms' = [ms EXCEPT ![u] = RemainingDelay]
  /\ Goto(u, CASE present -> "idle"
               [] ~present /\ RemainingDelay > 0 -> "lookSleep"
               [] OTHER -> "failed")
  /\ UNCHANGED <<timeVars, o_initialSearchDone, poolVars, devWaitCond>>

\* wait_for(): the pool is not locked since the thread looked at it.
LookSleeps(u) ==
  /\ upc[u] = "lookSleep"
  /\ Goto(u, "lookWait")
  /\ devWaitCond' = devWaitCond \cup {u}
  /\ UNCHANGED <<timeVars, o_initialSearchDone, poolVars, ms>>

LookWakes(u) ==
  /\ upc[u] = "lookWait"
  /\ Goto(u, "look")
  /\ devWaitCond' = devWaitCond \ {u}
  /\ UNCHANGED <<timeVars, o_initialSearchDone, poolVars, ms>>

\* The lookup returns false.
LookFails(u) ==
  /\ upc[u] = "failed"
  /\ Goto(u, "idle")
  /\ UNCHANGED <<timeVars, o_initialSearchDone, poolVars, ms, devWaitCond>>

-----------------------------------------------------------------------------

Wake(u) == TraverseWakes(u) \/ LookWakes(u)

\* A thread goes on with its call.
Run(u) ==
  /\ UNCHANGED events
  /\ \/ TraverseTest(u) \/ TraverseVisit(u)
     \/ Look(u) \/ LookSleeps(u) \/ LookFails(u)
     \/ ~Asleep(u) /\ Wake(u)

Event == IF Prompt THEN events < MaxEvents /\ events' = events + 1
                   ELSE UNCHANGED events

\* A call, or something that no thread of the program decides: a message, a
\* timeout, a wakeup for no reason.
Happens ==
  \/ Insert \/ Byebye \/ TakeTimeout
  \/ \E u \in Users : TraverseCall(u) \/ LookupCall(u) \/ (Asleep(u) /\ Wake(u))

Next ==
  \/ Tick
  \/ Event /\ Happens
  \/ UNCHANGED events /\ DeviceFound
  \/ \E u \in Users : Run(u)

Spec == Init /\ [][Next]_vars

\* Time passes, threads run, and a wait ends when it is notified or over.
Fairness == WF_vars(Tick) /\ \A u \in Users : WF_vars(Run(u))

FairSpec == Spec /\ Fairness

-----------------------------------------------------------------------------
(* Properties.                                                              *)

\* traverse() takes nobody through the pool before the first search window is
\* over, however many devices wake it up meanwhile and whichever thread ends
\* the wait for all.
TraverseComplete ==
  \A u \in Users : upc[u] = "visit" => opened = Window

\* A lookup does not fail before the devices that are there had the time of the
\* first window to answer.
FailsOnlyAfterWindow ==
  \A u \in Users : upc[u] = "failed" => opened = Window

\* Nobody sleeps longer than the window of the last search: that is what a
\* wakeup that is lost costs.
SleepWithinWindow ==
  \A u \in Users : u \in devWaitCond => ms[u] + o_lastSearch <= Window \/ ms[u] = 0

\* The first search window is kept from both sides: nobody is let through or
\* told of a failure before it is over, and nobody sleeps past its end.
WindowKept == TraverseComplete /\ FailsOnlyAfterWindow /\ SleepWithinWindow

\* A lookup returns, even if other threads keep looking and searching.
LookupReturns ==
  \A u \in Users : upc[u] \in {"look", "lookSleep", "lookWait"} ~> upc[u] = "idle"

\* deviceFound() "wakes up any thread waiting for a device": no lookup sleeps
\* on when its device is in the pool and was shown.
WokenWhenFound ==
  present /\ epc = "take" => \A u \in Users : ~(upc[u] = "lookWait" /\ Asleep(u))

\* "Further searchs do not reinitialise the window and the function will
\* always return 0": there is no delay after the first window.
WindowOpensOnce == opened = Window => RemainingDelay = 0
=============================================================================
