-------------------------- MODULE SearchWindowProofs --------------------------
(***************************************************************************)
(* Proofs about SearchWindow, for any number of threads, any lengths of    *)
(* the window, of its grace and of the search period, and whether threads  *)
(* run in time or not.                                                     *)
(***************************************************************************)
EXTENDS SearchWindow, TLAPS

\* The last search is not older than the constructor's, as far as it is told.
SearchedSince == o_lastSearch <= opened \/ opened = Window

\* The window was over when a traverse() said so.
DoneAfterWindow == o_initialSearchDone => opened = Window

\* What a thread has left to wait, asleep or on its way to it.
DelayWithinWindow == \A u \in Users : ms[u] + o_lastSearch <= Window \/ ms[u] = 0

IInv ==
  /\ TypeOK /\ SearchedSince /\ DoneAfterWindow /\ DelayWithinWindow
  /\ TraverseComplete /\ FailsOnlyAfterWindow

-----------------------------------------------------------------------------
(* Numbers.                                                                 *)

LEMMA MaxOfTwo ==
  ASSUME NEW a \in Nat, NEW b \in Nat
  PROVE  Max({a, b}) = IF a >= b THEN a ELSE b
<1>1. Max({a, b}) \in {a, b} /\ \A y \in {a, b} : Max({a, b}) >= y
  <2>1. \E x \in {a, b} : \A y \in {a, b} : x >= y
    OBVIOUS
  <2> QED  BY <2>1 DEF Max
<1> QED  BY <1>1

LEMMA MinOfTwo ==
  ASSUME NEW a \in Nat, NEW b \in Nat
  PROVE  Min({a, b}) = IF a <= b THEN a ELSE b
<1>1. Min({a, b}) \in {a, b} /\ \A y \in {a, b} : Min({a, b}) <= y
  <2>1. \E x \in {a, b} : \A y \in {a, b} : x <= y
    OBVIOUS
  <2> QED  BY <2>1 DEF Min
<1> QED  BY <1>1

LEMMA Lengths ==
  /\ Window \in Nat /\ Window > 0 /\ o_searchTimeout < Window
  /\ Oldest \in Nat /\ Oldest >= Window /\ Oldest > Period
<1>1. Window \in Nat /\ Window > 0 /\ o_searchTimeout < Window
  BY WindowAssumption DEF Window
<1> QED  BY <1>1, WindowAssumption, MaxOfTwo DEF Oldest

\* getRemainingDelayMs() never says more than what the window has left, and
\* nothing only when the first window is over.
LEMMA RemainingDelayIs ==
  ASSUME TypeOK, SearchedSince, DoneAfterWindow
  PROVE  /\ RemainingDelay \in 0..Window
         /\ RemainingDelay + o_lastSearch <= Window \/ RemainingDelay = 0
         /\ RemainingDelay = 0 => opened = Window
BY Lengths DEF TypeOK, SearchedSince, DoneAfterWindow, RemainingDelay

\* A search makes the last one younger, or leaves it.
LEMMA ExpireDevicesIs ==
  ASSUME TypeOK, ExpireDevices
  PROVE  /\ present' \in BOOLEAN
         /\ o_lastSearch' \in {0, o_lastSearch}
BY WindowAssumption DEF TypeOK, ExpireDevices, SearchedAgain

-----------------------------------------------------------------------------
(* The invariant.                                                           *)

LEMMA InvInit == Init => IInv
<1> SUFFICES ASSUME Init PROVE IInv
  OBVIOUS
<1> USE DEF Init
<1>0. 0 \in 0..Oldest /\ 0 \in 0..Window /\ 0 \in 0..MaxEvents
  BY Lengths, WindowAssumption
<1>1. TypeOK
  BY <1>0 DEF TypeOK, UserPC
<1>2. SearchedSince /\ DoneAfterWindow /\ DelayWithinWindow
  BY Lengths DEF SearchedSince, DoneAfterWindow, DelayWithinWindow
<1>3. TraverseComplete /\ FailsOnlyAfterWindow
  BY DEF TraverseComplete, FailsOnlyAfterWindow
<1> QED  BY <1>1, <1>2, <1>3 DEF IInv

\* Whatever moves the last search to now or leaves it, and waits alone, keeps
\* what is said of the times.
LEMMA TimesKept ==
  ASSUME IInv, o_lastSearch' \in {0, o_lastSearch},
         UNCHANGED <<opened, o_initialSearchDone, ms>>
  PROVE  SearchedSince' /\ DoneAfterWindow' /\ DelayWithinWindow'
BY Lengths DEF IInv, TypeOK, SearchedSince, DoneAfterWindow, DelayWithinWindow

LEMMA TickKeeps == IInv /\ Tick => IInv'
<1> SUFFICES ASSUME IInv, Tick PROVE IInv'
  OBVIOUS
<1> USE Lengths DEF IInv, TypeOK, Tick, poolVars
<1>1. /\ o_lastSearch' = IF o_lastSearch + 1 <= Oldest THEN o_lastSearch + 1 ELSE Oldest
      /\ opened' = IF opened + 1 <= Window THEN opened + 1 ELSE Window
  BY MinOfTwo
<1>2. \A u \in Users : ms'[u] = IF ms[u] = 0 THEN 0 ELSE ms[u] - 1
  BY MaxOfTwo DEF NextWait
<1>3. ms' \in [Users -> 0..Window]
  BY <1>2
<1>4. TypeOK'
  BY <1>1, <1>3, WindowAssumption
<1>5. SearchedSince' /\ DoneAfterWindow'
  BY <1>1 DEF SearchedSince, DoneAfterWindow
<1>6. DelayWithinWindow'
  BY <1>1, <1>2 DEF DelayWithinWindow
<1>7. opened = Window => opened' = Window
  BY <1>1
<1>8. TraverseComplete' /\ FailsOnlyAfterWindow'
  BY <1>7 DEF TraverseComplete, FailsOnlyAfterWindow, Window
<1> QED  BY <1>4, <1>5, <1>6, <1>8

LEMMA InvNext == IInv /\ [Next]_vars => IInv'
<1> SUFFICES ASSUME IInv, [Next]_vars PROVE IInv'
  OBVIOUS
<1> USE DEF IInv
<1>1. CASE Tick
  BY <1>1, TickKeeps
<1>2. ASSUME Event \/ UNCHANGED events PROVE events' \in 0..MaxEvents
  BY <1>2, WindowAssumption DEF Event, TypeOK
<1>3. ASSUME events' \in 0..MaxEvents,
             Insert \/ Byebye \/ TakeTimeout \/ DeviceFound
      PROVE  IInv'
  <2>1. /\ UNCHANGED <<opened, o_initialSearchDone, upc, ms>>
        /\ o_lastSearch' \in {0, o_lastSearch} /\ present' \in BOOLEAN
        /\ epc' \in {"take", "visit"} /\ devWaitCond' \subseteq Users
    BY <1>3, ExpireDevicesIs
       DEF Insert, Byebye, TakeTimeout, DeviceFound, timeVars, waitVars, TypeOK
  <2>2. TypeOK'
    BY <1>3, <2>1, Lengths DEF TypeOK
  <2> QED  BY <2>1, <2>2, TimesKept DEF TraverseComplete, FailsOnlyAfterWindow
<1>4. ASSUME events' \in 0..MaxEvents, NEW u \in Users,
             TraverseCall(u) \/ TraverseWakes(u) \/ LookSleeps(u) \/ LookWakes(u)
               \/ LookFails(u)
      PROVE  IInv'
  <2> USE DEF TraverseCall, TraverseWakes, LookSleeps, LookWakes, LookFails,
              AfterTraverseWait, Goto, timeVars, poolVars
  <2>1. UNCHANGED <<o_lastSearch, opened, o_initialSearchDone, present, epc, ms>>
    BY <1>4
  <2>2. /\ upc' \in [Users -> UserPC] /\ devWaitCond' \subseteq Users
        /\ \A v \in Users :
             /\ upc'[v] = "visit" => upc[v] = "visit" \/ o_initialSearchDone
             /\ upc'[v] = "failed" => upc[v] = "failed"
    BY <1>4 DEF TypeOK, UserPC
  <2>3. TypeOK'
    BY <1>4, <2>1, <2>2 DEF TypeOK
  <2>4. TraverseComplete' /\ FailsOnlyAfterWindow'
    BY <2>1, <2>2 DEF TraverseComplete, FailsOnlyAfterWindow, DoneAfterWindow
  <2> QED  BY <2>1, <2>3, <2>4, TimesKept
<1>5. ASSUME events' \in 0..MaxEvents, NEW u \in Users, TraverseVisit(u) \/ LookupCall(u)
      PROVE  IInv'
  <2>1. /\ UNCHANGED <<opened, o_initialSearchDone, epc, ms, devWaitCond>>
        /\ o_lastSearch' \in {0, o_lastSearch} /\ present' \in BOOLEAN
        /\ upc' \in [Users -> UserPC]
        /\ \A v \in Users : upc'[v] \in {"visit", "failed"} => upc'[v] = upc[v]
    BY <1>5, ExpireDevicesIs DEF TraverseVisit, LookupCall, Goto, TypeOK, UserPC
  <2>2. TypeOK'
    BY <1>5, <2>1, Lengths DEF TypeOK
  <2> QED  BY <2>1, <2>2, TimesKept DEF TraverseComplete, FailsOnlyAfterWindow
<1>6. ASSUME events' \in 0..MaxEvents, NEW u \in Users, TraverseTest(u) \/ Look(u)
      PROVE  IInv'
  <2> USE DEF TraverseTest, Look, Goto, timeVars, poolVars
  <2>1. /\ UNCHANGED <<o_lastSearch, opened, present, epc>>
        /\ ms' = [ms EXCEPT ![u] = RemainingDelay]
        /\ devWaitCond' \subseteq Users
    BY <1>6 DEF TypeOK
  <2>2. /\ upc' \in [Users -> UserPC]
        /\ \A v \in Users :
             upc'[v] \in {"visit", "failed"} => upc'[v] = upc[v] \/ RemainingDelay = 0
        /\ o_initialSearchDone' \in BOOLEAN
        /\ o_initialSearchDone' => o_initialSearchDone \/ RemainingDelay = 0
    <3>1. RemainingDelay \in Nat /\ (RemainingDelay > 0 <=> RemainingDelay # 0)
      BY RemainingDelayIs, Lengths
    <3>2. CASE TraverseTest(u)
      BY <3>1, <3>2 DEF TypeOK, UserPC
    <3>3. CASE Look(u)
      BY <3>1, <3>3 DEF TypeOK, UserPC
    <3> QED  BY <1>6, <3>2, <3>3
  <2>3. TypeOK'
    BY <1>6, <2>1, <2>2, RemainingDelayIs DEF TypeOK
  <2>4. SearchedSince' /\ DoneAfterWindow'
    BY <2>1, <2>2, RemainingDelayIs DEF SearchedSince, DoneAfterWindow, Window
  <2>5. DelayWithinWindow'
    BY <2>1, RemainingDelayIs DEF DelayWithinWindow, TypeOK, Window
  <2>6. TraverseComplete' /\ FailsOnlyAfterWindow'
    BY <2>1, <2>2, RemainingDelayIs DEF TraverseComplete, FailsOnlyAfterWindow, Window
  <2> QED  BY <2>3, <2>4, <2>5, <2>6
<1>7. CASE UNCHANGED vars
  BY <1>7 DEF vars, timeVars, poolVars, waitVars, TypeOK, SearchedSince, DoneAfterWindow,
              DelayWithinWindow, TraverseComplete, FailsOnlyAfterWindow, Window
<1>8. CASE Event /\ Happens
  BY <1>2, <1>3, <1>4, <1>5, <1>8 DEF Happens, Wake
<1>9. CASE UNCHANGED events /\ DeviceFound
  BY <1>2, <1>3, <1>9
<1>10. ASSUME NEW u \in Users, Run(u) PROVE IInv'
  BY <1>2, <1>4, <1>5, <1>6, <1>10 DEF Run, Wake
<1> QED  BY <1>1, <1>7, <1>8, <1>9, <1>10 DEF Next

LEMMA Invariance == Spec => []IInv
BY InvInit, InvNext, PTL DEF Spec

-----------------------------------------------------------------------------
(* The properties.                                                          *)

\* Every variable keeps its type: no age and no wait leaves its range.
THEOREM TypeCorrect == Spec => []TypeOK
<1>1. IInv => TypeOK
  BY DEF IInv
<1> QED  BY <1>1, Invariance, PTL

\* traverse() shows nobody the pool before the first search window is over.
THEOREM TraverseCompleteHolds == Spec => []TraverseComplete
<1>1. IInv => TraverseComplete
  BY DEF IInv
<1> QED  BY <1>1, Invariance, PTL

\* A lookup does not fail before the first search window is over.
THEOREM FailsOnlyAfterWindowHolds == Spec => []FailsOnlyAfterWindow
<1>1. IInv => FailsOnlyAfterWindow
  BY DEF IInv
<1> QED  BY <1>1, Invariance, PTL

\* Nobody sleeps longer than the window of the last search.
THEOREM SleepWithinWindowHolds == Spec => []SleepWithinWindow
<1>1. IInv => SleepWithinWindow
  BY DEF IInv, DelayWithinWindow, SleepWithinWindow
<1> QED  BY <1>1, Invariance, PTL

\* The first search window is kept from both sides.
THEOREM WindowKeptHolds == Spec => []WindowKept
<1>1. TraverseComplete /\ FailsOnlyAfterWindow /\ SleepWithinWindow => WindowKept
  BY DEF WindowKept
<1> QED
  BY <1>1, TraverseCompleteHolds, FailsOnlyAfterWindowHolds, SleepWithinWindowHolds, PTL
=============================================================================
