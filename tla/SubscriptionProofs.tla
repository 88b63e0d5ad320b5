-------------------------- MODULE SubscriptionProofs --------------------------
(***************************************************************************)
(* Proofs about Subscription, for all services and SIDs, and any number of *)
(* events under way.  Those about the callbacks suppose, as the runs do,   *)
(* that the program does not install a reporter over another one.          *)
(***************************************************************************)
EXTENDS Subscription, TLAPS

\* The operation that a thread executes, by where it is.
Placed ==
  \A s \in Services :
    /\ pc[s] \in {"unsubscribe", "unlink"} => op[s] \in {"uninstall", "destroy", "reSubscribe"}
    /\ pc[s] \in {"subscribe", "link"} => op[s] \in {"install", "reSubscribe"}
    /\ pc[s] = "report" => op[s] \in {"install", "uninstall"}

Shape == TypeOK /\ Placed

\* No SID belongs to two services.
Distinct == \A s, t \in Services : SID[s] # None /\ SID[s] = SID[t] => s = t

\* A service that subscribes has no SID; from the moment its callback is linked
\* until it is unlinked, a service that has one finds its callback there.
Linked ==
  \A s \in Services :
    /\ pc[s] = "subscribe" => SID[s] = None
    /\ SID[s] # None /\ pc[s] # "link" => o_calls[SID[s]] = s

\* A callback runs only while it is linked: cblock is held.
RunsLinked == \A s \in Services : Running(s) => o_calls[calling.event.sid] = s

\* What was uninstalled has no SID.
NoSIDLeft ==
  \A s \in Services :
    op[s] = "uninstall" /\ pc[s] \in {"report", "idle"} => SID[s] = None

IInv == Shape /\ LinkedOnce /\ Distinct /\ Linked /\ RunsLinked /\ NoSIDLeft

-----------------------------------------------------------------------------
(* Where unregisterCallback() goes on.                                      *)

LEMMA AfterUnregisterIs ==
  /\ AfterUnregister["uninstall"] = "report"
  /\ AfterUnregister["destroy"] = "dead"
  /\ AfterUnregister["reSubscribe"] = "subscribe"
BY DEF AfterUnregister

LEMMA NoCallIs ==
  ASSUME TypeOK
  PROVE  /\ NoCall.service = None
         /\ calling # NoCall => /\ calling.service \in Services
                                /\ calling.event \in Event
                                /\ calling.event.sid \in SIDs
         /\ \A s \in Services : Running(s) <=> calling # NoCall /\ calling.service = s
BY SubscriptionAssumption DEF TypeOK, NoCall, Running, Event

\* An event that joins the ones under way.
LEMMA EventsGrow ==
  ASSUME events \subseteq Event, NEW x \in SIDs, NEW initial \in BOOLEAN
  PROVE  events \cup {[sid |-> x, initial |-> initial]} \subseteq Event
BY DEF Event

-----------------------------------------------------------------------------
(* Types, and the places of the operations: for any program.                *)

LEMMA ShapeInit == Init => Shape
BY SubscriptionAssumption
   DEF Init, Shape, TypeOK, Placed, ServicePC, Operation, NoCall, Event

LEMMA ShapeNext == Shape /\ [Next]_vars => Shape'
<1> SUFFICES ASSUME Shape, [Next]_vars PROVE Shape'
  OBVIOUS
<1> USE SubscriptionAssumption
<1>1. ASSUME NEW x \in SIDs, Change(x) \/ AutoRenewalFailed(x) PROVE Shape'
  <2>1. events' \subseteq Event
    BY <1>1, EventsGrow DEF Change, AutoRenewalFailed, Shape, TypeOK
  <2> QED
    BY <1>1, <2>1
       DEF Change, AutoRenewalFailed, Shape, TypeOK, Placed, callVars, threadVars
<1>2. ASSUME NEW e \in events, SrvCBFind(e) PROVE Shape'
  BY <1>2 DEF SrvCBFind, Becomes, Shape, TypeOK, Placed, Event, threadVars
<1>3. CASE SrvCBCall
  BY <1>3, NoCallIs DEF SrvCBCall, Becomes, Shape, TypeOK, Placed, libVars, threadVars
<1>4. ASSUME NEW s \in Services, UserCall(s) PROVE Shape'
  <2>1. CASE Install(s)
    BY <2>1 DEF Install, Call, Goto, Shape, TypeOK, Placed, ServicePC, Operation,
                libVars, callVars
  <2>2. CASE Uninstall(s)
    BY <2>2, AfterUnregisterIs
       DEF Uninstall, Unregister, Call, Goto, Shape, TypeOK, Placed, ServicePC, Operation,
           libVars, callVars
  <2>3. CASE ReSubscribe(s)
    <3>1. ASSUME NEW where \in {"idle", "unsubscribe"}, where = "unsubscribe" => SID[s] # None,
                 Call(s, "reSubscribe", where), result' \in [Services -> BOOLEAN],
                 UNCHANGED <<libVars, callVars, SID, reporter, first>>
          PROVE  Shape'
      BY <3>1 DEF Call, Goto, Shape, TypeOK, Placed, ServicePC, Operation, libVars, callVars
    <3>2. result \in [Services -> BOOLEAN]
      BY DEF Shape, TypeOK
    <3> QED  BY <2>3, <3>1, <3>2 DEF ReSubscribe
  <2>4. CASE Destroy(s)
    BY <2>4, AfterUnregisterIs
       DEF Destroy, Unregister, Call, Goto, Shape, TypeOK, Placed, ServicePC, Operation,
           libVars, callVars
  <2> QED  BY <1>4, <2>1, <2>2, <2>3, <2>4 DEF UserCall
<1>5. ASSUME NEW s \in Services, Run(s) PROVE Shape'
  <2>1. CASE Subscribe(s)
    <3>1. events' \subseteq Event
      BY <2>1, EventsGrow DEF Subscribe, Shape, TypeOK
    <3> QED
      BY <2>1, <3>1 DEF Subscribe, Goto, Shape, TypeOK, Placed, ServicePC, callVars
  <2>2. CASE SubscribeFails(s)
    BY <2>2 DEF SubscribeFails, EndRegister, Goto, Shape, TypeOK, Placed, ServicePC,
                libVars, callVars
  <2>3. CASE Link(s)
    BY <2>3 DEF Link, EndRegister, Goto, Shape, TypeOK, Placed, ServicePC, libVars
  <2>4. CASE UnSubscribe(s)
    BY <2>4 DEF UnSubscribe, Goto, Shape, TypeOK, Placed, ServicePC, callVars
  <2>5. CASE Unlink(s)
    BY <2>5, AfterUnregisterIs
       DEF Unlink, Unlinked, SIDAfterUnlink, Goto, Shape, TypeOK, Placed, ServicePC, libVars
  <2>6. CASE SetReporter(s)
    BY <2>6 DEF SetReporter, Goto, Shape, TypeOK, Placed, ServicePC, libVars, callVars
  <2> QED  BY <1>5, <2>1, <2>2, <2>3, <2>4, <2>5, <2>6 DEF Run
<1>6. CASE UNCHANGED vars
  BY <1>6 DEF vars, Shape, TypeOK, Placed, libVars, callVars, threadVars
<1> QED  BY <1>1, <1>2, <1>3, <1>4, <1>5, <1>6 DEF Next

\* Every variable keeps its type, and whoever links, unsubscribes or unlinks has
\* a SID to do it with.
THEOREM TypeCorrect == Spec => []TypeOK
<1>1. Shape => TypeOK
  BY DEF Shape
<1> QED  BY <1>1, ShapeInit, ShapeNext, PTL DEF Spec

-----------------------------------------------------------------------------
(* SIDs and callbacks, when no reporter is installed over another.          *)

LEMMA InvInit == Init => IInv
<1> SUFFICES ASSUME Init PROVE IInv
  OBVIOUS
<1>1. Shape
  BY ShapeInit
<1>2. LinkedOnce /\ Distinct /\ Linked /\ NoSIDLeft
  BY SubscriptionAssumption DEF Init, LinkedOnce, Distinct, Linked, NoSIDLeft
<1>3. RunsLinked
  BY DEF Init, RunsLinked, Running
<1> QED  BY <1>1, <1>2, <1>3 DEF IInv

\* What the parts of the invariant depend on.
LEMMA InvUnchanged ==
  ASSUME IInv, Shape', UNCHANGED <<o_calls, calling, SID, pc, op>>
  PROVE  IInv'
BY DEF IInv, LinkedOnce, Distinct, Linked, RunsLinked, NoSIDLeft, Running

\* A service that runs its callback has the SID of the event.
LEMMA RunningHasSID ==
  ASSUME IInv, NEW s \in Services, Running(s)
  PROVE  SID[s] = calling.event.sid /\ SID[s] # None
<1>1. calling.event.sid \in SIDs
  BY NoCallIs DEF IInv, Shape
<1> QED  BY <1>1, SubscriptionAssumption DEF IInv, RunsLinked, LinkedOnce

\* A thread that goes to another place without touching SIDs and callbacks.
LEMMA InvGoto ==
  ASSUME IInv, Shape', UNCHANGED <<o_calls, calling, SID>>, NEW s \in Services,
         NEW where \in ServicePC, NEW what \in Operation,
         pc' = [pc EXCEPT ![s] = where], op' = [op EXCEPT ![s] = what],
         where = "subscribe" => SID[s] = None,
         pc[s] = "link" => SID[s] = None,
         what = "uninstall" /\ where \in {"report", "idle"} => SID[s] = None
  PROVE  IInv'
<1> USE DEF IInv, Shape, TypeOK
<1>1. LinkedOnce' /\ Distinct'
  BY DEF LinkedOnce, Distinct
<1>2. Linked'
  BY DEF Linked
<1>3. RunsLinked'
  BY DEF RunsLinked, Running
<1>4. NoSIDLeft'
  BY DEF NoSIDLeft
<1> QED  BY <1>1, <1>2, <1>3, <1>4

LEMMA InvNext ==
  ASSUME ~ReinstallAllowed
  PROVE  IInv /\ [Next]_vars => IInv'
<1> SUFFICES ASSUME IInv, [Next]_vars PROVE IInv'
  OBVIOUS
<1> USE SubscriptionAssumption
<1>0. Shape /\ Shape'
  BY ShapeNext DEF IInv
<1>1. ASSUME NEW x \in SIDs, Change(x) \/ AutoRenewalFailed(x) PROVE IInv'
  BY <1>0, <1>1, InvUnchanged DEF Change, AutoRenewalFailed, callVars, threadVars
<1>2. ASSUME NEW e \in events, SrvCBFind(e) PROVE IInv'
  <2> USE DEF SrvCBFind, threadVars
  <2>1. e.sid \in SIDs
    BY <1>0 DEF Shape, TypeOK, Event
  <2>2. LinkedOnce' /\ Distinct' /\ Linked' /\ NoSIDLeft'
    BY <1>2 DEF IInv, LinkedOnce, Distinct, Linked, NoSIDLeft
  <2>3. RunsLinked'
    BY <1>2, <2>1 DEF RunsLinked, Running
  <2> QED  BY <1>0, <2>2, <2>3 DEF IInv
<1>3. CASE SrvCBCall
  <2>1. LinkedOnce' /\ Distinct' /\ Linked' /\ NoSIDLeft'
    BY <1>3 DEF SrvCBCall, threadVars, IInv, LinkedOnce, Distinct, Linked, NoSIDLeft
  <2>2. RunsLinked'
    BY <1>3 DEF SrvCBCall, RunsLinked, Running
  <2> QED  BY <1>0, <2>1, <2>2 DEF IInv
<1>4. ASSUME NEW s \in Services, UserCall(s) PROVE IInv'
  <2> USE <1>0 DEF Call, Goto, callVars
  <2>1. CASE Install(s)
    BY <2>1, InvGoto DEF Install, ServicePC, Operation
  <2>2. CASE Uninstall(s)
    <3>1. /\ Unregister(s, "uninstall") \in ServicePC
          /\ Unregister(s, "uninstall") \notin {"subscribe", "idle"}
          /\ Unregister(s, "uninstall") = "report" => SID[s] = None
      BY AfterUnregisterIs DEF Unregister, ServicePC
    <3> QED  BY <2>2, <3>1, InvGoto DEF Uninstall, Operation
  <2>3. CASE ReSubscribe(s)
    <3>1. CASE SID[s] = None \/ o_calls[SID[s]] = None
      BY <2>3, <3>1, InvGoto DEF ReSubscribe, ServicePC, Operation
    <3>2. CASE ~(SID[s] = None \/ o_calls[SID[s]] = None)
      BY <2>3, <3>2, InvGoto DEF ReSubscribe, ServicePC, Operation
    <3> QED  BY <3>1, <3>2
  <2>4. CASE Destroy(s)
    <3>1. /\ Unregister(s, "destroy") \in ServicePC
          /\ Unregister(s, "destroy") # "subscribe"
      BY AfterUnregisterIs DEF Unregister, ServicePC
    <3> QED  BY <2>4, <3>1, InvGoto DEF Destroy, Operation
  <2> QED  BY <1>4, <2>1, <2>2, <2>3, <2>4 DEF UserCall
<1>5. ASSUME NEW s \in Services, Run(s) PROVE IInv'
  <2> USE <1>0
  <2>1. CASE Subscribe(s)
    <3> USE <2>1 DEF Subscribe, Goto, callVars
    <3>1. PICK x \in SIDs : Fresh(x) /\ SID' = [SID EXCEPT ![s] = x]
      OBVIOUS
    <3>2. SID[s] = None /\ op[s] # "uninstall"
      BY DEF IInv, Linked, Shape, Placed
    <3>3. o_calls[x] = None /\ \A t \in Services : SID[t] # x
      BY <3>1 DEF Fresh
    <3>4. LinkedOnce' /\ Distinct' /\ Linked' /\ NoSIDLeft'
      BY <3>1, <3>2, <3>3
         DEF IInv, Shape, TypeOK, LinkedOnce, Distinct, Linked, NoSIDLeft
    <3>5. RunsLinked'
      BY DEF IInv, RunsLinked, Running
    <3> QED  BY <3>4, <3>5 DEF IInv
  <2>2. CASE SubscribeFails(s)
    <3>1. SID[s] = None /\ op[s] \in {"install", "reSubscribe"}
      BY <2>2 DEF SubscribeFails, IInv, Linked, Shape, Placed
    <3>2. SID' = SID
      BY <2>2, <3>1 DEF SubscribeFails, Shape, TypeOK
    <3>3. op' = [op EXCEPT ![s] = op[s]] /\ op[s] \in Operation
      BY <2>2 DEF SubscribeFails, Shape, TypeOK
    <3> QED
      BY <2>2, <3>1, <3>2, <3>3, InvGoto
         DEF SubscribeFails, EndRegister, Goto, callVars, ServicePC
  <2>3. CASE Link(s)
    <3> USE <2>3 DEF Link, EndRegister, Goto
    <3>1. SID[s] # None /\ SID[s] \in SIDs /\ op[s] \in {"install", "reSubscribe"}
      BY DEF Shape, TypeOK, Placed
    <3>2. LinkedOnce'
      BY <3>1 DEF IInv, Shape, TypeOK, LinkedOnce
    <3>3. Linked'
      BY <3>1 DEF IInv, Shape, TypeOK, Distinct, Linked
    <3>4. Distinct' /\ NoSIDLeft'
      BY <3>1 DEF IInv, Shape, TypeOK, Distinct, NoSIDLeft
    <3>5. RunsLinked'
      BY DEF CblockFree, RunsLinked, Running
    <3> QED  BY <3>2, <3>3, <3>4, <3>5 DEF IInv
  <2>4. CASE UnSubscribe(s)
    <3>1. op' = [op EXCEPT ![s] = op[s]] /\ op[s] \in Operation
      BY <2>4 DEF UnSubscribe, Shape, TypeOK
    <3> QED
      BY <2>4, <3>1, InvGoto DEF UnSubscribe, Goto, callVars, ServicePC
  <2>5. CASE Unlink(s)
    <3> USE <2>5 DEF Unlink, Unlinked, SIDAfterUnlink, Goto
    <3>1. SID[s] # None /\ SID[s] \in SIDs /\ o_calls[SID[s]] = s
      BY DEF IInv, Shape, TypeOK, Linked
    <3>2. LinkedOnce' /\ Distinct'
      BY <3>1 DEF IInv, Shape, TypeOK, LinkedOnce, Distinct
    <3>3. Linked' /\ NoSIDLeft'
      BY <3>1 DEF IInv, Shape, TypeOK, Distinct, Linked, NoSIDLeft
    <3>4. RunsLinked'
      BY DEF Lockable, CblockFree, RunsLinked, Running
    <3> QED  BY <3>2, <3>3, <3>4 DEF IInv
  <2>6. CASE SetReporter(s)
    <3>1. op' = [op EXCEPT ![s] = op[s]] /\ op[s] \in Operation
      BY <2>6 DEF SetReporter, Shape, TypeOK
    <3>2. op[s] = "uninstall" => SID[s] = None
      BY <2>6 DEF SetReporter, IInv, NoSIDLeft
    <3> QED
      BY <2>6, <3>1, <3>2, InvGoto
         DEF SetReporter, Goto, libVars, callVars, ServicePC
  <2> QED  BY <1>5, <2>1, <2>2, <2>3, <2>4, <2>5, <2>6 DEF Run
<1>6. CASE UNCHANGED vars
  BY <1>0, <1>6, InvUnchanged DEF vars, callVars, threadVars
<1> QED  BY <1>1, <1>2, <1>3, <1>4, <1>5, <1>6 DEF Next

LEMMA Invariance ==
  ASSUME ~ReinstallAllowed
  PROVE  Spec => []IInv
BY InvInit, InvNext, PTL DEF Spec

-----------------------------------------------------------------------------
(* The properties.                                                          *)

\* A callback is linked to the last SID of its service and to no other.
THEOREM LinkedOnceHolds ==
  ASSUME ~ReinstallAllowed
  PROVE  Spec => []LinkedOnce
<1>1. IInv => LinkedOnce
  BY DEF IInv
<1> QED  BY <1>1, Invariance, PTL

\* ok() tells that events reach the service.
THEOREM OkTellsHolds ==
  ASSUME ~ReinstallAllowed
  PROVE  Spec => []OkTells
<1>1. IInv => OkTells
  BY DEF IInv, Linked, OkTells
<1> QED  BY <1>1, Invariance, PTL

\* After installReporter() of none, no callback of the service is linked or runs.
THEOREM ForgottenHolds ==
  ASSUME ~ReinstallAllowed
  PROVE  Spec => []Forgotten
<1>1. IInv => Forgotten
  <2> SUFFICES ASSUME IInv, NEW s \in Services, pc[s] = "idle", op[s] = "uninstall"
               PROVE  ~Running(s) /\ \A x \in SIDs : o_calls[x] # s
    BY DEF Forgotten
  <2>1. SID[s] = None
    BY DEF IInv, NoSIDLeft
  <2>2. ~Running(s)
    BY <2>1, RunningHasSID
  <2>3. \A x \in SIDs : o_calls[x] # s
    BY <2>1, SubscriptionAssumption DEF IInv, LinkedOnce
  <2> QED  BY <2>2, <2>3
<1> QED  BY <1>1, Invariance, PTL

\* The callback of a service does not run when its derived object is gone, if
\* programs remove the reporter before.
Gone == \A s \in Services : op[s] = "destroy" => pc[s] = "dead" /\ SID[s] = None

THEOREM CalledWholeHolds ==
  ASSUME ~ReinstallAllowed, ~DestroyRegistered
  PROVE  Spec => []CalledWhole
<1>1. Init => Gone
  BY DEF Init, Gone
<1>2. IInv /\ Gone /\ [Next]_vars => Gone'
  <2> SUFFICES ASSUME IInv, Gone, [Next]_vars PROVE Gone'
    OBVIOUS
  <2> USE DEF IInv, Shape, TypeOK, Gone
  <2>1. CASE UNCHANGED <<pc, op, SID>>
    BY <2>1
  <2>2. ASSUME NEW s \in Services, Install(s) \/ Uninstall(s) \/ ReSubscribe(s) PROVE Gone'
    BY <2>2 DEF Install, Uninstall, ReSubscribe, Call, Goto
  <2>3. ASSUME NEW s \in Services, Destroy(s) PROVE Gone'
    BY <2>3, AfterUnregisterIs DEF Destroy, Unregister, Call, Goto
  <2>4. ASSUME NEW s \in Services, Run(s) PROVE Gone'
    BY <2>4 DEF Run, Subscribe, SubscribeFails, Link, UnSubscribe, Unlink, SetReporter,
                EndRegister, Goto
  <2>5. CASE UNCHANGED vars
    BY <2>1, <2>5 DEF vars, threadVars
  <2>6. ASSUME \/ \E x \in SIDs : Change(x) \/ AutoRenewalFailed(x)
               \/ \E e \in events : SrvCBFind(e)
               \/ SrvCBCall
        PROVE  UNCHANGED <<pc, op, SID>>
    BY <2>6 DEF Change, AutoRenewalFailed, SrvCBFind, SrvCBCall, threadVars
  <2> QED  BY <2>1, <2>2, <2>3, <2>4, <2>5, <2>6 DEF Next, UserCall
<1>3. IInv /\ Gone => CalledWhole
  BY RunningHasSID DEF Gone, CalledWhole
<1> QED  BY <1>1, <1>2, <1>3, Invariance, PTL DEF Spec

\* The table of callbacks and the SIDs agree both ways.
THEOREM TablesAgreeHolds ==
  ASSUME ~ReinstallAllowed
  PROVE  Spec => []TablesAgree
<1>1. LinkedOnce /\ OkTells => TablesAgree
  BY DEF TablesAgree
<1> QED  BY <1>1, LinkedOnceHolds, OkTellsHolds, PTL

\* Nothing is called once its end has returned, of programs that remove a
\* reporter before they install another one or destroy the service.
THEOREM NeverCalledAfterHolds ==
  ASSUME ~ReinstallAllowed, ~DestroyRegistered
  PROVE  Spec => []NeverCalledAfter
<1>1. Forgotten /\ CalledWhole => NeverCalledAfter
  BY DEF NeverCalledAfter
<1> QED  BY <1>1, ForgottenHolds, CalledWholeHolds, PTL
=============================================================================
