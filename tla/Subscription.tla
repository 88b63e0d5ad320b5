----------------------------- MODULE Subscription -----------------------------
(***************************************************************************)
(* The event subscriptions of the control side, libupnpp/control/          *)
(* service.cxx: each Service object subscribes to the events of its        *)
(* service, links the subscription id (SID) it gets to its callback in     *)
(* o_calls, and libupnp threads call srvCB(), which finds the callback of  *)
(* an event by its SID and runs it with cblock held.                       *)
(*                                                                         *)
(* Each Service object has a thread of its own that calls it.  The SIDs    *)
(* are never reused in the code; here, one that nothing refers to any more *)
(* is as good as new.                                                      *)
(*                                                                         *)
(* A definition named Operation_Fault is a mutated form of Operation: the  *)
(* properties are tested by checking that they fail with it.               *)
(***************************************************************************)
EXTENDS FiniteSets, Naturals

CONSTANTS
  Services,          \* Service objects of the program
  SIDs,              \* subscription ids
  None,              \* no service, or the empty SID
  MaxEvents,         \* bound: the events under way
  ReinstallAllowed,  \* does the program install a reporter over another?
  DestroyRegistered  \* does it destroy objects that are still subscribed?

ASSUME SubscriptionAssumption ==
  /\ None \notin Services /\ None \notin SIDs
  /\ MaxEvents \in Nat
  /\ ReinstallAllowed \in BOOLEAN /\ DestroyRegistered \in BOOLEAN

VARIABLES
  subscribed, \* libupnp: the service that each live SID is a subscription to
  events,     \* libupnp: the events under way
  o_calls,    \* the service whose callback each SID is linked to
  calling,    \* the event and the callback that srvCB() runs, holding cblock
  SID,        \* the SID of each service
  reporter,   \* has it a reporter?
  pc,         \* where its thread is
  op,         \* the call it executes, or executed last
  result,     \* what reSubscribe() returned
  first       \* history: the event that came with the service's last subscription

libVars == <<subscribed, events>>
callVars == <<o_calls, calling>>
threadVars == <<pc, op, result>>
vars == <<libVars, callVars, SID, reporter, threadVars, first>>

ServicePC == {"idle", "subscribe", "link", "unsubscribe", "unlink", "report", "dead"}
Operation == {"none", "install", "uninstall", "reSubscribe", "destroy"}
Event == [sid : SIDs, initial : BOOLEAN]
NoCall == [service |-> None]
Running(s) == calling # NoCall /\ calling.service = s

TypeOK ==
  /\ subscribed \in [SIDs -> Services \cup {None}]
  /\ events \subseteq Event
  /\ o_calls \in [SIDs -> Services \cup {None}]
  /\ calling \in [service : Services, event : Event] \cup {NoCall}
  /\ SID \in [Services -> SIDs \cup {None}]
  /\ reporter \in [Services -> BOOLEAN]
  /\ pc \in [Services -> ServicePC]
  /\ op \in [Services -> Operation]
  /\ result \in [Services -> BOOLEAN]
  /\ first \in [Services -> {"none", "sent", "reported", "dropped"}]
  /\ \A s \in Services : pc[s] \in {"link", "unsubscribe", "unlink"} => SID[s] # None

Init ==
  /\ subscribed = [x \in SIDs |-> None]
  /\ events = {}
  /\ o_calls = [x \in SIDs |-> None]
  /\ calling = NoCall
  /\ SID = [s \in Services |-> None]
  /\ reporter = [s \in Services |-> FALSE]
  /\ pc = [s \in Services |-> "idle"]
  /\ op = [s \in Services |-> "none"]
  /\ result = [s \in Services |-> FALSE]
  /\ first = [s \in Services |-> "none"]

-----------------------------------------------------------------------------
(* libupnp and the network.                                                 *)

Fresh(x) ==
  /\ subscribed[x] = None /\ o_calls[x] = None
  /\ \A s \in Services : SID[s] # x
  /\ \A e \in events : e.sid # x
  /\ calling # NoCall => calling.event.sid # x

\* A variable of a service changes.
Change(x) ==
  /\ subscribed[x] # None
  /\ Cardinality(events) < MaxEvents
  /\ events' = events \cup {[sid |-> x, initial |-> FALSE]}
  /\ UNCHANGED <<subscribed, callVars, SID, reporter, threadVars, first>>

\* libupnp could not renew a subscription, and says so.
AutoRenewalFailed(x) ==
  /\ subscribed[x] # None
  /\ Cardinality(events) < MaxEvents
  /\ subscribed' = [subscribed EXCEPT ![x] = None]
  /\ events' = events \cup {[sid |-> x, initial |-> FALSE]}
  /\ UNCHANGED <<callVars, SID, reporter, threadVars, first>>

-----------------------------------------------------------------------------
(* srvCB(), from the taking of cblock to its release.                       *)

\* cblock is held as long as a callback runs; otherwise it is for one step.
CblockFree == calling = NoCall

\* What becomes of the first event of the subscription it was sent for.
Becomes(e, fate) ==
  first' = [s \in Services |-> IF e.initial /\ SID[s] = e.sid THEN fate ELSE first[s]]

SrvCBFind(e) ==
  /\ CblockFree
  /\ events' = events \ {e}
  /\ IF o_calls[e.sid] = None
       THEN calling' = NoCall /\ Becomes(e, "dropped")
       ELSE calling' = [service |-> o_calls[e.sid], event |-> e] /\ UNCHANGED first
  /\ UNCHANGED <<subscribed, o_calls, SID, reporter, threadVars>>

\* The service's evtCallback() does nothing without a reporter.
SrvCBCall ==
  /\ calling # NoCall
  /\ Becomes(calling.event, IF reporter[calling.service] THEN "reported" ELSE "dropped")
  /\ calling' = NoCall
  /\ UNCHANGED <<libVars, o_calls, SID, reporter, threadVars>>

-----------------------------------------------------------------------------
(* The calls on a service.                                                  *)

Goto(s, where) == pc' = [pc EXCEPT ![s] = where]
Call(s, what, where) ==
  /\ pc[s] = "idle"
  /\ op' = [op EXCEPT ![s] = what]
  /\ Goto(s, where)

\* installReporter() of a reporter.
Install(s) ==
  /\ SID[s] # None => ReinstallAllowed
  /\ Call(s, "install", "subscribe")
  /\ UNCHANGED <<libVars, callVars, SID, reporter, result, first>>

AfterUnregister == [uninstall |-> "report", destroy |-> "dead", reSubscribe |-> "subscribe"]
\* unregisterCallback() does nothing without a SID.
Unregister_Untested(s, what) == "unsubscribe"
Unregister(s, what) == IF SID[s] = None THEN AfterUnregister[what] ELSE "unsubscribe"

\* installReporter() of none.
Uninstall(s) ==
  /\ Call(s, "uninstall", Unregister(s, "uninstall"))
  /\ UNCHANGED <<libVars, callVars, SID, reporter, result, first>>

\* ~Service(), when the derived object is already gone.
Destroy(s) ==
  /\ SID[s] # None => DestroyRegistered
  /\ Call(s, "destroy", Unregister(s, "destroy"))
  /\ UNCHANGED <<libVars, callVars, SID, reporter, result, first>>

ReSubscribe(s) ==
  /\ SID[s] # None => CblockFree
  /\ IF SID[s] = None \/ o_calls[SID[s]] = None
       THEN Call(s, "reSubscribe", "idle") /\ result' = [result EXCEPT ![s] = FALSE]
       ELSE Call(s, "reSubscribe", "unsubscribe") /\ UNCHANGED result
  /\ UNCHANGED <<libVars, callVars, SID, reporter, first>>

\* UpnpSubscribe(): the device sends the values of the variables at once.
Subscribe(s) ==
  /\ pc[s] = "subscribe"
  /\ Cardinality(events) < MaxEvents
  /\ \E x \in SIDs :
       /\ Fresh(x)
       /\ subscribed' = [subscribed EXCEPT ![x] = s]
       /\ events' = events \cup {[sid |-> x, initial |-> TRUE]}
       /\ SID' = [SID EXCEPT ![s] = x]
  /\ first' = [first EXCEPT ![s] = "sent"]
  /\ Goto(s, "link")
  /\ UNCHANGED <<callVars, reporter, op, result>>

\* reSubscribe() returns true whatever registerCallback() did.
EndRegister(s) ==
  /\ Goto(s, IF op[s] = "install" THEN "report" ELSE "idle")
  /\ result' = [result EXCEPT ![s] = op[s] = "reSubscribe"]

\* It failed; it may have cleared the SID it had no value for.
SubscribeFails(s) ==
  /\ pc[s] = "subscribe"
  /\ \E sid \in {SID[s], None} : SID' = [SID EXCEPT ![s] = sid]
  /\ EndRegister(s)
  /\ UNCHANGED <<libVars, callVars, reporter, op, first>>

\* The callback is in o_calls, under cblock.
Link(s) ==
  /\ pc[s] = "link" /\ CblockFree
  /\ o_calls' = [o_calls EXCEPT ![SID[s]] = s]
  /\ EndRegister(s)
  /\ UNCHANGED <<libVars, calling, SID, reporter, op, first>>

\* UpnpUnSubscribe(), which may fail: the caller goes on in the same way.
UnSubscribe(s) ==
  /\ pc[s] = "unsubscribe"
  /\ \E who \in {None, subscribed[SID[s]]} :
       subscribed' = [subscribed EXCEPT ![SID[s]] = who]
  /\ Goto(s, "unlink")
  /\ UNCHANGED <<events, callVars, SID, reporter, op, result, first>>

\* The callback is out of o_calls, under cblock.
Lockable_NotLocked == TRUE
Lockable == CblockFree
Unlinked_Kept(s) == o_calls
Unlinked(s) == [o_calls EXCEPT ![SID[s]] = None]
SIDAfterUnlink_Kept(s) == SID[s]
SIDAfterUnlink(s) == None
Unlink(s) ==
  /\ pc[s] = "unlink" /\ Lockable
  /\ o_calls' = Unlinked(s)
  /\ SID' = [SID EXCEPT ![s] = SIDAfterUnlink(s)]
  /\ Goto(s, AfterUnregister[op[s]])
  /\ UNCHANGED <<libVars, calling, reporter, op, result, first>>

\* The end of installReporter().
SetReporter(s) ==
  /\ pc[s] = "report"
  /\ reporter' = [reporter EXCEPT ![s] = op[s] = "install"]
  /\ Goto(s, "idle")
  /\ UNCHANGED <<libVars, callVars, SID, op, result, first>>

-----------------------------------------------------------------------------

UserCall(s) == Install(s) \/ Uninstall(s) \/ ReSubscribe(s) \/ Destroy(s)
Run(s) ==
  \/ Subscribe(s) \/ SubscribeFails(s) \/ Link(s)
  \/ UnSubscribe(s) \/ Unlink(s) \/ SetReporter(s)

Next ==
  \/ \E x \in SIDs : Change(x) \/ AutoRenewalFailed(x)
  \/ \E e \in events : SrvCBFind(e)
  \/ SrvCBCall
  \/ \E s \in Services : UserCall(s) \/ Run(s)

Spec == Init /\ [][Next]_vars

-----------------------------------------------------------------------------
(* Properties.                                                              *)

\* A callback is linked to the last SID of its service and to no other: what is
\* linked at one call is what the next one unlinks, whatever calls failed.
LinkedOnce == \A x \in SIDs : o_calls[x] # None => SID[o_calls[x]] = x

\* Where ok() is true and no call executes, events reach the service: it has
\* the SID that its callback is linked to.
OkTells == \A s \in Services : pc[s] = "idle" /\ SID[s] # None => o_calls[SID[s]] = s

\* The table of callbacks and the SIDs of the services agree both ways, whatever
\* calls failed: no event goes to a wrong or an earlier callback, and ok() tells
\* that the events reach the service.
TablesAgree == LinkedOnce /\ OkTells

\* unregisterCallback(): "Cancel subscription to the service events, forget
\* installed callback".  When installReporter() of none has returned, no
\* callback of the service is linked, and none runs.
Forgotten ==
  \A s \in Services : pc[s] = "idle" /\ op[s] = "uninstall" =>
    ~Running(s) /\ \A x \in SIDs : o_calls[x] # s

\* The callback of a service does not run when its derived object is gone:
\* o_calls "allows the static function registered with libupnp to call the
\* appropriate object method".
CalledWhole == \A s \in Services : op[s] = "destroy" => ~Running(s)

\* Nothing is called any more once its end has returned: a reporter that was
\* removed, or a service that is being destroyed.
NeverCalledAfter == Forgotten /\ CalledWhole

\* reSubscribe() "to get all the State variable values": when it has returned
\* true, the values that came with the new subscription were not dropped.
ReSubscribedReports ==
  \A s \in Services : pc[s] = "idle" /\ result[s] => first[s] # "dropped"

\* reSubscribe() "Restart the subscription": when it has returned true, there is
\* one.
ReSubscribed == \A s \in Services : pc[s] = "idle" /\ result[s] => SID[s] # None
=============================================================================
