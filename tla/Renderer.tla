-------------------------------- MODULE Renderer --------------------------------
(***************************************************************************)
(* A renderer at the control point (MediaRenderer).  The accessors, rdc(), *)
(* avt(), ..., hand out the one object that stands for a service of the    *)
(* description, made when it is first asked for and kept only as long as   *)
(* somebody holds it; reSubscribeAll() renews the subscriptions of those   *)
(* that are there, one after the other in a fixed order, "when             *)
(* reconnecting after a device restarts".  Each of its calls to the device *)
(* may fail, and the device may restart, and the program use its handles   *)
(* in other threads, between any two of them.                              *)
(*                                                                         *)
(* A kind of service is its place in that order.  Of an object there is    *)
(* the subscription; what comes through it is in Subscription.  One thread *)
(* at a time is in reSubscribeAll(), and no other uses the weak pointer or *)
(* the object's SID at the very moment that it does (nothing locks them).  *)
(***************************************************************************)
EXTENDS Integers, SequencesExt, FiniteSets

CONSTANTS
  NKinds,     \* kinds of services
  MaxProxies, \* bound: proxies that are ever made
  MaxSids     \* bound: the SIDs that are given out

VARIABLES
  offered,    \* the kinds of the services in the description, in order
  proxies,    \* the proxies made: kind, service, does the program hold it, its SID
  cached,     \* for each kind the object that the weak pointer is to; 0 if none
  sids,       \* the SIDs that the device knows
  lastSid,    \* the last one that it has given
  forgotten,  \* the last one that it had given when it last restarted
  resub,      \* where reSubscribeAll() is: the kind, the object that it has locked,
              \* lastSid when it was called, and was anything in its way since?
  done        \* what reSubscribeAll() returned if that was the last step, and the
              \* kind that it had reached

rendererVars == <<offered, proxies, cached, sids, lastSid, forgotten, resub, done>>

ASSUME RendererAssumption == NKinds \in Nat /\ MaxProxies \in Nat /\ MaxSids \in Nat

Kinds == 1..NKinds
NoSid == 0
NoProxy == 0
NoCall == [at |-> "idle", kind |-> 0, obj |-> NoProxy, from |-> 0, disturbed |-> FALSE]
NotDone == [result |-> "none", kind |-> 0, from |-> 0, disturbed |-> FALSE]

-----------------------------------------------------------------------------

RendererInit ==
  /\ offered \in UNION {[1..n -> Kinds] : n \in 0..NKinds}
  /\ proxies = <<>> /\ cached = [k \in Kinds |-> NoProxy]
  /\ sids = {} /\ lastSid = NoSid /\ forgotten = NoSid
  /\ resub = NoCall /\ done = NotDone

\* lock() of a weak pointer finds the object that somebody holds.
IsThere(o) == o # NoProxy /\ (proxies[o].held \/ resub.obj = o)
Disturbs == resub' = IF resub = NoCall THEN NoCall ELSE [resub EXCEPT !.disturbed = TRUE]

\* rdc() and the others: lock() of the weak pointer, or the first service of the
\* kind.  The program keeps what it gets.
ServiceOf(k) == SelectInSeq(offered, LAMBDA d : d = k)
Accessor(k) ==
  /\ \/ /\ IsThere(cached[k])
        /\ proxies' = [proxies EXCEPT ![cached[k]].held = TRUE]
        /\ UNCHANGED <<cached, resub>>
     \/ /\ ~IsThere(cached[k]) /\ ServiceOf(k) = 0
        /\ cached' = [cached EXCEPT ![k] = NoProxy] /\ UNCHANGED <<proxies, resub>>
     \/ /\ ~IsThere(cached[k]) /\ ServiceOf(k) # 0
        /\ Len(proxies) < MaxProxies
        /\ proxies' = Append(proxies, [kind |-> k, service |-> ServiceOf(k),
                                       held |-> TRUE, sid |-> NoSid])
        /\ cached' = [cached EXCEPT ![k] = Len(proxies) + 1]
        /\ Disturbs
  /\ done' = NotDone
  /\ UNCHANGED <<offered, sids, lastSid, forgotten>>

\* unregisterCallback(): the object has no SID after it, whether or not the device
\* has heard the end of it.
Unregister(o) ==
  /\ proxies' = [proxies EXCEPT ![o].sid = NoSid]
  /\ sids' \in {sids, sids \ {proxies[o].sid}}
  /\ UNCHANGED lastSid
\* registerCallback(): the device gives a SID; or it has given one and the answer
\* is lost, or it was not reached.
Registered(o) ==
  /\ lastSid < MaxSids
  /\ lastSid' = lastSid + 1 /\ sids' = sids \cup {lastSid'}
  /\ proxies' = [proxies EXCEPT ![o].sid = lastSid']
NotRegistered ==
  \/ UNCHANGED <<proxies, sids, lastSid>>
  \/ /\ lastSid < MaxSids
     /\ lastSid' = lastSid + 1 /\ sids' = sids \cup {lastSid'} /\ UNCHANGED proxies

\* installReporter(), of a reporter when there was none (Subscription has the other
\* case, too), or of none.
InstallReporter(o, on) ==
  /\ proxies[o].held /\ o # resub.obj
  /\ IF on
     THEN proxies[o].sid = NoSid /\ (Registered(o) \/ NotRegistered) /\ UNCHANGED resub
     ELSE Unregister(o) /\ Disturbs
  /\ done' = NotDone
  /\ UNCHANGED <<offered, cached, forgotten>>
\* The program's last handle goes: the destructor ends the subscription, unless
\* reSubscribeAll() has the object.
Release(o) ==
  /\ proxies[o].held
  /\ IF o = resub.obj
     THEN proxies' = [proxies EXCEPT ![o].held = FALSE] /\ UNCHANGED sids
     ELSE /\ proxies' = [proxies EXCEPT ![o].held = FALSE, ![o].sid = NoSid]
          /\ sids' \in {sids, sids \ {proxies[o].sid}}
  /\ done' = NotDone
  /\ UNCHANGED <<offered, cached, lastSid, forgotten, resub>>

\* reSubscribeAll().  Kinds that have no object are passed over.
ReSubscribeAll ==
  /\ resub = NoCall
  /\ resub' = [NoCall EXCEPT !.at = "next", !.kind = 1, !.from = lastSid]
  /\ done' = NotDone
  /\ UNCHANGED <<offered, proxies, cached, sids, lastSid, forgotten>>
\* As if an object without a subscription were no reason to end.
Passes_WithoutSid(k) == IsThere(cached[k]) => proxies[cached[k]].sid = NoSid
Passes(k) == ~IsThere(cached[k])
Skip ==
  /\ resub.at = "next" /\ resub.kind \in Kinds /\ Passes(resub.kind)
  /\ resub' = [resub EXCEPT !.kind = @ + 1]
  /\ UNCHANGED <<offered, proxies, cached, sids, lastSid, forgotten, done>>
\* reSubscribe() ends the subscription that there is, ...
Renew ==
  /\ resub.at = "next" /\ resub.kind \in Kinds /\ ~Passes(resub.kind)
  /\ proxies[cached[resub.kind]].sid # NoSid
  /\ Unregister(cached[resub.kind])
  /\ resub' = [resub EXCEPT !.at = "subscribe", !.obj = cached[resub.kind]]
  /\ UNCHANGED <<offered, cached, forgotten, done>>
\* ... and makes another; it returns true even if it cannot.
Subscribe ==
  /\ resub.at = "subscribe"
  /\ \/ Registered(resub.obj) /\ resub' = [resub EXCEPT !.at = "drop"]
     \/ NotRegistered /\ resub' = [resub EXCEPT !.at = "drop", !.disturbed = TRUE]
  /\ UNCHANGED <<offered, cached, forgotten, done>>
\* The loop gives up its handle: the last one, if the program has none any more.
Drop ==
  /\ resub.at = "drop"
  /\ IF proxies[resub.obj].held THEN UNCHANGED <<proxies, sids, lastSid>> ELSE Unregister(resub.obj)
  /\ resub' = [resub EXCEPT !.at = "next", !.obj = NoProxy, !.kind = @ + 1]
  /\ UNCHANGED <<offered, cached, lastSid, forgotten, done>>
\* reSubscribe() fails for an object that has no subscription, which ends the loop.
Return(result) ==
  /\ done' = [result |-> result, kind |-> resub.kind, from |-> resub.from,
              disturbed |-> resub.disturbed]
  /\ resub' = NoCall
  /\ UNCHANGED <<offered, proxies, cached, sids, lastSid, forgotten>>
ReturnFalse ==
  /\ resub.at = "next" /\ resub.kind \in Kinds /\ ~Passes(resub.kind)
  /\ proxies[cached[resub.kind]].sid = NoSid
  /\ Return("false")
ReturnTrue == resub.at = "next" /\ resub.kind \notin Kinds /\ Return("true")

\* The device restarts: it has forgotten the subscriptions.
DeviceRestarts ==
  /\ sids' = {} /\ forgotten' = lastSid /\ sids # {}
  /\ done' = NotDone
  /\ UNCHANGED <<offered, proxies, cached, lastSid, resub>>

RendererNext ==
  \/ \E k \in Kinds : Accessor(k)
  \/ \E o \in DOMAIN proxies : Release(o) \/ \E on \in BOOLEAN : InstallReporter(o, on)
  \/ ReSubscribeAll \/ Skip \/ Renew \/ Subscribe \/ Drop \/ ReturnFalse \/ ReturnTrue
  \/ DeviceRestarts

RendererSpec == RendererInit /\ [][RendererNext]_rendererVars

RendererTypeOK ==
  /\ \A o \in DOMAIN proxies :
       /\ proxies[o].kind \in Kinds /\ offered[proxies[o].service] = proxies[o].kind
       /\ proxies[o].sid \in 0..lastSid
       /\ proxies[o].sid # NoSid => IsThere(o)
  /\ \A k \in Kinds : cached[k] \in 0..Len(proxies)
  /\ sids \subseteq (forgotten + 1)..lastSid
  /\ resub.kind \in 0..NKinds + 1 /\ resub.obj \in 0..Len(proxies) /\ resub.from \in 0..lastSid
  /\ resub.obj # NoProxy <=> resub.at \in {"subscribe", "drop"}

-----------------------------------------------------------------------------
(* Properties.                                                              *)

\* There is never a second object for a service while the program holds one, it
\* is the one that the renderer knows, and stands for the first service of its
\* kind; no two have one subscription, and what an object has, the device has
\* given and, unless it has restarted since, still knows.  After reSubscribeAll(),
\* whatever failed and whoever released, made or registered objects meanwhile, no
\* object that it has passed has a subscription from before.  It has left
\* none without one if no call has failed and nothing else was done; and when it
\* returns FALSE the object that it has ended at has none.
Held(o) == proxies[o].held
Subscribed(o) == proxies[o].sid # NoSid
OneHandleEach ==
  /\ \A o, p \in DOMAIN proxies :
       Held(o) /\ Held(p) /\ proxies[o].kind = proxies[p].kind => o = p
  /\ \A o \in DOMAIN proxies :
       Held(o) => cached[proxies[o].kind] = o /\ proxies[o].service = ServiceOf(proxies[o].kind)
  /\ \A o, p \in DOMAIN proxies : Subscribed(o) /\ proxies[o].sid = proxies[p].sid => o = p
  /\ \A o \in DOMAIN proxies :
       Subscribed(o) => proxies[o].sid \in sids \/ proxies[o].sid <= forgotten
  /\ done # NotDone =>
       /\ \A o \in DOMAIN proxies : Held(o) /\ proxies[o].kind < done.kind =>
            IF Subscribed(o) THEN proxies[o].sid > done.from ELSE done.disturbed
       /\ done.result = "false" =>
            \E o \in DOMAIN proxies : Held(o) /\ proxies[o].kind = done.kind /\ ~Subscribed(o)
       /\ done.result = "true" => done.kind = NKinds + 1

(* Not so: TRUE says that every object has a subscription; or one that the     *)
(* device knows, if it has one; FALSE says that something failed meanwhile.    *)
TrueMeansRenewed ==
  done.result = "true" => \A o \in DOMAIN proxies : Held(o) => Subscribed(o)
RenewedIsKnown ==
  done.result = "true" => \A o \in DOMAIN proxies : Subscribed(o) => proxies[o].sid \in sids
FalseMeansFailed == done.result = "false" => done.disturbed
=============================================================================
