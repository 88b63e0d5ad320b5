------------------------------ MODULE FindService ------------------------------
(***************************************************************************)
(* findTypedService(): a program seeks a service by the name of a device   *)
(* and a service type, while the explorer of the directory goes on finding *)
(* devices.  A visitor is added to those that are called for every device, *)
(* it is removed by its index when the device was found or the window of   *)
(* the search is over, and what it has found is bound to a TypedService.   *)
(*                                                                         *)
(* The pool is locked in one step at a time, o_callbacks_mutex by the      *)
(* explorer while it visits; the visitor writes the device and the service *)
(* in two steps.  Waiting is not timed: the window may close at any time.  *)
(***************************************************************************)
EXTENDS Integers, SequencesExt, FiniteSets

CONSTANTS
  KnownDevices, \* the devices, each with its name and its services in order
  SomeRequests, \* what the threads search for
  Seekers,      \* threads of the program that search
  MaxFinds      \* bound: devices that the explorer hears of

VARIABLES
  pool,       \* the devices, in the order of their ids
  callbacks,  \* o_callbacks
  explorer,   \* what the explorer is doing
  seekers,    \* the threads: where they are, the request, the visitor's data, the result
  window,     \* is the search window open?
  finds,      \* the number of devices found
  overlapped, \* the threads that have had a visitor while another one had, too
  deadCalled  \* was the visitor of a search that is over called?

findVars == <<pool, callbacks, explorer, seekers, window, finds, overlapped, deadCalled>>

-----------------------------------------------------------------------------
(* Devices and services: the device's name, and its services in order.      *)

Typed(type, version) == [type |-> type, version |-> version]
DeviceNamed(name, services) == [name |-> name, services |-> services]
NoFound == DeviceNamed("none", <<>>)
NoTyped == Typed("none", 0)
\* A fuzzy request is for a part of the type, whatever the version.
ASSUME FindAssumption ==
  /\ KnownDevices \in
       Seq([name : STRING, services : Seq([type : STRING, version : Nat \ {0}])])
  /\ SomeRequests \subseteq [name : STRING, type : STRING, version : Nat, fuzzy : BOOLEAN]
  /\ "deviceFound" \notin Seekers
  /\ MaxFinds \in Nat

ServiceMatches(request, service) ==
  service.type = request.type /\ (request.fuzzy \/ service.version = request.version)
\* The first of some services of a device, or none.
FirstOf(services, some) ==
  IF some = {} THEN <<>> ELSE <<services[CHOOSE k \in some : \A j \in some : k <= j]>>
\* visit() of the services of a device: the first one that it wants, or none.
FirstWanted_AnyDevice(request, device) ==
  FirstOf(device.services,
          {k \in DOMAIN device.services : ServiceMatches(request, device.services[k])})
FirstWanted(request, device) ==
  IF device.name = request.name THEN FirstWanted_AnyDevice(request, device) ELSE <<>>
\* simpleTraverse(), which the visitor ends.
Traversed(request) ==
  LET wanted == {n \in pool : FirstWanted(request, KnownDevices[n]) # <<>>}
      n == CHOOSE k \in wanted : \A j \in wanted : k <= j
  IN  IF wanted = {} THEN [dev |-> NoFound, serv |-> NoTyped]
      ELSE [dev |-> KnownDevices[n], serv |-> FirstWanted(request, KnownDevices[n])[1]]
\* initFromDescription() with serviceTypeMatch(): the first service of the device
\* that is of the type and of no higher version.
BoundTo(typed, device) ==
  LET fits == FirstOf(device.services,
                      {k \in DOMAIN device.services :
                         /\ device.services[k].type = typed.type
                         /\ device.services[k].version <= typed.version})
  IN  IF fits = <<>> THEN NoTyped ELSE fits[1]

-----------------------------------------------------------------------------

Resting == [pc |-> "idle", dev |-> 0, at |-> 0, half |-> FALSE]
FindInit ==
  /\ pool = {} /\ callbacks = <<"deviceFound">>
  /\ explorer = Resting
  /\ \E requests \in [Seekers -> SomeRequests] :
       seekers = [s \in Seekers |->
         [pc |-> "start", request |-> requests[s], index |-> 0, dev |-> NoFound, serv |-> NoTyped,
          ret |-> NoTyped, bound |-> NoTyped, seen |-> {}]]
  /\ window = TRUE /\ finds = 0
  /\ overlapped = {} /\ deadCalled = FALSE

(* The explorer.                                                            *)
NoSeeker == UNCHANGED <<seekers, overlapped>>
Finds(n) ==
  /\ explorer.pc = "idle" /\ finds < MaxFinds
  /\ pool' = pool \cup {n}
  /\ explorer' = [Resting EXCEPT !.pc = "visiting", !.dev = n]
  /\ finds' = finds + 1
  /\ UNCHANGED <<callbacks, window, deadCalled>> /\ NoSeeker
Loses(n) ==
  /\ explorer.pc = "idle"
  /\ pool' = pool \ {n}
  /\ UNCHANGED <<callbacks, explorer, window, finds, deadCalled>> /\ NoSeeker
\* The mutex is held from the first visitor to the last.
Visiting == explorer.pc = "visiting" /\ explorer.at > 0
BeginVisits ==
  /\ explorer.pc = "visiting" /\ explorer.at = 0
  /\ explorer' = [explorer EXCEPT !.at = 1]
  /\ UNCHANGED <<pool, callbacks, window, finds, deadCalled>> /\ NoSeeker
NextVisitor == explorer' = [explorer EXCEPT !.at = @ + 1, !.half = FALSE]
Visit ==
  /\ Visiting /\ explorer.at <= Len(callbacks)
  /\ LET s == callbacks[explorer.at]
         device == KnownDevices[explorer.dev]
         wanted == FirstWanted(seekers[s].request, device)
     IN  \/ /\ s = "deviceFound"
            /\ NextVisitor /\ UNCHANGED <<seekers, deadCalled>>
         \/ /\ s \in Seekers /\ seekers[s].pc = "done"
            /\ NextVisitor /\ deadCalled' = TRUE /\ UNCHANGED seekers
         \/ /\ s \in Seekers /\ seekers[s].pc # "done"
            /\ CASE wanted = <<>> -> NextVisitor /\ UNCHANGED seekers
                 [] wanted # <<>> /\ explorer.half ->
                      NextVisitor /\ seekers' = [seekers EXCEPT ![s].serv = wanted[1]]
                 [] wanted # <<>> /\ ~explorer.half ->
                      /\ seekers' = [seekers EXCEPT ![s].dev = device]
                      /\ explorer' = [explorer EXCEPT !.half = TRUE]
            /\ UNCHANGED deadCalled
  /\ UNCHANGED <<pool, callbacks, window, finds, overlapped>>
EndVisits ==
  /\ Visiting /\ explorer.at > Len(callbacks)
  /\ explorer' = Resting
  /\ UNCHANGED <<pool, callbacks, window, finds, deadCalled>> /\ NoSeeker
WindowCloses ==
  /\ window /\ window' = FALSE
  /\ UNCHANGED <<pool, callbacks, explorer, finds, deadCalled>> /\ NoSeeker

(* findTypedService().                                                      *)
Watching == {s \in Seekers : seekers[s].pc \in {"wait", "remove"}}
\* addCallback(), which visits what is there.
AddVisitor(s) ==
  /\ seekers[s].pc = "start" /\ ~Visiting
  /\ callbacks' = Append(callbacks, s)
  /\ LET found == Traversed(seekers[s].request)
     IN  seekers' = [seekers EXCEPT ![s] = [@ EXCEPT !.pc = IF found.dev = NoFound THEN "wait" ELSE "remove",
                                                     !.index = Len(callbacks) + 1,
                                                     !.dev = found.dev, !.serv = found.serv]]
  /\ overlapped' = IF Watching = {} THEN overlapped ELSE overlapped \cup Watching \cup {s}
  /\ UNCHANGED <<pool, explorer, window, finds, deadCalled>>
WaitEnds(s) ==
  /\ seekers[s].pc = "wait"
  /\ seekers[s].dev # NoFound \/ ~window
  /\ seekers' = [seekers EXCEPT ![s].pc = "remove"]
  /\ UNCHANGED <<pool, callbacks, explorer, window, finds, overlapped, deadCalled>>
\* As if the index counted the visitors that were there before.
RemoveVisitor_Before(s) ==
  /\ seekers[s].pc = "remove" /\ ~Visiting
  /\ callbacks' = RemoveAt(callbacks, seekers[s].index - 1)
  /\ seekers' = [seekers EXCEPT ![s].pc = IF seekers[s].dev = NoFound THEN "look" ELSE "bind"]
  /\ UNCHANGED <<pool, explorer, window, finds, overlapped, deadCalled>>
RemoveVisitor(s) ==
  /\ seekers[s].pc = "remove" /\ ~Visiting
  /\ callbacks' = IF seekers[s].index <= Len(callbacks)
                  THEN RemoveAt(callbacks, seekers[s].index) ELSE callbacks
  /\ seekers' = [seekers EXCEPT ![s].pc = IF seekers[s].dev = NoFound THEN "look" ELSE "bind"]
  /\ UNCHANGED <<pool, explorer, window, finds, overlapped, deadCalled>>
\* traverse(), which waits for the end of the window.
LookAgain(s) ==
  /\ seekers[s].pc = "look" /\ ~window
  /\ LET found == Traversed(seekers[s].request)
     IN  seekers' = [seekers EXCEPT ![s] = [@ EXCEPT !.pc = "bind", !.dev = found.dev,
                                                     !.serv = found.serv, !.seen = pool]]
  /\ UNCHANGED <<pool, callbacks, explorer, window, finds, overlapped, deadCalled>>
Bind(s) ==
  /\ seekers[s].pc = "bind"
  /\ seekers' = [seekers EXCEPT ![s] =
       [@ EXCEPT !.pc = "done", !.ret = IF seekers[s].dev = NoFound THEN NoTyped ELSE seekers[s].serv,
                 !.bound = BoundTo(seekers[s].serv, seekers[s].dev)]]
  /\ UNCHANGED <<pool, callbacks, explorer, window, finds, overlapped, deadCalled>>

FindNext ==
  \/ \E n \in DOMAIN KnownDevices : Finds(n)
  \/ \E n \in pool : Loses(n)
  \/ BeginVisits \/ Visit \/ EndVisits
  \/ WindowCloses
  \/ \E s \in Seekers :
       AddVisitor(s) \/ WaitEnds(s) \/ RemoveVisitor(s) \/ LookAgain(s) \/ Bind(s)

FindSpec == FindInit /\ [][FindNext]_findVars

FindTypeOK ==
  /\ pool \subseteq DOMAIN KnownDevices
  /\ Head(callbacks) = "deviceFound" /\ ToSet(Tail(callbacks)) \subseteq Seekers
  /\ explorer.pc \in {"idle", "visiting"} /\ explorer.at \in 0..(Len(callbacks) + 2)
  /\ \A s \in Seekers :
       seekers[s].pc \in {"start", "wait", "remove", "look", "bind", "done"}
  /\ finds \in 0..MaxFinds /\ overlapped \subseteq Seekers

-----------------------------------------------------------------------------
(* Properties.                                                              *)

\* A search that has had no other one beside it leaves no visitor behind, and
\* returns a service that was asked for of a device that has it, and that the
\* device can be bound to; or nothing, if the directory did not have it at last.
FindsWhatIsThere ==
  \A s \in Seekers \ overlapped :
    LET p == seekers[s]
    IN  /\ (\E n \in DOMAIN callbacks : callbacks[n] = s) => s \in Watching
        /\ p.pc = "done" /\ p.ret # NoTyped =>
             /\ p.dev.name = p.request.name
             /\ p.ret \in ToSet(p.dev.services) /\ ServiceMatches(p.request, p.ret)
             /\ p.bound.type = p.request.type /\ p.bound.version <= p.ret.version
        /\ p.pc = "done" /\ p.ret = NoTyped =>
             \A n \in p.seen : FirstWanted(p.request, KnownDevices[n]) = <<>>

(* Not so: delCallback() takes "the value returned by addCallback()"           *)
(* (discovery.hxx:95), which is an index, and no longer that of the visitors   *)
(* that were added after one that it removes; nor is the service that is bound *)
(* the one that was found.                                                    *)
NoDeadVisitor == ~deadCalled
BoundIsFound == \A s \in Seekers : seekers[s].pc = "done" => seekers[s].bound = seekers[s].ret
=============================================================================
