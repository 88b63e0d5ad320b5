------------------------------- MODULE Registry -------------------------------
(***************************************************************************)
(* The devices and services that a program implements, device/device.cxx   *)
(* and device/service.cxx: the table of devices, the services of each, the *)
(* functions of their actions, and the description that a device starts    *)
(* with.  DeviceEvents models the event loop of the same devices.          *)
(*                                                                         *)
(* A service object adds itself to its device in the constructor of its    *)
(* base class, maps its actions in its own constructor, and is forgotten   *)
(* in the destructor of its base class, after its own.                     *)
(***************************************************************************)
EXTENDS Integers, SequencesExt

CONSTANTS
  Devices,    \* device ids
  RootOf,     \* the root device of each; a root device is its own
  Services,   \* the services that are made: the device, and a service id that
              \* stands for the type too
  Requested,  \* bound: the services whose actions are requested
  MaxObjects  \* bound: service objects made

Objects == 1..MaxObjects
None == 0

VARIABLES
  devices,    \* the table of devices
  embedxml,   \* the embedded devices that the root devices know of
  propsxml,   \* the devices whose properties were read
  servicexml, \* the services in the description of each device, as they were added
  servicemap, \* the service object of each id
  serviceids, \* the ids, as the event loop walks them
  calls,      \* the object whose function the actions of an id run
  objects,    \* the service objects made: where each is in its life
  files,      \* the services whose definition the virtual directory has
  unread,     \* history: the services whose definition could not be read
  described,  \* the description that a root device has put there
  advertised, \* the devices that were registered with libupnp and announced
  request     \* an action request, between the steps of its handler

registryVars ==
  <<devices, embedxml, propsxml, servicexml, servicemap, serviceids, calls, objects,
    files, unread, described, advertised, request>>
hostVars == <<devices, embedxml, propsxml, servicexml, described, advertised>>
serviceVars == <<servicemap, serviceids, calls, objects, files, unread>>

Ids == {s[2] : s \in Services}

ASSUME RegistryAssumption ==
  /\ Services \subseteq Devices \X Ids
  /\ RootOf \in [Devices -> Devices]
  /\ Requested \subseteq Services
  /\ MaxObjects \in Nat

Idle == [at |-> "idle"]

RegistryTypeOK ==
  /\ devices \subseteq Devices /\ embedxml \subseteq Devices /\ propsxml \subseteq Devices
  /\ servicexml \in [Devices -> Seq(Ids)]
  /\ servicemap \in [Services -> {None} \cup Objects]
  /\ serviceids \in [Devices -> Seq(Ids)]
  /\ calls \in [Services -> {None} \cup Objects]
  /\ objects \in Seq([service : Services, at : {"base", "whole", "ending", "gone"}])
  /\ files \subseteq Services /\ unread \subseteq Services
  /\ described \in [Devices -> SUBSET Services]
  /\ advertised \subseteq Devices
  /\ request \in {Idle} \cup [at : {"device"}, service : Services]
       \cup [at : {"service"}, service : Services, object : Objects]

RegistryInit ==
  /\ devices = {} /\ embedxml = {} /\ propsxml = {}
  /\ servicexml = [d \in Devices |-> <<>>]
  /\ servicemap = [s \in Services |-> None]
  /\ serviceids = [d \in Devices |-> <<>>]
  /\ calls = [s \in Services |-> None]
  /\ objects = <<>>
  /\ files = {} /\ unread = {}
  /\ described = [d \in Devices |-> {}]
  /\ advertised = {}
  /\ request = Idle

-----------------------------------------------------------------------------
(* Devices.                                                                 *)

\* UpnpDevice(): an embedded device puts an empty fragment into its root device.
NewDevice(d) ==
  /\ d \notin devices /\ RootOf[d] \in devices \cup {d}
  /\ devices' = devices \cup {d}
  /\ embedxml' = embedxml \cup ({d} \ {RootOf[d]})
  /\ propsxml' = propsxml \ {d}
  /\ servicexml' = [servicexml EXCEPT ![d] = <<>>]
  /\ UNCHANGED <<described, advertised, request>> /\ UNCHANGED serviceVars

Alive(o) == objects[o].at # "gone"
\* ~UpnpDevice().  The services of a device go before it, and an embedded
\* device goes before its root, whose fragments go with it.
DeleteDevice(d) ==
  /\ d \in devices
  /\ \A e \in devices \ {d} : RootOf[e] # d
  /\ \A o \in DOMAIN objects : objects[o].service[1] = d => ~Alive(o)
  /\ devices' = devices \ {d}
  /\ embedxml' = {e \in embedxml : RootOf[e] # d}
  /\ calls' = [s \in Services |-> IF s[1] = d THEN None ELSE calls[s]]
  /\ advertised' = advertised \ {d}
  /\ UNCHANGED <<propsxml, servicexml, described, request>>
  /\ UNCHANGED <<servicemap, serviceids, objects, files, unread>>

\* Internal::start(): the description is in the virtual directory even when
\* libupnp refuses the device.  An embedded device is part of its root's.
DeviceList(r) == {r} \cup {e \in embedxml : RootOf[e] = r}
Start(r) ==
  /\ r \in devices \ advertised /\ RootOf[r] = r
  /\ described' = [described EXCEPT ![r] =
       {s \in Services : s[1] \in DeviceList(r) /\ s[2] \in ToSet(servicexml[s[1]])}]
  /\ advertised' \in {advertised, advertised \cup {r}}
  /\ UNCHANGED <<devices, embedxml, propsxml, servicexml, request>> /\ UNCHANGED serviceVars

-----------------------------------------------------------------------------
(* Services.                                                                *)

\* The first of the ids that std::find() meets is erased.
IsFound(ids, id, i) == ids[i] = id /\ \A j \in DOMAIN ids : j < i => ids[j] # id
Erased(ids, id) ==
  IF id \in ToSet(ids) THEN RemoveAt(ids, CHOOSE i \in DOMAIN ids : IsFound(ids, id, i))
  ELSE ids

\* The id of a new service goes to the end, wherever it was.
Reordered_Twice(ids, id) == Append(ids, id)
Reordered(ids, id) == Append(Erased(ids, id), id)

\* addService(), called by UpnpService(), which does not look at the result: it
\* does nothing without the properties, and a definition that cannot be read is
\* announced all the same.
AddService(s, propsRead, definitionRead) ==
  LET d == s[1]
      known == propsRead \/ d \in propsxml
  IN
  /\ d \in devices /\ Len(objects) < MaxObjects
  /\ objects' = Append(objects, [service |-> s, at |-> "base"])
  /\ propsxml' = IF known THEN propsxml \cup {d} ELSE propsxml
  /\ IF known
       THEN /\ servicemap' = [servicemap EXCEPT ![s] = Len(objects) + 1]
            /\ serviceids' = [serviceids EXCEPT ![d] = Reordered(@, s[2])]
            /\ servicexml' = [servicexml EXCEPT ![d] = Append(@, s[2])]
            /\ files' = IF definitionRead THEN files \cup {s} ELSE files
            /\ unread' = IF definitionRead THEN unread ELSE unread \cup {s}
       ELSE UNCHANGED <<servicemap, serviceids, servicexml, files, unread>>
  /\ UNCHANGED <<devices, embedxml, calls, described, advertised, request>>

Becomes(o, from, to) ==
  /\ o \in DOMAIN objects /\ objects[o].at = from
  /\ objects' = [objects EXCEPT ![o].at = to]

\* addActionMapping(), by the constructor of the service.
AddActionMapping(o) ==
  /\ Becomes(o, "base", "whole")
  /\ calls' = [calls EXCEPT ![objects[o].service] = o]
  /\ UNCHANGED <<servicemap, serviceids, files, unread, request>> /\ UNCHANGED hostVars

\* The destructor of the service, before that of its base.
EndService(o) ==
  /\ Becomes(o, "whole", "ending")
  /\ UNCHANGED <<servicemap, serviceids, calls, files, unread, request>> /\ UNCHANGED hostVars

\* forgetService(), by ~UpnpService(): what goes is what is under the id now.
ForgetService(o) ==
  LET s == objects[o].service IN
  /\ Becomes(o, "ending", "gone")
  /\ servicemap' = [servicemap EXCEPT ![s] = None]
  /\ serviceids' = [serviceids EXCEPT ![s[1]] = Erased(@, s[2])]
  /\ UNCHANGED <<calls, files, unread, request>> /\ UNCHANGED hostVars

-----------------------------------------------------------------------------
(* An action request, in a thread of libupnp's.                             *)

Request(to) == request' = to /\ UNCHANGED hostVars /\ UNCHANGED serviceVars

\* sCallBack() looks for the device, or refuses; it keeps what it found.
SCallBack(s) ==
  /\ request = Idle /\ s[1] \in devices
  /\ Request([at |-> "device", service |-> s])

\* findService(), in callBack(): the service is looked up under devlock and used
\* without it.
FindService ==
  /\ request.at = "device"
  /\ LET o == servicemap[request.service] IN
     Request(IF o = None THEN Idle
             ELSE [at |-> "service", service |-> request.service, object |-> o])

\* The function of the action runs under devlock; there may be none.
CallAction ==
  /\ request.at = "service"
  /\ Request(Idle)

RegistryNext ==
  \/ \E d \in Devices : NewDevice(d) \/ DeleteDevice(d) \/ Start(d)
  \/ \E s \in Services, p \in BOOLEAN, x \in BOOLEAN : AddService(s, p, x)
  \/ \E o \in Objects : AddActionMapping(o) \/ EndService(o) \/ ForgetService(o)
  \/ \E s \in Requested : SCallBack(s)
  \/ FindService \/ CallAction

RegistrySpec == RegistryInit /\ [][RegistryNext]_registryVars

-----------------------------------------------------------------------------
(* Properties.                                                              *)

Polled(d) == ToSet(serviceids[d])

\* "We keep the services in a map for easy access from id and in a vector for
\* ordered walking": through replacements and endings the two agree, the order
\* is that of the last addService() of each id, and no object that is gone is
\* found in either.
PollsWhatIsCalled ==
  \A d \in Devices :
    LET ids == serviceids[d] IN
    /\ Polled(d) = {id \in Ids : <<d, id>> \in Services /\ servicemap[<<d, id>>] # None}
    /\ \A i, j \in DOMAIN ids :
         i < j => servicemap[<<d, ids[i]>>] < servicemap[<<d, ids[j]>>]
    /\ \A id \in Polled(d) : Alive(servicemap[<<d, id>>])

\* The description of a device that starts lists every service it polls, its
\* own or of an embedded device that exists, and libupnp finds the definition
\* of every listed service that could be read once.
DescribesWhatIsPolled ==
  /\ \A d \in devices : Polled(d) \subseteq ToSet(servicexml[d])
  /\ \A d \in devices : d \in DeviceList(RootOf[d])
  /\ \A r \in Devices : \A s \in described[r] : s \in files \cup unread

RegistrySound == PollsWhatIsCalled /\ DescribesWhatIsPolled

\* A service that exists is found: not the one that has replaced another of its
\* id, once that one goes.
LiveServiceFound ==
  \A o \in DOMAIN objects :
    objects[o].at = "whole" /\ objects[o].service[1] \in propsxml
      => servicemap[objects[o].service] # None

\* The function that an action runs is that of a whole service: not while a
\* service is made again under an id, nor when it ends between the look-up of
\* the service and that of the function, which forgetService() leaves there.
RunsOnWholeService ==
  request.at = "service" =>
    calls[request.service] = None \/ objects[calls[request.service]].at = "whole"

\* The device of a request outlives it: ~UpnpDevice() does not wait for it.
DeviceOutlivesRequest == request # Idle => request.service[1] \in devices
===============================================================================
