------------------------------- MODULE Library --------------------------------
(***************************************************************************)
(* The one instance of the library, upnpplib.cxx: its options, how it is   *)
(* made and made again after a failure, and the table of the handlers that *)
(* libupnp's events are given to.  Its users are UPnPDeviceDirectory, the  *)
(* events of control services, and UpnpDevice.  What libupnp answers is    *)
(* free, but that it refuses what it was not initialised for.              *)
(***************************************************************************)
EXTENDS Integers, FiniteSets

CONSTANT MaxInits  \* bound: calls of init()

ASSUME LibraryAssumption == MaxInits \in Nat

Users == {"directory", "events", "device"}

VARIABLES
  theLib,   \* the instance, if there is one
  options,  \* what init() was given, now or earlier
  libupnp,  \* what libupnp was initialised for: nothing, devices, or clients too
  inits,    \* the number of initialisations
  told,     \* what the last init() told its caller
  handlers, \* the users whose handlers are in the table of the instance
  user,     \* what each user knows: that it was given the library, or refused
  eventinit \* has initEvents() run?

libraryVars == <<theLib, options, libupnp, inits, told, handlers, user, eventinit>>
userVars == <<user, eventinit>>

NoLib == [made |-> FALSE, ok |-> FALSE]
OptionNames == {"ifnames", "ipv4"}

LibraryTypeOK ==
  /\ theLib \in [made : BOOLEAN, ok : BOOLEAN]
  /\ options \in [serveronly : BOOLEAN, set : SUBSET OptionNames]
  /\ libupnp \in {"down", "devices", "clients"}
  /\ inits \in 0..MaxInits
  /\ told \in BOOLEAN
  /\ handlers \subseteq Users
  /\ user \in [Users -> {"none", "has", "refused"}]
  /\ eventinit \in BOOLEAN

LibraryInit ==
  /\ theLib = NoLib
  /\ options = [serveronly |-> FALSE, set |-> {}]
  /\ libupnp = "down"
  /\ inits = 0
  /\ told = FALSE
  /\ handlers = {}
  /\ user = [u \in Users |-> "none"]
  /\ eventinit = FALSE

-----------------------------------------------------------------------------
(* Initialisation.                                                          *)

\* What the constructor leaves of libupnp: UpnpInit() fails, or there is no
\* client to register, or UpnpRegisterClient() fails, or all is well.
Attempt == {"nothing", "devices", "clients"}
Up(attempt) ==
  CASE attempt = "nothing" -> "down"
    [] attempt = "devices" \/ options'.serveronly -> "devices"
    [] OTHER -> "clients"
IsOk(attempt) ==
  attempt # "nothing" /\ (options'.serveronly \/ attempt = "clients")

\* The options that are given replace the older ones, empty or not; the others
\* stay.  Given is the set of those that are, and NonEmpty those of a value.
Options(flag, given, nonempty) ==
  [serveronly |-> flag, set |-> (options.set \ given) \cup nonempty]
Conflict == Cardinality(options'.set) = 2

\* The constructor LibUPnP(): the object exists whatever comes of it.
Made(attempt) ==
  /\ theLib' = [made |-> TRUE, ok |-> IsOk(attempt)]
  /\ libupnp' = Up(attempt)
  /\ handlers' = {}
NotMade == UNCHANGED <<theLib, libupnp, handlers>>

Initialise(flag, given, nonempty, attempt) ==
  /\ inits < MaxInits /\ inits' = inits + 1
  /\ options' = Options(flag, given, nonempty)
  /\ IF Conflict THEN NotMade ELSE Made(attempt)
  /\ told' = ~Conflict

\* init(), by the program: a second one is refused.
LibInit ==
  \/ /\ theLib.made
     /\ told' = FALSE
     /\ UNCHANGED <<theLib, options, libupnp, inits, handlers>> /\ UNCHANGED userVars
  \/ /\ ~theLib.made
     /\ \E flag \in BOOLEAN, given \in SUBSET OptionNames, attempt \in Attempt :
          \E nonempty \in SUBSET given : Initialise(flag, given, nonempty, attempt)
     /\ UNCHANGED userVars

\* getLibUPnP() makes an instance if there is none, and puts away one that is
\* not ok, with UpnpFinish(): the next call tries again.  The interface and the
\* address that it is given replace the older ones, empty or not.
Kept_Any(lib) == lib
Kept(lib) == IF lib.ok THEN lib ELSE NoLib
GetLibUPnP(serveronly, nonempty, attempt) ==
  /\ \/ theLib.made /\ UNCHANGED <<options, inits>> /\ theLib' = Kept(theLib)
     \/ /\ ~theLib.made /\ inits < MaxInits /\ inits' = inits + 1
        /\ options' = Options(serveronly, OptionNames, nonempty)
        /\ theLib' = IF Conflict THEN NoLib ELSE Kept([made |-> TRUE, ok |-> IsOk(attempt)])
  /\ libupnp' = IF ~theLib'.made THEN "down"
                ELSE IF theLib.made THEN libupnp ELSE Up(attempt)
  /\ UNCHANGED told

-----------------------------------------------------------------------------
(* The users.                                                               *)

Given == theLib'.made
Told(u) == [user EXCEPT ![u] = IF Given THEN "has" ELSE "refused"]

\* registerHandler(), and the same with no handler.
Register(u) == handlers' = IF Given THEN handlers \cup {u} ELSE {}

\* The program itself gets the library, for an interface or an address, or both,
\* which init() refuses.
ProgramGets ==
  /\ \E serveronly \in BOOLEAN, nonempty \in SUBSET OptionNames, attempt \in Attempt :
       GetLibUPnP(serveronly, nonempty, attempt)
  /\ handlers' = IF Given THEN handlers ELSE {}
  /\ UNCHANGED userVars

\* UPnPDeviceDirectory(), and UpnpDevice() when it is the first one.
DirectoryStarts ==
  /\ user["directory"] # "has"
  /\ \E attempt \in Attempt : GetLibUPnP(FALSE, {}, attempt)
  /\ Register("directory") /\ user' = Told("directory")
  /\ UNCHANGED eventinit
DeviceStarts ==
  /\ \E attempt \in Attempt : GetLibUPnP(TRUE, {}, attempt)
  /\ Register("device") /\ user' = Told("device")
  /\ UNCHANGED eventinit

\* UPnPDeviceDirectory::terminate()
DirectoryEnds ==
  /\ user["directory"] = "has"
  /\ \E attempt \in Attempt : GetLibUPnP(FALSE, {}, attempt)
  /\ handlers' = handlers \ {"directory"}
  /\ user' = [user EXCEPT !["directory"] = "none"]
  /\ UNCHANGED eventinit

\* initEvents(), by the constructor of a control service: only the first call does
\* anything, and the later ones say that all is well.
InitEvents ==
  /\ eventinit' = TRUE
  /\ IF eventinit
       THEN /\ user' = [user EXCEPT !["events"] = "has"]
            /\ UNCHANGED <<theLib, options, libupnp, inits, told, handlers>>
       ELSE /\ \E attempt \in Attempt : GetLibUPnP(FALSE, {}, attempt)
            /\ Register("events") /\ user' = Told("events")

LibraryNext ==
  LibInit \/ ProgramGets \/ DirectoryStarts \/ DeviceStarts \/ DirectoryEnds \/ InitEvents

LibrarySpec == LibraryInit /\ [][LibraryNext]_libraryVars

-----------------------------------------------------------------------------
(* Properties.                                                              *)

\* o_callback(): the handler of an event is looked up in the table.
Hears(u) == u \in handlers

\* However often initialisation fails, is tried again or is asked for by users
\* of other needs, libupnp runs for an instance at most and is finished with
\* one that is put away; a user that was given the library has one that is ok,
\* and no other user's failure takes its handlers from the table.
LibrarySound ==
  /\ libupnp # "down" => theLib.made
  /\ theLib.ok => libupnp # "down"
  /\ \A u \in {"directory", "device"} : user[u] = "has" => theLib.ok /\ Hears(u)

\* "@return false for failure, true for success" (upnpplib.hxx): init() tells of
\* success when libupnp could not be initialised, too.
InitTells == told => ~theLib.made \/ theLib.ok

\* A control service whose initEvents() said that all is well hears its events:
\* not when the first call of all had no library.
EventsHeard == user["events"] = "has" => Hears("events")

\* The directory searches with a client that is registered: not when a device
\* was made first, as the instance is for servers only then.
DirectoryHasClient == user["directory"] = "has" => libupnp = "clients"
===============================================================================
