-------------------------------- MODULE Proxies --------------------------------
(***************************************************************************)
(* The classes of the control side that stand for the services of a        *)
(* renderer: AVTransport and the OpenHome Playlist, Radio, Product, Info,  *)
(* Receiver, Sender and Time.  A program hears of the variables of a       *)
(* service in three ways: evtCallback() decodes the events, an action's    *)
(* answer is decoded by other code, and the program may have set the       *)
(* variable itself, encoded by still other code.                           *)
(*                                                                         *)
(* One variable of one service is watched in a behaviour; the device sends *)
(* the others as it should.  A value on the wire is a string, but for a    *)
(* few that are kept by their parts: a time is its three numbers, a list   *)
(* of actions or ids and metadata are records that say whether their text  *)
(* can be parsed.  Names of states are compared without regard to case: a  *)
(* name stands for all its spellings.  What the program gets is a tag,     *)
(* which is the type of changed() or of the out parameter, and a value.    *)
(***************************************************************************)
EXTENDS Integers, SequencesExt

CONSTANT MaxSettings \* bound: changes of the variable
ASSUME ProxiesAssumption == MaxSettings \in Nat

VARIABLES
  watched,  \* the service and the variable
  shown,    \* its value at the device
  events,   \* the events under way, each with the value it had
  reported, \* what the reporter was told last, as a sequence: of nothing, or one
  answer,   \* what the last query returned, and left in the out parameter
  meant,    \* what the program set the variable to, if it did last
  heard,    \* have all events come through so far?
  warned,   \* was the reporter told that the subscription was not renewed?
  settings  \* the number of changes

proxiesVars == <<watched, shown, events, reported, answer, meant, heard, warned, settings>>

-----------------------------------------------------------------------------
(* The names, and what they stand for.                                      *)

Named(table, name, unknown) == IF name \in DOMAIN table THEN table[name] ELSE unknown

AVState ==
  [STOPPED |-> "Stopped", PLAYING |-> "Playing", TRANSITIONING |-> "Transitioning",
   PAUSED_PLAYBACK |-> "PausedPlayback", PAUSED_RECORDING |-> "PausedRecording",
   RECORDING |-> "Recording", NO_MEDIA_PRESENT |-> "NoMediaPresent"]
AVStatus == [OK |-> "TPS_Ok", ERROR_OCCURRED |-> "TPS_Error"]
AVMode ==
  [NORMAL |-> "PM_Normal", SHUFFLE |-> "PM_Shuffle", REPEAT_ONE |-> "PM_RepeatOne",
   REPEAT_ALL |-> "PM_RepeatAll", RANDOM |-> "PM_Random", DIRECT_1 |-> "PM_Direct1"]
AVActions == {"Next", "Pause", "Play", "Previous", "Seek", "Stop"}
\* stringToTpState() of OHPlaylist, which OHRadio and OHReceiver use too.
OHState ==
  [Buffering |-> "TPS_Buffering", Waiting |-> "TPS_Buffering", Paused |-> "TPS_Paused",
   Playing |-> "TPS_Playing", Stopped |-> "TPS_Stopped"]
\* setPlayMode()
PlayModeName_RepeatOne(pm) ==
  IF pm = "PM_RepeatOne" THEN "REPEAT_ALL" ELSE CHOOSE n \in DOMAIN AVMode : AVMode[n] = pm
PlayModeName(pm) ==
  IF pm = "PM_Unknown" THEN "NORMAL" ELSE CHOOSE n \in DOMAIN AVMode : AVMode[n] = pm

-----------------------------------------------------------------------------
(* Values.                                                                  *)

Truths == {"1", "true", "Yes"}
Falsities == {"0", "False", "no"}
Numerals == [n \in {"0", "7", "65"} |-> CASE n = "0" -> 0 [] n = "7" -> 7 [] n = "65" -> 65]
Atoi(text) == Named(Numerals, text, 0)
I2S(n) == CHOOSE text \in DOMAIN Numerals : Numerals[text] = n

\* upnpduration() and upnpdurationtos(); <<>> is what has not three numbers.
CQuot(a, b) == IF a < 0 THEN -((-a) \div b) ELSE a \div b
UpnpDuration(ms) ==
  LET hours == CQuot(ms, 3600000)
      minutes == CQuot(ms - hours * 3600000, 60000)
  IN  <<hours, minutes, CQuot(ms - hours * 3600000 - minutes * 60000, 1000)>>
UpnpDurationToS(time) ==
  IF time = <<>> THEN 0 ELSE 3600 * time[1] + 60 * time[2] + time[3]

\* Metadata: its text may be empty or bad; of the items, one is "bare", without
\* a resource.
DidlOf(text, items) == [text |-> text, items |-> items]
NoDidl == DidlOf("empty", <<>>)
Metadata ==
  << DidlOf("good", <<"item">>), NoDidl, DidlOf("bad", <<"item">>), DidlOf("good", <<>>),
     DidlOf("good", <<"item", "other">>) >>

\* What is on the wire, with one value that is always good first.
Wire(codec) ==
  CASE codec = "avstate" -> <<"STOPPED", "PAUSED_PLAYBACK", "NO_MEDIA_PRESENT", "other">>
    [] codec = "avstatus" -> <<"OK", "ERROR_OCCURRED", "other">>
    [] codec = "avmode" -> <<"NORMAL", "REPEAT_ONE", "RANDOM", "other">>
    [] codec = "avactions" ->
         << [csv |-> TRUE, names |-> <<"Play", "Stop">>],
            [csv |-> TRUE, names |-> <<"Next", "", "other", "Next">>],
            [csv |-> FALSE, names |-> <<"Play">>] >>
    [] codec = "ohstate" -> <<"Stopped", "Buffering", "Waiting", "other">>
    [] codec = "int" -> <<"7", "0", "", "other">>
    [] codec = "time" -> <<<<0, 1, 5>>, <<1, 0, 1>>, <<>>>>
    [] codec = "bool" -> <<"1", "0", "Yes", "False", "", "other">>
    [] codec = "text" -> <<"text", "other", "">>
    [] codec = "ids" ->
         << [base64 |-> TRUE, ids |-> <<7, 65>>], [base64 |-> TRUE, ids |-> <<>>],
            [base64 |-> FALSE, ids |-> <<7>>] >>
    [] codec \in {"avmeta", "ohmeta"} -> Metadata
    [] codec = "didl" -> Append(Metadata, DidlOf("good", <<"bare">>))

Got(tag, value) == <<<<tag, value>>>>
Nothing == <<>>
\* The known actions; CTAStringToBits() leaves the others out.
ActionBits(list) == ToSet(list.names) \cap AVActions
\* ohplIdArrayToVec(): what is no base64 has no ids.
OhplIdArrayToVec(array) == IF array.base64 THEN array.ids ELSE <<>>
\* decodeMetadata()
DecodeMetadata(didl) ==
  IF didl.text = "good" /\ Len(didl.items) = 1 THEN Got("dirent", didl.items[1]) ELSE Nothing

-----------------------------------------------------------------------------
(* evtCallback() of the services: how the value of a variable is decoded.   *)

AVTransportEvent(v) ==
  CASE v = "TransportState" -> "avstate"
    [] v = "TransportStatus" -> "avstatus"
    [] v = "CurrentPlayMode" -> "avmode"
    [] v = "CurrentTransportActions" -> "avactions"
    [] v \in {"TransportPlaySpeed", "CurrentTrack", "NumberOfTracks",
              "RelativeCounterPosition", "AbsoluteCounterPosition"} -> "int"
    [] v \in {"CurrentMediaDuration", "CurrentTrackDuration", "RelativeTimePosition",
              "AbsoluteTimePosition"} -> "time"
    [] v \in {"AVTransportURIMetaData", "NextAVTransportURIMetaData",
              "CurrentTrackMetaData"} -> "avmeta"
    [] OTHER -> "text"

PlaylistEvent(v) ==
  CASE v = "TransportState" -> "ohstate"
    [] v = "IdArray" -> "ids"
    [] v \in {"Repeat", "Shuffle"} -> "bool"
    [] v \in {"Id", "TracksMax"} -> "int"
    [] OTHER -> "text"
RadioEvent(v) ==
  CASE v = "TransportState" -> "ohstate"
    [] v = "IdArray" -> "ids"
    [] v = "Metadata" -> "ohmeta"
    [] v \in {"Id", "ChannelsMax"} -> "int"
    [] OTHER -> "text"
ProductEvent(v) ==
  CASE v = "SourceIndex" -> "int" [] v = "Standby" -> "bool" [] OTHER -> "text"
InfoEvent(v) == IF v = "Metatext" THEN "ohmeta" ELSE "text"
ReceiverEvent(v) == IF v = "TransportState" THEN "ohstate" ELSE "text"
SenderEvent(v) ==
  CASE v = "Audio" -> "bool" [] v = "Metadata" -> "didl" [] OTHER -> "text"
TimeEvent(v) == IF v \in {"TrackCount", "Duration", "Seconds"} THEN "int" ELSE "text"

EventCodec(s, v) ==
  CASE s = "AVTransport" -> AVTransportEvent(v)
    [] s = "OHPlaylist" -> PlaylistEvent(v)
    [] s = "OHRadio" -> RadioEvent(v)
    [] s = "OHProduct" -> ProductEvent(v)
    [] s = "OHInfo" -> InfoEvent(v)
    [] s = "OHReceiver" -> ReceiverEvent(v)
    [] s = "OHSender" -> SenderEvent(v)
    [] s = "OHTime" -> TimeEvent(v)

\* What the reporter is told, if anything: not of metadata that has no item or
\* cannot be parsed, nor of a bad list of actions.
ToldOf(codec, w) ==
  CASE codec = "avstate" -> Got("enum", Named(AVState, w, "Unknown"))
    [] codec = "avstatus" -> Got("enum", Named(AVStatus, w, "TPS_Unknown"))
    [] codec = "avmode" -> Got("enum", Named(AVMode, w, "PM_Unknown"))
    [] codec = "avactions" -> IF w.csv THEN Got("bits", ActionBits(w)) ELSE Nothing
    [] codec = "ohstate" -> Got("enum", Named(OHState, w, "TPS_Unknown"))
    [] codec = "int" -> Got("int", Atoi(w))
    [] codec = "time" -> Got("int", UpnpDurationToS(w))
    [] codec = "bool" -> Got("bool", w \in Truths)
    [] codec \in {"text", "didl"} -> Got("text", w)
    [] codec = "ids" -> Got("ids", OhplIdArrayToVec(w))
    [] codec = "avmeta" ->
         IF w.text = "good" /\ w.items # <<>> THEN Got("dirent", w.items[1]) ELSE Nothing
    [] codec = "ohmeta" -> DecodeMetadata(w)

-----------------------------------------------------------------------------
(* The queries: which elements of the answer each of them reads, in which   *)
(* order, what variable is in it, and how it is read.                       *)

R(element, v, get) == [element |-> element, of |-> v, into |-> v, get |-> get]
V(v, get) == <<R("Value", v, get)>>

\* Of NextURIMetaData the text is read but never parsed; RecordMedium goes where
\* PlayMedium has gone.
AVTransportReads ==
  [getMediaInfo |->
     << R("NrTracks", "NumberOfTracks", "int"), R("MediaDuration", "CurrentMediaDuration", "time"),
        R("CurrentURI", "AVTransportURI", "text"),
        R("CurrentURIMetaData", "AVTransportURIMetaData", "avmeta"),
        R("NextURI", "NextAVTransportURI", "text"),
        R("NextURIMetaData", "NextAVTransportURIMetaData", "unparsed"),
        R("PlayMedium", "PlaybackStorageMedium", "text"),
        [R("RecordMedium", "RecordStorageMedium", "text") EXCEPT !.into = "PlaybackStorageMedium"],
        R("WriteStatus", "RecordMediumWriteStatus", "text") >>,
   getTransportInfo |->
     << R("CurrentTransportState", "TransportState", "avstate"),
        R("CurrentTransportStatus", "TransportStatus", "avstatus"),
        R("CurrentSpeed", "TransportPlaySpeed", "int") >>,
   getPositionInfo |->
     << R("Track", "CurrentTrack", "int"), R("TrackDuration", "CurrentTrackDuration", "time"),
        R("TrackMetaData", "CurrentTrackMetaData", "avmeta"),
        R("TrackURI", "CurrentTrackURI", "text"),
        R("RelTime", "RelativeTimePosition", "time"), R("AbsTime", "AbsoluteTimePosition", "time"),
        R("RelCount", "RelativeCounterPosition", "int"),
        R("AbsCount", "AbsoluteCounterPosition", "int") >>,
   getDeviceCapabilities |->
     << R("PlayMedia", "PossiblePlaybackStorageMedia", "text"),
        R("RecMedia", "PossibleRecordStorageMedia", "text"),
        R("RecQualityModes", "PossibleRecordQualityModes", "text") >>,
   getTransportSettings |->
     << R("PlayMedia", "CurrentPlayMode", "avmode"),
        R("RecQualityMode", "CurrentRecordQualityMode", "text") >>,
   getCurrentTransportActions |-> << R("Actions", "CurrentTransportActions", "avactions") >>]

PlaylistReads ==
  [transportState |-> V("TransportState", "ohstate"), repeat |-> V("Repeat", "bool"),
   shuffle |-> V("Shuffle", "bool"), id |-> V("Id", "int"), tracksMax |-> V("TracksMax", "int"),
   idArray |-> << R("Token", "Token", "int"), R("Array", "IdArray", "ids") >>,
   protocolInfo |-> V("ProtocolInfo", "text")]
RadioReads ==
  [transportState |-> V("TransportState", "ohstate"), id |-> V("Id", "int"),
   channelsMax |-> V("ChannelsMax", "int"),
   idArray |-> << R("Token", "Token", "int"), R("Array", "IdArray", "ids") >>,
   protocolInfo |-> V("ProtocolInfo", "text"),
   channel |-> << R("Uri", "Uri", "text"), R("Metadata", "Metadata", "ohmeta") >>]
InfoReads ==
  [metatext |-> V("Metatext", "metatext"),
   track |-> << R("Uri", "Uri", "text"), R("Metadata", "Metadata", "ohmeta") >>,
   counters |->
     << R("TrackCount", "TrackCount", "int"), R("DetailsCount", "DetailsCount", "int"),
        R("MetatextCount", "MetatextCount", "int") >>,
   details |->
     << R("Duration", "Duration", "int"), R("BitRate", "BitRate", "int"),
        R("BitDepth", "BitDepth", "int"), R("SampleRate", "SampleRate", "int"),
        R("Lossless", "Lossless", "bool"), R("Codecname", "CodecName", "text") >>]

ProductReads == [sourceIndex |-> V("SourceIndex", "atoi"), standby |-> V("Standby", "bool")]
ReceiverReads ==
  [transportState |-> V("TransportState", "ohstate"), protocolInfo |-> V("ProtocolInfo", "text"),
   sender |-> << R("Uri", "Uri", "text"), R("Metadata", "Metadata", "text") >>]
SenderReads == [metadata |-> V("Metadata", "didl")]
TimeReads ==
  [time |-> << R("TrackCount", "TrackCount", "int"), R("Duration", "Duration", "int"),
               R("Seconds", "Seconds", "int") >>]

Reads ==
  [AVTransport |-> AVTransportReads, OHPlaylist |-> PlaylistReads, OHRadio |-> RadioReads,
   OHInfo |-> InfoReads, OHProduct |-> ProductReads, OHReceiver |-> ReceiverReads,
   OHSender |-> SenderReads, OHTime |-> TimeReads]
Watchable == DOMAIN Reads
ReadsOf(s, v) ==
  {a \in DOMAIN Reads[s] : \E n \in DOMAIN Reads[s][a] : Reads[s][a][n].of = v}
\* Token is no variable, it comes with the ids.
VariablesOf(s) ==
  (UNION {{Reads[s][a][n].of : n \in DOMAIN Reads[s][a]} : a \in DOMAIN Reads[s]}) \ {"Token"}

\* Elements that devices have under another name: PlayMode, and CodecName; and
\* the action that track() sends is Counters.
Misnamed(a) ==
  CASE a = "getTransportSettings" -> {"PlayMedia"}
    [] a = "details" -> {"Codecname"}
    [] a = "track" -> {"Uri", "Metadata"}
    [] OTHER -> {}

\* SoapIncoming::get(), and what is made of the value.  Nothing is put into a
\* parameter of which the element is missing or, but for strings, empty.
ReadValue(get, w) ==
  CASE get = "int" -> IF w = "" THEN Nothing ELSE ToldOf("int", w)
    [] get = "bool" -> IF w \in Truths \cup Falsities THEN ToldOf("bool", w) ELSE Nothing
    [] get = "atoi" -> ToldOf("int", w)
    [] get = "ohstate" -> IF w \in DOMAIN OHState THEN ToldOf("ohstate", w) ELSE Nothing
    [] get = "avmeta" -> IF w.items # <<>> THEN Got("dirent", w.items[1]) ELSE Nothing
    [] get = "metatext" -> IF w = NoDidl THEN Got("dirent", "empty") ELSE DecodeMetadata(w)
    [] get = "didl" ->
         IF DecodeMetadata(w) \notin {Nothing, Got("dirent", "bare")} THEN ToldOf("didl", w)
         ELSE Nothing
    [] get = "unparsed" -> Nothing
    [] OTHER -> ToldOf(get, w)

\* The queries of AVTransport take what they get, and read most of the strings
\* through one variable, which keeps what it has when an element is missing; a
\* value of another kind in it says nothing.
Unread(get) ==
  CASE get \in {"avstate", "avstatus", "avmode"} -> ToldOf(get, "none")
    [] get = "time" -> Got("int", 0)
    [] OTHER -> Nothing
KeptValue(kept, get) == IF kept.get = get THEN ReadValue(get, kept.w) ELSE Unread(get)
Direct == {"int", "text", "avactions"}

TakeRead(got, read, has, w) ==
  LET kept == IF has THEN [get |-> read.get, w |-> w] ELSE got.kept
      value == IF read.get \in Direct THEN IF has THEN ReadValue(read.get, w) ELSE Nothing
               ELSE KeptValue(kept, read.get)
      fails == read.get = "avactions" /\ value = Nothing
  IN  IF ~got.ok THEN got
      ELSE [ok |-> ~fails, kept |-> IF read.get \in Direct THEN got.kept ELSE kept,
            out |-> IF read.into = got.into /\ value # Nothing THEN value ELSE got.out,
            into |-> got.into]
\* Those of the OpenHome services end at the first element that is not as it
\* should be, except for the Array of ids; these are put after those that the
\* vector has, of which there are none here (Playlist.IdArray has them).  An
\* unknown state and a bad text of metadata are put into the parameter before
\* the query fails.
PutFirst == {"ohstate", "didl"}
NeedRead(got, read, has, w) ==
  LET value == IF has THEN ReadValue(read.get, w)
               ELSE IF read.get = "ids" THEN Got("ids", <<>>) ELSE Nothing
      put == IF has /\ read.get \in PutFirst THEN ToldOf(read.get, w) ELSE value
  IN  IF ~got.ok THEN got
      ELSE [got EXCEPT !.ok = value # Nothing,
                       !.out = IF read.into = got.into /\ put # Nothing THEN put ELSE @]

\* The answer to an action, of which one element may be missing.
ReadNext(s, a, missing, got, read) ==
  LET has == read.element \notin Misnamed(a) \cup missing
      w == IF read.of = watched.variable THEN shown
           ELSE Wire(IF read.get = "unparsed" THEN "avmeta" ELSE read.get)[1]
  IN  IF s = "AVTransport" THEN TakeRead(got, read, has, w) ELSE NeedRead(got, read, has, w)
NoneRead == [ok |-> TRUE, kept |-> [get |-> "none", w |-> "none"], out |-> Nothing,
             into |-> watched.variable]
Answer(s, a, missing) ==
  FoldLeft(LAMBDA got, read : ReadNext(s, a, missing, got, read), NoneRead, Reads[s][a])

-----------------------------------------------------------------------------
(* The commands of the program that set a variable: what it means by one,   *)
(* and what is sent.                                                        *)

Means(tag, value, w) == [meant |-> Got(tag, value), w |-> w]
Numbers == {0, 7, 65}
Truth(b) == Means("bool", b, IF b THEN "1" ELSE "0")
Number(n) == Means("int", n, I2S(n))
Address(u) == Means("text", u, u)
PlayModes == {"PM_Normal", "PM_RepeatOne", "PM_RepeatAll", "PM_Direct1"}
SetPlayMode(v) ==
  IF v = "CurrentPlayMode" THEN {Means("enum", pm, PlayModeName(pm)) : pm \in PlayModes} ELSE {}
SetURI(v) ==
  IF v \in {"AVTransportURI", "NextAVTransportURI"} THEN {Address(u) : u \in {"text", "other"}}
  ELSE {}
SeekTo(v) ==
  CASE v \in {"RelativeTimePosition", "AbsoluteTimePosition"} ->
         {Means("int", t, UpnpDuration(t * 1000)) : t \in {-65, 0, 59, 60, 65, 3599, 3601}}
    [] v \in {"CurrentTrack", "RelativeCounterPosition", "AbsoluteCounterPosition"} ->
         {Number(n) : n \in Numbers}
    [] OTHER -> {}
PlaylistSets(v) ==
  CASE v \in {"Repeat", "Shuffle"} -> {Truth(b) : b \in BOOLEAN}
    [] v = "Id" -> {Number(n) : n \in Numbers}
    [] OTHER -> {}
RadioSets(v) ==
  CASE v = "Id" -> {Number(n) : n \in Numbers}
    [] v = "Uri" -> {Address(u) : u \in {"text", "other"}}
    [] OTHER -> {}
ProductSets(v) ==
  CASE v = "Standby" -> {Truth(b) : b \in BOOLEAN}
    [] v = "SourceIndex" -> {Number(n) : n \in Numbers}
    [] OTHER -> {}
ReceiverSets(v) == IF v = "Uri" THEN {Address(u) : u \in {"text", "other"}} ELSE {}
Commands(s, v) ==
  CASE s = "AVTransport" -> SetPlayMode(v) \cup SetURI(v) \cup SeekTo(v)
    [] s = "OHPlaylist" -> PlaylistSets(v)
    [] s = "OHRadio" -> RadioSets(v)
    [] s = "OHProduct" -> ProductSets(v)
    [] s = "OHReceiver" -> ReceiverSets(v)
    [] OTHER -> {}

-----------------------------------------------------------------------------

NotWatching == [service |-> "none", variable |-> "none"]
NoAnswer == [ret |-> "none", out |-> Nothing]

ProxiesInit ==
  /\ watched = NotWatching
  /\ shown = "none"
  /\ events = <<>>
  /\ reported = Nothing
  /\ answer = NoAnswer
  /\ meant = Nothing
  /\ heard = TRUE /\ warned = FALSE
  /\ settings = 0

Codec == EventCodec(watched.service, watched.variable)
Shows(w) == shown' = w /\ events' = Append(events, w) /\ answer' = NoAnswer

\* The program subscribes to a service, which sends the value.
Watch(s, v) ==
  /\ watched = NotWatching
  /\ watched' = [service |-> s, variable |-> v]
  /\ \E w \in ToSet(Wire(EventCodec(s, v))) : shown' = w /\ events' = <<w>>
  /\ UNCHANGED <<reported, answer, meant, heard, warned, settings>>

Settable == watched # NotWatching /\ settings < MaxSettings
DeviceChanges ==
  /\ Settable
  /\ \E w \in ToSet(Wire(Codec)) : w # shown /\ Shows(w)
  /\ meant' = Nothing
  /\ settings' = settings + 1
  /\ UNCHANGED <<watched, reported, heard, warned>>

\* The device does as it is told, and sends an event.
Command ==
  /\ Settable
  /\ \E c \in Commands(watched.service, watched.variable) : Shows(c.w) /\ meant' = c.meant
  /\ settings' = settings + 1
  /\ UNCHANGED <<watched, reported, heard, warned>>

EvtCallback ==
  /\ events # <<>>
  /\ reported' = LET t == ToldOf(Codec, Head(events)) IN IF t = Nothing THEN reported ELSE t
  /\ events' = Tail(events)
  /\ UNCHANGED <<watched, shown, answer, meant, heard, warned, settings>>

\* The text of LastChange is bad: nothing of the event is told.
BadLastChange ==
  /\ watched.service = "AVTransport" /\ events # <<>>
  /\ events' = Tail(events)
  /\ heard' = FALSE
  /\ UNCHANGED <<watched, shown, reported, answer, meant, warned, settings>>

\* The subscription could not be renewed: evtCallback() is called with no
\* variable, and only that of OHPlaylist looks at it.
RenewalFails ==
  /\ watched # NotWatching /\ heard
  /\ events' = <<>>
  /\ heard' = FALSE
  /\ warned' = (watched.service = "OHPlaylist")
  /\ UNCHANGED <<watched, shown, reported, answer, meant, settings>>

\* A query, with no device's answer complete but by luck.
Query ==
  /\ watched # NotWatching /\ answer = NoAnswer
  /\ \E a \in ReadsOf(watched.service, watched.variable) :
       \E n \in 0..Len(Reads[watched.service][a]) :
         LET reads == Reads[watched.service][a]
             got == Answer(watched.service, a, IF n = 0 THEN {} ELSE {reads[n].element})
         IN  answer' = [ret |-> IF ~got.ok THEN "BAD_RESPONSE"
                                ELSE IF n = 0 THEN "complete" ELSE "incomplete",
                        out |-> got.out]
  /\ UNCHANGED <<watched, shown, events, reported, meant, heard, warned, settings>>

\* runAction() returns an error, and the query too.
ActionFails ==
  /\ watched # NotWatching /\ answer = NoAnswer
  /\ answer' = [ret |-> "error", out |-> Nothing]
  /\ UNCHANGED <<watched, shown, events, reported, meant, heard, warned, settings>>

ProxiesNext ==
  \/ \E s \in Watchable : \E v \in VariablesOf(s) : Watch(s, v)
  \/ DeviceChanges \/ Command
  \/ EvtCallback \/ BadLastChange \/ RenewalFails
  \/ Query \/ ActionFails

ProxiesSpec == ProxiesInit /\ [][ProxiesNext]_proxiesVars

ProxiesTypeOK ==
  /\ watched # NotWatching =>
       /\ watched.service \in Watchable /\ watched.variable \in VariablesOf(watched.service)
       /\ shown \in ToSet(Wire(Codec)) \cup {c.w : c \in Commands(watched.service, watched.variable)}
  /\ Len(events) <= settings + 1
  /\ Len(reported) <= 1 /\ Len(meant) <= 1
  /\ answer.ret \in {"none", "complete", "incomplete", "BAD_RESPONSE", "error"}
  /\ heard \in BOOLEAN /\ warned \in BOOLEAN
  /\ settings \in 0..MaxSettings

-----------------------------------------------------------------------------
(* Properties.                                                              *)

Settled == watched # NotWatching /\ events = <<>> /\ heard
\* The value can be told of: the reporter is not told of the others, and keeps
\* what it was told before.
Tellable == ToldOf(Codec, shown) # Nothing

\* What the queries read under a wrong name, or into a wrong place, or not at
\* all, and what the events of OHInfo have as text.
Misread ==
  [AVTransport |-> {"CurrentPlayMode", "NextAVTransportURIMetaData", "PlaybackStorageMedium",
                    "RecordStorageMedium"},
   OHInfo |-> VariablesOf("OHInfo") \ {"Metatext"}]
MisreadHere ==
  watched.service \in DOMAIN Misread /\ watched.variable \in Misread[watched.service]

\* Events, queries and commands are decoded and encoded in places apart, and for
\* every variable they must say the same: once the events are through, what the
\* reporter was told last is what the program set the variable to, and what a
\* query returns that says it has succeeded and has put something into the
\* parameter.
ToldAsAskedAndMeant ==
  Settled =>
    /\ meant # Nothing => reported = meant
    /\ answer.ret = "complete" /\ answer.out # Nothing /\ Tellable /\ ~MisreadHere
         => reported = answer.out

\* The same with no exception: not so.
AlwaysToldAsAsked ==
  Settled /\ answer.ret = "complete" /\ Tellable => reported = answer.out

\* What a query returns of an answer that lacks an element is not the value of
\* another element: but AbsTime is what RelTime was.
OwnOrNothing ==
  watched # NotWatching /\ answer.ret = "incomplete" /\ answer.out # Nothing /\ ~MisreadHere
    => answer.out \in {ReadValue(Codec, shown)} \cup {Unread(Codec)}

\* "Subscription autorenew failed" is told to a reporter (service.hxx:67), of
\* whichever service.
FailureIsTold == watched # NotWatching /\ ~heard /\ watched.service # "AVTransport" => warned
=============================================================================
