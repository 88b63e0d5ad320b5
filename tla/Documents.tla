------------------------------- MODULE Documents -------------------------------
(***************************************************************************)
(* The XML documents that a control point reads, and what its parsers make *)
(* of them: directory contents (DIDL-Lite), the description of a device,   *)
(* that of a service, the sources of an OpenHome product, the LastChange   *)
(* of AVTransport and RenderingControl, and protocol information.          *)
(*                                                                         *)
(* A document is the sequence of its events (Sax), and may be cut short.   *)
(***************************************************************************)
EXTENDS Sax, FiniteSets

CONSTANT MaxFields \* bound: elements in an object of a directory

VARIABLES
  document, \* what there is to read, by its meaning
  reading   \* what the parser has made of it

documentsVars == <<document, reading>>

-----------------------------------------------------------------------------
(* cdircontent.cxx: UPnPDirParser.                                          *)

ItemClass == [music |-> "audioItem", list |-> "playlist", video |-> "videoItem"]
NoObject == [type |-> "none", id |-> "", title |-> <<>>, class |-> "unknown",
             props |-> <<>>, allprops |-> <<>>, resources |-> <<>>, didlfrag |-> <<>>]

\* A property is a sequence of the values that are put together with ", ".
With(props, name, values) == [n \in DOMAIN props \cup {name} |-> IF n = name THEN values ELSE props[n]]
Value(props, name) == IF name \in DOMAIN props THEN props[name] ELSE <<>>
Shown(role) == IF role = "AlbumArtist" THEN "" ELSE role
addprop(object, name, element, detailed) ==
  LET role == Attribute(element, "role")
      current == Value(object.props, name)
      value == [data |-> element.data, role |-> Shown(role)]
  IN  IF detailed
      THEN [object EXCEPT !.allprops =
              With(@, name, Append(Value(@, name), [data |-> element.data, role |-> role]))]
      ELSE IF current = <<[data |-> element.data, role |-> ""]>> THEN object
      ELSE [object EXCEPT !.props = With(@, name, Append(current, value))]

\* Of an item the class is looked up, and is a property from then on.
checkobjok(object) ==
  LET class == Value(object.props, "upnp:class")
      known == Len(class) = 1 /\ Len(class[1].data) = 1 /\ class[1].role = ""
               /\ class[1].data[1] \in DOMAIN ItemClass
  IN  IF object.type # "item" THEN object
      ELSE [object EXCEPT !.props = With(@, "upnp:class", class),
                          !.class = IF known THEN ItemClass[class[1].data[1]] ELSE @]

\* The end of an element whose one tag is start and end (<item/>): expat has the
\* same place for both, and an item has no text then.
EndHere == [event |-> "close", here |-> TRUE]

UPnPDirContent(events, detailed) ==
  LET StartElement(dir, path) ==
        IF Last(path).name \in {"container", "item"}
        THEN [dir EXCEPT !.tobj = [NoObject EXCEPT !.type = Last(path).name,
                                                   !.id = Attribute(Last(path), "id")]]
        ELSE dir
      EndElement(dir, path) ==
        LET element == Last(path)
            frag == IF events[element.here] = EndHere THEN <<>>
                    ELSE SubSeq(events, element.start, element.here - 1) \o EndTag
        IN  CASE element.name = "container" ->
                   [dir EXCEPT !.containers = Append(@, checkobjok(dir.tobj))]
              [] element.name = "item" ->
                   [dir EXCEPT !.items = Append(@, [checkobjok(dir.tobj) EXCEPT !.didlfrag = frag])]
              [] ParentName(path) \in {"item", "container"} ->
                   [dir EXCEPT !.tobj =
                      CASE element.name = "dc:title" -> [@ EXCEPT !.title = element.data]
                        [] element.name = "res" ->
                             [@ EXCEPT !.resources = Append(@, [uri |-> element.data,
                                                                props |-> element.attributes])]
                        [] OTHER -> addprop(@, element.name, element, detailed)]
              [] OTHER -> dir
  IN  Parse(events, [containers |-> <<>>, items |-> <<>>, tobj |-> NoObject],
            StartElement, EndElement, UnhandledData)

\* parse(): "Double-quoting happens", and a text that is quoted once is unquoted
\* first; one that is quoted once more is no document.
parse(events, quoted, detailed) ==
  UPnPDirContent(IF quoted <= 1 THEN events ELSE <<>>, detailed)

\* getdidl() of an item
Didl(content) == Element("DIDL-Lite", NoAttributes, content)
getdidl(object) == Didl(object.didlfrag)

-----------------------------------------------------------------------------
(* description.cxx: UPnPDeviceParser and ServiceDescriptionParser.          *)

NoDevice == [UDN |-> <<>>, deviceType |-> <<>>, services |-> <<>>]
\* All that EndElement() does, but for the clearing of the service that ends.
EndOfElement(d, path) ==
  LET text == Trim(d.chardata, BlanksAndLines)
      which == IF \E n \in DOMAIN path : path[n].name = "deviceList" THEN "tdevice" ELSE "main"
      name == Last(path).name
      handled ==
        CASE name = "service" -> [d EXCEPT ![which].services = Append(@, d.tservice)]
          [] name = "device" /\ which = "tdevice" ->
               [d EXCEPT !.embedded = Append(@, d.tdevice), !.tdevice = NoDevice]
          [] name = "device" -> [d EXCEPT !.tdevice = NoDevice]
          [] name \in {"serviceId", "SCPDURL"} -> [d EXCEPT !.tservice[name] = text]
          [] name \in {"deviceType", "UDN"} -> [d EXCEPT ![which][name] = text]
          [] name = "URLBase" -> [d EXCEPT !.URLBase = text]
          [] OTHER -> d
  IN  [handled EXCEPT !.chardata = <<>>]
NoService == [serviceId |-> <<>>, SCPDURL |-> <<>>]
EndDevice(d, path) ==
  LET handled == EndOfElement(d, path)
  IN  IF Last(path).name = "service" THEN [handled EXCEPT !.tservice = NoService] ELSE handled
DeviceData(d, path, chunk) == [d EXCEPT !.chardata = Append(@, chunk)]

\* The constructor: the base of the URL of the document stands for the URLBase
\* that is missing, and all of this only if the document is parsed.
UPnPDeviceDesc(events) ==
  LET p == Parse(events, [main |-> NoDevice, embedded |-> <<>>, URLBase |-> <<>>, chardata |-> <<>>,
                          tdevice |-> NoDevice, tservice |-> NoService],
                 Unhandled, EndDevice, DeviceData)
      base == IF p.made.URLBase = <<>> THEN <<"baseurl">> ELSE p.made.URLBase
  IN  [ok |-> p.ok, main |-> p.made.main, embedded |-> p.made.embedded,
       URLBase |-> IF p.ok THEN base ELSE p.made.URLBase]

NoArgument == [name |-> <<>>, todevice |-> TRUE, related |-> <<>>]
NoAction == [name |-> <<>>, argList |-> <<>>]
NoVariable == [name |-> <<>>, sendEvents |-> FALSE, dataType |-> <<>>, range |-> <<>>]
\* stringToBool() of the first letter; the others leave the value.
Boolean(data, value) ==
  IF data = <<>> THEN value
  ELSE CASE data[1] \in {"yes", "1", "true"} -> TRUE
         [] data[1] \in {"no", "0", "false"} -> FALSE
         [] OTHER -> value

ServiceDescription(events) ==
  LET StartElement(d, path) ==
        CASE Last(path).name = "action" -> [d EXCEPT !.tact = NoAction]
          [] Last(path).name = "argument" -> [d EXCEPT !.targ = NoArgument]
          [] Last(path).name = "stateVariable" ->
               [d EXCEPT !.tvar = [NoVariable EXCEPT !.sendEvents =
                                     Boolean(<<Attribute(Last(path), "sendEvents")>>, FALSE)]]
          [] OTHER -> d
      EndElement(d, path) ==
        LET name == Last(path).name
            data == Last(path).data
            trimmed == Trim(data, Blanks)
        IN  CASE name = "action" -> [d EXCEPT !.actionList = With(@, d.tact.name, d.tact)]
              [] name = "argument" -> [d EXCEPT !.tact.argList = Append(@, d.targ)]
              [] name = "direction" -> [d EXCEPT !.targ.todevice = (data = <<"in">>)]
              [] name = "dataType" -> [d EXCEPT !.tvar.dataType = trimmed]
              [] name \in {"minimum", "maximum", "step"} ->
                   [d EXCEPT !.tvar.range = With(@, name, data)]
              [] name = "name" /\ ParentName(path) = "argument" -> [d EXCEPT !.targ.name = trimmed]
              [] name = "name" /\ ParentName(path) = "action" -> [d EXCEPT !.tact.name = trimmed]
              [] name = "name" /\ ParentName(path) = "stateVariable" ->
                   [d EXCEPT !.tvar.name = trimmed]
              [] name = "relatedStateVariable" -> [d EXCEPT !.targ.related = trimmed]
              [] name = "stateVariable" -> [d EXCEPT !.stateTable = With(@, d.tvar.name, d.tvar)]
              [] OTHER -> d
  IN  Parse(events, [actionList |-> <<>>, stateTable |-> <<>>, targ |-> NoArgument,
                     tact |-> NoAction, tvar |-> NoVariable], StartElement, EndElement, UnhandledData)

\* TypedService::runAction(): the values, as many as the action has arguments to
\* the device, are sent under the names of the first arguments.
runAction(action, values) ==
  LET toDevice == SelectSeq(action.argList, LAMBDA a : a.todevice)
  IN  IF Len(toDevice) # Len(values) THEN <<>>
      ELSE [n \in DOMAIN values |-> [name |-> action.argList[n].name, value |-> values[n]]]

-----------------------------------------------------------------------------
(* The sources of OHProduct, LastChange, protocol information.              *)

NoSource == [name |-> <<>>, type |-> <<>>, visible |-> FALSE]
OHSources(events) ==
  LET EndElement(d, path) ==
        IF Last(path).name = "Source"
        THEN [sources |-> Append(d.sources, d.tsrc), tsrc |-> NoSource] ELSE d
      CharacterData(d, path, chunk) ==
        LET text == Trim(<<chunk>>, Blanks)
        IN  CASE Last(path).name = "Name" -> [d EXCEPT !.tsrc.name = text]
              [] Last(path).name = "Type" -> [d EXCEPT !.tsrc.type = text]
              [] Last(path).name = "Visible" ->
                   [d EXCEPT !.tsrc.visible = Boolean(text, d.tsrc.visible)]
              [] OTHER -> d
  IN  Parse(events, [sources |-> <<>>, tsrc |-> NoSource], Unhandled, EndElement, CharacterData)

\* LastchangeParser: the value of an element, for a channel that is not Master by
\* the name and the channel.
LastChange(events) ==
  LET StartElement(props, path) ==
        LET channel == Attribute(Last(path), "channel")
            name == <<Last(path).name, IF channel = "Master" THEN "" ELSE channel>>
        IN  IF Last(path).name = "Event" THEN props
            ELSE With(props, name, Attribute(Last(path), "val"))
  IN  Parse(events, <<>>, StartElement, Unhandled, UnhandledData)

\* parseProtoInfEntry(): the four fields of an entry; the third is a type and its
\* parameters for http-get, the tokens of which are names, ";" and "=".
stringtolower(token) ==
  CASE token = "HTTP-GET" -> "http-get"
    [] token = "audio/L16" -> "audio/l16"
    [] token = "Rate" -> "rate"
    [] OTHER -> token

BadEntry == <<>>
parseProtoInfEntry(entry) ==
  LET protocol == stringtolower(entry.fields[1][1])
      content == [n \in DOMAIN entry.fields[3] |-> stringtolower(entry.fields[3][n])]
      Parameters == {4 * n - 2 : n \in 1..(Len(content) \div 4)}
      Entry(format, parameters) ==
        <<[protocol |-> protocol, format |-> format, parameters |-> parameters]>>
  IN  CASE Len(entry.fields) # 4 -> BadEntry
        [] protocol # "http-get" -> Entry(content, {})
        [] content = <<>> \/ (Len(content) - 1) % 4 # 0 -> BadEntry
        [] OTHER -> Entry(<<content[1]>>, {<<content[n + 1], content[n + 3]>> : n \in Parameters})
parseProtocolInfo(entries) == Written(parseProtoInfEntry, entries)

\* getProtocolInfo() of the connection manager: Source, then Sink, which are
\* there or not.
getProtocolInfo(answer) ==
  [ok |-> \A which \in {"Source", "Sink"} : answer[which].given,
   source |-> IF answer["Source"].given THEN parseProtocolInfo(answer["Source"].entries) ELSE <<>>,
   sink |-> IF answer["Source"].given /\ answer["Sink"].given
            THEN parseProtocolInfo(answer["Sink"].entries) ELSE <<>>]

-----------------------------------------------------------------------------
(* What is read: documents by their meaning, and how they are written.      *)

AllSequences(set, n) == UNION {[1..m -> set] : m \in 0..n}

Field(name, role, data) == [name |-> name, role |-> role, data |-> data]
Fields ==
  {Field("dc:title", "", <<"a", "&">>), Field("res", "", <<"a">>),
   Field("upnp:artist", "", <<"a">>), Field("upnp:artist", "Composer", <<"a">>),
   Field("upnp:artist", "AlbumArtist", <<"b">>), Field("upnp:class", "", <<"music">>)}
WriteField(f) ==
  Element(f.name, IF f.role = "" THEN NoAttributes ELSE [n \in {"role"} |-> f.role],
          FlattenSeq([n \in DOMAIN f.data |-> Data(f.data[n])]))
Object(type, fields) == [type |-> type, fields |-> fields, onetag |-> FALSE]
OneTag(type) == [Object(type, <<>>) EXCEPT !.onetag = TRUE]
WriteObject(o) ==
  LET id == [n \in {"id"} |-> "id"]
  IN  IF o.onetag THEN StartTag(o.type, id) \o <<EndHere>>
      ELSE Element(o.type, id, Written(WriteField, o.fields))
WriteObjects(objects) == Didl(Written(WriteObject, objects))
Types == {"container", "item"}
Directories ==
  {<<Object(t, f)>> : t \in Types, f \in AllSequences(Fields, MaxFields)}
  \cup {<<Object(t, f), Object(u, g)>> : t, u \in Types, f, g \in AllSequences(Fields, 1)}
  \cup {<<OneTag(t), Object(u, f)>> : t, u \in Types, f \in AllSequences(Fields, 1)}

Texts == {<<"a">>, <<"a", "&", "b">>, <<"nl", " ", "a", "nl">>, <<>>}
Service(id, url) == [serviceId |-> id, SCPDURL |-> url]
WriteService(s) ==
  Element("service", NoAttributes,
    Leaf("serviceId", s.serviceId) \o IF s.SCPDURL = <<>> THEN <<>> ELSE Leaf("SCPDURL", s.SCPDURL))
\* A device with its UDN before or after its services and embedded devices.
DeviceWith(udn, early, services, embedded) ==
  [UDN |-> udn, early |-> early, services |-> services, embedded |-> embedded]
WriteDeviceWith(d, written) ==
  LET udn == Leaf("UDN", d.UDN)
  IN  Element("device", NoAttributes,
        (IF d.early THEN udn ELSE <<>>)
        \o Element("serviceList", NoAttributes, Written(WriteService, d.services))
        \o (IF written = <<>> THEN <<>> ELSE Element("deviceList", NoAttributes, written))
        \o (IF d.early THEN <<>> ELSE udn))
WriteInner(d) == WriteDeviceWith(d, <<>>)
WriteEmbedded(d) == WriteDeviceWith(d, Written(WriteInner, d.embedded))
WriteRoot(d, urlbase) ==
  Element("root", NoAttributes,
    (IF urlbase = <<>> THEN <<>> ELSE Leaf("URLBase", urlbase))
    \o WriteDeviceWith(d, Written(WriteEmbedded, d.embedded)))
SomeServices == {Service(<<"a">>, <<"a", "&", "b">>), Service(<<"b">>, <<>>)}
Inner == {DeviceWith(<<"c">>, early, <<Service(<<"c">>, <<"c">>)>>, <<>>) : early \in BOOLEAN}
Embedded ==
  {DeviceWith(IF early THEN <<"a", "nl">> ELSE <<"b">>, early, services, inner) :
     early \in BOOLEAN, services \in AllSequences(SomeServices, 1), inner \in AllSequences(Inner, 1)}
Roots ==
  {DeviceWith(udn, early, services, <<>>) :
     udn \in Texts, early \in BOOLEAN, services \in AllSequences(SomeServices, 2)}
  \cup {DeviceWith(<<"a">>, early, <<Service(<<"a">>, <<>>)>>, embedded) :
           early \in BOOLEAN, embedded \in AllSequences(Embedded, 1)}
  \cup {DeviceWith(<<"a">>, TRUE, <<>>, embedded) : embedded \in [1..2 -> Embedded]}

Argument(name, direction) == [name |-> name, direction |-> direction]
WriteArgument(a) ==
  Element("argument", NoAttributes, Leaf("name", a.name) \o Leaf("direction", a.direction))
WriteAction(a) ==
  Element("action", NoAttributes,
    Leaf("name", a.name) \o Element("argumentList", NoAttributes, Written(WriteArgument, a.args)))
WriteStateVariable(v) ==
  Element("stateVariable", IF v.sendEvents = "" THEN NoAttributes ELSE [n \in {"sendEvents"} |-> v.sendEvents],
    Leaf("name", v.name) \o IF v.maximum = <<>> THEN <<>> ELSE Leaf("maximum", v.maximum))
WriteScpd(d) ==
  Element("scpd", NoAttributes,
    Element("actionList", NoAttributes, Written(WriteAction, d.actions))
    \o Element("serviceStateTable", NoAttributes, Written(WriteStateVariable, d.variables)))
Spaced == {<<"a">>, <<" ", "b">>}
SomeArguments ==
  [name : {<<"a">>, <<"b">>}, direction : {<<"in">>, <<"out">>, <<" ", "in">>}]
Scpds ==
  {[actions |-> <<[name |-> name, args |-> args]>>, variables |-> <<>>] :
     name \in Spaced, args \in AllSequences(SomeArguments, 2)}
  \cup {[actions |-> <<[name |-> n, args |-> a], [name |-> m, args |-> b]>>, variables |-> <<>>] :
           n, m \in Spaced, a, b \in AllSequences(SomeArguments, 1)}
  \cup {[actions |-> <<>>, variables |-> variables] :
     variables \in AllSequences([name : Spaced, sendEvents : {"", "yes", "no"},
                                 maximum : {<<>>, <<"a">>}], 2)}

WriteSource(s) ==
  Element("Source", NoAttributes,
    Leaf("Name", s.name) \o Leaf("Type", s.type)
    \o IF s.visible = "" THEN <<>> ELSE Leaf("Visible", <<s.visible>>))
WriteSources(sources) == Element("SourceList", NoAttributes, Written(WriteSource, sources))
SourceLists ==
  AllSequences([name : Texts, type : {<<"b">>, <<" ", "a">>}, visible : {"", "true", "no"}], 2)

Setting(name, channel, val) == [name |-> name, channel |-> channel, val |-> val]
WriteSetting(s) ==
  Element(s.name, [n \in {"val"} \cup IF s.channel = "" THEN {} ELSE {"channel"} |->
                     IF n = "val" THEN s.val ELSE s.channel], <<>>)
WriteInstance(settings) ==
  Element("InstanceID", [n \in {"val"} |-> "0"], Written(WriteSetting, settings))
WriteLastChange(instances) == Element("Event", NoAttributes, Written(WriteInstance, instances))
Settings ==
  {Setting(name, channel, val) : name \in {"Volume", "Mute"}, channel \in {"", "Master", "LF"},
                                 val \in {"0", "1"}}

\* The content format of http-get by its type and parameters.
WriteContent(type, parameters) ==
  <<type>> \o FlattenSeq([n \in DOMAIN parameters |->
                            <<";", parameters[n][1], "=", parameters[n][2]>>])
ProtocolEntry(protocol, content) ==
  [fields |-> <<<<protocol>>, <<"*">>, content, <<"*">>>>]
Entries ==
  {ProtocolEntry("http-get", WriteContent("audio/L16", parameters)) :
     parameters \in {<<>>, <<<<"rate", "44100">>>>, <<<<"rate", "44100">>, <<"channels", "2">>>>}}
  \cup {ProtocolEntry("HTTP-GET", WriteContent("audio/L16", <<<<"Rate", "44100">>>>))}
  \cup {ProtocolEntry("http-get", <<"audio/L16", ";">>), ProtocolEntry("http-get", <<>>),
        ProtocolEntry("other", <<"audio/L16", ";">>), [fields |-> <<<<"http-get">>, <<"*">>>>]}

-----------------------------------------------------------------------------
(* A program reads one document: the events of it, of which some may be cut *)
(* off at the end; half of them stands for all.                             *)

NoDocument == [kind |-> "none"]
DocumentsInit == document = NoDocument /\ reading = NoDocument

Cut(events, whole) == IF whole THEN events ELSE SubSeq(events, 1, Len(events) \div 2)
IsReading(kind, of, whole) == document' = [kind |-> kind, of |-> of, whole |-> whole]

ReadDirectory ==
  \E objects \in Directories, detailed, whole \in BOOLEAN :
    LET events == WriteObjects(objects)
    IN  /\ IsReading(IF detailed THEN "detailed" ELSE "directory", objects, whole)
        /\ reading' = parse(Cut(events, whole), 0, detailed)
ReadQuoted ==
  \E objects \in Directories, quoted \in 1..2 :
    /\ \A n \in DOMAIN objects : Len(objects[n].fields) <= 1
    /\ IsReading(IF quoted = 1 THEN "directory" ELSE "quoted", objects, TRUE)
    /\ reading' = parse(WriteObjects(objects), quoted, FALSE)
ReadDevice ==
  \E root \in Roots, urlbase \in {<<>>, <<"a">>}, whole \in BOOLEAN :
    /\ IsReading("device", [root |-> root, urlbase |-> urlbase], whole)
    /\ reading' = UPnPDeviceDesc(Cut(WriteRoot(root, urlbase), whole))
ReadService ==
  \E scpd \in Scpds, whole \in BOOLEAN :
    /\ IsReading("service", scpd, whole)
    /\ reading' = ServiceDescription(Cut(WriteScpd(scpd), whole))
ReadSources ==
  \E sources \in SourceLists, whole \in BOOLEAN :
    /\ IsReading("sources", sources, whole)
    /\ reading' = OHSources(Cut(WriteSources(sources), whole))
ReadLastChange ==
  \E instances \in {<<s>> : s \in AllSequences(Settings, 2)} \cup
                   {<<<<s>>, <<t>>>> : s, t \in Settings}, whole \in BOOLEAN :
    /\ IsReading("lastchange", instances, whole)
    /\ reading' = LastChange(Cut(WriteLastChange(instances), whole))
ReadProtocolInfo ==
  \E source, sink \in [given : BOOLEAN, entries : AllSequences(Entries, 2)] :
    LET answer == [which \in {"Source", "Sink"} |-> IF which = "Source" THEN source ELSE sink]
    IN  /\ Len(sink.entries) <= 1
        /\ IsReading("protocolinfo", answer, TRUE)
        /\ reading' = getProtocolInfo(answer)

DocumentsNext ==
  /\ document = NoDocument
  /\ \/ ReadDirectory \/ ReadQuoted \/ ReadDevice \/ ReadService
     \/ ReadSources \/ ReadLastChange \/ ReadProtocolInfo

-----------------------------------------------------------------------------
(* Properties.                                                              *)

Whole(kind) == document.kind = kind /\ document.whole

Valued(fields, name) == SelectSeq(fields, LAMBDA f : f.name = name)
DataOf(fields) == {fields[n].data : n \in DOMAIN fields}
OfType(objects, type) == SelectSeq(objects, LAMBDA o : o.type = type)
\* An object has its title, its resources in order, and of each property the
\* values that the document has: all of them, in order and with their roles, if
\* the program asks for the details.
SameObject(o, read, detailed) ==
  LET titles == Valued(o.fields, "dc:title")
      resources == Valued(o.fields, "res")
      names == {o.fields[n].name : n \in DOMAIN o.fields} \ {"dc:title", "res"}
  IN  /\ read.title = IF titles = <<>> THEN <<>> ELSE Last(titles).data
      /\ [n \in DOMAIN read.resources |-> read.resources[n].uri]
           = [n \in DOMAIN resources |-> resources[n].data]
      /\ IF detailed
         THEN read.allprops = [name \in names |-> LET values == Valued(o.fields, name)
                                 IN [n \in DOMAIN values |-> [data |-> values[n].data,
                                                              role |-> values[n].role]]]
         ELSE /\ DOMAIN read.props \ names \subseteq {"upnp:class"} /\ names \subseteq DOMAIN read.props
              /\ \A name \in names : DataOf(read.props[name]) = DataOf(Valued(o.fields, name))
SameObjects(objects, reads, detailed) ==
  /\ Len(objects) = Len(reads)
  /\ \A n \in DOMAIN reads : SameObject(objects[n], reads[n], detailed)
DirectoryIsRead ==
  \A detailed \in BOOLEAN :
    Whole(IF detailed THEN "detailed" ELSE "directory") =>
      /\ reading.ok
      /\ SameObjects(OfType(document.of, "container"), reading.made.containers, detailed)
      /\ SameObjects(OfType(document.of, "item"), reading.made.items, detailed)
      \* What is sent on for an item says the same of it as what was received, unless
      \* it was all in one tag.
      /\ \A n \in DOMAIN reading.made.items :
           LET item == reading.made.items[n]
               again == UPnPDirContent(getdidl(item), detailed)
           IN  /\ again.ok /\ again.made.containers = <<>>
               /\ ~OfType(document.of, "item")[n].onetag => again.made.items = <<item>>

Trimmed(data) == Trim(data, BlanksAndLines)
SameDevice(d, read) ==
  /\ read.UDN = Trimmed(d.UDN)
  /\ read.services = [n \in DOMAIN d.services |-> d.services[n]]
\* A device is described by what its own element has, and each of its embedded
\* devices by its own (those that are not embedded in another one).
DeviceIsRead ==
  Whole("device") =>
    LET embedded == document.of.root.embedded
    IN  /\ reading.ok
        /\ SameDevice(document.of.root, reading.main)
        /\ reading.URLBase = IF document.of.urlbase = <<>> THEN <<"baseurl">> ELSE document.of.urlbase
        /\ (\A n \in DOMAIN embedded : embedded[n].embedded = <<>>) =>
             /\ Len(reading.embedded) = Len(embedded)
             /\ \A n \in DOMAIN embedded : SameDevice(embedded[n], reading.embedded[n])

LastNamed(things, name) ==
  Last(SelectSeq(things, LAMBDA t : Trim(t.name, Blanks) = name))
NamesOf(things) == {Trim(things[n].name, Blanks) : n \in DOMAIN things}
InFirst(args) == \A m, n \in DOMAIN args : m < n /\ args[n].todevice => args[m].todevice
\* The arguments by which an action is sent what it is called with.
Sent(action) ==
  LET toDevice == SelectSeq(action.argList, LAMBDA a : a.todevice)
      sent == runAction(action, [n \in DOMAIN toDevice |-> n])
  IN  [n \in DOMAIN sent |-> [NoArgument EXCEPT !.name = sent[n].name]]
\* A service has the actions and variables of its description by their names, an
\* action its arguments in their order; what one of them leaves out is not taken
\* from another.  An action that has the arguments to the device first, as the
\* standard wants it, is sent the values that it is called with under their names.
ServiceIsRead ==
  Whole("service") =>
    LET actions == reading.made.actionList
        variables == reading.made.stateTable
    IN  /\ reading.ok
        /\ DOMAIN actions = NamesOf(document.of.actions)
        /\ \A name \in DOMAIN actions :
             LET args == LastNamed(document.of.actions, name).args
             IN  actions[name] = [name |-> name, argList |-> [n \in DOMAIN args |->
                   [NoArgument EXCEPT !.name = args[n].name,
                                      !.todevice = (args[n].direction = <<"in">>)]]]
        /\ \A name \in DOMAIN actions : InFirst(actions[name].argList) =>
             Sent(actions[name]) = SelectSeq(actions[name].argList, LAMBDA x : x.todevice)
        /\ DOMAIN variables = NamesOf(document.of.variables)
        /\ \A name \in DOMAIN variables :
             LET v == LastNamed(document.of.variables, name)
             IN  /\ variables[name].sendEvents = (v.sendEvents = "yes")
                 /\ (DOMAIN variables[name].range = {}) = (v.maximum = <<>>)

\* The sources are read in order, each with what it has.
SourcesAreRead ==
  Whole("sources") =>
    /\ reading.ok
    /\ Len(reading.made.sources) = Len(document.of)
    /\ \A n \in DOMAIN document.of :
         LET read == reading.made.sources[n]
             source == document.of[n]
         IN  /\ Len(source.name) <= 1 => read.name = source.name
             /\ read.visible = (source.visible = "true")
             /\ source.type = <<"b">> => read.type = source.type

\* Of each variable and channel the value that the event has last is told.
LastChangeIsRead ==
  Whole("lastchange") /\ Len(document.of) = 1 =>
    LET settings == document.of[1]
        Of(s) == <<s.name, IF s.channel = "Master" THEN "" ELSE s.channel>>
    IN  /\ reading.ok
        /\ \A n \in DOMAIN settings :
             reading.made[Of(settings[n])]
               = Last(SelectSeq(settings, LAMBDA s : Of(s) = Of(settings[n]))).val
        /\ DOMAIN reading.made = {Of(settings[n]) : n \in DOMAIN settings} \cup {<<"InstanceID", "">>}

\* A well-formed entry is read with its parameters, and an ill-formed one does
\* not shift or end the others.
ProtocolInfoIsRead ==
  document.kind = "protocolinfo" /\ reading.ok =>
    \A which \in {"Source", "Sink"} :
      LET entries == document.of[which].entries
          good == SelectSeq(entries, LAMBDA e : parseProtoInfEntry(e) # BadEntry)
          read == IF which = "Source" THEN reading.source ELSE reading.sink
      IN  /\ Len(read) = Len(good)
          /\ \A n \in DOMAIN good :
               read[n].protocol = "http-get" =>
                 /\ read[n].format = <<"audio/l16">>
                 /\ 1 + 4 * Cardinality(read[n].parameters) = Len(good[n].fields[3])

\* A document that is cut short is told to be so, and what is none, too.
CutIsTold == document.kind # "none" /\ (~document.whole \/ document.kind = "quoted") => ~reading.ok

DocumentsAreRead ==
  /\ DirectoryIsRead /\ DeviceIsRead /\ ServiceIsRead
  /\ SourcesAreRead /\ LastChangeIsRead /\ ProtocolInfoIsRead
  /\ CutIsTold

(* Not so: an item that is one tag has a text to send on; "Only add the value *)
(* if it's not already there" (cdircontent.cxx, addprop()), but the value is  *)
(* compared with all that are there together; an item read in detail has its  *)
(* class, but it is sought where the details are not; an action is sent its   *)
(* values by name, but an argument from the device shifts them; a direction   *)
(* may have blanks around it, as a name may; a name is read whole, but the    *)
(* last chunk of it stands for it.                                            *)
AllHaveDidl ==
  Whole("directory") => \A n \in DOMAIN reading.made.items : reading.made.items[n].didlfrag # <<>>
ValuesAreThereOnce ==
  Whole("directory") =>
    \A n \in DOMAIN reading.made.items :
      LET props == reading.made.items[n].props
      IN  \A name \in DOMAIN props : IsInjective(props[name])
ClassInDetail ==
  Whole("detailed") =>
    \A n \in DOMAIN reading.made.items :
      LET item == reading.made.items[n]
      IN  "upnp:class" \in DOMAIN item.allprops /\ Len(item.allprops["upnp:class"]) = 1
            => item.class = "audioItem"
ArgumentsAreSentByName ==
  Whole("service") =>
    \A name \in DOMAIN reading.made.actionList :
      LET action == reading.made.actionList[name]
      IN  Sent(action) = SelectSeq(action.argList, LAMBDA x : x.todevice)
DirectionsAreTrimmed ==
  Whole("service") =>
    \A n \in DOMAIN document.of.actions :
      LET a == document.of.actions[n]
      IN  \A m \in DOMAIN a.args :
            Trim(a.args[m].direction, Blanks) = <<"in">> /\ LastNamed(document.of.actions, Trim(a.name, Blanks)) = a
              => reading.made.actionList[Trim(a.name, Blanks)].argList[m].todevice
SourceNamesAreWhole ==
  Whole("sources") =>
    \A n \in DOMAIN document.of : reading.made.sources[n].name = Trimmed(document.of[n].name)
=============================================================================
