---------------------------------- MODULE Sax ----------------------------------
(***************************************************************************)
(* expatmm.h: how a document is handed to the parsers that derive from     *)
(* ExpatXMLParser, in one block (inputRefXMLParser).                       *)
(*                                                                         *)
(* A document is the sequence of the events that expat has for it.  A text *)
(* is a sequence of chunks: expat calls CharacterData() once for each, and *)
(* has chunks of their own for an entity ("&") and the end of a line       *)
(* ("nl"); a blank is " ".                                                 *)
(***************************************************************************)
EXTENDS Integers, SequencesExt, Functions

NoAttributes == <<>>
StartTag(name, attributes) == <<[event |-> "open", name |-> name, attributes |-> attributes]>>
Data(chunk) == <<[event |-> "chars", chunk |-> chunk]>>
EndTag == <<[event |-> "close"]>>
Element(name, attributes, content) == StartTag(name, attributes) \o content \o EndTag
Leaf(name, data) == Element(name, NoAttributes, FlattenSeq([n \in DOMAIN data |-> Data(data[n])]))
\* The elements of a sequence of things, each written with Write().
Written(Write(_), things) == FlattenSeq([n \in DOMAIN things |-> Write(things[n])])

\* The path is the stack of the elements that are open; the handlers are called
\* with what has been made so far and the path.
ParserStart(made) == [path |-> <<>>, made |-> made, at |-> 1, ok |-> TRUE, done |-> FALSE]
Opened(p, e) ==
  Append(p.path, [name |-> e.name, attributes |-> e.attributes, data |-> <<>>,
                  start |-> p.at, here |-> p.at])
Filled(p, e) == [p.path EXCEPT ![Len(p.path)].data = Append(@, e.chunk)]
Closing(p) == [p.path EXCEPT ![Len(p.path)].here = p.at]
Handled(p, path, made) == [p EXCEPT !.path = path, !.made = made, !.at = @ + 1]
\* A document has one root.  The parser fails at the first event that is not in
\* its place, or at the end of a document that is not complete: then what was
\* made is kept.
NotInPlace(p) == [p EXCEPT !.ok = FALSE]
Parsed(p) == [ok |-> p.ok /\ p.done, made |-> p.made]
HandleEvent(p, e, StartElement(_, _), EndElement(_, _), CharacterData(_, _, _)) ==
  IF p.done THEN NotInPlace(p)
  ELSE CASE e.event = "open" ->
              LET path == Opened(p, e) IN Handled(p, path, StartElement(p.made, path))
         [] e.event = "chars" ->
              LET path == Filled(p, e) IN Handled(p, path, CharacterData(p.made, path, e.chunk))
         [] e.event = "close" ->
              [Handled(p, Front(p.path), EndElement(p.made, Closing(p)))
                 EXCEPT !.done = Len(p.path) = 1]
Parse(events, made, StartElement(_, _), EndElement(_, _), CharacterData(_, _, _)) ==
  Parsed(FoldLeft(LAMBDA p, e : HandleEvent(p, e, StartElement, EndElement, CharacterData),
                  ParserStart(made), events))

Unhandled(made, path) == made
UnhandledData(made, path, chunk) == made
Attribute(element, name) ==
  IF name \in DOMAIN element.attributes THEN element.attributes[name] ELSE ""
ParentName(path) == IF Len(path) = 1 THEN "root" ELSE path[Len(path) - 1].name

\* trimstring(), of the blanks that it is told.
Trim(data, blanks) ==
  LET ink == {n \in DOMAIN data : data[n] \notin blanks}
  IN  IF ink = {} THEN <<>>
      ELSE SubSeq(data, CHOOSE n \in ink : \A m \in ink : n <= m,
                        CHOOSE n \in ink : \A m \in ink : n >= m)
Blanks == {" "}
BlanksAndLines == {" ", "nl"}
=============================================================================
