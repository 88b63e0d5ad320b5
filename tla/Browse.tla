-------------------------------- MODULE Browse --------------------------------
(***************************************************************************)
(* readDir(), search() and getMetadata() of ContentDirectory,              *)
(* control/cdirectory.cxx: a container is read in slices, by offset, while *)
(* the server may change it, and the server may send less than was asked   *)
(* for, fail, or not tell how many objects there are (a total of 0).       *)
(***************************************************************************)
EXTENDS Integers, SequencesExt, FiniteSetsExt

CONSTANTS
  m_rdreqcnt,  \* objects asked for in one request
  MaxContained, \* bound: objects in the container
  MaxContainerChanges   \* bound: changes of the container

VARIABLES
  container, \* the objects at the server, in order
  made,      \* the number of objects made, for new ids
  server,    \* what it is like: the longest slice it sends, does it tell totals?
  browsing,        \* the call in progress, or "none", or "done"
  offset, total, \* as in the code
  dirbuf,    \* the objects read
  error,     \* has the call returned an error?
  history    \* history: the changes, and has a request failed?

browseVars == <<container, made, server, browsing, offset, total, dirbuf, error, history>>
serverVars == <<container, made, server>>

ASSUME BrowseAssumption ==
  m_rdreqcnt \in Nat \ {0} /\ MaxContained \in Nat /\ MaxContainerChanges \in Nat

BrowseTypeOK ==
  /\ container \in Seq(1..made) /\ made \in Nat
  /\ server \in [slice : 1..m_rdreqcnt, totals : BOOLEAN]
  /\ browsing \in [call : {"none", "readDir", "search", "getMetadata"}, done : BOOLEAN]
  /\ offset \in Nat /\ total \in Nat
  /\ dirbuf \in Seq(1..made)
  /\ error \in BOOLEAN
  /\ history \in [changes : 0..MaxContainerChanges, failed : BOOLEAN]

BrowseInit ==
  /\ container = <<>> /\ made = 0
  /\ server = [slice |-> m_rdreqcnt, totals |-> TRUE]
  /\ browsing = [call |-> "none", done |-> TRUE]
  /\ offset = 0 /\ total = 0
  /\ dirbuf = <<>>
  /\ error = FALSE
  /\ history = [changes |-> 0, failed |-> FALSE]

-----------------------------------------------------------------------------
(* The server.                                                              *)

\* It is what it is before the first call.
Serves(n, slice, totals) ==
  /\ browsing.call = "none" /\ made = 0
  /\ container' = [i \in 1..n |-> i] /\ made' = n
  /\ server' = [slice |-> slice, totals |-> totals]
  /\ UNCHANGED <<browsing, offset, total, dirbuf, error, history>>

\* An object comes or goes, at any place.
ContainerChanges ==
  /\ ~browsing.done /\ history.changes < MaxContainerChanges
  /\ \/ \E i \in 1..(Len(container) + 1) :
          container' = InsertAt(container, i, made + 1) /\ made' = made + 1
     \/ \E i \in DOMAIN container : container' = RemoveAt(container, i) /\ UNCHANGED made
  /\ history' = [history EXCEPT !.changes = @ + 1]
  /\ UNCHANGED <<server, browsing, offset, total, dirbuf, error>>

Slice(from, count) == SubSeq(container, from + 1, Min({Len(container), from + count}))

-----------------------------------------------------------------------------
(* The calls.                                                               *)

CallBrowse(call) ==
  /\ browsing.call = "none"
  /\ browsing' = [call |-> call, done |-> FALSE]
  /\ UNCHANGED serverVars /\ UNCHANGED <<offset, total, dirbuf, error, history>>

Done(ok) == browsing' = [browsing EXCEPT !.done = TRUE] /\ error' = ~ok
\* As if the total were not looked at.
GoesOn_Always(count, newTotal) == count = m_rdreqcnt
GoesOn(count, newTotal) == count = m_rdreqcnt /\ (newTotal = 0 \/ offset + count < newTotal)

\* readDirSlice() or searchSlice(), and the test of the loop.  A slice without
\* objects is an error of the former; the latter looks at the count that was
\* asked for and takes it for the end.  What parse() says is not looked at.
BrowseSlice ==
  /\ ~browsing.done /\ browsing.call \in {"readDir", "search"}
  /\ LET got == Slice(offset, server.slice) IN
     /\ dirbuf' = dirbuf \o got
     /\ offset' = offset + Len(got)
     /\ total' = IF server.totals THEN Len(container) ELSE 0
     /\ IF got = <<>> THEN Done(browsing.call = "search")
        ELSE IF GoesOn(Len(got), total') THEN UNCHANGED <<browsing, error>>
        ELSE Done(TRUE)
  /\ UNCHANGED serverVars /\ UNCHANGED history

\* getMetadata() of an object.
BrowseMetadata ==
  /\ ~browsing.done /\ browsing.call = "getMetadata"
  /\ IF container = <<>> THEN Done(FALSE) /\ UNCHANGED dirbuf
     ELSE Done(TRUE) /\ dirbuf' = <<Head(container)>>
  /\ UNCHANGED serverVars /\ UNCHANGED <<offset, total, history>>

\* The action fails, or the answer lacks one of the elements.
BrowseFails ==
  /\ ~browsing.done
  /\ Done(FALSE)
  /\ history' = [history EXCEPT !.failed = TRUE]
  /\ UNCHANGED serverVars /\ UNCHANGED <<offset, total, dirbuf>>

BrowseNext ==
  \/ \E n \in 0..MaxContained, s \in 1..m_rdreqcnt, t \in BOOLEAN : Serves(n, s, t)
  \/ ContainerChanges
  \/ \E c \in {"readDir", "search", "getMetadata"} : CallBrowse(c)
  \/ BrowseSlice \/ BrowseMetadata \/ BrowseFails

BrowseSpec == BrowseInit /\ [][BrowseNext]_browseVars

-----------------------------------------------------------------------------
(* Properties.                                                              *)

HasRead == browsing.done /\ browsing.call \in {"readDir", "search"}
Still == history.changes = 0
Full == server.slice = m_rdreqcnt
Multiple == Len(container) % m_rdreqcnt = 0

\* Of a container that does not change, whatever its size is next to that of the
\* slices, a call that succeeds has read every object, once and in order, and a
\* call fails only when the server does; but readDir() also does when the
\* container is empty, or a multiple of the slices with no total told.  While
\* the container changes, no more is read than there was at some time, and if
\* objects only come, no object that was there is missed.
BrowseComplete ==
  HasRead =>
    /\ Still /\ ~error /\ Full => dirbuf = container
    /\ Still => IsPrefix(dirbuf, container)
    /\ Still /\ error /\ ~history.failed =>
         browsing.call = "readDir" /\ Multiple /\ (container = <<>> \/ ~server.totals)
    /\ Full /\ ~error /\ ~history.failed /\ Len(container) = made =>
         \A o \in 1..(made - history.changes) : o \in ToSet(dirbuf)

\* The same from a server that sends shorter slices than it is asked for: not as
\* the first of these ends the loop.
CappedIsComplete == HasRead /\ Still /\ ~error => dirbuf = container

\* An empty container is no error.
EmptyIsRead == HasRead /\ Still /\ error => history.failed
===============================================================================
