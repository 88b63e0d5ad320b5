------------------------------ MODULE VirtualDir ------------------------------
(***************************************************************************)
(* The virtual directory of the device side, device/vdir.cxx: strings and  *)
(* program-supplied operations that libupnp's web server threads serve as  *)
(* files.  Each operation holds dirsmutex from begin to end (vdclose()     *)
(* takes no lock, but its handle is its own), so it is one step here.      *)
(*                                                                         *)
(* A path is the sequence of its segments: "/a/b" is <<"a", "b">>, and a   *)
(* trailing slash an empty last segment.  The data of a file is its        *)
(* version, which is the number of the addFile() it came with, and its     *)
(* size; byte i of version v is the record At(v, i).                       *)
(***************************************************************************)
EXTENDS Integers, SequencesExt

CONSTANTS
  Dirs,      \* the directories that the program adds files or operations to
  Names,     \* names of files in them
  Sizes,     \* sizes of contents
  Requests,  \* threads of the web server, one request each at a time
  Asked,     \* the paths that are requested
  Offsets,   \* offsets of seeks
  Buffers,   \* sizes of the buffers of reads
  MaxAdds    \* bound: calls of addFile() and addVDir()

VARIABLES
  m_dirs,    \* what is known of each directory
  adds,      \* the number of additions so far
  rpc,       \* where each request is
  asked,     \* the path it is for
  announced, \* the entry that vdgetinfo() told of
  handle,    \* the handle that vdopen() made
  got,       \* history: the bytes read since the last seek
  from,      \* history: the offset they are from
  atEnd,     \* history: has vdread() told of the end?
  stale      \* history: was the file replaced under the request?

requestVars == <<rpc, asked, announced, handle, got, from, atEnd, stale>>
vdirVars == <<m_dirs, adds, requestVars>>

ASSUME VDirAssumption ==
  /\ MaxAdds \in Nat /\ Sizes \subseteq Nat /\ Offsets \subseteq Nat
  /\ Buffers \subseteq Nat
  /\ Asked # {}

\* A FileEnt; version 0 stands for one that is not in the table.
FileEnt == [version : 0..MaxAdds, size : Sizes \cup {0}]
NoFile == [version |-> 0, size |-> 0]
\* A DirEnt; ops is the number of the addVDir() that its operations came with.
DirEnt == [known : BOOLEAN, isvd : BOOLEAN, ops : 0..MaxAdds, files : [Names -> FileEnt]]
NoDir == [known |-> FALSE, isvd |-> FALSE, ops |-> 0, files |-> [n \in Names |-> NoFile]]

\* A Handle: a pointer to the entry of a file, or the program's own handle and
\* the directory whose operations are to be used on it.
Handle ==
  [dir : Dirs, name : Names, vhandle : {0}, offset : Nat]
    \cup [dir : Dirs, vhandle : 1..MaxAdds]
NoHandle == [vhandle |-> -1]
At(v, i) == [version |-> v, byte |-> i]

VDirTypeOK ==
  /\ m_dirs \in [Dirs -> DirEnt]
  /\ adds \in 0..MaxAdds
  /\ rpc \in [Requests -> {"idle", "open", "reading"}]
  /\ asked \in [Requests -> Asked]
  /\ announced \in [Requests -> FileEnt]
  /\ handle \in [Requests -> Handle \cup {NoHandle}]
  /\ got \in [Requests -> Seq([version : 1..MaxAdds, byte : Nat])]
  /\ from \in [Requests -> Nat]
  /\ atEnd \in [Requests -> BOOLEAN]
  /\ stale \in [Requests -> BOOLEAN]
  /\ \A r \in Requests : rpc[r] = "reading" <=> handle[r] # NoHandle

VDirInit ==
  /\ m_dirs = [d \in Dirs |-> NoDir]
  /\ adds = 0
  /\ rpc = [r \in Requests |-> "idle"]
  /\ asked = [r \in Requests |-> CHOOSE p \in Asked : TRUE]
  /\ announced = [r \in Requests |-> NoFile]
  /\ handle = [r \in Requests |-> NoHandle]
  /\ got = [r \in Requests |-> <<>>]
  /\ from = [r \in Requests |-> 0]
  /\ atEnd = [r \in Requests |-> FALSE]
  /\ stale = [r \in Requests |-> FALSE]

-----------------------------------------------------------------------------
(* Paths.                                                                   *)

PathGetFather(p) ==
  Front(IF Len(p) > 1 /\ Last(p) = "" THEN Front(p) ELSE p)
PathGetSimple(p) == Last(p)

-----------------------------------------------------------------------------
(* The program.                                                             *)

\* A reader whose handle points to the entry sees the new content from now on.
PointsTo(r, d, n) ==
  \/ rpc[r] = "reading" /\ handle[r].vhandle = 0 /\ handle[r].dir = d /\ handle[r].name = n
  \/ rpc[r] = "open" /\ PathGetFather(asked[r]) = d /\ PathGetSimple(asked[r]) = n

\* addFile(), which also is what addVFile() and the services' descriptions use.
\* A directory of operations stays one.
AddFile(d, n, size) ==
  /\ adds < MaxAdds
  /\ adds' = adds + 1
  /\ m_dirs' = [m_dirs EXCEPT ![d].known = TRUE,
                              ![d].files[n] = [version |-> adds + 1, size |-> size]]
  /\ stale' = [r \in Requests |-> stale[r] \/ PointsTo(r, d, n)]
  /\ UNCHANGED <<rpc, asked, announced, handle, got, from, atEnd>>

\* addVDir(): a directory of files stays one.
AddVDir(d) ==
  /\ adds < MaxAdds
  /\ adds' = adds + 1
  /\ m_dirs' = [m_dirs EXCEPT ![d].known = TRUE,
                              ![d].isvd = @ \/ ~m_dirs[d].known,
                              ![d].ops = adds + 1]
  /\ UNCHANGED requestVars

-----------------------------------------------------------------------------
(* The web server, which asks for the information on a file, opens it,      *)
(* seeks and reads as it wants, and closes it.                              *)

\* vdgetentry()
Forwarded(p) ==
  LET d == PathGetFather(p) IN d \in Dirs /\ m_dirs[d].known /\ m_dirs[d].isvd
EntryOf(p) ==
  LET d == PathGetFather(p)
      n == PathGetSimple(p)
  IN  IF d \in Dirs /\ ~Forwarded(p) /\ n \in Names THEN m_dirs[d].files[n] ELSE NoFile

\* vdgetinfo(), when it has an entry to tell of or the program's getinfo() does.
GetInfo(r, p) ==
  /\ rpc[r] = "idle"
  /\ Forwarded(p) \/ EntryOf(p) # NoFile
  /\ rpc' = [rpc EXCEPT ![r] = "open"]
  /\ asked' = [asked EXCEPT ![r] = p]
  /\ announced' = [announced EXCEPT ![r] = EntryOf(p)]
  /\ got' = [got EXCEPT ![r] = <<>>]
  /\ from' = [from EXCEPT ![r] = 0]
  /\ atEnd' = [atEnd EXCEPT ![r] = FALSE]
  /\ stale' = [stale EXCEPT ![r] = FALSE]
  /\ UNCHANGED <<m_dirs, adds, handle>>

\* vdopen(), of the operations or of an entry.
Open(r) ==
  /\ rpc[r] = "open"
  /\ rpc' = [rpc EXCEPT ![r] = "reading"]
  /\ LET d == PathGetFather(asked[r]) IN
     handle' = [handle EXCEPT ![r] =
       IF Forwarded(asked[r]) THEN [dir |-> d, vhandle |-> m_dirs[d].ops]
       ELSE [dir |-> d, name |-> PathGetSimple(asked[r]), vhandle |-> 0, offset |-> 0]]
  /\ UNCHANGED <<m_dirs, adds, asked, announced, got, from, atEnd, stale>>

\* The program's open() refuses.
OpenFails(r) ==
  /\ rpc[r] = "open"
  /\ Forwarded(asked[r])
  /\ rpc' = [rpc EXCEPT ![r] = "idle"]
  /\ UNCHANGED <<m_dirs, adds, asked, announced, handle, got, from, atEnd, stale>>

Content(h) == m_dirs[h.dir].files[h.name]

\* vdseek() of a file, from its begin, from where it is, from its end.  The
\* server seeks to what a Range header asks for, which is no negative place.
SeekTarget(h, offset, origin) ==
  CASE origin = 0 -> offset
    [] origin = 1 -> h.offset + offset
    [] origin = 2 -> Content(h).size + offset
Seek(r, offset, origin) ==
  /\ rpc[r] = "reading" /\ handle[r].vhandle = 0
  /\ handle' = [handle EXCEPT ![r].offset = SeekTarget(handle[r], offset, origin)]
  /\ handle'[r].offset \in Offsets
  /\ got' = [got EXCEPT ![r] = <<>>]
  /\ from' = [from EXCEPT ![r] = handle'[r].offset]
  /\ atEnd' = [atEnd EXCEPT ![r] = FALSE]
  /\ UNCHANGED <<m_dirs, adds, rpc, asked, announced, stale>>

\* vdread() of a file: how much, and how far the offset moves.
ToRead_Buffer(h, buflen) == buflen
ToRead(h, buflen) ==
  IF h.offset >= Content(h).size THEN 0
  ELSE IF buflen > Content(h).size - h.offset THEN Content(h).size - h.offset ELSE buflen

Read(r, buflen) ==
  /\ rpc[r] = "reading" /\ handle[r].vhandle = 0
  /\ ~atEnd[r]
  /\ LET h == handle[r]
         n == ToRead(h, buflen)
     IN  /\ got' = [got EXCEPT ![r] =
                      @ \o [i \in 1..n |-> At(Content(h).version, h.offset + i)]]
         /\ handle' = [handle EXCEPT ![r].offset = @ + n]
         /\ atEnd' = [atEnd EXCEPT ![r] = buflen > 0 /\ n = 0]
  /\ UNCHANGED <<m_dirs, adds, rpc, asked, announced, from, stale>>

\* vdclose(); the reads and seeks of the program's own handles change nothing here.
Close(r) ==
  /\ rpc[r] = "reading"
  /\ rpc' = [rpc EXCEPT ![r] = "idle"]
  /\ handle' = [handle EXCEPT ![r] = NoHandle]
  /\ got' = [got EXCEPT ![r] = <<>>]
  /\ from' = [from EXCEPT ![r] = 0]
  /\ atEnd' = [atEnd EXCEPT ![r] = FALSE]
  /\ UNCHANGED <<m_dirs, adds, asked, announced, stale>>

Serve(r) ==
  \/ \E p \in Asked : GetInfo(r, p)
  \/ Open(r)
  \/ OpenFails(r)
  \/ \E o \in Offsets, origin \in 0..2 : Seek(r, o, origin)
  \/ \E b \in Buffers : Read(r, b)
  \/ Close(r)

VDirNext ==
  \/ \E d \in Dirs, n \in Names, s \in Sizes : AddFile(d, n, s)
  \/ \E d \in Dirs : AddVDir(d)
  \/ \E r \in Requests : Serve(r)

VDirSpec == VDirInit /\ [][VDirNext]_vdirVars

-----------------------------------------------------------------------------
(* Properties.                                                              *)

Position(b) == b.byte
\* vdread() works on an entry that addFile() may have replaced since the file
\* was announced, opened or read before.  Whatever its size is now, nothing
\* outside of the content is sent; what is sent is contiguous from where the
\* request has sought; and when the file was not replaced meanwhile, it is what
\* vdgetinfo() announced, to its end.
ServedFaithfully ==
  \A r \in Requests : rpc[r] = "reading" /\ handle[r].vhandle = 0 =>
    /\ \A i \in DOMAIN got[r] : Position(got[r][i]) = from[r] + i
    /\ got[r] # <<>> /\ Last(got[r]).version = Content(handle[r]).version
         => from[r] + Len(got[r]) <= Content(handle[r]).size
    /\ ~stale[r] =>
         /\ \A i \in DOMAIN got[r] : got[r][i].version = announced[r].version
         /\ atEnd[r] /\ from[r] <= announced[r].size
              => from[r] + Len(got[r]) = announced[r].size

\* "Any request for a path below this point will be forwarded" (vdir.hxx):
\* below a directory of operations nothing goes without an answer.
BelowIsForwarded ==
  \A d \in Dirs, p \in Asked :
    m_dirs[d].isvd /\ IsStrictPrefix(d, p) => Forwarded(p)

\* A file that addFile() has accepted is served: not when its directory was
\* given to addVDir() before.
AddedIsServed ==
  \A d \in Dirs, n \in Names :
    m_dirs[d].files[n] # NoFile => EntryOf(Append(d, n)) = m_dirs[d].files[n]

\* The operations that work on a handle of the program's are those that opened
\* it: not when addVDir() is called again for the directory meanwhile.
OpsMatchHandle ==
  \A r \in Requests :
    rpc[r] = "reading" /\ handle[r].vhandle > 0
      => m_dirs[handle[r].dir].ops = handle[r].vhandle
=============================================================================
