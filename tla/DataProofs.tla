------------------------------ MODULE DataProofs ------------------------------
(***************************************************************************)
(* Proofs about the components that serve and read the data of services,   *)
(* each for its own specification and for all values of its constants:     *)
(* VirtualDir, Proxies and Playlist; and that what MCParts puts together   *)
(* are the components of these proofs and of those of PartsProofs.         *)
(*                                                                         *)
(* VirtualDir is for all directories, names, sizes, paths, requests and    *)
(* bounds.  A path matters by its directory and its name only, so nothing  *)
(* is assumed of what paths are made of.                                   *)
(***************************************************************************)
EXTENDS PartsProofs, MCParts, FiniteSetTheorems

-----------------------------------------------------------------------------
(* VirtualDir: what is served is what was added.                            *)

DirOf(r) == PathGetFather(asked[r])
NameOf(r) == PathGetSimple(asked[r])
ServedByte == [version : 1..MaxAdds, byte : Nat]

\* An entry that was added has the number of its addition, in a known directory.
Table ==
  \A d \in Dirs, n \in Names :
    \/ m_dirs[d].files[n] = NoFile
    \/ m_dirs[d].files[n].version \in 1..adds /\ m_dirs[d].known

\* A file that was announced can be opened: its directory does not change its
\* nature, and nothing removes an entry.
Openable(r) ==
  rpc[r] = "open" =>
    /\ DirOf(r) \in Dirs /\ m_dirs[DirOf(r)].known
    /\ ~m_dirs[DirOf(r)].isvd =>
         /\ NameOf(r) \in Names
         /\ m_dirs[DirOf(r)].files[NameOf(r)].version \in 1..adds
         /\ stale[r] \/ m_dirs[DirOf(r)].files[NameOf(r)] = announced[r]
    /\ got[r] = <<>> /\ from[r] = 0 /\ ~atEnd[r]

\* What was read from the last seek to the offset: bytes of versions up to the
\* one that the entry has now, and of this one none past its size.
ReadSoFar(r) ==
  rpc[r] = "reading" /\ handle[r].vhandle = 0 =>
    /\ Content(handle[r]).version \in 1..adds
    /\ handle[r].offset = from[r] + Len(got[r])
    /\ \A i \in 1..Len(got[r]) :
         /\ got[r][i].byte = from[r] + i
         /\ got[r][i].version <= Content(handle[r]).version
    /\ Len(got[r]) > 0 /\ got[r][Len(got[r])].version = Content(handle[r]).version
         => handle[r].offset <= Content(handle[r]).size
    /\ stale[r] \/ Content(handle[r]) = announced[r]
    /\ stale[r] \/ \A i \in 1..Len(got[r]) : got[r][i].version = announced[r].version
    /\ stale[r] \/ (atEnd[r] => handle[r].offset >= Content(handle[r]).size)

\* A directory of operations has them.
OpsGiven == \A d \in Dirs : m_dirs[d].isvd => m_dirs[d].ops > 0

VDirInv ==
  /\ VDirTypeOK /\ Table /\ OpsGiven
  /\ \A r \in Requests : Openable(r) /\ ReadSoFar(r)

-----------------------------------------------------------------------------
(* Types of what the operations handle.                                     *)

LEMMA HandleIs ==
  ASSUME VDirTypeOK, NEW r \in Requests, rpc[r] = "reading", handle[r].vhandle = 0
  PROVE  /\ handle[r] \in [dir : Dirs, name : Names, vhandle : {0}, offset : Nat]
         /\ handle[r].dir \in Dirs /\ handle[r].name \in Names
         /\ handle[r].offset \in Nat /\ Content(handle[r]) \in FileEnt
<1>1. handle[r] \in Handle /\ m_dirs \in [Dirs -> DirEnt]
  BY DEF VDirTypeOK
<1>2. handle[r] \in [dir : Dirs, name : Names, vhandle : {0}, offset : Nat]
  BY <1>1, VDirAssumption DEF Handle
<1>3. m_dirs[handle[r].dir].files[handle[r].name] \in FileEnt
  BY <1>1, <1>2 DEF DirEnt
<1> QED  BY <1>2, <1>3 DEF Content

LEMMA GotIs ==
  ASSUME VDirTypeOK, NEW r \in Requests
  PROVE  /\ got[r] \in Seq(ServedByte) /\ Len(got[r]) \in Nat
         /\ DOMAIN got[r] = 1..Len(got[r])
         /\ \A i \in 1..Len(got[r]) : got[r][i] \in ServedByte
         /\ got[r] # <<>> <=> Len(got[r]) > 0
<1>1. got[r] \in Seq(ServedByte)
  BY DEF VDirTypeOK, ServedByte
<1> QED  BY <1>1, LenProperties, ElementOfSeq, EmptySeq

LEMMA FileIs ==
  ASSUME NEW f \in FileEnt
  PROVE  f = [version |-> f.version, size |-> f.size]
         /\ f.version \in 0..MaxAdds /\ f.version \in Int /\ f.size \in Nat
<1>1. f.version \in 0..MaxAdds /\ f.size \in Sizes \cup {0}
  BY DEF FileEnt
<1>2. f.version \in Int /\ f.size \in Nat
  <2>1. \A x \in Sizes : x \in Nat
    BY VDirAssumption
  <2>2. f.size \in Nat
    BY <1>1, <2>1
  <2>3. f.version \in Int
    BY <1>1
  <2> QED  BY <2>2, <2>3
<1>3. f = [version |-> f.version, size |-> f.size]
  BY DEF FileEnt
<1> QED  BY <1>1, <1>2, <1>3

LEMMA AddsIs ==
  ASSUME VDirInv
  PROVE  VDirTypeOK /\ Table /\ OpsGiven /\ adds \in Nat /\ MaxAdds \in Nat
<1>1. VDirTypeOK /\ Table /\ OpsGiven
  BY DEF VDirInv
<1>2. adds \in 0..MaxAdds
  BY <1>1 DEF VDirTypeOK
<1> QED  BY <1>1, <1>2, VDirAssumption

-----------------------------------------------------------------------------
(* The program adds files and operations.                                   *)

LEMMA AddFilePreserves ==
  ASSUME VDirInv, NEW d \in Dirs, NEW n \in Names, NEW s \in Sizes, AddFile(d, n, s)
  PROVE  VDirInv'
<1> DEFINE f == [version |-> adds + 1, size |-> s]
<1>0. /\ VDirTypeOK /\ Table /\ adds \in Nat /\ adds < MaxAdds /\ adds' = adds + 1
      /\ UNCHANGED <<rpc, asked, announced, handle, got, from, atEnd>>
      /\ stale' = [r \in Requests |-> stale[r] \/ PointsTo(r, d, n)]
  BY AddsIs DEF AddFile
<1>1. f \in FileEnt /\ f.version = adds + 1
  BY <1>0, VDirAssumption DEF FileEnt
<1>2. m_dirs' = [m_dirs EXCEPT ![d].known = TRUE, ![d].files[n] = f]
  BY DEF AddFile
<1> HIDE DEF f
<1>3. m_dirs \in [Dirs -> DirEnt]
  BY <1>0 DEF VDirTypeOK
<1>4. m_dirs' \in [Dirs -> DirEnt]
  BY <1>1, <1>2, <1>3 DEF DirEnt
<1>5. \A c \in Dirs :
        /\ m_dirs'[c].isvd = m_dirs[c].isvd
        /\ m_dirs'[c].known = (m_dirs[c].known \/ c = d)
        /\ \A x \in Names :
             m_dirs'[c].files[x] = IF c = d /\ x = n THEN f ELSE m_dirs[c].files[x]
  BY <1>2, <1>3 DEF DirEnt
<1>6. VDirTypeOK'
  <2>1. stale' \in [Requests -> BOOLEAN]
    BY <1>0 DEF VDirTypeOK, PointsTo
  <2>2. adds' \in 0..MaxAdds
    BY <1>0, VDirAssumption
  <2> QED  BY <1>0, <1>4, <2>1, <2>2 DEF VDirTypeOK
<1>7. Table'
  <2> SUFFICES ASSUME NEW c \in Dirs, NEW x \in Names
               PROVE  \/ m_dirs'[c].files[x] = NoFile
                      \/ m_dirs'[c].files[x].version \in 1..adds' /\ m_dirs'[c].known
    BY DEF Table
  <2>0. adds + 1 \in 1..adds' /\ \A v \in 1..adds : v \in 1..adds'
    BY <1>0
  <2>1. CASE c = d /\ x = n
    BY <2>1, <2>0, <1>1, <1>5
  <2>2. CASE ~(c = d /\ x = n)
    <3>1. m_dirs'[c].files[x] = m_dirs[c].files[x] /\ (m_dirs[c].known => m_dirs'[c].known)
      BY <2>2, <1>5
    <3> QED  BY <3>1, <2>0, <1>0 DEF Table
  <2> QED  BY <2>1, <2>2
<1>8. ASSUME NEW r \in Requests
      PROVE  Openable(r)'
  <2> SUFFICES ASSUME rpc[r] = "open" PROVE Openable(r)'
    BY <1>0 DEF Openable
  <2>1. /\ DirOf(r)' = DirOf(r) /\ NameOf(r)' = NameOf(r)
        /\ stale'[r] = (stale[r] \/ PointsTo(r, d, n))
    BY <1>0 DEF DirOf, NameOf
  <2>2. /\ DirOf(r) \in Dirs /\ m_dirs[DirOf(r)].known
        /\ got[r] = <<>> /\ from[r] = 0 /\ ~atEnd[r]
    BY DEF VDirInv, Openable
  <2>3. ASSUME ~m_dirs'[DirOf(r)].isvd
        PROVE  /\ NameOf(r) \in Names
               /\ m_dirs'[DirOf(r)].files[NameOf(r)].version \in 1..adds'
               /\ stale'[r] \/ m_dirs'[DirOf(r)].files[NameOf(r)] = announced[r]
    <3>1. /\ NameOf(r) \in Names
          /\ m_dirs[DirOf(r)].files[NameOf(r)].version \in 1..adds
          /\ stale[r] \/ m_dirs[DirOf(r)].files[NameOf(r)] = announced[r]
      BY <2>2, <2>3, <1>5 DEF VDirInv, Openable
    <3>0. adds + 1 \in 1..adds' /\ \A v \in 1..adds : v \in 1..adds'
      BY <1>0
    <3>2. CASE DirOf(r) = d /\ NameOf(r) = n
      <4>1. PointsTo(r, d, n)
        BY <3>2 DEF PointsTo, DirOf, NameOf
      <4>2. m_dirs'[DirOf(r)].files[NameOf(r)] = f
        BY <3>1, <3>2, <2>2, <1>5
      <4> QED  BY <4>1, <4>2, <3>0, <3>1, <2>1, <1>1
    <3>3. CASE ~(DirOf(r) = d /\ NameOf(r) = n)
      <4>1. m_dirs'[DirOf(r)].files[NameOf(r)] = m_dirs[DirOf(r)].files[NameOf(r)]
        BY <3>1, <3>3, <2>2, <1>5
      <4> QED  BY <4>1, <3>0, <3>1, <2>1
    <3> QED  BY <3>2, <3>3
  <2>4. m_dirs'[DirOf(r)].known
    BY <2>2, <1>5
  <2> QED  BY <1>0, <2>1, <2>2, <2>3, <2>4 DEF Openable
<1>9. ASSUME NEW r \in Requests
      PROVE  ReadSoFar(r)'
  <2> SUFFICES ASSUME rpc[r] = "reading", handle[r].vhandle = 0 PROVE ReadSoFar(r)'
    BY <1>0 DEF ReadSoFar
  <2> DEFINE h == handle[r]
             now == m_dirs'[h.dir].files[h.name]
  <2>1. /\ h.dir \in Dirs /\ h.name \in Names /\ Content(h) \in FileEnt
        /\ Content(h) = m_dirs[h.dir].files[h.name]
    BY <1>0, HandleIs DEF Content
  <2>2. stale'[r] = (stale[r] \/ PointsTo(r, d, n))
    BY <1>0
  <2>3. CASE h.dir = d /\ h.name = n
    <3>1. stale'[r] /\ now = f
      BY <2>1, <2>2, <2>3, <1>5 DEF PointsTo
    <3>2. \A i \in 1..Len(got[r]) : /\ got[r][i].byte = from[r] + i
                                    /\ got[r][i].version \in Int
                                    /\ got[r][i].version <= adds
      <4>1. \A i \in 1..Len(got[r]) : got[r][i] \in ServedByte
        BY <1>0, GotIs
      <4>2. /\ Content(h).version \in 1..adds
            /\ \A i \in 1..Len(got[r]) : /\ got[r][i].byte = from[r] + i
                                         /\ got[r][i].version <= Content(h).version
        BY DEF VDirInv, ReadSoFar
      <4> QED  BY <4>1, <4>2, <1>0 DEF ServedByte
    <3>3. h.offset = from[r] + Len(got[r]) /\ Len(got[r]) \in Nat
      BY <1>0, GotIs DEF VDirInv, ReadSoFar
    <3>4. now.version \in 1..adds' /\ now.version = adds + 1
      BY <3>1, <1>0, <1>1
    <3>5. \A i \in 1..Len(got[r]) : got[r][i].version < now.version
      BY <3>2, <3>4, <1>0
    <3>6. Len(got[r]) > 0 => got[r][Len(got[r])].version # now.version
      BY <3>3, <3>4, <3>2, <1>0
    <3>7. Content(handle[r])' = now
      BY <1>0 DEF Content
    <3> HIDE DEF now, h
    <3>8. /\ \A i \in 1..Len(got[r]) : got[r][i].version <= now.version
          /\ handle[r].offset = from[r] + Len(got[r])
      BY <3>2, <3>3, <3>4, <1>0 DEF h
    <3> QED
      BY <1>0, <3>1, <3>2, <3>4, <3>6, <3>7, <3>8 DEF ReadSoFar
  <2>4. CASE ~(h.dir = d /\ h.name = n)
    <3>1. now = Content(h) /\ ~PointsTo(r, d, n)
      BY <2>1, <2>4, <1>5 DEF PointsTo
    <3>2. Content(handle[r])' = Content(handle[r]) /\ stale'[r] = stale[r]
      BY <3>1, <2>2, <1>0 DEF Content, VDirTypeOK
    <3>3. ReadSoFar(r) /\ Content(handle[r]).version \in 1..adds'
      BY <1>0 DEF VDirInv, ReadSoFar
    <3> QED  BY <3>2, <3>3, <1>0 DEF ReadSoFar
  <2> QED  BY <2>3, <2>4
<1>10. OpsGiven'
  <2>1. \A c \in Dirs : m_dirs'[c].ops = m_dirs[c].ops
    BY <1>2, <1>3 DEF DirEnt
  <2> QED  BY <2>1, <1>5, AddsIs DEF OpsGiven
<1> QED  BY <1>6, <1>7, <1>8, <1>9, <1>10 DEF VDirInv

LEMMA AddVDirPreserves ==
  ASSUME VDirInv, NEW d \in Dirs, AddVDir(d)
  PROVE  VDirInv'
<1>0. /\ VDirTypeOK /\ Table /\ adds \in Nat /\ adds < MaxAdds /\ adds' = adds + 1
      /\ UNCHANGED <<rpc, asked, announced, handle, got, from, atEnd, stale>>
  BY AddsIs DEF AddVDir, requestVars
<1>1. m_dirs \in [Dirs -> DirEnt] /\ adds' \in 0..MaxAdds
  BY <1>0, VDirAssumption DEF VDirTypeOK
<1>2. m_dirs' = [m_dirs EXCEPT ![d].known = TRUE, ![d].isvd = @ \/ ~m_dirs[d].known,
                               ![d].ops = adds + 1]
  BY DEF AddVDir
<1>3. m_dirs' \in [Dirs -> DirEnt]
  BY <1>0, <1>1, <1>2, ZenonT(40) DEF DirEnt
<1>4. \A c \in Dirs :
        /\ m_dirs[c].known => m_dirs'[c].known /\ m_dirs'[c].isvd = m_dirs[c].isvd
        /\ m_dirs'[c].files = m_dirs[c].files
  BY <1>1, <1>2 DEF DirEnt
<1>5. VDirTypeOK'
  BY <1>0, <1>1, <1>3 DEF VDirTypeOK
<1>6. Table'
  <2> SUFFICES ASSUME NEW c \in Dirs, NEW x \in Names
               PROVE  \/ m_dirs'[c].files[x] = NoFile
                      \/ m_dirs'[c].files[x].version \in 1..adds' /\ m_dirs'[c].known
    BY DEF Table
  <2> QED  BY <1>0, <1>4 DEF Table
<1>7. ASSUME NEW r \in Requests
      PROVE  Openable(r)'
  <2> SUFFICES ASSUME rpc[r] = "open" PROVE Openable(r)'
    BY <1>0 DEF Openable
  <2>1. DirOf(r)' = DirOf(r) /\ NameOf(r)' = NameOf(r)
    BY <1>0 DEF DirOf, NameOf
  <2>2. DirOf(r) \in Dirs /\ m_dirs[DirOf(r)].known /\ Openable(r)
    BY DEF VDirInv, Openable
  <2> QED  BY <2>1, <2>2, <1>0, <1>4 DEF Openable
<1>8. ASSUME NEW r \in Requests
      PROVE  ReadSoFar(r)'
  <2> SUFFICES ASSUME rpc[r] = "reading", handle[r].vhandle = 0 PROVE ReadSoFar(r)'
    BY <1>0 DEF ReadSoFar
  <2>1. Content(handle[r])' = Content(handle[r])
    BY <1>0, <1>4, HandleIs DEF Content
  <2>2. ReadSoFar(r) /\ Content(handle[r]).version \in 1..adds'
    BY <1>0 DEF VDirInv, ReadSoFar
  <2> QED  BY <2>1, <2>2, <1>0 DEF ReadSoFar
<1>9. OpsGiven'
  <2> SUFFICES ASSUME NEW c \in Dirs, m_dirs'[c].isvd PROVE m_dirs'[c].ops > 0
    BY DEF OpsGiven
  <2>1. CASE c = d
    BY <2>1, <1>0, <1>1, <1>2 DEF DirEnt
  <2>2. CASE c # d
    BY <2>2, <1>1, <1>2, AddsIs DEF OpsGiven, DirEnt
  <2> QED  BY <2>1, <2>2
<1> QED  BY <1>5, <1>6, <1>7, <1>8, <1>9 DEF VDirInv

-----------------------------------------------------------------------------
(* The web server.                                                          *)

\* A request that does not move, while no file does, is as it was.
LEMMA OthersStay ==
  ASSUME VDirInv, NEW r \in Requests, UNCHANGED <<m_dirs, adds>>,
         rpc'[r] = rpc[r], asked'[r] = asked[r], announced'[r] = announced[r],
         handle'[r] = handle[r], got'[r] = got[r], from'[r] = from[r],
         atEnd'[r] = atEnd[r], stale'[r] = stale[r]
  PROVE  Openable(r)' /\ ReadSoFar(r)'
<1>1. Openable(r) /\ ReadSoFar(r)
  BY DEF VDirInv
<1>2. DirOf(r)' = DirOf(r) /\ NameOf(r)' = NameOf(r)
  BY DEF DirOf, NameOf
<1>3. Content(handle[r])' = Content(handle[r])
  BY DEF Content
<1>4. Openable(r)'
  BY <1>1, <1>2 DEF Openable
<1>5. ReadSoFar(r)'
  BY <1>1, <1>3 DEF ReadSoFar
<1> QED  BY <1>4, <1>5

LEMMA TableStays ==
  ASSUME VDirInv, UNCHANGED <<m_dirs, adds>>
  PROVE  Table'
BY DEF VDirInv, Table

LEMMA OpsStay ==
  ASSUME VDirInv, UNCHANGED m_dirs
  PROVE  OpsGiven'
BY DEF VDirInv, OpsGiven

LEMMA EntryIs ==
  ASSUME VDirInv, NEW p \in Asked
  PROVE  /\ EntryOf(p) \in FileEnt
         /\ EntryOf(p) # NoFile =>
              /\ PathGetFather(p) \in Dirs /\ PathGetSimple(p) \in Names
              /\ m_dirs[PathGetFather(p)].known
              /\ EntryOf(p) = m_dirs[PathGetFather(p)].files[PathGetSimple(p)]
              /\ EntryOf(p).version \in 1..adds
<1>1. NoFile \in FileEnt
  BY AddsIs DEF NoFile, FileEnt
<1>2. m_dirs \in [Dirs -> DirEnt] /\ Table
  BY DEF VDirInv, VDirTypeOK
<1>3. CASE EntryOf(p) = NoFile
  BY <1>1, <1>3
<1>4. CASE EntryOf(p) # NoFile
  <2>1. /\ PathGetFather(p) \in Dirs /\ PathGetSimple(p) \in Names
        /\ EntryOf(p) = m_dirs[PathGetFather(p)].files[PathGetSimple(p)]
    BY <1>4 DEF EntryOf
  <2>2. m_dirs[PathGetFather(p)].files[PathGetSimple(p)] \in FileEnt
    BY <2>1, <1>2 DEF DirEnt
  <2> QED  BY <1>2, <1>4, <2>1, <2>2 DEF Table
<1> QED  BY <1>3, <1>4

LEMMA GetInfoPreserves ==
  ASSUME VDirInv, NEW q \in Requests, NEW p \in Asked, GetInfo(q, p)
  PROVE  VDirInv'
<1>0. /\ VDirTypeOK /\ rpc[q] = "idle" /\ (Forwarded(p) \/ EntryOf(p) # NoFile)
      /\ rpc' = [rpc EXCEPT ![q] = "open"] /\ asked' = [asked EXCEPT ![q] = p]
      /\ announced' = [announced EXCEPT ![q] = EntryOf(p)]
      /\ got' = [got EXCEPT ![q] = <<>>] /\ from' = [from EXCEPT ![q] = 0]
      /\ atEnd' = [atEnd EXCEPT ![q] = FALSE] /\ stale' = [stale EXCEPT ![q] = FALSE]
      /\ UNCHANGED <<m_dirs, adds, handle>>
  BY DEF VDirInv, GetInfo
<1>1. VDirTypeOK'
  <2>1. announced' \in [Requests -> FileEnt]
    BY <1>0, EntryIs DEF VDirTypeOK
  <2>2. got' \in [Requests -> Seq(ServedByte)]
    BY <1>0, EmptySeq DEF VDirTypeOK, ServedByte
  <2> QED  BY <1>0, <2>1, <2>2 DEF VDirTypeOK, ServedByte
<1>2. ASSUME NEW r \in Requests, r # q
      PROVE  Openable(r)' /\ ReadSoFar(r)'
  BY <1>0, <1>2, OthersStay DEF VDirTypeOK
<1>3. Openable(q)' /\ ReadSoFar(q)'
  <2>1. /\ rpc'[q] = "open" /\ asked'[q] = p /\ announced'[q] = EntryOf(p)
        /\ got'[q] = <<>> /\ from'[q] = 0 /\ ~atEnd'[q] /\ ~stale'[q]
    BY <1>0 DEF VDirTypeOK
  <2>2. DirOf(q)' = PathGetFather(p) /\ NameOf(q)' = PathGetSimple(p)
    BY <2>1 DEF DirOf, NameOf
  <2>3. CASE Forwarded(p)
    BY <2>1, <2>2, <2>3, <1>0 DEF Forwarded, Openable, ReadSoFar
  <2>4. CASE EntryOf(p) # NoFile
    BY <2>1, <2>2, <2>4, <1>0, EntryIs DEF Openable, ReadSoFar
  <2> QED  BY <2>3, <2>4, <1>0
<1> QED  BY <1>0, <1>1, <1>2, <1>3, TableStays, OpsStay DEF VDirInv

LEMMA OpenPreserves ==
  ASSUME VDirInv, NEW q \in Requests, Open(q)
  PROVE  VDirInv'
<1>0. /\ VDirTypeOK /\ rpc[q] = "open"
      /\ rpc' = [rpc EXCEPT ![q] = "reading"]
      /\ UNCHANGED <<m_dirs, adds, asked, announced, got, from, atEnd, stale>>
  BY DEF VDirInv, Open
<1>1. /\ DirOf(q) \in Dirs /\ m_dirs[DirOf(q)].known
      /\ ~m_dirs[DirOf(q)].isvd =>
           /\ NameOf(q) \in Names
           /\ m_dirs[DirOf(q)].files[NameOf(q)].version \in 1..adds
           /\ stale[q] \/ m_dirs[DirOf(q)].files[NameOf(q)] = announced[q]
      /\ got[q] = <<>> /\ from[q] = 0 /\ ~atEnd[q]
  BY <1>0 DEF VDirInv, Openable
<1>2. handle' = [handle EXCEPT ![q] =
        IF m_dirs[DirOf(q)].isvd THEN [dir |-> DirOf(q), vhandle |-> m_dirs[DirOf(q)].ops]
        ELSE [dir |-> DirOf(q), name |-> NameOf(q), vhandle |-> 0, offset |-> 0]]
  BY <1>1 DEF Open, Forwarded, DirOf, NameOf
<1>3. ASSUME NEW r \in Requests, r # q
      PROVE  Openable(r)' /\ ReadSoFar(r)'
  <2>1. handle'[r] = handle[r] /\ rpc'[r] = rpc[r]
    BY <1>0, <1>2, <1>3 DEF VDirTypeOK
  <2> QED  BY <1>0, <2>1, OthersStay
<1>4. CASE m_dirs[DirOf(q)].isvd
  <2>1. m_dirs[DirOf(q)].ops \in 1..MaxAdds
    BY <1>0, <1>1, <1>4 DEF VDirInv, OpsGiven, VDirTypeOK, DirEnt
  <2>2. handle'[q] = [dir |-> DirOf(q), vhandle |-> m_dirs[DirOf(q)].ops]
    BY <1>0, <1>2, <1>4 DEF VDirTypeOK
  <2>3. handle'[q] \in Handle /\ handle'[q] # NoHandle /\ handle'[q].vhandle # 0
    BY <1>1, <2>1, <2>2, VDirAssumption DEF Handle, NoHandle
  <2>4. VDirTypeOK'
    BY <1>0, <1>2, <2>3 DEF VDirTypeOK
  <2>5. Openable(q)' /\ ReadSoFar(q)'
    BY <1>0, <2>3 DEF Openable, ReadSoFar, VDirTypeOK
  <2> QED  BY <1>0, <1>3, <2>4, <2>5, TableStays, OpsStay DEF VDirInv
<1>5. CASE ~m_dirs[DirOf(q)].isvd
  <2>1. handle'[q] = [dir |-> DirOf(q), name |-> NameOf(q), vhandle |-> 0, offset |-> 0]
    BY <1>0, <1>2, <1>5 DEF VDirTypeOK
  <2>2. handle'[q] \in Handle /\ handle'[q] # NoHandle
    BY <1>1, <1>5, <2>1 DEF Handle, NoHandle
  <2>3. VDirTypeOK'
    BY <1>0, <1>2, <2>2 DEF VDirTypeOK
  <2>4. /\ rpc'[q] = "reading" /\ handle'[q].offset = 0 /\ handle'[q].vhandle = 0
        /\ Content(handle[q])' = m_dirs[DirOf(q)].files[NameOf(q)]
    BY <1>0, <2>1 DEF Content, VDirTypeOK
  <2>5. Openable(q)' /\ ReadSoFar(q)'
    <3>1. Len(got'[q]) = 0
      BY <1>0, <1>1, EmptySeq
    <3> QED  BY <1>0, <1>1, <1>5, <2>4, <3>1 DEF Openable, ReadSoFar
  <2> QED  BY <1>0, <1>3, <2>3, <2>5, TableStays, OpsStay DEF VDirInv
<1> QED  BY <1>4, <1>5

LEMMA EndPreserves ==
  ASSUME VDirInv, NEW q \in Requests, OpenFails(q) \/ Close(q)
  PROVE  VDirInv'
<1>0. /\ VDirTypeOK /\ rpc' = [rpc EXCEPT ![q] = "idle"]
      /\ UNCHANGED <<m_dirs, adds, asked, announced, stale>>
      /\ handle' \in {handle, [handle EXCEPT ![q] = NoHandle]}
      /\ got' \in {got, [got EXCEPT ![q] = <<>>]}
      /\ from' \in {from, [from EXCEPT ![q] = 0]}
      /\ atEnd' \in {atEnd, [atEnd EXCEPT ![q] = FALSE]}
  BY DEF VDirInv, OpenFails, Close
<1>1. handle'[q] = NoHandle
  BY DEF VDirInv, VDirTypeOK, OpenFails, Close
<1>2. VDirTypeOK'
  <2>1. got' \in [Requests -> Seq(ServedByte)]
    <3>1. got \in [Requests -> Seq(ServedByte)] /\ <<>> \in Seq(ServedByte)
      BY <1>0, EmptySeq DEF VDirTypeOK, ServedByte
    <3> QED  BY <1>0, <3>1
  <2>2. /\ handle' \in [Requests -> Handle \cup {NoHandle}]
        /\ \A r \in Requests : rpc'[r] = "reading" <=> handle'[r] # NoHandle
    BY <1>0, <1>1 DEF VDirTypeOK
  <2>3. /\ rpc' \in [Requests -> {"idle", "open", "reading"}]
        /\ from' \in [Requests -> Nat] /\ atEnd' \in [Requests -> BOOLEAN]
    <3>1. /\ rpc \in [Requests -> {"idle", "open", "reading"}]
          /\ from \in [Requests -> Nat] /\ atEnd \in [Requests -> BOOLEAN]
      BY <1>0 DEF VDirTypeOK
    <3>2. rpc' \in [Requests -> {"idle", "open", "reading"}]
      BY <1>0, <3>1
    <3>3. from' = from \/ from' = [from EXCEPT ![q] = 0]
      BY <1>0
    <3>4. from' \in [Requests -> Nat]
      BY <3>1, <3>3
    <3>5. atEnd' = atEnd \/ atEnd' = [atEnd EXCEPT ![q] = FALSE]
      BY <1>0
    <3>6. atEnd' \in [Requests -> BOOLEAN]
      BY <3>1, <3>5
    <3> QED  BY <3>2, <3>4, <3>6
  <2> QED  BY <1>0, <2>1, <2>2, <2>3 DEF VDirTypeOK, ServedByte
<1>3. ASSUME NEW r \in Requests, r # q
      PROVE  Openable(r)' /\ ReadSoFar(r)'
  <2>1. /\ rpc'[r] = rpc[r] /\ handle'[r] = handle[r] /\ got'[r] = got[r]
        /\ from'[r] = from[r] /\ atEnd'[r] = atEnd[r]
    BY <1>0, <1>3 DEF VDirTypeOK
  <2> QED  BY <1>0, <2>1, OthersStay
<1>4. Openable(q)' /\ ReadSoFar(q)'
  BY <1>0 DEF Openable, ReadSoFar, VDirTypeOK
<1> QED  BY <1>0, <1>2, <1>3, <1>4, TableStays, OpsStay DEF VDirInv

LEMMA SeekPreserves ==
  ASSUME VDirInv, NEW q \in Requests, NEW o \in Offsets, NEW origin \in 0..2,
         Seek(q, o, origin)
  PROVE  VDirInv'
<1> DEFINE h == handle[q]
           to == SeekTarget(h, o, origin)
<1>0. /\ VDirTypeOK /\ rpc[q] = "reading" /\ h.vhandle = 0
      /\ handle' = [handle EXCEPT ![q].offset = to]
      /\ handle'[q].offset \in Nat
      /\ got' = [got EXCEPT ![q] = <<>>]
      /\ from' = [from EXCEPT ![q] = handle'[q].offset]
      /\ atEnd' = [atEnd EXCEPT ![q] = FALSE]
      /\ UNCHANGED <<m_dirs, adds, rpc, asked, announced, stale>>
  BY VDirAssumption DEF VDirInv, Seek
<1> HIDE DEF to
<1>1. h \in [dir : Dirs, name : Names, vhandle : {0}, offset : Nat]
  BY <1>0, HandleIs
<1>2. /\ handle'[q] = [h EXCEPT !.offset = to] /\ to = handle'[q].offset
      /\ \A r \in Requests : r # q => handle'[r] = handle[r]
  BY <1>0, <1>1 DEF VDirTypeOK
<1>3. /\ handle'[q].dir = h.dir /\ handle'[q].name = h.name /\ handle'[q].vhandle = 0
      /\ handle'[q] \in Handle /\ handle'[q] # NoHandle
  BY <1>0, <1>1, <1>2 DEF Handle, NoHandle
<1>4. VDirTypeOK'
  <2>1. got' \in [Requests -> Seq(ServedByte)]
    BY <1>0, EmptySeq DEF VDirTypeOK, ServedByte
  <2>2. /\ handle' \in [Requests -> Handle \cup {NoHandle}]
        /\ \A r \in Requests : rpc'[r] = "reading" <=> handle'[r] # NoHandle
    BY <1>0, <1>2, <1>3 DEF VDirTypeOK
  <2> QED  BY <1>0, <2>1, <2>2 DEF VDirTypeOK, ServedByte
<1>5. ASSUME NEW r \in Requests, r # q
      PROVE  Openable(r)' /\ ReadSoFar(r)'
  BY <1>0, <1>2, <1>5, OthersStay DEF VDirTypeOK
<1>6. Openable(q)' /\ ReadSoFar(q)'
  <2>1. Content(handle[q])' = Content(h)
    BY <1>0, <1>3 DEF Content
  <2>2. /\ rpc'[q] = "reading" /\ Len(got'[q]) = 0 /\ ~atEnd'[q]
        /\ from'[q] = handle'[q].offset
    BY <1>0, EmptySeq DEF VDirTypeOK
  <2>3. Content(h).version \in 1..adds /\ (stale[q] \/ Content(h) = announced[q])
    BY <1>0 DEF VDirInv, ReadSoFar
  <2>4. Openable(q)'
    BY <2>2 DEF Openable
  <2>5. ReadSoFar(q)'
    BY <1>0, <2>1, <2>2, <2>3 DEF ReadSoFar
  <2> QED  BY <2>4, <2>5
<1> QED  BY <1>0, <1>4, <1>5, <1>6, TableStays, OpsStay DEF VDirInv

\* What vdread() takes is inside the content, and for a buffer that has a size it
\* takes nothing at the end only.
LEMMA ToReadIs ==
  ASSUME NEW h, h.offset \in Nat, Content(h).size \in Nat, NEW b \in Buffers
  PROVE  /\ ToRead(h, b) \in Nat
         /\ ToRead(h, b) > 0 => h.offset + ToRead(h, b) <= Content(h).size
         /\ b > 0 /\ ToRead(h, b) = 0 => h.offset >= Content(h).size
<1>1. b \in Nat
  BY VDirAssumption
<1> QED  BY <1>1 DEF ToRead

LEMMA ReadPreserves ==
  ASSUME VDirInv, NEW q \in Requests, NEW b \in Buffers, Read(q, b)
  PROVE  VDirInv'
<1> DEFINE h == handle[q]
           n == ToRead(h, b)
           c == Content(h)
           new == [i \in 1..n |-> At(c.version, h.offset + i)]
           so == got[q]
<1>0. /\ VDirTypeOK /\ rpc[q] = "reading" /\ h.vhandle = 0 /\ ~atEnd[q]
      /\ got' = [got EXCEPT ![q] = so \o new]
      /\ handle' = [handle EXCEPT ![q].offset = h.offset + n]
      /\ atEnd' = [atEnd EXCEPT ![q] = b > 0 /\ n = 0]
      /\ UNCHANGED <<m_dirs, adds, rpc, asked, announced, from, stale>>
  BY DEF VDirInv, Read
<1>1. /\ h \in [dir : Dirs, name : Names, vhandle : {0}, offset : Nat]
      /\ h.offset \in Nat /\ c \in FileEnt
  BY <1>0, HandleIs
<1>2. c.size \in Nat /\ c.version \in Int
  BY <1>1, FileIs
<1>3. /\ n \in Nat
      /\ n > 0 => h.offset + n <= c.size
      /\ b > 0 /\ n = 0 => h.offset >= c.size
  BY <1>1, <1>2, ToReadIs
<1>4. /\ so \in Seq(ServedByte) /\ Len(so) \in Nat
      /\ \A i \in 1..Len(so) : so[i] \in ServedByte
  BY <1>0, GotIs
<1>5. /\ c.version \in 1..adds /\ c.version \in 1..MaxAdds
      /\ h.offset = from[q] + Len(so) /\ from[q] \in Nat
      /\ \A i \in 1..Len(so) : so[i].byte = from[q] + i /\ so[i].version <= c.version
      /\ Len(so) > 0 /\ so[Len(so)].version = c.version => h.offset <= c.size
      /\ stale[q] \/ c = announced[q]
      /\ stale[q] \/ \A i \in 1..Len(so) : so[i].version = announced[q].version
  <2>1. adds \in 0..MaxAdds /\ from[q] \in Nat
    BY <1>0 DEF VDirTypeOK
  <2>2. c.version \in 1..adds
    BY <1>0 DEF VDirInv, ReadSoFar
  <2>3. c.version \in 1..MaxAdds
    BY <2>1, <2>2, VDirAssumption
  <2> QED  BY <1>0, <2>1, <2>2, <2>3 DEF VDirInv, ReadSoFar
<1> HIDE DEF n, c
<1>6. /\ new \in Seq(ServedByte) /\ Len(new) = n
      /\ \A i \in 1..n : new[i] = [version |-> c.version, byte |-> h.offset + i]
  <2>1. \A i \in 1..n : At(c.version, h.offset + i) \in ServedByte
    BY <1>1, <1>3, <1>5 DEF At, ServedByte
  <2>2. new \in [1..n -> ServedByte]
    BY <2>1
  <2>3. new \in Seq(ServedByte) /\ Len(new) = n
    BY <2>2, <1>3, IsASeq, LenProperties
  <2> QED  BY <2>3 DEF At
<1> HIDE DEF new, so
<1>7. /\ so \o new \in Seq(ServedByte) /\ Len(so \o new) = Len(so) + n
      /\ \A i \in 1..(Len(so) + n) :
           (so \o new)[i] = IF i <= Len(so) THEN so[i]
                            ELSE [version |-> c.version, byte |-> h.offset + (i - Len(so))]
  <2>1. /\ so \o new \in Seq(ServedByte) /\ Len(so \o new) = Len(so) + Len(new)
        /\ \A i \in 1..(Len(so) + Len(new)) :
             (so \o new)[i] = IF i <= Len(so) THEN so[i] ELSE new[i - Len(so)]
    BY <1>4, <1>6, ConcatProperties
  <2>2. \A i \in 1..(Len(so) + n) : i <= Len(so) \/ i - Len(so) \in 1..n
    BY <1>3, <1>4
  <2> QED  BY <2>1, <2>2, <1>6
<1>8. /\ handle'[q] = [h EXCEPT !.offset = h.offset + n]
      /\ \A r \in Requests : r # q => handle'[r] = handle[r]
  BY <1>0 DEF VDirTypeOK
<1>9. /\ handle'[q].dir = h.dir /\ handle'[q].name = h.name /\ handle'[q].vhandle = 0
      /\ handle'[q].offset = h.offset + n
      /\ handle'[q] \in Handle /\ handle'[q] # NoHandle
  <2>1. h.offset + n \in Nat
    BY <1>1, <1>3
  <2> QED  BY <1>1, <1>8, <2>1 DEF Handle, NoHandle
<1>10. VDirTypeOK'
  <2>1. got' \in [Requests -> Seq(ServedByte)]
    BY <1>0, <1>7 DEF VDirTypeOK, ServedByte
  <2>2. /\ handle' \in [Requests -> Handle \cup {NoHandle}]
        /\ \A r \in Requests : rpc'[r] = "reading" <=> handle'[r] # NoHandle
    BY <1>0, <1>8, <1>9 DEF VDirTypeOK
  <2> QED  BY <1>0, <2>1, <2>2 DEF VDirTypeOK, ServedByte
<1>11. ASSUME NEW r \in Requests, r # q
       PROVE  Openable(r)' /\ ReadSoFar(r)'
  BY <1>0, <1>8, <1>11, OthersStay DEF VDirTypeOK
<1>12. Openable(q)'
  BY <1>0 DEF Openable
<1>13. ReadSoFar(q)'
  <2>1. Content(handle[q])' = c
    BY <1>0, <1>9 DEF Content, c
  <2>2. got'[q] = so \o new /\ (atEnd'[q] => b > 0 /\ n = 0)
    <3>1. got'[q] = so \o new
      BY <1>0 DEF VDirTypeOK
    <3> DEFINE ends == b > 0 /\ n = 0
    <3>2. atEnd' = [atEnd EXCEPT ![q] = ends] /\ atEnd \in [Requests -> BOOLEAN]
      BY <1>0 DEF VDirTypeOK
    <3> HIDE DEF ends
    <3>3. atEnd'[q] = ends
      BY <3>2, Zenon
    <3>4. ends => b > 0 /\ n = 0
      BY DEF ends
    <3> QED  BY <3>1, <3>3, <3>4, Zenon
  <2>3. handle'[q].offset = from[q] + Len(got'[q])
    BY <2>2, <1>3, <1>4, <1>5, <1>7, <1>9
  <2>4. ASSUME NEW i \in 1..(Len(so) + n)
        PROVE  /\ got'[q][i].byte = from[q] + i
               /\ got'[q][i].version <= c.version
               /\ stale[q] \/ got'[q][i].version = announced[q].version
    <3>1. CASE i <= Len(so)
      <4>1. i \in 1..Len(so) /\ got'[q][i] = so[i]
        BY <3>1, <2>2, <1>3, <1>4, <1>7
      <4> QED  BY <4>1, <1>5
    <3>2. CASE ~(i <= Len(so))
      <4>1. got'[q][i] = [version |-> c.version, byte |-> h.offset + (i - Len(so))]
        BY <3>2, <2>2, <1>7
      <4>2. h.offset + (i - Len(so)) = from[q] + i
        BY <1>3, <1>4, <1>5
      <4>3. c.version <= c.version
        BY <1>2
      <4> QED  BY <4>1, <4>2, <4>3, <1>5
    <3> QED  BY <3>1, <3>2
  <2>5. Len(got'[q]) = Len(so) + n
    BY <2>2, <1>7
  <2>6. ASSUME Len(got'[q]) > 0, got'[q][Len(got'[q])].version = c.version
        PROVE  handle'[q].offset <= c.size
    <3>1. CASE n > 0
      BY <3>1, <1>3, <1>9
    <3>2. CASE n = 0
      <4>1. Len(so) > 0 /\ got'[q][Len(so)] = so[Len(so)]
        BY <3>2, <2>2, <2>5, <2>6, <1>4, <1>7
      <4>2. h.offset <= c.size
        BY <4>1, <2>5, <2>6, <3>2, <1>4, <1>5
      <4> QED  BY <4>2, <3>2, <1>1, <1>9
    <3> QED  BY <3>1, <3>2, <1>3
  <2>7. atEnd'[q] => handle'[q].offset >= c.size
    <3> SUFFICES ASSUME b > 0, n = 0 PROVE handle'[q].offset >= c.size
      BY <2>2
    <3>1. handle'[q].offset = h.offset
      BY <1>1, <1>9
    <3> QED  BY <3>1, <1>3
  <2> QED
    BY <1>0, <1>5, <2>1, <2>3, <2>4, <2>5, <2>6, <2>7 DEF ReadSoFar
<1> QED  BY <1>0, <1>10, <1>11, <1>12, <1>13, TableStays, OpsStay DEF VDirInv

-----------------------------------------------------------------------------
(* Theorems.                                                                *)

LEMMA VDirInitIsFine == VDirInit => VDirInv
<1> SUFFICES ASSUME VDirInit PROVE VDirInv
  OBVIOUS
<1>1. \A d \in Dirs : /\ m_dirs[d] = NoDir /\ ~m_dirs[d].isvd
                      /\ \A n \in Names : m_dirs[d].files[n] = NoFile
  BY DEF VDirInit, NoDir
<1>2. NoFile \in FileEnt /\ NoDir \in DirEnt /\ adds \in 0..MaxAdds
  BY VDirAssumption DEF NoFile, FileEnt, NoDir, DirEnt, VDirInit
<1>3. VDirTypeOK
  <2>1. got \in [Requests -> Seq(ServedByte)]
    BY EmptySeq DEF VDirInit
  <2>2. (CHOOSE p \in Asked : TRUE) \in Asked
    BY VDirAssumption
  <2>3. m_dirs \in [Dirs -> DirEnt] /\ announced \in [Requests -> FileEnt]
    BY <1>2 DEF VDirInit
  <2> QED  BY <1>2, <2>1, <2>2, <2>3 DEF VDirInit, VDirTypeOK, ServedByte
<1> QED  BY <1>1, <1>3 DEF VDirInit, VDirInv, Table, OpsGiven, Openable, ReadSoFar

LEMMA VDirStep == VDirInv /\ [VDirNext]_vdirVars => VDirInv'
<1> SUFFICES ASSUME VDirInv, [VDirNext]_vdirVars PROVE VDirInv'
  OBVIOUS
<1>1. CASE UNCHANGED vdirVars
  <2>1. /\ UNCHANGED <<m_dirs, adds, rpc, asked, announced, handle, got, from, atEnd, stale>>
        /\ VDirTypeOK
    BY <1>1 DEF vdirVars, requestVars, VDirInv
  <2>2. VDirTypeOK'
    BY <2>1 DEF VDirTypeOK
  <2> QED  BY <2>1, <2>2, OthersStay, TableStays, OpsStay DEF VDirInv
<1>2. CASE VDirNext
  BY <1>2, AddFilePreserves, AddVDirPreserves, GetInfoPreserves, OpenPreserves,
     EndPreserves, SeekPreserves, ReadPreserves
  DEF VDirNext, Serve
<1> QED  BY <1>1, <1>2

\* The table of directories and the requests of vdir.cxx keep their types, and a
\* request has a handle exactly while it reads.
THEOREM VDirTypeCorrect == VDirSpec => []VDirTypeOK
<1>1. VDirInv => VDirTypeOK
  BY DEF VDirInv
<1> QED  BY <1>1, VDirInitIsFine, VDirStep, PTL DEF VDirSpec

\* vdread() on an entry that addFile() may have replaced at any time: for any
\* contents, requests, seeks and buffers, what is sent is contiguous from the last
\* seek, nothing past the content of now is sent as part of it, and a file that was
\* not replaced is what vdgetinfo() announced, to its end.
THEOREM FilesAreServedFaithfully == VDirSpec => []ServedFaithfully
<1>1. VDirInv => ServedFaithfully
  <2> SUFFICES ASSUME VDirInv, NEW r \in Requests,
                      rpc[r] = "reading", handle[r].vhandle = 0
               PROVE
                 /\ \A i \in DOMAIN got[r] : Position(got[r][i]) = from[r] + i
                 /\ got[r] # <<>> /\ Last(got[r]).version = Content(handle[r]).version
                      => from[r] + Len(got[r]) <= Content(handle[r]).size
                 /\ ~stale[r] =>
                      /\ \A i \in DOMAIN got[r] : got[r][i].version = announced[r].version
                      /\ atEnd[r] /\ from[r] <= announced[r].size
                           => from[r] + Len(got[r]) = announced[r].size
    BY DEF ServedFaithfully
  <2> DEFINE so == got[r]
             c == Content(handle[r])
  <2>1. /\ Len(so) \in Nat /\ DOMAIN so = 1..Len(so) /\ (so # <<>> <=> Len(so) > 0)
        /\ from[r] \in Nat
    BY GotIs DEF VDirInv, VDirTypeOK
  <2>2. ReadSoFar(r) /\ c.size \in Nat
    BY HandleIs, FileIs DEF VDirInv
  <2>3. /\ handle[r].offset = from[r] + Len(so)
        /\ \A i \in 1..Len(so) : so[i].byte = from[r] + i
        /\ Len(so) > 0 /\ so[Len(so)].version = c.version => from[r] + Len(so) <= c.size
        /\ ~stale[r] => /\ c = announced[r]
                        /\ \A i \in 1..Len(so) : so[i].version = announced[r].version
                        /\ atEnd[r] => from[r] + Len(so) >= c.size
    BY <2>2 DEF ReadSoFar
  <2>4. ASSUME ~stale[r], atEnd[r], from[r] <= c.size
        PROVE  from[r] + Len(so) = c.size
    <3>1. from[r] + Len(so) >= c.size
      BY <2>3, <2>4
    <3>2. CASE Len(so) = 0
      BY <3>1, <3>2, <2>1, <2>2, <2>4
    <3>3. CASE Len(so) > 0
      <4>1. so[Len(so)].version = c.version
        BY <3>3, <2>1, <2>3, <2>4
      <4>2. from[r] + Len(so) <= c.size
        BY <3>3, <4>1, <2>3
      <4>3. from[r] \in Nat /\ Len(so) \in Nat /\ c.size \in Nat
        BY <2>1, <2>2
      <4> HIDE DEF so, c
      <4> QED  BY <3>1, <4>2, <4>3
    <3> QED  BY <3>2, <3>3, <2>1
  <2>5. Last(so) = so[Len(so)]
    BY DEF Last
  <2> HIDE DEF so, c
  <2>6. \A i \in DOMAIN so : Position(so[i]) = from[r] + i
    BY <2>1, <2>3 DEF Position
  <2> QED  BY <2>1, <2>3, <2>4, <2>5, <2>6 DEF so, c
<1> QED  BY <1>1, VDirInitIsFine, VDirStep, PTL DEF VDirSpec

-----------------------------------------------------------------------------
(* Proxies: what a reporter is told is what was asked for and meant.        *)

Codecs ==
  {"avstate", "avstatus", "avmode", "avactions", "ohstate", "int", "time", "bool", "text",
   "ids", "avmeta", "ohmeta", "didl"}

LEMMA WatchableAre ==
  Watchable = {"AVTransport", "OHPlaylist", "OHRadio", "OHInfo", "OHProduct", "OHReceiver",
               "OHSender", "OHTime"}
BY DEF Watchable, Reads

LEMMA CodecIs ==
  ASSUME NEW s \in Watchable, NEW v
  PROVE  EventCodec(s, v) \in Codecs
<1>1. CASE s \in {"AVTransport"}
  BY <1>1 DEF EventCodec, AVTransportEvent, Codecs
<1>2. CASE s \in {"OHPlaylist", "OHRadio", "OHProduct"}
  BY <1>2 DEF EventCodec, PlaylistEvent, RadioEvent, ProductEvent, Codecs
<1>3. CASE s \in {"OHInfo", "OHReceiver", "OHSender", "OHTime"}
  BY <1>3 DEF EventCodec, InfoEvent, ReceiverEvent, SenderEvent, TimeEvent, Codecs
<1> QED  BY <1>1, <1>2, <1>3, WatchableAre

\* What the reporter is told is one value, or none.
LEMMA ToldIs ==
  ASSUME NEW codec \in Codecs, NEW w
  PROVE  ToldOf(codec, w) = Nothing \/ \E value : ToldOf(codec, w) = <<value>>
BY DEF ToldOf, Codecs, Got, Nothing, DecodeMetadata

\* What a program sets a variable to is what it is told of the value it has sent.
LEMMA CommandMeans ==
  ASSUME NEW s \in Watchable, NEW v, NEW c \in Commands(s, v)
  PROVE  ToldOf(EventCodec(s, v), c.w) = c.meant
<1>1. CASE s = "AVTransport" /\ c \in SetPlayMode(v)
  BY <1>1 DEF SetPlayMode, Means, Got, ToldOf, PlayModeName, AVMode, PlayModes, Named, EventCodec, AVTransportEvent
<1>2. CASE s = "AVTransport" /\ c \in SetURI(v)
  BY <1>2 DEF SetURI, Address, Means, Got, ToldOf, EventCodec, AVTransportEvent
<1>3. CASE s = "AVTransport" /\ c \in SeekTo(v)
  <2>1. CASE v \in {"RelativeTimePosition", "AbsoluteTimePosition"}
    <3>1. EventCodec(s, v) = "time"
      BY <1>3, <2>1 DEF EventCodec, AVTransportEvent
    <3>2. PICK t \in {-65, 0, 59, 60, 65, 3599, 3601} : c = Means("int", t, UpnpDuration(t * 1000))
      BY <1>3, <2>1 DEF SeekTo
    <3> QED  BY <3>1, <3>2 DEF Means, Got, ToldOf, UpnpDuration, UpnpDurationToS, CQuot
  <2>2. CASE v \in {"CurrentTrack", "RelativeCounterPosition", "AbsoluteCounterPosition"}
    <3>1. EventCodec(s, v) = "int"
      BY <1>3, <2>2 DEF EventCodec, AVTransportEvent
    <3>2. PICK n \in Numbers : c = Number(n)
      BY <1>3, <2>2 DEF SeekTo
    <3> QED  BY <3>1, <3>2 DEF Number, Numbers, Means, Got, ToldOf, I2S, Numerals, Atoi, Named
  <2> QED  BY <1>3, <2>1, <2>2 DEF SeekTo
<1>4. CASE s = "OHPlaylist"
  BY <1>4 DEF Commands, PlaylistSets, ToldOf, EventCodec, PlaylistEvent, Number, Truth, Truths, Means, Numbers, I2S, Numerals, Atoi, Named, Got
<1>5. CASE s = "OHRadio"
  BY <1>5 DEF Commands, RadioSets, ToldOf, EventCodec, RadioEvent, Number, Address, Means, Numbers, I2S, Numerals, Atoi, Named, Got
<1>6. CASE s = "OHProduct"
  BY <1>6 DEF Commands, ProductSets, ToldOf, EventCodec, ProductEvent, Number, Truth, Truths, Means, Numbers, I2S, Numerals, Atoi, Named, Got
<1>7. CASE s = "OHReceiver"
  BY <1>7 DEF Commands, ReceiverSets, ToldOf, EventCodec, ReceiverEvent, Address, Means, Got
<1> QED  BY <1>1, <1>2, <1>3, <1>4, <1>5, <1>6, <1>7, WatchableAre DEF Commands

\* What a query makes of a value is what an event makes of it, where both do.
Agree(get, codec) ==
  \/ get = codec
  \/ get = "atoi" /\ codec = "int"
  \/ get = "metatext" /\ codec = "ohmeta"
LEMMA ReadAgrees ==
  ASSUME NEW get, NEW codec \in Codecs, Agree(get, codec), NEW w,
         ReadValue(get, w) # Nothing, ToldOf(codec, w) # Nothing
  PROVE  ReadValue(get, w) = ToldOf(codec, w)
<1>1. CASE get = codec /\ codec \in {"int", "bool", "ohstate", "didl"}
  BY <1>1 DEF ReadValue, ToldOf
<1>2. CASE get = codec /\ codec \in {"avmeta"}
  BY <1>2 DEF ReadValue, ToldOf
<1>3. CASE get = codec /\ codec \in {"avstate", "avstatus", "avmode", "avactions", "time", "text", "ids", "ohmeta"}
  BY <1>3 DEF ReadValue
<1>4. CASE get = "atoi" /\ codec = "int"
  BY <1>4 DEF ReadValue
<1>5. CASE get = "metatext" /\ codec = "ohmeta"
  BY <1>5 DEF ReadValue, ToldOf, DecodeMetadata, NoDidl, DidlOf
<1> QED  BY <1>1, <1>2, <1>3, <1>4, <1>5 DEF Agree, Codecs

\* What the queries read of a variable, if it is none of the exceptions.
ReadsWell(s, a, r) ==
  LET v == r.into
      excepted == s \in DOMAIN Misread /\ v \in Misread[s]
  IN  ~excepted /\ v # "Token" =>
        /\ r.of = v
        /\ r.element \notin Misnamed(a)
        /\ Agree(r.get, EventCodec(s, v))
Gets == Codecs \cup {"atoi", "metatext", "unparsed"}
IsRead(r) == r.get \in Gets
LEMMA AVTransportReadsWell ==
  ASSUME NEW a \in DOMAIN AVTransportReads, NEW n \in DOMAIN AVTransportReads[a]
  PROVE  ReadsWell("AVTransport", a, AVTransportReads[a][n]) /\ IsRead(AVTransportReads[a][n])
<1>1. DOMAIN Misread = {"AVTransport", "OHInfo"} /\ Misread["AVTransport"] = {"CurrentPlayMode", "NextAVTransportURIMetaData", "PlaybackStorageMedium",
                    "RecordStorageMedium"}
  BY DEF Misread
<1> USE <1>1 DEF R, IsRead, Gets, Codecs, AVTransportReads, Misnamed, ReadsWell, Agree, EventCodec, AVTransportEvent
<1>2. CASE a = "getMediaInfo"
  BY <1>2
<1>3. CASE a = "getTransportInfo"
  BY <1>3
<1>4. CASE a = "getPositionInfo"
  <2>1. CASE n \in 1..4
    BY <1>4, <2>1
  <2>2. CASE n \in 5..8
    BY <1>4, <2>2
  <2>3. n \in 1..8
    BY <1>4 DEF AVTransportReads
  <2> HIDE DEF IsRead, ReadsWell, AVTransportReads
  <2> QED  BY <2>1, <2>2, <2>3
<1>5. CASE a = "getDeviceCapabilities"
  BY <1>5
<1>7. CASE a = "getTransportSettings"
  BY <1>7
<1>8. CASE a = "getCurrentTransportActions"
  BY <1>8
<1>6. a \in {"getMediaInfo", "getTransportInfo", "getPositionInfo", "getDeviceCapabilities",
             "getTransportSettings", "getCurrentTransportActions"}
  BY DEF AVTransportReads
<1> HIDE DEF IsRead, ReadsWell, AVTransportReads
<1> QED  BY <1>2, <1>3, <1>4, <1>5, <1>6, <1>7, <1>8, Zenon

LEMMA OpenHomeReadsWell ==
  ASSUME NEW s \in {"OHPlaylist", "OHRadio", "OHProduct", "OHReceiver", "OHSender", "OHTime"},
         NEW a \in DOMAIN Reads[s], NEW n \in DOMAIN Reads[s][a]
  PROVE  ReadsWell(s, a, Reads[s][a][n]) /\ IsRead(Reads[s][a][n])
<1> USE DEF R, V, IsRead, Gets, Codecs, Misnamed, ReadsWell, Agree, EventCodec
<1>1. CASE s = "OHPlaylist"
  <2>1. Reads[s] = PlaylistReads
    BY <1>1 DEF Reads
  <2> QED  BY <1>1, <2>1 DEF PlaylistReads, PlaylistEvent
<1>2. CASE s = "OHRadio"
  <2>1. Reads[s] = RadioReads
    BY <1>2 DEF Reads
  <2> QED  BY <1>2, <2>1 DEF RadioReads, RadioEvent
<1>3. CASE s = "OHProduct"
  <2>1. Reads[s] = ProductReads
    BY <1>3 DEF Reads
  <2> QED  BY <1>3, <2>1 DEF ProductReads, ProductEvent
<1>4. CASE s = "OHReceiver"
  <2>1. Reads[s] = ReceiverReads
    BY <1>4 DEF Reads
  <2> QED  BY <1>4, <2>1 DEF ReceiverReads, ReceiverEvent
<1>5. CASE s = "OHSender"
  <2>1. Reads[s] = SenderReads
    BY <1>5 DEF Reads
  <2> QED  BY <1>5, <2>1 DEF SenderReads, SenderEvent
<1>6. CASE s = "OHTime"
  <2>1. Reads[s] = TimeReads
    BY <1>6 DEF Reads
  <2> QED  BY <1>6, <2>1 DEF TimeReads, TimeEvent
<1> QED  BY <1>1, <1>2, <1>3, <1>4, <1>5, <1>6, Zenon

\* Of the variables of OHInfo all are excepted but Metatext.
LEMMA InfoReadsWell ==
  ASSUME NEW a \in DOMAIN InfoReads, NEW n \in DOMAIN InfoReads[a]
  PROVE  ReadsWell("OHInfo", a, InfoReads[a][n]) /\ IsRead(InfoReads[a][n])
<1>1. InfoReads[a][n].of = InfoReads[a][n].into /\ IsRead(InfoReads[a][n])
  BY DEF InfoReads, R, V, IsRead, Gets, Codecs
<1>2. CASE InfoReads[a][n].into # "Metatext"
  <2>1. Reads["OHInfo"] = InfoReads
    BY DEF Reads
  <2>2. InfoReads[a][n].of \in VariablesOf("OHInfo") \/ InfoReads[a][n].of = "Token"
    <3> DEFINE In(b) == {Reads["OHInfo"][b][m].of : m \in DOMAIN Reads["OHInfo"][b]}
               All == UNION {In(b) : b \in DOMAIN Reads["OHInfo"]}
    <3>1. InfoReads[a][n].of \in In(a)
      BY <2>1
    <3>2. In(a) \in {In(b) : b \in DOMAIN Reads["OHInfo"]}
      BY <2>1
    <3>3. InfoReads[a][n].of \in All
      <4> HIDE DEF In
      <4> QED  BY <3>1, <3>2
    <3>4. VariablesOf("OHInfo") = All \ {"Token"}
      BY DEF VariablesOf
    <3> HIDE DEF All
    <3> QED  BY <3>3, <3>4
  <2>3. "OHInfo" \in DOMAIN Misread /\ Misread["OHInfo"] = VariablesOf("OHInfo") \ {"Metatext"}
    BY DEF Misread
  <2> HIDE DEF VariablesOf
  <2> QED  BY <1>1, <1>2, <2>2, <2>3 DEF ReadsWell
<1>3. CASE InfoReads[a][n].into = "Metatext"
  <2>1. a = "metatext" /\ n = 1
    BY <1>3 DEF InfoReads, R, V
  <2>2. InfoReads[a][n] = R("Value", "Metatext", "metatext")
    BY <2>1 DEF InfoReads, V
  <2> QED  BY <1>1, <2>1, <2>2 DEF ReadsWell, R, Misnamed, Agree, EventCodec, InfoEvent
<1> QED  BY <1>2, <1>3

\* The queries read every variable of which nothing else is said in Misread from
\* the right element, and as the events are read.
LEMMA AllReadWell ==
  ASSUME NEW s \in Watchable, NEW a \in DOMAIN Reads[s], NEW n \in DOMAIN Reads[s][a]
  PROVE  ReadsWell(s, a, Reads[s][a][n]) /\ IsRead(Reads[s][a][n])
<1>1. CASE s = "AVTransport"
  <2>1. Reads[s] = AVTransportReads
    BY <1>1 DEF Reads
  <2> QED  BY <1>1, <2>1, AVTransportReadsWell
<1>2. CASE s = "OHInfo"
  <2>1. Reads[s] = InfoReads
    BY <1>2 DEF Reads
  <2> QED  BY <1>2, <2>1, InfoReadsWell
<1> QED  BY <1>1, <1>2, OpenHomeReadsWell, WatchableAre

LEMMA ReadsAreASequence ==
  ASSUME NEW s \in Watchable, NEW a \in DOMAIN Reads[s]
  PROVE  \E n \in Nat : DOMAIN Reads[s][a] = 1..n
<1> USE DEF V, R
<1>1. CASE s = "AVTransport"
  <2>1. Reads[s] = AVTransportReads
    BY <1>1 DEF Reads
  <2>2. DOMAIN AVTransportReads[a] \in {1..n : n \in 0..9}
    BY <2>1 DEF AVTransportReads
  <2>3. PICK n \in 0..9 : DOMAIN AVTransportReads[a] = 1..n
    BY <2>2
  <2> QED  BY <2>1, <2>3
<1>2. CASE s \in {"OHPlaylist", "OHRadio"}
  <2>1. Reads[s] \in {PlaylistReads, RadioReads}
    BY <1>2 DEF Reads
  <2>2. DOMAIN Reads[s][a] \in {1..n : n \in 0..9}
    BY <2>1 DEF PlaylistReads, RadioReads
  <2>3. PICK n \in 0..9 : DOMAIN Reads[s][a] = 1..n
    BY <2>2
  <2> QED  BY <2>3
<1>3. CASE s \in {"OHInfo", "OHProduct", "OHReceiver", "OHSender", "OHTime"}
  <2>1. Reads[s] \in {InfoReads, ProductReads, ReceiverReads, SenderReads, TimeReads}
    BY <1>3 DEF Reads
  <2>2. DOMAIN Reads[s][a] \in {1..n : n \in 0..9}
    BY <2>1 DEF InfoReads, ProductReads, ReceiverReads, SenderReads, TimeReads
  <2>3. PICK n \in 0..9 : DOMAIN Reads[s][a] = 1..n
    BY <2>2
  <2> QED  BY <2>3
<1> QED  BY <1>1, <1>2, <1>3, WatchableAre

LEMMA TokenIsNone == \A s : "Token" \notin VariablesOf(s)
<1> SUFFICES ASSUME NEW s
             PROVE  "Token" \notin VariablesOf(s)
  OBVIOUS
<1> DEFINE All == UNION {{Reads[s][a][n].of : n \in DOMAIN Reads[s][a]} : a \in DOMAIN Reads[s]}
<1>1. VariablesOf(s) = All \ {"Token"}
  BY DEF VariablesOf
<1> HIDE DEF All
<1> QED  BY <1>1


\* What may come out of a query of the watched variable: what the events make of
\* its value, if they tell of it, or what they do not tell of.
RightlyOut(out) ==
  out # Nothing /\ ToldOf(Codec, shown) # Nothing => out = ToldOf(Codec, shown)

\* Whichever elements a query reads, what it puts into the parameter of the
\* watched variable is read from the element of that variable, as the events are.
LEMMA AnswerIs ==
  ASSUME NEW s \in Watchable, NEW v \in VariablesOf(s), NEW a \in DOMAIN Reads[s],
         watched = [service |-> s, variable |-> v], ~MisreadHere
  PROVE  RightlyOut(Answer(s, a, {}).out)
<1> DEFINE seq == Reads[s][a]
           Op(sofar, read) == ReadNext(s, a, {}, sofar, read)
           ReadsOne(sofar, n) == Op(sofar, seq[n])
           Values == {shown, "none"} \cup {Wire(g)[1] : g \in Gets \cup {"avmeta"}}
           Outs == {Nothing, Got("ids", <<>>)} \cup {ReadValue(g, w) : g \in Gets, w \in Values}
                     \cup {ToldOf(g, w) : g \in Gets, w \in Values} \cup {Unread(g) : g \in Gets}
           States == {sofar \in [ok : BOOLEAN, kept : [get : Gets \cup {"none"}, w : Values],
                               out : Outs, into : {v}] : RightlyOut(sofar.out)}
<1>0. v # "Token"
  BY TokenIsNone
<1>1. PICK n \in Nat : DOMAIN seq = 1..n
  BY ReadsAreASequence
<1>2. NoneRead \in States
  BY DEF NoneRead, RightlyOut
<1>3. ASSUME NEW i \in 1..n, NEW sofar \in States
      PROVE  Op(sofar, seq[i]) \in States
  <2> DEFINE r == seq[i]
             has == r.element \notin Misnamed(a)
             w == IF r.of = v THEN shown
                  ELSE Wire(IF r.get = "unparsed" THEN "avmeta" ELSE r.get)[1]
             Kepts == [get : Gets \cup {"none"}, w : Values]
  <2> HIDE DEF Values, Outs
  <2>1. r.get \in Gets /\ ReadsWell(s, a, r)
    BY <1>1, AllReadWell DEF IsRead
  <2>2. Op(sofar, r) = IF s = "AVTransport" THEN TakeRead(sofar, r, has, w) ELSE NeedRead(sofar, r, has, w)
    BY DEF ReadNext
  <2>3. /\ sofar.ok \in BOOLEAN /\ sofar.kept \in Kepts /\ sofar.out \in Outs /\ sofar.into = v
        /\ sofar = [ok |-> sofar.ok, kept |-> sofar.kept, out |-> sofar.out, into |-> sofar.into]
        /\ RightlyOut(sofar.out)
    <3> HIDE DEF Kepts, RightlyOut, Op, r, w, has
    <3> QED  BY DEF Kepts
  <2> SUFFICES Op(sofar, r) \in States
    OBVIOUS
  <2> HIDE DEF Op, seq, r, has, w, Kepts, RightlyOut
  <2>4. ASSUME NEW ok \in BOOLEAN, NEW kept \in Kepts, NEW out \in Outs, RightlyOut(out)
        PROVE  [ok |-> ok, kept |-> kept, out |-> out, into |-> v] \in States
    <3> HIDE DEF States
    <3> DEFINE x == [ok |-> ok, kept |-> kept, out |-> out, into |-> v]
    <3>1. x \in [ok : BOOLEAN, kept : Kepts, out : Outs, into : {v}] /\ x.out = out
      OBVIOUS
    <3> HIDE DEF x
    <3>2. x \in States
      BY <2>4, <3>1, Zenon DEF States, Kepts
    <3> QED  BY <3>2 DEF x
  <2> HIDE DEF States
  <2>5. w \in Values
    <3>1. CASE r.of = v
      BY <3>1 DEF w, Values
    <3>2. CASE r.of # v
      <4> DEFINE g == IF r.get = "unparsed" THEN "avmeta" ELSE r.get
      <4>1. g \in Gets \cup {"avmeta"}
        BY <2>1
      <4>2. w = Wire(g)[1]
        BY <3>2 DEF w
      <4> HIDE DEF g
      <4> QED  BY <4>1, <4>2 DEF Values
    <3> QED  BY <3>1, <3>2
  <2>6. /\ \A y \in Values : ReadValue(r.get, y) \in Outs /\ ToldOf(r.get, y) \in Outs
        /\ Unread(r.get) \in Outs /\ Nothing \in Outs /\ Got("ids", <<>>) \in Outs
    <3>1. ASSUME NEW y \in Values
          PROVE  ReadValue(r.get, y) \in Outs
      <4>1. ReadValue(r.get, y) \in {ReadValue(g, x) : g \in Gets, x \in Values}
        BY <2>1
      <4> QED  BY <4>1 DEF Outs
    <3>2. ASSUME NEW y \in Values
          PROVE  ToldOf(r.get, y) \in Outs
      <4>1. ToldOf(r.get, y) \in {ToldOf(g, x) : g \in Gets, x \in Values}
        BY <2>1
      <4> QED  BY <4>1 DEF Outs
    <3>3. Unread(r.get) \in Outs /\ Nothing \in Outs /\ Got("ids", <<>>) \in Outs
      BY <2>1 DEF Outs
    <3> QED  BY <3>1, <3>2, <3>3, Zenon
  <2>7. ASSUME r.into = v
        PROVE  w = shown /\ has /\ RightlyOut(ReadValue(r.get, shown))
               /\ (r.get \in PutFirst => RightlyOut(ToldOf(r.get, shown)))
    <3>1. Codec = EventCodec(s, v) /\ Codec \in Codecs
      BY CodecIs DEF Codec
    <3>2. ~(s \in DOMAIN Misread /\ v \in Misread[s])
      BY DEF MisreadHere
    <3>3. r.of = v /\ has /\ Agree(r.get, Codec)
      BY <2>1, <2>7, <3>1, <3>2, <1>0 DEF ReadsWell, has
    <3>4. RightlyOut(ReadValue(r.get, shown))
      BY <3>1, <3>3, ReadAgrees DEF RightlyOut
    <3>5. r.get \in PutFirst => RightlyOut(ToldOf(r.get, shown))
      BY <3>3 DEF Agree, PutFirst, RightlyOut
    <3>6. w = shown
      BY <3>3 DEF w
    <3> QED  BY <3>3, <3>4, <3>5, <3>6
  <2>8. CASE ~sofar.ok
    <3>1. Op(sofar, r) = sofar
      BY <2>2, <2>8 DEF TakeRead, NeedRead
    <3> QED  BY <3>1
  <2>9. CASE sofar.ok /\ s = "AVTransport"
    <3> DEFINE kept == IF has THEN [get |-> r.get, w |-> w] ELSE sofar.kept
               value == IF r.get \in Direct THEN IF has THEN ReadValue(r.get, w) ELSE Nothing
                        ELSE KeptValue(kept, r.get)
               okay == ~(r.get = "avactions" /\ value = Nothing)
               after == IF r.get \in Direct THEN sofar.kept ELSE kept
               out == IF r.into = sofar.into /\ value # Nothing THEN value ELSE sofar.out
    <3>1. Op(sofar, r) = [ok |-> okay, kept |-> after, out |-> out, into |-> v]
      BY <2>2, <2>3, <2>9 DEF TakeRead
    <3>2. kept \in Kepts
      BY <2>1, <2>3, <2>5 DEF Kepts
    <3>3. value \in Outs
      <4>1. ASSUME kept.get = r.get
            PROVE  ReadValue(r.get, kept.w) \in Outs
        <5>1. kept.w \in Values
          BY <3>2 DEF Kepts
        <5> HIDE DEF kept
        <5> QED  BY <2>6, <5>1, Zenon
      <4> HIDE DEF kept
      <4>2. KeptValue(kept, r.get) \in Outs
        BY <4>1, <2>6 DEF KeptValue
      <4> QED  BY <4>2, <2>5, <2>6
    <3>4. r.into = v => RightlyOut(value)
      <4>1. ASSUME r.into = v
            PROVE  value = ReadValue(r.get, shown)
        BY <2>7, <4>1 DEF KeptValue
      <4> QED  BY <4>1, <2>7
    <3>5. okay \in BOOLEAN
      <4> HIDE DEF value
      <4> QED  OBVIOUS
    <3> HIDE DEF kept, value
    <3>6. after \in Kepts
      BY <2>3, <3>2
    <3>7. out \in Outs /\ RightlyOut(out)
      BY <2>3, <3>3, <3>4
    <3> HIDE DEF okay, after, out
    <3> QED  BY <2>4, <3>1, <3>5, <3>6, <3>7
  <2>10. CASE sofar.ok /\ s # "AVTransport"
    <3> DEFINE value == IF has THEN ReadValue(r.get, w)
                        ELSE IF r.get = "ids" THEN Got("ids", <<>>) ELSE Nothing
               put == IF has /\ r.get \in PutFirst THEN ToldOf(r.get, w) ELSE value
               okay == value # Nothing
               out == IF r.into = sofar.into /\ put # Nothing THEN put ELSE sofar.out
    <3>1. Op(sofar, r) = [sofar EXCEPT !.ok = okay, !.out = out]
      BY <2>2, <2>10 DEF NeedRead
    <3>2. value \in Outs /\ put \in Outs
      BY <2>5, <2>6
    <3>3. r.into = v => RightlyOut(put)
      BY <2>7
    <3>4. okay \in BOOLEAN
      <4> HIDE DEF value
      <4> QED  OBVIOUS
    <3> HIDE DEF put, value
    <3>5. out \in Outs /\ RightlyOut(out)
      BY <2>3, <3>2, <3>3
    <3> HIDE DEF okay, out
    <3>6. Op(sofar, r) = [ok |-> okay, kept |-> sofar.kept, out |-> out, into |-> v]
      BY <2>3, <3>1
    <3> QED  BY <2>3, <2>4, <3>4, <3>5, <3>6
  <2> QED  BY <2>8, <2>9, <2>10
<1> HIDE DEF States
<1>4. \E f : f = [piece \in SUBSET (1..n) |->
                    IF piece = {} THEN NoneRead ELSE Op(f[piece \ {Max(piece)}], seq[Max(piece)])]
  <2> DEFINE step == [x \in States \X (1..n) |-> Op(x[1], seq[x[2]])]
  <2>1. step \in [States \X (1..n) -> States]
    BY <1>3
  <2>2. PICK f : IsFold(f, step, NoneRead, States, n)
    <3> HIDE DEF step
    <3> QED  BY <1>1, <1>2, <2>1, FoldExists DEF IsStep
  <2>3. ASSUME NEW piece \in SUBSET (1..n), piece # {}
        PROVE  step[<<f[piece \ {Max(piece)}], Max(piece)>>]
                 = Op(f[piece \ {Max(piece)}], seq[Max(piece)])
    <3>1. Max(piece) \in 1..n /\ piece \ {Max(piece)} \in SUBSET (1..n)
      BY <2>3, GreatestIs
    <3> HIDE DEF Op
    <3> QED  BY <3>1, <2>2 DEF IsFold
  <2> HIDE DEF step, Op
  <2>4. f = [piece \in SUBSET (1..n) |->
               IF piece = {} THEN NoneRead ELSE Op(f[piece \ {Max(piece)}], seq[Max(piece)])]
    BY <2>2, <2>3 DEF IsFold
  <2> QED  BY <2>4
<1>5. Answer(s, a, {}) \in States
  <2> DEFINE f == CHOOSE f : f = [piece \in SUBSET (DOMAIN seq) |->
                    IF piece = {} THEN NoneRead ELSE Op(f[piece \ {Max(piece)}], seq[Max(piece)])]
  <2>1. Answer(s, a, {}) = f[DOMAIN seq]
    BY DEF Answer, FoldLeft, MapThenFoldSet
  <2>2. f = [piece \in SUBSET (1..n) |->
               IF piece = {} THEN NoneRead ELSE Op(f[piece \ {Max(piece)}], seq[Max(piece)])]
    BY <1>1, <1>4
  <2> HIDE DEF f, Op, seq
  <2>3. f[1..0] \in States
    BY <2>2, <1>2
  <2>4. ASSUME NEW i \in 1..n, f[1..(i - 1)] \in States
        PROVE  f[1..i] \in States
    <3>1. 1..i \in SUBSET (1..n) /\ 1..i # {}
      OBVIOUS
    <3>2. Max(1..i) = i /\ (1..i) \ {i} = 1..(i - 1)
      BY LastOfUpTo
    <3>3. f[1..i] = Op(f[1..(i - 1)], seq[i])
      BY <2>2, <3>1, <3>2
    <3> QED  BY <3>3, <2>4, <1>3
  <2>5. f[1..n] \in States
    BY <2>3, <2>4, FoldKeeps
  <2> QED  BY <2>1, <2>5, <1>1
<1> QED  BY <1>5 DEF States


ShownOf(s, v) == ToSet(Wire(EventCodec(s, v))) \cup {c.w : c \in Commands(s, v)}
\* What may be under way: values of the watched variable.
Values == IF watched = NotWatching THEN {} ELSE ShownOf(watched.service, watched.variable)

\* A variable of a service is watched, or nothing has happened yet.
WatchesOne ==
  \/ watched = NotWatching /\ meant = Nothing /\ answer = NoAnswer
  \/ /\ watched \in [service : Watchable, variable : UNION {VariablesOf(s) : s \in Watchable}]
     /\ watched.variable \in VariablesOf(watched.service)
     /\ watched # NotWatching /\ shown \in Values
\* The last event has the value of now.
LastIsShown ==
  /\ events \in Seq(Values) /\ Len(events) <= settings + 1
  /\ events # <<>> => events[Len(events)] = shown
\* Once all events are through, the reporter has been told of it.
ToldOfShown ==
  Settled => ToldOf(Codec, shown) = Nothing \/ reported = ToldOf(Codec, shown)
\* What was set last is what the events tell of.
MeantIsShown == meant # Nothing => meant = ToldOf(Codec, shown)
\* A complete answer has put the value that the events tell of, or nothing.
AnswerIsShown ==
  watched # NotWatching /\ answer.ret = "complete" /\ ~MisreadHere => RightlyOut(answer.out)
One(x) == x = Nothing \/ \E value : x = <<value>>
ProxiesInv ==
  /\ WatchesOne /\ LastIsShown /\ ToldOfShown /\ MeantIsShown /\ AnswerIsShown
  /\ One(reported) /\ One(meant)
  /\ answer.ret \in {"none", "complete", "incomplete", "BAD_RESPONSE", "error"}
  /\ heard \in BOOLEAN /\ warned \in BOOLEAN
  /\ settings \in 0..MaxSettings

LEMMA ProxiesStart == ProxiesInit => ProxiesInv
<1> USE ProxiesAssumption
<1> SUFFICES ASSUME ProxiesInit
             PROVE  ProxiesInv
  OBVIOUS
<1> USE DEF ProxiesInit
<1>1. events \in Seq(Values) /\ Len(events) = 0
  OBVIOUS
<1>2. LastIsShown
  BY <1>1 DEF LastIsShown
<1>3. answer.ret = "none"
  BY DEF NoAnswer
<1>4. WatchesOne /\ ToldOfShown /\ MeantIsShown /\ AnswerIsShown
  BY <1>3 DEF WatchesOne, ToldOfShown, MeantIsShown, AnswerIsShown, Settled
<1>5. One(reported) /\ One(meant) /\ heard \in BOOLEAN /\ warned \in BOOLEAN
  BY DEF One
<1>6. settings \in 0..MaxSettings
  OBVIOUS
<1> HIDE DEF ProxiesInit
<1> QED  BY <1>2, <1>3, <1>4, <1>5, <1>6 DEF ProxiesInv

\* The elements of a sequence of values on the wire.
LEMMA WireIs ==
  ASSUME NEW codec \in Codecs
  PROVE  Wire(codec)[1] \in ToSet(Wire(codec))
<1>1. CASE codec \in {"avmeta", "ohmeta", "didl"}
  <2>1. Len(Metadata) = 5 /\ Metadata \in Seq({Metadata[n] : n \in 1..5})
    BY DEF Metadata
  <2> HIDE DEF Metadata
  <2>2. 1 \in DOMAIN Metadata
    BY <2>1
  <2>3. 1 \in DOMAIN Append(Metadata, DidlOf("good", <<"bare">>))
    BY <2>1, AppendProperties, LenProperties
  <2> QED  BY <1>1, <2>2, <2>3 DEF Wire, ToSet
<1>2. CASE codec \notin {"avmeta", "ohmeta", "didl"}
  <2>1. 1 \in DOMAIN Wire(codec)
    BY <1>2 DEF Codecs, Wire
  <2> QED  BY <2>1 DEF ToSet
<1> QED  BY <1>1, <1>2

\* What the watched variable is does not change when nothing of it does.
LEMMA SameWhileWatched ==
  ASSUME UNCHANGED <<watched, shown>>
  PROVE  /\ Values' = Values /\ Codec' = Codec /\ MisreadHere' = MisreadHere
         /\ \A out : RightlyOut(out)' <=> RightlyOut(out)
BY DEF Values, ShownOf, Codec, MisreadHere, RightlyOut

LEMMA WatchKeeps ==
  ASSUME ProxiesInv, NEW s \in Watchable, NEW v \in VariablesOf(s), Watch(s, v)
  PROVE  ProxiesInv'
<1> USE DEF Watch
<1>1. PICK w \in ToSet(Wire(EventCodec(s, v))) : shown' = w /\ events' = <<w>>
  OBVIOUS
<1>2. watched' # NotWatching
  BY WatchableAre DEF NotWatching
<1>3. Values' = ShownOf(s, v)
  BY <1>2 DEF Values, ShownOf
<1>4. w \in Values' /\ meant = Nothing
  BY <1>1, <1>3 DEF ShownOf, ProxiesInv, WatchesOne, NotWatching
<1>5. WatchesOne'
  <2> HIDE DEF VariablesOf
  <2>1. v \in UNION {VariablesOf(t) : t \in Watchable}
    OBVIOUS
  <2> QED  BY <1>1, <1>2, <1>4, <2>1 DEF WatchesOne
<1>6. LastIsShown'
  <2>1. events' \in Seq(Values') /\ Len(events') = 1 /\ events'[1] = shown'
    BY <1>1, <1>4
  <2> QED  BY <2>1 DEF LastIsShown, ProxiesInv
<1>7. ToldOfShown' /\ MeantIsShown'
  BY <1>1, <1>4 DEF ToldOfShown, Settled, MeantIsShown
<1>8. AnswerIsShown'
  <2>1. answer' = NoAnswer
    BY DEF ProxiesInv, WatchesOne, NotWatching
  <2> QED  BY <2>1 DEF AnswerIsShown, NoAnswer
<1> QED  BY <1>5, <1>6, <1>7, <1>8 DEF ProxiesInv, One

\* A new value: the device sends it, and what a query has returned is over.
LEMMA ShowsKeeps ==
  ASSUME ProxiesInv, watched # NotWatching, NEW w \in Values, Shows(w),
         settings < MaxSettings, settings' = settings + 1,
         UNCHANGED <<watched, reported, heard, warned>>,
         One(meant'), meant' # Nothing => meant' = ToldOf(Codec, w)
  PROVE  ProxiesInv'
<1>1. shown' = w /\ events' = Append(events, w) /\ answer' = NoAnswer
  BY DEF Shows
<1>2. Values' = Values /\ Codec' = Codec
  BY DEF Values, ShownOf, Codec
<1>3. WatchesOne'
  <2> HIDE DEF Values
  <2> QED  BY <1>1, <1>2 DEF WatchesOne, ProxiesInv
<1>4. events \in Seq(Values) /\ Len(events) <= settings + 1 /\ settings \in 0..MaxSettings
  BY DEF ProxiesInv, LastIsShown
<1>5. /\ events' \in Seq(Values) /\ Len(events') = Len(events) + 1
      /\ events'[Len(events')] = w /\ events' # <<>>
  <2> HIDE DEF Values
  <2> QED  BY <1>1, <1>4
<1>6. settings' \in 0..MaxSettings /\ Len(events) \in Nat
  BY <1>4, LenProperties, ProxiesAssumption
<1>7. LastIsShown'
  <2> HIDE DEF Values
  <2> QED  BY <1>1, <1>2, <1>4, <1>5, <1>6 DEF LastIsShown
<1>8. ToldOfShown' /\ MeantIsShown' /\ AnswerIsShown'
  BY <1>1, <1>2, <1>5 DEF ToldOfShown, Settled, MeantIsShown, AnswerIsShown, NoAnswer
<1>9. answer'.ret = "none"
  BY <1>1 DEF NoAnswer
<1> QED  BY <1>3, <1>6, <1>7, <1>8, <1>9 DEF ProxiesInv

\* An event comes through, or is lost; nothing else of the device changes.
LEMMA EventKeeps ==
  ASSUME ProxiesInv, events # <<>>, events' = Tail(events),
         UNCHANGED <<watched, shown, answer, meant, warned, settings>>,
         heard' \in BOOLEAN, heard' => heard,
         heard' => reported' = IF ToldOf(Codec, Head(events)) = Nothing THEN reported
                               ELSE ToldOf(Codec, Head(events)),
         One(reported')
  PROVE  ProxiesInv'
<1>1. Values' = Values /\ Codec' = Codec /\ MisreadHere' = MisreadHere
      /\ \A out : RightlyOut(out)' <=> RightlyOut(out)
  BY SameWhileWatched
<1>2. events \in Seq(Values) /\ Len(events) \in Nat /\ settings \in 0..MaxSettings
      /\ Len(events) <= settings + 1 /\ events[Len(events)] = shown
  BY DEF ProxiesInv, LastIsShown
<1>3. LastIsShown'
  <2> HIDE DEF Values
  <2>1. events' \in Seq(Values) /\ Len(events') = Len(events) - 1
        /\ \A n \in 1..Len(events') : events'[n] = events[n + 1]
    BY <1>2, HeadTailProperties
  <2>2. events' # <<>> => events'[Len(events')] = shown
    BY <2>1, <1>2, EmptySeq
  <2> QED  BY <1>1, <1>2, <2>1, <2>2 DEF LastIsShown
<1>4. ToldOfShown'
  <2>1. ASSUME Settled'
        PROVE  Head(events) = shown /\ heard'
    <3>1. Len(events) = 1
      <4> HIDE DEF Values
      <4>1. events' = <<>>
        BY <2>1 DEF Settled
      <4>2. events' \in Seq(Values) /\ Len(events') = Len(events) - 1
        BY <1>2, HeadTailProperties
      <4>3. Len(events') = 0
        BY <4>1, <4>2, EmptySeq
      <4> QED  BY <4>2, <4>3, <1>2
    <3> QED  BY <3>1, <1>2, <2>1 DEF Settled
  <2> QED  BY <2>1, <1>1 DEF ToldOfShown
<1>5. WatchesOne' /\ MeantIsShown' /\ AnswerIsShown'
  <2> HIDE DEF Values, MisreadHere, RightlyOut
  <2> QED  BY <1>1 DEF WatchesOne, MeantIsShown, AnswerIsShown, ProxiesInv
<1> QED  BY <1>3, <1>4, <1>5 DEF ProxiesInv, One

LEMMA QueryKeeps ==
  ASSUME ProxiesInv, watched # NotWatching,
         UNCHANGED <<watched, shown, events, reported, meant, heard, warned, settings>>,
         answer'.ret \in {"none", "complete", "incomplete", "BAD_RESPONSE", "error"},
         answer'.ret = "complete" /\ ~MisreadHere => RightlyOut(answer'.out)
  PROVE  ProxiesInv'
<1>1. Values' = Values /\ Codec' = Codec /\ MisreadHere' = MisreadHere
      /\ \A out : RightlyOut(out)' <=> RightlyOut(out)
  BY SameWhileWatched
<1>2. Settled' <=> Settled
  BY DEF Settled
<1>3. WatchesOne' /\ LastIsShown' /\ ToldOfShown' /\ MeantIsShown'
  <2> HIDE DEF Values
  <2> QED  BY <1>1, <1>2 DEF WatchesOne, LastIsShown, ToldOfShown, MeantIsShown, ProxiesInv
<1>4. AnswerIsShown'
  <2>1. RightlyOut(answer.out)' <=> ToldOf(Codec, shown) # Nothing /\ answer'.out # Nothing
                                  => answer'.out = ToldOf(Codec, shown)
    BY <1>1 DEF RightlyOut
  <2> QED  BY <2>1, <1>1 DEF AnswerIsShown, RightlyOut
<1> QED  BY <1>3, <1>4 DEF ProxiesInv, One

LEMMA ProxiesKept == ProxiesInv /\ [ProxiesNext]_proxiesVars => ProxiesInv'
<1> SUFFICES ASSUME ProxiesInv, [ProxiesNext]_proxiesVars
             PROVE  ProxiesInv'
  OBVIOUS
<1>0. ASSUME watched # NotWatching
      PROVE  /\ watched.service \in Watchable
             /\ watched.variable \in VariablesOf(watched.service)
             /\ watched = [service |-> watched.service, variable |-> watched.variable]
             /\ Codec \in Codecs
             /\ Values = ToSet(Wire(Codec)) \cup
                         {c.w : c \in Commands(watched.service, watched.variable)}
  <2> HIDE DEF VariablesOf
  <2>1. watched \in [service : Watchable, variable : UNION {VariablesOf(s) : s \in Watchable}]
        /\ watched.variable \in VariablesOf(watched.service)
    BY <1>0 DEF ProxiesInv, WatchesOne
  <2> QED  BY <2>1, <1>0, CodecIs DEF Values, ShownOf, Codec
<1>1. CASE \E s \in Watchable : \E v \in VariablesOf(s) : Watch(s, v)
  BY <1>1, WatchKeeps
<1>2. CASE DeviceChanges
  <2>1. PICK w \in ToSet(Wire(Codec)) : w # shown /\ Shows(w)
    BY <1>2 DEF DeviceChanges
  <2>2. w \in Values
    BY <1>0, <1>2 DEF DeviceChanges, Settable
  <2> QED  BY <1>2, <2>1, <2>2, ShowsKeeps DEF DeviceChanges, Settable, One
<1>3. CASE Command
  <2>1. PICK c \in Commands(watched.service, watched.variable) : Shows(c.w) /\ meant' = c.meant
    BY <1>3 DEF Command
  <2>2. c.w \in Values
    BY <1>0, <1>3 DEF Command, Settable
  <2>3. meant' = ToldOf(Codec, c.w) /\ One(meant')
    BY <1>0, <1>3, <2>1, CommandMeans, ToldIs DEF Command, Settable, Codec, One
  <2> QED  BY <1>3, <2>1, <2>2, <2>3, ShowsKeeps DEF Command, Settable
<1>4. CASE EvtCallback
  <2>1. reported' = IF ToldOf(Codec, Head(events)) = Nothing THEN reported
                    ELSE ToldOf(Codec, Head(events))
    BY <1>4 DEF EvtCallback
  <2>2. watched # NotWatching
    <3>1. events \in Seq(Values) /\ events # <<>>
      BY <1>4 DEF EvtCallback, ProxiesInv, LastIsShown
    <3>2. Head(events) \in Values
      <4> HIDE DEF Values
      <4> QED  BY <3>1, HeadTailProperties
    <3> QED  BY <3>2 DEF Values
  <2>3. One(reported')
    BY <2>1, <2>2, <1>0, ToldIs DEF One, ProxiesInv
  <2> QED  BY <1>4, <2>1, <2>3, EventKeeps DEF EvtCallback, ProxiesInv
<1>5. CASE BadLastChange
  BY <1>5, EventKeeps DEF BadLastChange, ProxiesInv
<1>6. CASE RenewalFails
  <2> USE <1>6 DEF RenewalFails
  <2>1. Values' = Values /\ Codec' = Codec /\ MisreadHere' = MisreadHere
        /\ \A out : RightlyOut(out)' <=> RightlyOut(out)
    BY SameWhileWatched
  <2>2. LastIsShown'
    <3>1. events' \in Seq(Values') /\ Len(events') = 0
      OBVIOUS
    <3> QED  BY <3>1, ProxiesAssumption DEF LastIsShown, ProxiesInv
  <2>3. ToldOfShown'
    BY DEF ToldOfShown, Settled
  <2>4. WatchesOne' /\ MeantIsShown' /\ AnswerIsShown'
    <3> HIDE DEF Values, MisreadHere, RightlyOut
    <3> QED  BY <2>1 DEF WatchesOne, MeantIsShown, AnswerIsShown, ProxiesInv
  <2>5. warned' \in BOOLEAN
    OBVIOUS
  <2> QED  BY <2>2, <2>3, <2>4, <2>5 DEF ProxiesInv, One
<1>7. CASE Query
  <2>1. watched # NotWatching
    BY <1>7 DEF Query
  <2> DEFINE IsAsked(a, n) == Answer(watched.service, a, IF n = 0 THEN {}
                                                    ELSE {Reads[watched.service][a][n].element})
             Returned(a, n) == [ret |-> IF ~IsAsked(a, n).ok THEN "BAD_RESPONSE"
                                        ELSE IF n = 0 THEN "complete" ELSE "incomplete",
                                out |-> IsAsked(a, n).out]
  <2>a. PICK a \in ReadsOf(watched.service, watched.variable) :
          \E n \in 0..Len(Reads[watched.service][a]) : answer' = Returned(a, n)
    BY <1>7 DEF Query
  <2>2. PICK n \in 0..Len(Reads[watched.service][a]) : answer' = Returned(a, n)
    BY <2>a
  <2>3. a \in DOMAIN Reads[watched.service]
    BY <2>a DEF ReadsOf
  <2>4. answer'.ret \in {"complete", "incomplete", "BAD_RESPONSE"}
    BY <2>2
  <2>5. ASSUME answer'.ret = "complete"
        PROVE  answer'.out = Answer(watched.service, a, {}).out
    <3>1. n = 0
      BY <2>2, <2>5
    <3> QED  BY <2>2, <3>1
  <2>6. answer'.ret = "complete" /\ ~MisreadHere => RightlyOut(answer'.out)
    <3> HIDE DEF MisreadHere, RightlyOut, VariablesOf
    <3> QED  BY <2>5, <2>3, <2>1, <1>0, AnswerIs
  <2> QED  BY <1>7, <2>1, <2>4, <2>6, QueryKeeps DEF Query
<1>8. CASE ActionFails
  <2>1. answer'.ret = "error"
    BY <1>8 DEF ActionFails
  <2> QED  BY <1>8, <2>1, QueryKeeps DEF ActionFails
<1>9. CASE UNCHANGED proxiesVars
  <2>1. Values' = Values /\ Codec' = Codec /\ MisreadHere' = MisreadHere
        /\ \A out : RightlyOut(out)' <=> RightlyOut(out)
    BY <1>9, SameWhileWatched DEF proxiesVars
  <2> HIDE DEF Values, MisreadHere, RightlyOut
  <2>2. WatchesOne' /\ LastIsShown' /\ MeantIsShown' /\ AnswerIsShown'
    BY <1>9, <2>1 DEF proxiesVars, WatchesOne, LastIsShown, MeantIsShown, AnswerIsShown, ProxiesInv
  <2>3. ToldOfShown'
    BY <1>9, <2>1 DEF proxiesVars, ToldOfShown, Settled, ProxiesInv
  <2> QED  BY <1>9, <2>2, <2>3 DEF proxiesVars, ProxiesInv, One
<1> QED  BY <1>1, <1>2, <1>3, <1>4, <1>5, <1>6, <1>7, <1>8, <1>9 DEF ProxiesNext

LEMMA ProxiesInvIsSound == ProxiesInv => ProxiesTypeOK /\ ToldAsAskedAndMeant
<1> SUFFICES ASSUME ProxiesInv
             PROVE  ProxiesTypeOK /\ ToldAsAskedAndMeant
  OBVIOUS
<1>1. Len(reported) <= 1 /\ Len(meant) <= 1
  <2>1. \A x : One(x) => Len(x) <= 1
    BY DEF One, Nothing
  <2> QED  BY <2>1 DEF ProxiesInv
<1>2. watched # NotWatching =>
        /\ watched.service \in Watchable /\ watched.variable \in VariablesOf(watched.service)
        /\ shown \in ToSet(Wire(Codec)) \cup {c.w : c \in Commands(watched.service, watched.variable)}
  <2> HIDE DEF VariablesOf
  <2> QED  BY DEF ProxiesInv, WatchesOne, Values, ShownOf, Codec
<1>3. ProxiesTypeOK
  BY <1>1, <1>2 DEF ProxiesTypeOK, ProxiesInv, LastIsShown
<1>4. ToldAsAskedAndMeant
  BY DEF ToldAsAskedAndMeant, ProxiesInv, ToldOfShown, MeantIsShown, AnswerIsShown, RightlyOut,
         Settled, Tellable
<1> QED  BY <1>3, <1>4

LEMMA ProxiesAlways == ProxiesSpec => []ProxiesInv
<1> QED  BY ProxiesStart, ProxiesKept, PTL DEF ProxiesSpec

\* The events on their way, what the reporter was told and the answer to the last
\* query of the proxies keep their types.
THEOREM ProxiesTypeCorrect == ProxiesSpec => []ProxiesTypeOK
BY ProxiesAlways, ProxiesInvIsSound, PTL

\* evtCallback(), the queries and the commands of AVTransport, OHPlaylist and the
\* other services decode and encode the same variable in places apart: once the
\* events are through, what the reporter was told last is what the device was set
\* to, and so is what a query returns that has put something into its parameter,
\* for every variable but those in Misread.
THEOREM ProxiesAreTold == ProxiesSpec => []ToldAsAskedAndMeant
BY ProxiesAlways, ProxiesInvIsSound, PTL

-----------------------------------------------------------------------------
(* Playlist: the parser of the lists of tracks.                             *)

TagNames == {"TrackList", "Entry", "Id", "Uri", "Metadata"}
Chunks == Int \cup {"u", "&", "v", "good", "none", "bad"}
SaxEvent ==
  [event : {"open"}, name : TagNames, attributes : {NoAttributes}]
    \cup [event : {"chars"}, chunk : Chunks] \cup [event : {"close"}]
SaxElement ==
  [name : TagNames, attributes : {NoAttributes}, data : Seq(Chunks), start : Int, here : Int]
TrackRead == [id : Chunks, url : Seq(Chunks)]
TracksMade == [list : Seq(TrackRead), tt : TrackRead, tdidl : Seq(Chunks)]
ParserState ==
  [path : Seq(SaxElement), made : TracksMade, at : Int, ok : BOOLEAN, done : BOOLEAN]
ParserStep(p, e) == HandleEvent(p, e, Unhandled, TrackEnd, TrackData)
TracksStart == ParserStart([list |-> <<>>, tt |-> NoTrack, tdidl |-> <<>>])

\* A track being filled in keeps what is put into it.
LEMMA PutInTrack ==
  ASSUME NEW m \in TracksMade, NEW url
  PROVE  [m EXCEPT !.tt.url = url].tt.url = url
<1>1. m.tt \in TrackRead
  BY DEF TracksMade
<1>2. [m EXCEPT !.tt.url = url] = [m EXCEPT !.tt = [m.tt EXCEPT !.url = url]]
  OBVIOUS
<1>3. [m.tt EXCEPT !.url = url].url = url
  BY <1>1 DEF TrackRead
<1> DEFINE tt == [m.tt EXCEPT !.url = url]
<1> HIDE DEF tt
<1>4. [m EXCEPT !.tt = tt].tt = tt
  BY DEF TracksMade
<1> QED  BY <1>2, <1>3, <1>4 DEF tt

LEMMA StepIs ==
  ASSUME NEW p \in ParserState, NEW e \in SaxEvent
  PROVE  /\ p.done => ParserStep(p, e) = [p EXCEPT !.ok = FALSE]
         /\ ~p.done /\ e.event = "open" => ParserStep(p, e) = Handled(p, Opened(p, e), p.made)
         /\ ~p.done /\ e.event = "chars" =>
              ParserStep(p, e) = Handled(p, Filled(p, e), TrackData(p.made, Filled(p, e), e.chunk))
         /\ ~p.done /\ e.event = "close" =>
              ParserStep(p, e) = [Handled(p, Front(p.path), TrackEnd(p.made, Closing(p)))
                                    EXCEPT !.done = Len(p.path) = 1]
<1>1. e.event \in {"open", "chars", "close"}
  BY DEF SaxEvent
<1>2. CASE p.done
  BY <1>2 DEF ParserStep, HandleEvent, NotInPlace
<1>3. CASE ~p.done /\ e.event = "open"
  BY <1>3 DEF ParserStep, HandleEvent, Unhandled
<1>4. CASE ~p.done /\ e.event = "chars"
  BY <1>4 DEF ParserStep, HandleEvent
<1>5. CASE ~p.done /\ e.event = "close"
  BY <1>5 DEF ParserStep, HandleEvent
<1> QED  BY <1>1, <1>2, <1>3, <1>4, <1>5

LEMMA DataIsMade ==
  ASSUME NEW built \in TracksMade, NEW path, NEW chunk \in Chunks
  PROVE  TrackData(built, path, chunk) \in TracksMade
<1>1. built.tt \in TrackRead /\ built.tdidl \in Seq(Chunks) /\ built.list \in Seq(TrackRead)
  BY DEF TracksMade
<1>2. [built EXCEPT !.tt.id = chunk] \in TracksMade
  BY <1>1 DEF TracksMade, TrackRead
<1>3. [built EXCEPT !.tt.url = <<chunk>>] \in TracksMade
  <2>1. <<chunk>> \in Seq(Chunks)
    OBVIOUS
  <2> QED  BY <1>1, <2>1 DEF TracksMade, TrackRead
<1>4. [built EXCEPT !.tdidl = Append(@, chunk)] \in TracksMade
  <2>1. Append(built.tdidl, chunk) \in Seq(Chunks)
    BY <1>1, AppendProperties
  <2> QED  BY <1>1, <2>1 DEF TracksMade
<1> QED  BY <1>2, <1>3, <1>4 DEF TrackData

LEMMA EndIsMade ==
  ASSUME NEW built \in TracksMade, NEW path
  PROVE  TrackEnd(built, path) \in TracksMade
<1>1. built.tt \in TrackRead /\ built.list \in Seq(TrackRead)
  BY DEF TracksMade
<1>2. Append(built.list, built.tt) \in Seq(TrackRead)
  BY <1>1, AppendProperties
<1>3. NoTrack \in TrackRead /\ <<>> \in Seq(Chunks)
  BY DEF NoTrack, TrackRead, Chunks
<1> QED  BY <1>2, <1>3 DEF TrackEnd, TracksMade

\* Whatever the xml, the parser keeps its types.
LEMMA StepStays ==
  ASSUME NEW p \in ParserState, NEW e \in SaxEvent
  PROVE  ParserStep(p, e) \in ParserState
<1>0. /\ p.path \in Seq(SaxElement) /\ p.made \in TracksMade /\ p.at \in Int
      /\ p.ok \in BOOLEAN /\ p.done \in BOOLEAN
  BY DEF ParserState
<1>1. ASSUME NEW path \in Seq(SaxElement), NEW built \in TracksMade
      PROVE  Handled(p, path, built) \in ParserState
  <2> DEFINE p1 == [p EXCEPT !.path = path]
             p2 == [p1 EXCEPT !.made = built]
             p3 == [p2 EXCEPT !.at = @ + 1]
  <2>1. p1 \in ParserState
    BY DEF ParserState
  <2>2. p2 \in ParserState
    <3> HIDE DEF p1
    <3> QED  BY <2>1 DEF ParserState
  <2>3. p3 \in ParserState
    <3> HIDE DEF p2
    <3>1. p2.at \in Int
      BY <2>2 DEF ParserState
    <3>2. p2.at + 1 \in Int
      BY <3>1
    <3> QED  BY <2>2, <3>2 DEF ParserState
  <2> QED  BY <2>3 DEF Handled
<1>2. CASE p.done
  <2>1. [p EXCEPT !.ok = FALSE] \in ParserState
    BY DEF ParserState
  <2> QED  BY <1>2, <2>1, StepIs
<1>3. CASE ~p.done /\ e.event = "open"
  <2>1. e.name \in TagNames /\ e.attributes = NoAttributes
    BY <1>3 DEF SaxEvent
  <2> DEFINE element == [name |-> e.name, attributes |-> e.attributes, data |-> <<>>,
                         start |-> p.at, here |-> p.at]
  <2>2. element \in SaxElement
    BY <1>0, <2>1 DEF SaxElement
  <2> HIDE DEF element
  <2>3. Append(p.path, element) \in Seq(SaxElement)
    BY <1>0, <2>2, AppendProperties
  <2>4. Opened(p, e) \in Seq(SaxElement)
    BY <2>3 DEF Opened, element
  <2> QED  BY <1>0, <1>1, <1>3, <2>4, StepIs
<1>4. CASE ~p.done /\ e.event = "chars"
  <2>1. e.chunk \in Chunks
    BY <1>4 DEF SaxEvent
  <2>2. Filled(p, e) \in Seq(SaxElement)
    <3>1. Len(p.path) \in Nat /\ \A i \in 1..Len(p.path) : p.path[i] \in SaxElement
          /\ DOMAIN p.path = 1..Len(p.path)
      BY <1>0, LenProperties, ElementOfSeq
    <3>2. CASE Len(p.path) = 0
      <4>1. Filled(p, e) = p.path
        BY <1>0, <3>1, <3>2 DEF Filled
      <4> QED  BY <4>1, <1>0
    <3>3. CASE Len(p.path) # 0
      <4> DEFINE top == p.path[Len(p.path)]
                 full == [top EXCEPT !.data = Append(@, e.chunk)]
      <4>1. top \in SaxElement
        BY <3>1, <3>3
      <4>2. Append(top.data, e.chunk) \in Seq(Chunks)
        BY <4>1, <2>1, AppendProperties DEF SaxElement
      <4>3. full \in SaxElement
        BY <4>1, <4>2 DEF SaxElement
      <4> HIDE DEF full
      <4>4. [p.path EXCEPT ![Len(p.path)] = full] \in Seq(SaxElement)
        BY <1>0, <3>1, <3>3, <4>3, ExceptSeq
      <4>5. Filled(p, e) = [p.path EXCEPT ![Len(p.path)] = full]
        BY DEF Filled, full
      <4> QED  BY <4>4, <4>5
    <3> QED  BY <3>2, <3>3
  <2> QED  BY <1>0, <1>1, <1>4, <2>1, <2>2, DataIsMade, StepIs
<1>5. CASE ~p.done /\ e.event = "close"
  <2>1. Front(p.path) \in Seq(SaxElement)
    BY <1>0, FrontIs
  <2>2. Handled(p, Front(p.path), TrackEnd(p.made, Closing(p))) \in ParserState
    BY <1>0, <1>1, <2>1, EndIsMade
  <2> DEFINE final == Len(p.path) = 1
  <2>3. final \in BOOLEAN
    OBVIOUS
  <2> HIDE DEF final
  <2>4. [Handled(p, Front(p.path), TrackEnd(p.made, Closing(p))) EXCEPT !.done = final]
          \in ParserState
    BY <2>2, <2>3 DEF ParserState
  <2> QED  BY <1>5, <2>4, StepIs DEF final
<1>6. e.event \in {"open", "chars", "close"}
  BY DEF SaxEvent
<1> QED  BY <1>0, <1>2, <1>3, <1>4, <1>5, <1>6

\* The parser comes from p to q by the xml.
IsRun(run, p, xml, q) ==
  /\ run \in [0..Len(xml) -> ParserState]
  /\ run[0] = p /\ run[Len(xml)] = q
  /\ \A i \in 1..Len(xml) : run[i] = ParserStep(run[i - 1], xml[i])
Reaches(p, xml, q) == \E run : IsRun(run, p, xml, q)

LEMMA StartIs == TracksStart \in ParserState
<1>1. NoTrack \in TrackRead /\ <<>> \in Seq(Chunks) /\ <<>> \in Seq(TrackRead) /\ <<>> \in Seq(SaxElement)
  BY DEF NoTrack, TrackRead, Chunks
<1> QED  BY <1>1 DEF TracksStart, ParserStart, ParserState, TracksMade

\* What is parsed is what the parser comes to.
LEMMA ParsedIs ==
  ASSUME NEW xml \in Seq(SaxEvent)
  PROVE  \E q : Reaches(TracksStart, xml, q) /\ ParseTrackList(xml) = Parsed(q)
<1> DEFINE n == Len(xml)
<1>1. n \in Nat /\ DOMAIN xml = 1..n /\ \A i \in 1..n : xml[i] \in SaxEvent
  BY LenProperties, ElementOfSeq
<1> HIDE DEF n
<1>2. \E f : f = [piece \in SUBSET (1..n) |->
                    IF piece = {} THEN TracksStart
                    ELSE ParserStep(f[piece \ {Max(piece)}], xml[Max(piece)])]
  <2> DEFINE step == [x \in ParserState \X (1..n) |-> ParserStep(x[1], xml[x[2]])]
  <2>1. step \in [ParserState \X (1..n) -> ParserState]
    BY <1>1, StepStays
  <2>2. PICK f : IsFold(f, step, TracksStart, ParserState, n)
    <3> HIDE DEF step
    <3> QED  BY <1>1, <2>1, StartIs, FoldExists DEF IsStep
  <2>3. ASSUME NEW piece \in SUBSET (1..n), piece # {}
        PROVE  step[<<f[piece \ {Max(piece)}], Max(piece)>>]
                 = ParserStep(f[piece \ {Max(piece)}], xml[Max(piece)])
    <3>1. Max(piece) \in 1..n /\ piece \ {Max(piece)} \in SUBSET (1..n)
      BY <1>1, <2>3, GreatestIs
    <3> QED  BY <3>1, <2>2 DEF IsFold
  <2> HIDE DEF step
  <2>4. f = [piece \in SUBSET (1..n) |->
               IF piece = {} THEN TracksStart
               ELSE ParserStep(f[piece \ {Max(piece)}], xml[Max(piece)])]
    BY <2>2, <2>3 DEF IsFold
  <2> QED  BY <2>4
<1> DEFINE f == CHOOSE f : f = [piece \in SUBSET (DOMAIN xml) |->
                    IF piece = {} THEN TracksStart
                    ELSE ParserStep(f[piece \ {Max(piece)}], xml[Max(piece)])]
           run == [i \in 0..n |-> f[1..i]]
<1>3. ParseTrackList(xml) = Parsed(f[DOMAIN xml])
  BY DEF ParseTrackList, Parse, FoldLeft, MapThenFoldSet, TracksStart, ParserStep
<1>4. f = [piece \in SUBSET (1..n) |->
             IF piece = {} THEN TracksStart
             ELSE ParserStep(f[piece \ {Max(piece)}], xml[Max(piece)])]
  BY <1>1, <1>2
<1> HIDE DEF f
<1>5. f[1..0] = TracksStart
  BY <1>1, <1>4
<1>6. ASSUME NEW i \in 1..n
      PROVE  f[1..i] = ParserStep(f[1..(i - 1)], xml[i])
  <2>1. 1..i \in SUBSET (1..n) /\ 1..i # {}
    BY <1>1
  <2>2. Max(1..i) = i /\ (1..i) \ {i} = 1..(i - 1)
    BY <1>1, LastOfUpTo
  <2> QED  BY <1>4, <2>1, <2>2
<1>7. ASSUME NEW m \in 0..n
      PROVE  f[1..m] \in ParserState
  <2>1. \A i \in 1..m : f[1..(i - 1)] \in ParserState => f[1..i] \in ParserState
    BY <1>1, <1>6, StepStays
  <2>2. m \in Nat /\ f[1..0] \in ParserState
    BY <1>1, <1>5, StartIs
  <2> QED  BY <2>1, <2>2, FoldKeeps
<1>8. IsRun(run, TracksStart, xml, f[1..n])
  <2>1. run \in [0..n -> ParserState]
    BY <1>7
  <2>2. run[0] = TracksStart /\ run[n] = f[1..n]
    BY <1>1, <1>5
  <2>3. \A i \in 1..n : run[i] = ParserStep(run[i - 1], xml[i])
    BY <1>1, <1>6
  <2> HIDE DEF run
  <2> QED  BY <2>1, <2>2, <2>3 DEF IsRun, n
<1> QED  BY <1>1, <1>3, <1>8 DEF Reaches

LEMMA ReachesAState ==
  ASSUME NEW p, NEW xml \in Seq(SaxEvent), NEW q, Reaches(p, xml, q)
  PROVE  p \in ParserState /\ q \in ParserState
<1>1. PICK run : IsRun(run, p, xml, q)
  BY DEF Reaches
<1>2. Len(xml) \in Nat
  BY LenProperties
<1> QED  BY <1>1, <1>2 DEF IsRun

\* By xml one after the other, the parser comes to a state between them.
LEMMA ReachesBetween ==
  ASSUME NEW p, NEW s \in Seq(SaxEvent), NEW t \in Seq(SaxEvent), NEW q, Reaches(p, s \o t, q)
  PROVE  \E between : Reaches(p, s, between) /\ Reaches(between, t, q)
<1> DEFINE m == Len(s)
           n == Len(t)
<1>1. m \in Nat /\ n \in Nat
  BY LenProperties
<1>2. /\ Len(s \o t) = m + n
      /\ \A i \in 1..(m + n) : (s \o t)[i] = IF i <= m THEN s[i] ELSE t[i - m]
  BY ConcatProperties
<1>3. PICK run : IsRun(run, p, s \o t, q)
  BY DEF Reaches
<1> HIDE DEF m, n
<1>4. /\ run \in [0..(m + n) -> ParserState] /\ run[0] = p /\ run[m + n] = q
      /\ \A i \in 1..(m + n) : run[i] = ParserStep(run[i - 1], (s \o t)[i])
  BY <1>2, <1>3 DEF IsRun
<1> DEFINE first == [i \in 0..m |-> run[i]]
           second == [i \in 0..n |-> run[m + i]]
<1>5. IsRun(first, p, s, run[m])
  <2>1. first \in [0..m -> ParserState] /\ first[0] = p /\ first[m] = run[m]
    BY <1>1, <1>4
  <2>2. ASSUME NEW i \in 1..m
        PROVE  first[i] = ParserStep(first[i - 1], s[i])
    <3>1. i \in 1..(m + n) /\ i <= m /\ first[i] = run[i] /\ first[i - 1] = run[i - 1]
      BY <1>1
    <3> QED  BY <3>1, <1>2, <1>4
  <2> HIDE DEF first
  <2> QED  BY <2>1, <2>2 DEF IsRun, m
<1>6. IsRun(second, run[m], t, q)
  <2>1. second \in [0..n -> ParserState] /\ second[0] = run[m] /\ second[n] = q
    BY <1>1, <1>4
  <2>2. ASSUME NEW i \in 1..n
        PROVE  second[i] = ParserStep(second[i - 1], t[i])
    <3>1. m + i \in 1..(m + n) /\ ~(m + i <= m) /\ (m + i) - m = i /\ (m + i) - 1 = m + (i - 1)
      BY <1>1
    <3>2. second[i] = run[m + i] /\ second[i - 1] = run[m + (i - 1)]
      BY <1>1
    <3>3. (s \o t)[m + i] = t[i]
      BY <3>1, <1>2
    <3>4. run[m + i] = ParserStep(run[(m + i) - 1], (s \o t)[m + i])
      BY <3>1, <1>4
    <3> QED  BY <3>1, <3>2, <3>3, <3>4
  <2> HIDE DEF second
  <2> QED  BY <2>1, <2>2 DEF IsRun, n
<1> QED  BY <1>5, <1>6 DEF Reaches

LEMMA ReachesByOne ==
  ASSUME NEW p, NEW e \in SaxEvent, NEW q, Reaches(p, <<e>>, q)
  PROVE  q = ParserStep(p, e)
<1>1. PICK run : IsRun(run, p, <<e>>, q)
  BY DEF Reaches
<1>2. Len(<<e>>) = 1 /\ <<e>>[1] = e
  OBVIOUS
<1> DEFINE one == <<e>>
<1> HIDE DEF one
<1>3. /\ run[0] = p /\ run[1] = q
      /\ \A i \in 1..1 : run[i] = ParserStep(run[i - 1], one[i])
  BY <1>1, <1>2 DEF IsRun, one
<1>4. run[1] = ParserStep(run[0], one[1])
  BY <1>3
<1> QED  BY <1>2, <1>3, <1>4 DEF one

LEMMA ReachesByNone ==
  ASSUME NEW p, NEW q, Reaches(p, <<>>, q)
  PROVE  q = p
<1>1. PICK run : IsRun(run, p, <<>>, q)
  BY DEF Reaches
<1>2. Len(<<>>) = 0
  OBVIOUS
<1> QED  BY <1>1, <1>2 DEF IsRun

\* The elements that are open, from the outermost.
Inside(p, names) ==
  /\ p \in ParserState /\ p.ok /\ ~p.done
  /\ Len(p.path) = Len(names)
  /\ \A i \in 1..Len(names) : p.path[i].name = names[i]
LeafNames == {"Id", "Uri", "Metadata"}
Tag(name) == [event |-> "open", name |-> name, attributes |-> NoAttributes]
Text_(chunk) == [event |-> "chars", chunk |-> chunk]
EndOf == [event |-> "close"]
\* What a chunk of a leaf changes.
Put(built, name, chunk) ==
  CASE name = "Id" -> [built EXCEPT !.tt.id = chunk]
    [] name = "Uri" -> [built EXCEPT !.tt.url = <<chunk>>]
    [] name = "Metadata" -> [built EXCEPT !.tdidl = Append(@, chunk)]

LEMMA OpensATag ==
  ASSUME NEW names \in Seq(TagNames), NEW p, Inside(p, names), NEW name \in TagNames
  PROVE  /\ Tag(name) \in SaxEvent
         /\ Inside(ParserStep(p, Tag(name)), Append(names, name))
         /\ ParserStep(p, Tag(name)).made = p.made
<1>1. Tag(name) \in SaxEvent
  BY DEF Tag, SaxEvent
<1>2. ParserStep(p, Tag(name)) = Handled(p, Opened(p, Tag(name)), p.made)
  BY <1>1, StepIs DEF Inside, Tag
<1>3. ParserStep(p, Tag(name)) \in ParserState
  BY <1>1, StepStays DEF Inside
<1>4. p.path \in Seq(SaxElement) /\ p \in ParserState
  BY DEF Inside, ParserState
<1> DEFINE element == [name |-> name, attributes |-> NoAttributes, data |-> <<>>,
                       start |-> p.at, here |-> p.at]
           path == Append(p.path, element)
<1>5. element \in SaxElement
  BY <1>4 DEF SaxElement, ParserState
<1>6. Opened(p, Tag(name)) = path
  BY DEF Opened, Tag
<1>7. element.name = name
  OBVIOUS
<1> HIDE DEF element
<1>8. /\ Len(path) = Len(p.path) + 1 /\ Len(p.path) \in Nat
      /\ \A i \in 1..Len(p.path) : path[i] = p.path[i]
      /\ path[Len(p.path) + 1].name = name
  BY <1>4, <1>5, <1>7, AppendProperties, LenProperties
<1>9. /\ Len(Append(names, name)) = Len(names) + 1 /\ Len(names) \in Nat
      /\ \A i \in 1..Len(names) : Append(names, name)[i] = names[i]
      /\ Append(names, name)[Len(names) + 1] = name
  BY AppendProperties, LenProperties
<1> DEFINE q == ParserStep(p, Tag(name))
<1>10. q.path = path /\ q.made = p.made /\ q.ok = p.ok /\ q.done = p.done
  BY <1>2, <1>4, <1>6 DEF Handled, ParserState
<1>11. \A i \in 1..(Len(names) + 1) : path[i].name = Append(names, name)[i]
  <2> SUFFICES ASSUME NEW i \in 1..(Len(names) + 1)
               PROVE  path[i].name = Append(names, name)[i]
    OBVIOUS
  <2>1. Len(names) = Len(p.path)
    BY DEF Inside
  <2>2. CASE i = Len(names) + 1
    BY <2>1, <2>2, <1>8, <1>9
  <2>3. CASE i # Len(names) + 1
    <3>1. i \in 1..Len(names) /\ i \in 1..Len(p.path)
      BY <2>1, <2>3, <1>9
    <3>2. p.path[i].name = names[i]
      BY <3>1 DEF Inside
    <3> QED  BY <3>1, <3>2, <1>8, <1>9
  <2> QED  BY <2>2, <2>3
<1> HIDE DEF path, q
<1>12. Len(q.path) = Len(Append(names, name))
  BY <1>8, <1>9, <1>10 DEF Inside
<1>13. Inside(q, Append(names, name))
  BY <1>3, <1>9, <1>10, <1>11, <1>12 DEF Inside, q
<1> QED  BY <1>1, <1>10, <1>13 DEF q

LEMMA ReadsAChunk ==
  ASSUME NEW name \in LeafNames, NEW p, Inside(p, <<"TrackList", "Entry", name>>),
         NEW chunk \in Chunks
  PROVE  /\ Text_(chunk) \in SaxEvent
         /\ Inside(ParserStep(p, Text_(chunk)), <<"TrackList", "Entry", name>>)
         /\ ParserStep(p, Text_(chunk)).made = Put(p.made, name, chunk)
<1> DEFINE q == ParserStep(p, Text_(chunk))
           e == Text_(chunk)
           top == p.path[3]
           path == [p.path EXCEPT ![3].data = Append(@, chunk)]
<1>1. e \in SaxEvent /\ e.event = "chars" /\ e.chunk = chunk
  BY DEF Text_, SaxEvent
<1>2. p.path \in Seq(SaxElement) /\ p \in ParserState /\ ~p.done /\ p.ok
  BY DEF Inside, ParserState
<1>3. /\ Len(p.path) = 3 /\ p.path[1].name = "TrackList" /\ p.path[2].name = "Entry"
      /\ p.path[3].name = name
  BY DEF Inside
<1>4. Filled(p, e) = path
  BY <1>1, <1>3 DEF Filled
<1>5. q = Handled(p, path, TrackData(p.made, path, chunk)) /\ q \in ParserState
  <2> HIDE DEF path, e
  <2>1. q = Handled(p, Filled(p, e), TrackData(p.made, Filled(p, e), e.chunk))
    BY <1>1, <1>2, StepIs DEF e
  <2>2. q \in ParserState
    BY <1>1, <1>2, StepStays DEF e
  <2> QED  BY <1>1, <1>4, <2>1, <2>2
<1>6. DOMAIN p.path = 1..3 /\ top \in SaxElement
  BY <1>2, <1>3, LenProperties, ElementOfSeq
<1>7. /\ Len(path) = 3 /\ path[1] = p.path[1] /\ path[2] = p.path[2]
      /\ path[3] = [top EXCEPT !.data = Append(@, chunk)]
  <2> DEFINE full == [top EXCEPT !.data = Append(@, chunk)]
  <2>1. Append(top.data, chunk) \in Seq(Chunks)
    BY <1>6, AppendProperties DEF SaxElement
  <2>2. full \in SaxElement
    BY <1>6, <2>1 DEF SaxElement
  <2>3. path = [p.path EXCEPT ![3] = full]
    BY <1>6
  <2> HIDE DEF full, path
  <2>4. Len(path) = Len(p.path) /\ \A j \in 1..Len(p.path) : path[j] = IF j = 3 THEN full ELSE p.path[j]
    BY <1>2, <1>3, <2>2, <2>3, ExceptSeq
  <2> QED  BY <2>4, <1>3 DEF full
<1> HIDE DEF path
<1>8. path[3].name = name /\ Last(path) = path[3]
  BY <1>3, <1>6, <1>7 DEF Last, SaxElement
<1>9. TrackData(p.made, path, chunk) = Put(p.made, name, chunk)
  BY <1>8 DEF TrackData, Put, LeafNames
<1>10. q.path = path /\ q.made = Put(p.made, name, chunk) /\ q.ok = p.ok /\ q.done = p.done
  BY <1>2, <1>5, <1>9 DEF Handled, ParserState
<1> HIDE DEF q, e
<1>11. Inside(q, <<"TrackList", "Entry", name>>)
  <2>1. q.path[1].name = "TrackList" /\ q.path[2].name = "Entry" /\ q.path[3].name = name
        /\ Len(q.path) = 3
    BY <1>3, <1>7, <1>8, <1>10
  <2> QED  BY <2>1, <1>2, <1>5, <1>10 DEF Inside
<1> QED  BY <1>1, <1>10, <1>11 DEF q, e

LEMMA ClosesATag ==
  ASSUME NEW names \in Seq(TagNames), NEW name \in TagNames, NEW p,
         Inside(p, Append(names, name))
  PROVE  LET q == ParserStep(p, EndOf) IN
         /\ EndOf \in SaxEvent
         /\ names # <<>> => Inside(q, names)
         /\ names = <<>> => q.ok /\ q.done
         /\ q.made = IF name = "Entry" /\ ItemsOf(p.made.tdidl) = 1
                     THEN [list |-> Append(p.made.list, p.made.tt), tt |-> NoTrack,
                           tdidl |-> <<>>]
                     ELSE p.made
<1> DEFINE q == ParserStep(p, EndOf)
           n == Len(names)
           path == Closing(p)
<1>1. EndOf \in SaxEvent /\ EndOf.event = "close"
  BY DEF EndOf, SaxEvent
<1>2. p.path \in Seq(SaxElement) /\ p \in ParserState /\ ~p.done /\ p.ok
  BY DEF Inside, ParserState
<1>3. n \in Nat /\ Len(Append(names, name)) = n + 1
      /\ (\A i \in 1..n : Append(names, name)[i] = names[i]) /\ Append(names, name)[n + 1] = name
  BY AppendProperties, LenProperties
<1> HIDE DEF n
<1>4. Len(p.path) = n + 1 /\ (\A i \in 1..n : p.path[i].name = names[i]) /\ p.path[n + 1].name = name
  BY <1>3 DEF Inside
<1>5. q = [Handled(p, Front(p.path), TrackEnd(p.made, path)) EXCEPT !.done = n + 1 = 1]
      /\ q \in ParserState
  BY <1>1, <1>2, <1>4, StepIs, StepStays
<1>6. Len(Front(p.path)) = n /\ \A i \in 1..n : Front(p.path)[i] = p.path[i]
  BY <1>2, <1>3, <1>4, FrontIs
<1>7. path[n + 1].name = name /\ Last(path) = path[n + 1]
  <2> DEFINE top == p.path[n + 1]
             closed == [top EXCEPT !.here = p.at]
  <2>1. n + 1 \in 1..Len(p.path) /\ DOMAIN p.path = 1..Len(p.path)
    BY <1>2, <1>3, <1>4, LenProperties
  <2>2. top \in SaxElement
    BY <1>2, <2>1, ElementOfSeq
  <2>3. closed \in SaxElement /\ closed.name = name
    BY <1>2, <1>4, <2>2 DEF SaxElement, ParserState
  <2>4. path = [p.path EXCEPT ![n + 1] = closed]
    BY <1>4 DEF Closing
  <2> HIDE DEF closed, path
  <2>5. Len(path) = n + 1 /\ path[n + 1] = closed
    BY <1>2, <1>4, <2>1, <2>3, <2>4, ExceptSeq
  <2> QED  BY <2>3, <2>5 DEF Last
<1> HIDE DEF path
<1>8. TrackEnd(p.made, path)
        = IF name = "Entry" /\ ItemsOf(p.made.tdidl) = 1
          THEN [list |-> Append(p.made.list, p.made.tt), tt |-> NoTrack, tdidl |-> <<>>]
          ELSE p.made
  BY <1>7 DEF TrackEnd
<1>9. /\ q.path = Front(p.path) /\ q.made = TrackEnd(p.made, path) /\ q.ok = p.ok
      /\ q.done <=> n = 0
  <2> DEFINE final == n + 1 = 1
             to == TrackEnd(p.made, path)
             front == Front(p.path)
  <2>1. final <=> n = 0
    BY <1>3
  <2> HIDE DEF final, to, front
  <2>2. q = [Handled(p, front, to) EXCEPT !.done = final]
    BY <1>5 DEF final, to, front
  <2> HIDE DEF q
  <2>3. q.path = front /\ q.made = to /\ q.ok = p.ok /\ q.done = final
    BY <1>2, <2>2 DEF Handled, ParserState
  <2> QED  BY <2>1, <2>3 DEF to, front
<1>10. n = 0 <=> names = <<>>
  BY <1>3, EmptySeq DEF n
<1> HIDE DEF q
<1>11. names # <<>> => Inside(q, names)
  <2>1. Len(q.path) = n /\ \A i \in 1..n : q.path[i].name = names[i]
    <3>1. \A i \in 1..n : q.path[i] = p.path[i]
      BY <1>6, <1>9
    <3> QED  BY <3>1, <1>4, <1>6, <1>9
  <2>2. names # <<>> => ~q.done
    BY <1>9, <1>10
  <2> QED  BY <2>1, <2>2, <1>2, <1>5, <1>9 DEF Inside, n
<1> QED  BY <1>1, <1>2, <1>8, <1>9, <1>10, <1>11 DEF q

\* The parser stops between the sequences.
Stops(stops, p, seqs, q) ==
  /\ stops \in [0..Len(seqs) -> ParserState]
  /\ stops[0] = p /\ stops[Len(seqs)] = q
  /\ \A i \in 1..Len(seqs) : Reaches(stops[i - 1], seqs[i], stops[i])
LEMMA FlatReaches ==
  ASSUME NEW p, NEW seqs \in Seq(Seq(SaxEvent)), NEW q, Reaches(p, FlattenSeq(seqs), q)
  PROVE  \E stops : Stops(stops, p, seqs, q)
<1> DEFINE n == Len(seqs)
           Is(s, m, r) == /\ s \in [0..m -> ParserState] /\ s[0] = p /\ s[m] = r
                          /\ \A i \in 1..m : Reaches(s[i - 1], seqs[i], s[i])
<1>1. n \in Nat /\ \A i \in 1..n : seqs[i] \in Seq(SaxEvent)
  BY LenProperties, ElementOfSeq
<1>2. PICK flat : IsFlat(flat, seqs, SaxEvent)
  BY FlatIs
<1> HIDE DEF n
<1>3. /\ flat \in [0..n -> Seq(SaxEvent)] /\ flat[0] = <<>> /\ FlattenSeq(seqs) = flat[n]
      /\ \A i \in 1..n : flat[i] = flat[i - 1] \o seqs[i]
  BY <1>2 DEF IsFlat, n
<1> DEFINE Exists(m, r) == \E s : Is(s, m, r)
           All(m) == \A r : Reaches(p, flat[m], r) => Exists(m, r)
           T == {m \in Nat : m <= n => All(m)}
<1>4. 0 \in T
  <2> SUFFICES ASSUME NEW r, Reaches(p, flat[0], r)
               PROVE  Exists(0, r)
    <3> HIDE DEF Exists
    <3> QED  OBVIOUS
  <2>1. r = p /\ p \in ParserState
    <3>1. Reaches(p, <<>>, r) /\ <<>> \in Seq(SaxEvent)
      BY <1>3
    <3> QED  BY <3>1, ReachesByNone, ReachesAState
  <2> DEFINE s == [i \in 0..0 |-> p]
  <2>2. Is(s, 0, r)
    BY <2>1
  <2> HIDE DEF Is
  <2> QED  BY <2>2
<1>5. ASSUME NEW m \in Nat, m \in T
      PROVE  m + 1 \in T
  <2> SUFFICES ASSUME m + 1 <= n, NEW r, Reaches(p, flat[m + 1], r)
               PROVE  Exists(m + 1, r)
    <3> HIDE DEF Exists
    <3> QED  OBVIOUS
  <2>1. All(m)
    <3> HIDE DEF All
    <3> QED  BY <1>1, <1>5
  <2>2. /\ m + 1 \in 1..n /\ m \in 0..n /\ (m + 1) - 1 = m
        /\ seqs[m + 1] \in Seq(SaxEvent) /\ flat[m] \in Seq(SaxEvent)
    BY <1>1, <1>3
  <2>3. flat[m + 1] = flat[m] \o seqs[m + 1]
    <3>1. flat[m + 1] = flat[(m + 1) - 1] \o seqs[m + 1]
      BY <1>3, <2>2
    <3> QED  BY <2>2, <3>1
  <2>4. PICK between : Reaches(p, flat[m], between) /\ Reaches(between, seqs[m + 1], r)
    BY <2>2, <2>3, ReachesBetween
  <2>5. PICK s : Is(s, m, between)
    <3> HIDE DEF Is
    <3> QED  BY <2>1, <2>4
  <2>6. r \in ParserState
    BY <2>2, <2>4, ReachesAState
  <2> DEFINE g == [i \in 0..(m + 1) |-> IF i = m + 1 THEN r ELSE s[i]]
  <2>7. /\ g \in [0..(m + 1) -> ParserState] /\ g[0] = p /\ g[m + 1] = r
        /\ \A i \in 0..m : g[i] = s[i]
    BY <2>5, <2>6
  <2>8. ASSUME NEW i \in 1..(m + 1)
        PROVE  Reaches(g[i - 1], seqs[i], g[i])
    <3> HIDE DEF g
    <3>1. i - 1 \in 0..m /\ m \in 0..m
      OBVIOUS
    <3>2. g[i - 1] = s[i - 1]
      BY <2>7, <3>1
    <3>3. CASE i = m + 1
      <4>1. s[i - 1] = between
        BY <3>3, <2>5
      <4> QED  BY <4>1, <2>4, <2>7, <3>2, <3>3
    <3>4. CASE i # m + 1
      <4>1. i \in 0..m /\ i \in 1..m
        BY <3>4
      <4> QED  BY <4>1, <2>5, <2>7, <3>2
    <3> QED  BY <3>3, <3>4
  <2> HIDE DEF g
  <2>9. Is(g, m + 1, r)
    BY <2>7, <2>8
  <2> HIDE DEF Is
  <2> QED  BY <2>9
<1>6. Exists(n, q)
  <2> HIDE DEF Exists
  <2>1. Nat \subseteq T
    <3> HIDE DEF T
    <3> QED  BY <1>4, <1>5, Induct
  <2> QED  BY <1>1, <1>3, <2>1
<1>7. PICK s : Is(s, n, q)
  <2> HIDE DEF Is
  <2> QED  BY <1>6
<1>8. Stops(s, p, seqs, q)
  BY <1>7 DEF Stops, n
<1> QED  BY <1>8

Entry == <<"TrackList", "Entry">>
\* What the first chunks of a leaf have changed.
LeafKept(name, data, i, a, b) ==
  /\ b.list = a.list
  /\ i = 0 => b = a
  /\ i = 1 => b = Put(a, name, data[1])
  /\ name = "Id" => b.tt.url = a.tt.url /\ b.tdidl = a.tdidl
  /\ name = "Uri" => b.tt.id = a.tt.id /\ b.tdidl = a.tdidl
  /\ name = "Metadata" => b.tt = a.tt
LEMMA PutKeeps ==
  ASSUME NEW name \in LeafNames, NEW data \in Seq(Chunks), NEW i \in Nat, i < Len(data),
         NEW a \in TracksMade, NEW b \in TracksMade, LeafKept(name, data, i, a, b)
  PROVE  LeafKept(name, data, i + 1, a, Put(b, name, data[i + 1]))
<1> DEFINE c == Put(b, name, data[i + 1])
<1>1. /\ c.list = b.list
      /\ name = "Id" => c.tt.url = b.tt.url /\ c.tdidl = b.tdidl
      /\ name = "Uri" => c.tt.id = b.tt.id /\ c.tdidl = b.tdidl
      /\ name = "Metadata" => c.tt = b.tt
  BY DEF Put, LeafNames, TracksMade, TrackRead
<1>2. i + 1 = 1 => c = Put(a, name, data[1])
  BY DEF LeafKept
<1>3. i + 1 # 0
  OBVIOUS
<1> HIDE DEF c
<1>4. LeafKept(name, data, i + 1, a, c)
  BY <1>1, <1>2, <1>3 DEF LeafKept
<1> QED  BY <1>4 DEF c

LEMMA FlatIsSeq ==
  ASSUME NEW seqs \in Seq(Seq(SaxEvent))
  PROVE  FlattenSeq(seqs) \in Seq(SaxEvent)
<1>1. PICK flat : IsFlat(flat, seqs, SaxEvent)
  BY FlatIs
<1>2. Len(seqs) \in Nat
  BY LenProperties
<1> QED  BY <1>1, <1>2 DEF IsFlat

\* An element is the tag, what it has, and the end.
LEMMA ElementReaches ==
  ASSUME NEW name \in TagNames, NEW content \in Seq(SaxEvent)
  PROVE  LET all == Element(name, NoAttributes, content) IN
         /\ all \in Seq(SaxEvent)
         /\ \A p, q : Reaches(p, all, q) =>
              \E p2 : Reaches(ParserStep(p, Tag(name)), content, p2) /\ q = ParserStep(p2, EndOf)
<1> DEFINE start == <<Tag(name)>>
           end == <<EndOf>>
           all == Element(name, NoAttributes, content)
<1>1. Tag(name) \in SaxEvent /\ EndOf \in SaxEvent
  BY DEF Tag, EndOf, SaxEvent
<1>2. start \in Seq(SaxEvent) /\ end \in Seq(SaxEvent)
  BY <1>1
<1>3. all = (start \o content) \o end
  BY DEF Element, StartTag, EndTag, Tag, EndOf
<1> HIDE DEF start, end, all
<1>4. start \o content \in Seq(SaxEvent)
  BY <1>2, ConcatProperties
<1>5. all \in Seq(SaxEvent)
  BY <1>2, <1>3, <1>4, ConcatProperties
<1>6. ASSUME NEW p, NEW q, Reaches(p, all, q)
      PROVE  \E p2 : Reaches(ParserStep(p, Tag(name)), content, p2) /\ q = ParserStep(p2, EndOf)
  <2>1. PICK p2 : Reaches(p, start \o content, p2) /\ Reaches(p2, end, q)
    BY <1>2, <1>3, <1>4, <1>6, ReachesBetween
  <2>2. PICK p1 : Reaches(p, start, p1) /\ Reaches(p1, content, p2)
    BY <1>2, <2>1, ReachesBetween
  <2>3. p1 = ParserStep(p, Tag(name)) /\ q = ParserStep(p2, EndOf)
    BY <1>1, <2>1, <2>2, ReachesByOne DEF start, end
  <2> QED  BY <2>2, <2>3
<1> QED  BY <1>5, <1>6 DEF all

LEMMA EntryThen ==
  ASSUME NEW name \in TagNames
  PROVE  Entry \in Seq(TagNames) /\ Append(Entry, name) = <<"TrackList", "Entry", name>>
<1> DEFINE names == <<"TrackList", "Entry", name>>
<1>1. "TrackList" \in TagNames /\ "Entry" \in TagNames
  BY DEF TagNames
<1>2. Entry \in Seq(TagNames) /\ Len(Entry) = 2 /\ Entry[1] = "TrackList" /\ Entry[2] = "Entry"
  BY <1>1 DEF Entry
<1>3. /\ names \in Seq(TagNames) /\ Len(names) = 3
      /\ names[1] = "TrackList" /\ names[2] = "Entry" /\ names[3] = name
  BY <1>1
<1> HIDE DEF names
<1>4. (\A i \in 1..Len(Entry) : names[i] = Entry[i]) /\ names[Len(Entry) + 1] = name
      /\ Len(names) = Len(Entry) + 1
  BY <1>2, <1>3
<1>5. Append(Entry, name) = names
  BY <1>2, <1>3, <1>4, AppendIs
<1> QED  BY <1>2, <1>5 DEF names

LEMMA ListThen ==
  /\ <<"TrackList">> \in Seq(TagNames) /\ Append(<<"TrackList">>, "Entry") = Entry
  /\ Append(<<>>, "TrackList") = <<"TrackList">>
<1> DEFINE list == <<"TrackList">>
<1>1. "TrackList" \in TagNames /\ "Entry" \in TagNames
  BY DEF TagNames
<1>2. Entry \in Seq(TagNames) /\ Len(Entry) = 2 /\ Entry[1] = "TrackList" /\ Entry[2] = "Entry"
  BY <1>1 DEF Entry
<1>3. list \in Seq(TagNames) /\ Len(list) = 1 /\ list[1] = "TrackList"
  BY <1>1
<1>4. <<>> \in Seq(TagNames) /\ Len(<<>>) = 0
  BY EmptySeq
<1> HIDE DEF list
<1>5. Append(list, "Entry") = Entry
  <2>1. /\ \A i \in 1..Len(list) : Entry[i] = list[i]
        /\ Len(Entry) = Len(list) + 1 /\ Entry[Len(list) + 1] = "Entry"
    BY <1>2, <1>3
  <2> QED  BY <1>1, <1>2, <1>3, <2>1, AppendIs
<1>6. Append(<<>>, "TrackList") = list
  <2>1. (\A i \in 1..Len(<<>>) : list[i] = <<>>[i]) /\ list[Len(<<>>) + 1] = "TrackList"
    BY <1>3, <1>4
  <2> QED  BY <1>1, <1>3, <1>4, <2>1, AppendIs
<1> QED  BY <1>3, <1>5, <1>6 DEF list

LEMMA LeafIsRead ==
  ASSUME NEW name \in LeafNames, NEW data \in Seq(Chunks)
  PROVE  /\ Leaf(name, data) \in Seq(SaxEvent)
         /\ \A p, q : Inside(p, Entry) /\ Reaches(p, Leaf(name, data), q) =>
              Inside(q, Entry) /\ LeafKept(name, data, Len(data), p.made, q.made)
<1> DEFINE names == <<"TrackList", "Entry", name>>
           seqs == [n \in DOMAIN data |-> Data(data[n])]
           n == Len(data)
<1>1. name \in TagNames /\ Entry \in Seq(TagNames) /\ Append(Entry, name) = names /\ Entry # <<>>
  <2>1. name \in TagNames
    BY DEF LeafNames, TagNames
  <2>2. Entry # <<>>
    BY DEF Entry
  <2> QED  BY <2>1, <2>2, EntryThen
<1>2. n \in Nat /\ DOMAIN data = 1..n /\ \A i \in 1..n : data[i] \in Chunks
  BY LenProperties, ElementOfSeq
<1>3. \A chunk \in Chunks : Text_(chunk) \in SaxEvent /\ Data(chunk) = <<Text_(chunk)>>
  BY DEF Text_, SaxEvent, Data
<1>4. ASSUME NEW chunk \in Chunks
      PROVE  Data(chunk) \in Seq(SaxEvent)
  <2>1. \A e \in SaxEvent : <<e>> \in Seq(SaxEvent)
    OBVIOUS
  <2> QED  BY <1>3, <2>1
<1>5. seqs \in Seq(Seq(SaxEvent)) /\ Len(seqs) = n /\ \A i \in 1..n : seqs[i] = <<Text_(data[i])>>
  <2> HIDE DEF n
  <2>1. seqs \in [1..n -> Seq(SaxEvent)]
    BY <1>2, <1>4
  <2>2. \A i \in 1..n : seqs[i] = <<Text_(data[i])>>
    BY <1>2, <1>3
  <2> HIDE DEF seqs
  <2>3. seqs \in Seq(Seq(SaxEvent)) /\ Len(seqs) = n
    BY <1>2, <2>1, IsASeq, LenProperties
  <2> QED  BY <2>2, <2>3
<1> DEFINE flat == FlattenSeq(seqs)
<1>6. flat \in Seq(SaxEvent)
  <2> HIDE DEF seqs
  <2> QED  BY <1>5, FlatIsSeq
<1>7. Leaf(name, data) = Element(name, NoAttributes, flat)
  BY DEF Leaf
<1> HIDE DEF n, seqs, flat
<1>8. /\ Leaf(name, data) \in Seq(SaxEvent)
      /\ \A p, q : Reaches(p, Leaf(name, data), q) =>
           \E p2 : Reaches(ParserStep(p, Tag(name)), flat, p2) /\ q = ParserStep(p2, EndOf)
  BY <1>1, <1>6, <1>7, ElementReaches
<1> SUFFICES ASSUME NEW p, NEW q, Inside(p, Entry), Reaches(p, Leaf(name, data), q)
             PROVE  Inside(q, Entry) /\ LeafKept(name, data, Len(data), p.made, q.made)
  BY <1>8
<1> DEFINE p1 == ParserStep(p, Tag(name))
<1>13. PICK p2 : Reaches(p1, flat, p2) /\ q = ParserStep(p2, EndOf)
  BY <1>8
<1>14. Inside(p1, names) /\ p1.made = p.made /\ p.made \in TracksMade
  <2>1. Inside(p1, Append(Entry, name)) /\ p1.made = p.made
    BY <1>1, OpensATag
  <2> QED  BY <1>1, <2>1 DEF Inside, ParserState
<1> HIDE DEF p1
<1>15. PICK stops : Stops(stops, p1, seqs, p2)
  BY <1>5, <1>13, FlatReaches DEF flat
<1>16. /\ stops \in [0..n -> ParserState] /\ stops[0] = p1 /\ stops[n] = p2
       /\ \A i \in 1..n : stops[i] = ParserStep(stops[i - 1], Text_(data[i]))
  <2>1. ASSUME NEW i \in 1..n
        PROVE  stops[i] = ParserStep(stops[i - 1], Text_(data[i]))
    <3>1. Reaches(stops[i - 1], <<Text_(data[i])>>, stops[i])
      BY <1>5, <1>15 DEF Stops
    <3>2. Text_(data[i]) \in SaxEvent
      BY <1>2, <1>3
    <3> QED  BY <3>1, <3>2, ReachesByOne
  <2> QED  BY <1>5, <1>15, <2>1 DEF Stops
<1> DEFINE Between(m) == Inside(stops[m], names) /\ LeafKept(name, data, m, p.made, stops[m].made)
           T == {m \in Nat : m <= n => Between(m)}
<1>17. 0 \in T
  <2>1. LeafKept(name, data, 0, p.made, p.made)
    BY DEF LeafKept
  <2>2. stops[0] = p1
    BY <1>16
  <2>3. Between(0)
    <3> HIDE DEF names
    <3> QED  BY <1>14, <2>1, <2>2
  <2> HIDE DEF Between
  <2> QED  BY <2>3
<1>18. ASSUME NEW m \in Nat, m \in T
       PROVE  m + 1 \in T
  <2> SUFFICES ASSUME m + 1 <= n
               PROVE  Between(m + 1)
    <3> HIDE DEF Between
    <3> QED  OBVIOUS
  <2>1. Between(m)
    <3> HIDE DEF Between
    <3> QED  BY <1>2, <1>18
  <2>2. /\ m + 1 \in 1..n /\ (m + 1) - 1 = m /\ data[m + 1] \in Chunks /\ m < Len(data)
        /\ m \in 0..n
    BY <1>2 DEF n
  <2>3. stops[m + 1] = ParserStep(stops[m], Text_(data[m + 1]))
    <3>1. stops[m + 1] = ParserStep(stops[(m + 1) - 1], Text_(data[m + 1]))
      BY <1>16, <2>2
    <3> QED  BY <2>2, <3>1
  <2>4. /\ Inside(stops[m + 1], names)
        /\ stops[m + 1].made = Put(stops[m].made, name, data[m + 1])
    BY <2>1, <2>2, <2>3, ReadsAChunk
  <2>5. stops[m].made \in TracksMade
    BY <2>1 DEF Inside, ParserState
  <2>6. LeafKept(name, data, m + 1, p.made, stops[m + 1].made)
    BY <1>14, <2>1, <2>2, <2>4, <2>5, PutKeeps
  <2> HIDE DEF names
  <2> QED  BY <2>4, <2>6
<1>19. Between(n)
  <2> HIDE DEF Between
  <2>1. Nat \subseteq T
    <3> HIDE DEF T
    <3> QED  BY <1>17, <1>18, Induct
  <2> QED  BY <1>2, <2>1
<1>20. Inside(p2, names) /\ LeafKept(name, data, n, p.made, p2.made)
  <2> HIDE DEF names
  <2> QED  BY <1>16, <1>19
<1>21. Inside(q, Entry) /\ q.made = p2.made
  <2>1. Inside(p2, Append(Entry, name))
    BY <1>1, <1>20
  <2>2. name # "Entry"
    BY DEF LeafNames
  <2> QED  BY <1>1, <1>13, <2>1, <2>2, ClosesATag
<1> QED  BY <1>20, <1>21 DEF n

\* A track, as the device writes it.
Track == [id : Int, uri : Seq(Chunks), meta : {<<"good">>, <<"none">>, <<"bad">>, <<>>}]
List == <<"TrackList">>
\* What a list that is read gets from a track.
Listed(t, a, b) ==
  LET didl == IF t.meta = <<>> THEN a.tdidl ELSE Append(a.tdidl, t.meta[1])
  IN  IF ItemsOf(didl) = 1
      THEN /\ b.tdidl = <<>>
           /\ \E x \in TrackRead : /\ b.list = Append(a.list, x) /\ x.id = t.id
                                   /\ Len(t.uri) = 1 => x.url = t.uri
      ELSE b.tdidl = didl /\ b.list = a.list

LEMMA TrackIsRead ==
  ASSUME NEW t \in Track
  PROVE  /\ WriteTrack(t) \in Seq(SaxEvent)
         /\ \A p, q : Inside(p, List) /\ Reaches(p, WriteTrack(t), q) =>
              Inside(q, List) /\ Listed(t, p.made, q.made)
<1>1. /\ t.id \in Chunks /\ t.uri \in Seq(Chunks) /\ t.meta \in Seq(Chunks)
      /\ t.meta \in {<<"good">>, <<"none">>, <<"bad">>, <<>>}
  <2>1. {<<"good">>, <<"none">>, <<"bad">>, <<>>} \subseteq Seq(Chunks)
    <3>1. "good" \in Chunks /\ "none" \in Chunks /\ "bad" \in Chunks
      BY DEF Chunks
    <3> QED  BY <3>1
  <2> QED  BY <2>1 DEF Track, Chunks
<1> DEFINE idOf == <<t.id>>
<1>2. idOf \in Seq(Chunks) /\ Len(idOf) = 1 /\ idOf[1] = t.id
  BY <1>1
<1> HIDE DEF idOf
<1> DEFINE first == Leaf("Id", idOf)
           second == Leaf("Uri", t.uri)
           third == Leaf("Metadata", t.meta)
           content == first \o second \o third
<1>3. first \in Seq(SaxEvent) /\ second \in Seq(SaxEvent) /\ third \in Seq(SaxEvent)
  BY <1>1, <1>2, LeafIsRead DEF LeafNames
<1>4. WriteTrack(t) = Element("Entry", NoAttributes, content)
  BY DEF WriteTrack, idOf
<1>5. ASSUME NEW p, NEW q, Inside(p, Entry)
      PROVE  /\ Reaches(p, first, q) => Inside(q, Entry) /\ LeafKept("Id", idOf, 1, p.made, q.made)
             /\ Reaches(p, second, q) =>
                  Inside(q, Entry) /\ LeafKept("Uri", t.uri, Len(t.uri), p.made, q.made)
             /\ Reaches(p, third, q) =>
                  Inside(q, Entry) /\ LeafKept("Metadata", t.meta, Len(t.meta), p.made, q.made)
  BY <1>1, <1>2, <1>5, LeafIsRead DEF LeafNames
<1> HIDE DEF first, second, third
<1>6. first \o second \in Seq(SaxEvent) /\ content \in Seq(SaxEvent)
  <2>1. first \o second \in Seq(SaxEvent)
    BY <1>3, ConcatProperties
  <2> QED  BY <2>1, <1>3, ConcatProperties
<1> HIDE DEF content
<1>7. "Entry" \in TagNames /\ List \in Seq(TagNames) /\ List # <<>> /\ Append(List, "Entry") = Entry
  <2>1. "Entry" \in TagNames
    BY DEF TagNames
  <2>2. List # <<>>
    BY DEF List
  <2> QED  BY <2>1, <2>2, ListThen DEF List
<1>8. WriteTrack(t) \in Seq(SaxEvent)
  BY <1>4, <1>6, <1>7, ElementReaches
<1>9. ASSUME NEW p, NEW q, Inside(p, List), Reaches(p, WriteTrack(t), q)
      PROVE  Inside(q, List) /\ Listed(t, p.made, q.made)
  <2> DEFINE p1 == ParserStep(p, Tag("Entry"))
  <2>1. PICK p4 : Reaches(p1, content, p4) /\ q = ParserStep(p4, EndOf)
    BY <1>4, <1>6, <1>7, <1>9, ElementReaches
  <2>2. Inside(p1, Entry) /\ p1.made = p.made
    BY <1>7, <1>9, OpensATag
  <2> HIDE DEF p1
  <2>3. PICK p3 : Reaches(p1, first \o second, p3) /\ Reaches(p3, third, p4)
    BY <1>3, <1>6, <2>1, ReachesBetween DEF content
  <2>4. PICK p2 : Reaches(p1, first, p2) /\ Reaches(p2, second, p3)
    BY <1>3, <2>3, ReachesBetween
  <2>5. Inside(p2, Entry) /\ LeafKept("Id", idOf, 1, p1.made, p2.made)
    BY <1>5, <2>2, <2>4
  <2>6. Inside(p3, Entry) /\ LeafKept("Uri", t.uri, Len(t.uri), p2.made, p3.made)
    BY <1>5, <2>4, <2>5
  <2>7. Inside(p4, Entry) /\ LeafKept("Metadata", t.meta, Len(t.meta), p3.made, p4.made)
    BY <1>5, <2>3, <2>6
  <2> DEFINE a == p.made
             d == p4.made
  <2>8. a \in TracksMade /\ p1.made \in TracksMade /\ p2.made \in TracksMade /\ p3.made \in TracksMade
        /\ d \in TracksMade
    BY <1>9, <2>2, <2>5, <2>6, <2>7 DEF Inside, ParserState
  <2>9. /\ Inside(q, List)
        /\ q.made = IF ItemsOf(d.tdidl) = 1
                    THEN [list |-> Append(d.list, d.tt), tt |-> NoTrack, tdidl |-> <<>>]
                    ELSE d
    <3>1. Inside(p4, Append(List, "Entry"))
      BY <1>7, <2>7
    <3> QED  BY <3>1, <1>7, <2>1, ClosesATag
  <2>10. d.list = a.list
    BY <2>2, <2>5, <2>6, <2>7 DEF LeafKept
  <2>11. p2.made.tt.id = t.id /\ p2.made.tdidl = a.tdidl
    <3>1. p2.made = [p1.made EXCEPT !.tt.id = t.id]
      BY <1>2, <2>5 DEF LeafKept, Put
    <3> QED  BY <3>1, <2>2, <2>8 DEF TracksMade, TrackRead
  <2>12. p3.made.tt.id = t.id /\ p3.made.tdidl = a.tdidl
    BY <2>6, <2>11 DEF LeafKept
  <2>13. Len(t.uri) = 1 => p3.made.tt.url = t.uri
    <3> SUFFICES ASSUME Len(t.uri) = 1
                 PROVE  p3.made.tt.url = t.uri
      OBVIOUS
    <3>1. p3.made = [p2.made EXCEPT !.tt.url = <<t.uri[1]>>]
      BY <2>6 DEF LeafKept, Put
    <3>2. p3.made.tt.url = <<t.uri[1]>>
      <4> DEFINE m == p2.made
                 url == <<t.uri[1]>>
                 after == p3.made
      <4>1. m \in TracksMade /\ after = [m EXCEPT !.tt.url = url]
        BY <3>1, <2>8
      <4> HIDE DEF m, url, after
      <4>2. after.tt.url = url
        <5>1. [m EXCEPT !.tt.url = url].tt.url = url
          BY <4>1, PutInTrack
        <5> QED  BY <4>1, <5>1
      <4> QED  BY <4>2 DEF after, url
    <3>3. t.uri = <<t.uri[1]>>
      <4>1. t.uri[1] \in Chunks
        BY <1>1, ElementOfSeq
      <4> DEFINE one == <<t.uri[1]>>
      <4>2. one \in Seq(Chunks) /\ Len(one) = 1 /\ one[1] = t.uri[1]
        BY <4>1
      <4> HIDE DEF one
      <4>3. t.uri = one
        BY <1>1, <4>2, SeqEqual
      <4> QED  BY <4>3 DEF one
    <3> QED  BY <3>2, <3>3
  <2>14. d.tt = p3.made.tt
    BY <2>7 DEF LeafKept
  <2>15. d.tdidl = IF t.meta = <<>> THEN a.tdidl ELSE Append(a.tdidl, t.meta[1])
    <3>1. CASE t.meta = <<>>
      <4>1. Len(t.meta) = 0
        BY <3>1
      <4> QED  BY <4>1, <3>1, <2>7, <2>12 DEF LeafKept
    <3>2. CASE t.meta # <<>>
      <4>1. Len(t.meta) = 1
        BY <1>1, <3>2
      <4>2. d = [p3.made EXCEPT !.tdidl = Append(@, t.meta[1])]
        BY <4>1, <2>7 DEF LeafKept, Put
      <4>3. d.tdidl = Append(p3.made.tdidl, t.meta[1])
        BY <4>2, <2>8 DEF TracksMade
      <4> QED  BY <4>3, <3>2, <2>12
    <3> QED  BY <3>1, <3>2
  <2>16. d.tt \in TrackRead
    BY <2>8 DEF TracksMade
  <2> HIDE DEF a, d
  <2>17. Listed(t, a, q.made)
    <3> DEFINE didl == IF t.meta = <<>> THEN a.tdidl ELSE Append(a.tdidl, t.meta[1])
    <3>1. didl = d.tdidl
      BY <2>15
    <3> HIDE DEF didl
    <3>2. CASE ItemsOf(didl) = 1
      <4>1. q.made = [list |-> Append(d.list, d.tt), tt |-> NoTrack, tdidl |-> <<>>]
        BY <3>1, <3>2, <2>9
      <4>2. q.made.tdidl = <<>> /\ q.made.list = Append(a.list, d.tt)
        BY <4>1, <2>10
      <4>3. d.tt.id = t.id /\ (Len(t.uri) = 1 => d.tt.url = t.uri)
        BY <2>12, <2>13, <2>14
      <4> QED  BY <4>2, <4>3, <3>2, <2>16 DEF Listed, didl
    <3>3. CASE ItemsOf(didl) # 1
      <4>1. q.made = d
        BY <3>1, <3>3, <2>9
      <4> QED  BY <4>1, <3>1, <3>3, <2>10 DEF Listed, didl
    <3> QED  BY <3>2, <3>3
  <2> QED  BY <2>9, <2>17 DEF a
<1> QED  BY <1>8, <1>9

\* What is read of the first k tracks.
Spoilt(tracks, k) == \E m \in 1..k : Spoils(tracks[m])
IsListed(tracks, m, list) ==
  LET n == Cardinality(Unspoilt(tracks) \cap 1..m)
  IN  /\ list[n].id = tracks[m].id
      /\ Len(tracks[m].uri) = 1 => list[n].url = tracks[m].uri
AfterTracks(tracks, k, built) ==
  /\ Len(built.list) = Cardinality(Unspoilt(tracks) \cap 1..k)
  /\ \A m \in Unspoilt(tracks) \cap 1..k : IsListed(tracks, m, built.list)
  /\ ~Spoilt(tracks, k) => built.tdidl = <<>>
  /\ Spoilt(tracks, k) => Len(built.tdidl) > 0 /\ built.tdidl[1] # "good"

\* Metadata that is kept is added to: only what starts with "good" may be good.
LEMMA MetadataIs ==
  ASSUME NEW t \in Track, NEW tdidl \in Seq(Chunks)
  PROVE  LET didl == IF t.meta = <<>> THEN tdidl ELSE Append(tdidl, t.meta[1]) IN
         /\ Len(tdidl) > 0 /\ tdidl[1] # "good" =>
              ItemsOf(didl) # 1 /\ Len(didl) > 0 /\ didl[1] # "good"
         /\ tdidl = <<>> => /\ ItemsOf(didl) = 1 <=> ItemsOf(t.meta) = 1
                            /\ ~Spoils(t) /\ ItemsOf(didl) # 1 => didl = <<>>
                            /\ Spoils(t) => /\ Len(didl) > 0 /\ didl[1] # "good"
                                            /\ ItemsOf(didl) # 1
<1> DEFINE didl == IF t.meta = <<>> THEN tdidl ELSE Append(tdidl, t.meta[1])
<1>1. t.meta \in {<<"good">>, <<"none">>, <<"bad">>, <<>>}
  BY DEF Track
<1>2. t.meta # <<>> => t.meta[1] \in Chunks
  BY <1>1 DEF Chunks
<1>3. \A s : ItemsOf(s) = 1 <=> s = <<"good">>
  BY DEF ItemsOf
<1>4. t.meta # <<>> => /\ Len(didl) = Len(tdidl) + 1 /\ Len(tdidl) \in Nat
                       /\ \A i \in 1..Len(tdidl) : didl[i] = tdidl[i]
                       /\ didl[Len(tdidl) + 1] = t.meta[1]
  BY <1>2, AppendProperties, LenProperties
<1>5. <<"good">>[1] = "good"
  OBVIOUS
<1>6. Len(tdidl) \in Nat /\ (t.meta = <<>> => didl = tdidl)
  BY LenProperties
<1> HIDE DEF didl
<1>7. ASSUME Len(tdidl) > 0, tdidl[1] # "good"
      PROVE  ItemsOf(didl) # 1 /\ Len(didl) > 0 /\ didl[1] # "good"
  <2>1. 1 \in 1..Len(tdidl)
    BY <1>6, <1>7
  <2>2. Len(didl) > 0 /\ didl[1] = tdidl[1]
    BY <1>4, <1>6, <1>7, <2>1
  <2> QED  BY <1>3, <1>5, <1>7, <2>2
<1>8. ASSUME tdidl = <<>>
      PROVE  /\ ItemsOf(didl) = 1 <=> ItemsOf(t.meta) = 1
             /\ ~Spoils(t) /\ ItemsOf(didl) # 1 => didl = <<>>
             /\ Spoils(t) => Len(didl) > 0 /\ didl[1] # "good" /\ ItemsOf(didl) # 1
  <2>1. CASE t.meta = <<>>
    BY <1>6, <1>8, <2>1 DEF Spoils
  <2>2. CASE t.meta # <<>>
    <3>1. Len(tdidl) = 0
      BY <1>8
    <3>2. Len(didl) = 1 /\ didl[1] = t.meta[1]
      BY <1>4, <2>2, <3>1
    <3>3. CASE t.meta = <<"good">>
      <4>1. didl = <<"good">>
        BY <3>3, <1>8 DEF didl
      <4>2. ItemsOf(t.meta) = 1
        BY <3>3, <1>3
      <4>3. ItemsOf(didl) = 1
        BY <4>1, <1>3
      <4> QED  BY <4>2, <4>3 DEF Spoils
    <3>4. CASE t.meta # <<"good">>
      <4>1. t.meta[1] # "good"
        BY <1>1, <2>2, <3>4
      <4>2. didl # <<"good">> /\ Len(didl) > 0
        BY <1>5, <3>2, <4>1
      <4> QED  BY <1>3, <2>2, <3>2, <3>4, <4>1, <4>2 DEF Spoils
    <3> QED  BY <3>3, <3>4
  <2> QED  BY <2>1, <2>2
<1> QED  BY <1>7, <1>8 DEF didl

LEMMA TrackAfterTracks ==
  ASSUME NEW tracks \in Seq(Track), NEW k \in Nat, k + 1 \in 1..Len(tracks),
         NEW a \in TracksMade, NEW b \in TracksMade, AfterTracks(tracks, k, a),
         Listed(tracks[k + 1], a, b)
  PROVE  AfterTracks(tracks, k + 1, b)
<1> DEFINE G == Unspoilt(tracks)
           t == tracks[k + 1]
           didl == IF t.meta = <<>> THEN a.tdidl ELSE Append(a.tdidl, t.meta[1])
           upTo(m) == G \cap 1..m
<1>1. t \in Track /\ DOMAIN tracks = 1..Len(tracks) /\ Len(tracks) \in Nat
  BY ElementOfSeq, LenProperties
<1>2. a.tdidl \in Seq(Chunks) /\ a.list \in Seq(TrackRead)
  BY DEF TracksMade
<1>3. /\ Len(a.tdidl) > 0 /\ a.tdidl[1] # "good" =>
           ItemsOf(didl) # 1 /\ Len(didl) > 0 /\ didl[1] # "good"
      /\ a.tdidl = <<>> => /\ ItemsOf(didl) = 1 <=> ItemsOf(t.meta) = 1
                           /\ ~Spoils(t) /\ ItemsOf(didl) # 1 => didl = <<>>
                           /\ Spoils(t) => /\ Len(didl) > 0 /\ didl[1] # "good"
                                           /\ ItemsOf(didl) # 1
  <2> HIDE DEF t
  <2> QED  BY <1>1, <1>2, MetadataIs
<1>4. IF ItemsOf(didl) = 1
      THEN /\ b.tdidl = <<>>
           /\ \E x \in TrackRead : /\ b.list = Append(a.list, x) /\ x.id = t.id
                                   /\ Len(t.uri) = 1 => x.url = t.uri
      ELSE b.tdidl = didl /\ b.list = a.list
  BY DEF Listed
<1>5. Spoilt(tracks, k + 1) <=> Spoilt(tracks, k) \/ Spoils(t)
  <2>1. 1..(k + 1) = 1..k \cup {k + 1}
    OBVIOUS
  <2> QED  BY <2>1 DEF Spoilt
<1>6. k + 1 \in G <=> ItemsOf(t.meta) = 1 /\ ~Spoilt(tracks, k + 1)
  BY <1>1 DEF Unspoilt, Spoilt
<1>7. \A m \in Nat : IsFiniteSet(upTo(m)) /\ Cardinality(upTo(m)) \in Nat
  <2>1. ASSUME NEW m \in Nat
        PROVE  IsFiniteSet(upTo(m)) /\ Cardinality(upTo(m)) \in Nat
    <3>1. IsFiniteSet(1..m)
      BY FS_Interval
    <3>2. IsFiniteSet(upTo(m))
      BY <3>1, FS_Subset
    <3> QED  BY <3>2, FS_CardinalityType
  <2> QED  BY <2>1
<1> HIDE DEF G, t, didl
<1>8. CASE k + 1 \in G
  <2>1. a.tdidl = <<>> /\ ItemsOf(didl) = 1 /\ ~Spoilt(tracks, k + 1)
    BY <1>3, <1>5, <1>6, <1>8 DEF AfterTracks
  <2>2. PICK x \in TrackRead : /\ b.list = Append(a.list, x) /\ x.id = t.id
                               /\ Len(t.uri) = 1 => x.url = t.uri
    BY <1>4, <2>1
  <2>3. upTo(k + 1) = upTo(k) \cup {k + 1} /\ k + 1 \notin upTo(k)
    BY <1>8
  <2>4. Cardinality(upTo(k + 1)) = Cardinality(upTo(k)) + 1
    <3> HIDE DEF upTo
    <3> QED  BY <1>7, <2>3, FS_AddElement
  <2>5. Len(a.list) = Cardinality(upTo(k))
    BY DEF AfterTracks, G
  <2>6. /\ Len(b.list) = Len(a.list) + 1 /\ Len(a.list) \in Nat
        /\ \A i \in 1..Len(a.list) : b.list[i] = a.list[i]
        /\ b.list[Len(a.list) + 1] = x
    BY <1>2, <2>2, AppendProperties, LenProperties
  <2>7. ASSUME NEW m \in upTo(k + 1)
        PROVE  IsListed(tracks, m, b.list)
    <3>1. CASE m = k + 1
      <4>1. b.list[Cardinality(upTo(m))] = x
        BY <2>4, <2>5, <2>6, <3>1
      <4> HIDE DEF upTo
      <4> QED  BY <2>2, <3>1, <4>1 DEF IsListed, t, upTo, G
    <3>2. CASE m # k + 1
      <4>1. m \in upTo(k) /\ m \in 1..k
        BY <2>3, <3>2
      <4>2. IsListed(tracks, m, a.list)
        BY <4>1 DEF AfterTracks, G
      <4> DEFINE n == Cardinality(upTo(m))
      <4>3. n \in 1..Len(a.list)
        <5>1. upTo(m) \subseteq upTo(k) /\ m \in upTo(m) /\ m \in Nat
          BY <4>1
        <5> HIDE DEF upTo
        <5>2. n <= Cardinality(upTo(k)) /\ n \in Nat
          BY <1>7, <5>1, FS_Subset
        <5>3. n # 0
          <6>1. upTo(m) # {}
            BY <5>1
          <6> QED  BY <1>7, <5>1, <6>1, FS_EmptySet
        <5> QED  BY <2>5, <5>2, <5>3
      <4>4. b.list[n] = a.list[n]
        BY <2>6, <4>3
      <4> QED  BY <4>2, <4>4 DEF IsListed, G
    <3> QED  BY <3>1, <3>2
  <2>8. Len(b.list) = Cardinality(upTo(k + 1))
    BY <2>4, <2>5, <2>6
  <2>9. b.tdidl = <<>>
    BY <1>4, <2>1
  <2> QED  BY <2>1, <2>7, <2>8, <2>9 DEF AfterTracks, G
<1>9. CASE k + 1 \notin G
  <2>1. upTo(k + 1) = upTo(k)
    BY <1>9
  <2>2. /\ ItemsOf(didl) # 1
        /\ ~Spoilt(tracks, k + 1) => didl = <<>>
        /\ Spoilt(tracks, k + 1) => Len(didl) > 0 /\ didl[1] # "good"
    <3>1. CASE Spoilt(tracks, k)
      BY <1>3, <1>5, <3>1 DEF AfterTracks
    <3>2. CASE ~Spoilt(tracks, k)
      <4>1. a.tdidl = <<>>
        BY <3>2 DEF AfterTracks
      <4>2. CASE Spoils(t)
        BY <1>3, <1>5, <4>1, <4>2
      <4>3. CASE ~Spoils(t)
        <5>1. ~Spoilt(tracks, k + 1) /\ ItemsOf(t.meta) # 1
          BY <1>5, <1>6, <1>9, <3>2, <4>3
        <5> QED  BY <5>1, <1>3, <4>1, <4>3
      <4> QED  BY <4>2, <4>3
    <3> QED  BY <3>1, <3>2
  <2>3. b.tdidl = didl /\ b.list = a.list
    BY <1>4, <2>2
  <2>4. Len(a.list) = Cardinality(upTo(k)) /\ \A m \in upTo(k) : IsListed(tracks, m, a.list)
    BY DEF AfterTracks, G
  <2> HIDE DEF upTo
  <2>5. /\ Len(b.list) = Cardinality(upTo(k + 1))
        /\ \A m \in upTo(k + 1) : IsListed(tracks, m, b.list)
    BY <2>1, <2>3, <2>4
  <2> QED  BY <2>2, <2>3, <2>5 DEF AfterTracks, G, upTo
<1> QED  BY <1>8, <1>9

\* The tracks are read one after the other.
LEMMA TracksAreRead ==
  ASSUME NEW tracks \in Seq(Track)
  PROVE  /\ Written(WriteTrack, tracks) \in Seq(SaxEvent)
         /\ \A p, q : Inside(p, List) /\ p.made = TracksStart.made
                        /\ Reaches(p, Written(WriteTrack, tracks), q) =>
              Inside(q, List) /\ AfterTracks(tracks, Len(tracks), q.made)
<1> DEFINE n == Len(tracks)
           seqs == [m \in DOMAIN tracks |-> WriteTrack(tracks[m])]
           flat == FlattenSeq(seqs)
<1>1. n \in Nat /\ DOMAIN tracks = 1..n /\ \A m \in 1..n : tracks[m] \in Track
  BY LenProperties, ElementOfSeq
<1> HIDE DEF n
<1>2. seqs \in Seq(Seq(SaxEvent)) /\ Len(seqs) = n /\ \A m \in 1..n : seqs[m] = WriteTrack(tracks[m])
  <2>1. ASSUME NEW m \in 1..n
        PROVE  WriteTrack(tracks[m]) \in Seq(SaxEvent)
    <3>1. tracks[m] \in Track
      BY <1>1
    <3> QED  BY <3>1, TrackIsRead
  <2>2. seqs \in [1..n -> Seq(SaxEvent)]
    BY <1>1, <2>1
  <2>3. \A m \in 1..n : seqs[m] = WriteTrack(tracks[m])
    BY <1>1
  <2> HIDE DEF seqs
  <2>4. seqs \in Seq(Seq(SaxEvent)) /\ Len(seqs) = n
    BY <1>1, <2>2, IsASeq, LenProperties
  <2> QED  BY <2>3, <2>4
<1>3. Written(WriteTrack, tracks) = flat
  BY DEF Written
<1> HIDE DEF seqs
<1>4. flat \in Seq(SaxEvent)
  BY <1>2, FlatIsSeq
<1>5. ASSUME NEW p, NEW q, Inside(p, List), p.made = TracksStart.made, Reaches(p, flat, q)
      PROVE  Inside(q, List) /\ AfterTracks(tracks, n, q.made)
  <2>1. PICK stops : Stops(stops, p, seqs, q)
    BY <1>2, <1>5, FlatReaches
  <2>2. /\ stops \in [0..n -> ParserState] /\ stops[0] = p /\ stops[n] = q
        /\ \A m \in 1..n : Reaches(stops[m - 1], WriteTrack(tracks[m]), stops[m])
    BY <1>2, <2>1 DEF Stops
  <2> DEFINE Here(m) == Inside(stops[m], List) /\ AfterTracks(tracks, m, stops[m].made)
             T == {m \in Nat : m <= n => Here(m)}
  <2>3. 0 \in T
    <3>1. p.made.list = <<>> /\ p.made.tdidl = <<>>
      BY <1>5 DEF TracksStart, ParserStart
    <3>2. 1..0 = {} /\ Unspoilt(tracks) \cap 1..0 = {} /\ ~Spoilt(tracks, 0)
      BY DEF Spoilt
    <3>3. Len(p.made.list) = Cardinality(Unspoilt(tracks) \cap 1..0)
      <4>1. Cardinality(Unspoilt(tracks) \cap 1..0) = 0
        BY <3>2, FS_EmptySet
      <4> QED  BY <3>1, <4>1
    <3>4. AfterTracks(tracks, 0, p.made)
      BY <3>1, <3>2, <3>3 DEF AfterTracks
    <3>5. Here(0)
      BY <1>5, <2>2, <3>4
    <3> HIDE DEF Here
    <3> QED  BY <3>5
  <2>4. ASSUME NEW m \in Nat, m \in T
        PROVE  m + 1 \in T
    <3> SUFFICES ASSUME m + 1 <= n
                 PROVE  Here(m + 1)
      <4> HIDE DEF Here
      <4> QED  OBVIOUS
    <3>1. Here(m)
      <4> HIDE DEF Here
      <4> QED  BY <1>1, <2>4
    <3>2. m + 1 \in 1..n /\ (m + 1) - 1 = m /\ tracks[m + 1] \in Track
      BY <1>1
    <3>3. Reaches(stops[m], WriteTrack(tracks[m + 1]), stops[m + 1])
      <4>1. Reaches(stops[(m + 1) - 1], WriteTrack(tracks[m + 1]), stops[m + 1])
        BY <2>2, <3>2
      <4> QED  BY <3>2, <4>1
    <3>4. Inside(stops[m + 1], List) /\ Listed(tracks[m + 1], stops[m].made, stops[m + 1].made)
      BY <3>1, <3>2, <3>3, TrackIsRead
    <3>5. stops[m].made \in TracksMade /\ stops[m + 1].made \in TracksMade
      BY <3>1, <3>4 DEF Inside, ParserState
    <3>6. AfterTracks(tracks, m + 1, stops[m + 1].made)
      BY <3>1, <3>2, <3>4, <3>5, TrackAfterTracks DEF n
    <3> QED  BY <3>4, <3>6
  <2>5. Here(n)
    <3> HIDE DEF Here
    <3>1. Nat \subseteq T
      <4> HIDE DEF T
      <4> QED  BY <2>3, <2>4, Induct
    <3> QED  BY <1>1, <3>1
  <2> QED  BY <2>2, <2>5
<1> QED  BY <1>3, <1>4, <1>5 DEF n

LEMMA ParsedHas ==
  ASSUME NEW p
  PROVE  (Parsed(p).ok <=> p.ok /\ p.done) /\ Parsed(p).made = p.made
<1> DEFINE ok == p.ok /\ p.done
<1>1. ok <=> p.ok /\ p.done
  OBVIOUS
<1> HIDE DEF ok
<1>2. Parsed(p) = [ok |-> ok, made |-> p.made]
  BY DEF Parsed, ok
<1> QED  BY <1>1, <1>2

\* The whole list is read; what is cut short is an error.
LEMMA ListIsRead ==
  ASSUME NEW tracks \in Seq(Track)
  PROVE  LET p == ParseTrackList(TrackList(tracks)) IN
         /\ p.ok /\ AfterTracks(tracks, Len(tracks), p.made)
         /\ ~ParseTrackList(Front(TrackList(tracks))).ok
<1> DEFINE start == <<Tag("TrackList")>>
           content == Written(WriteTrack, tracks)
           end == <<EndOf>>
           all == TrackList(tracks)
           p0 == TracksStart
           p1 == ParserStep(p0, Tag("TrackList"))
<1>1. /\ "TrackList" \in TagNames /\ <<>> \in Seq(TagNames) /\ Append(<<>>, "TrackList") = List
      /\ "TrackList" # "Entry"
  BY ListThen DEF TagNames, List
<1>2. Tag("TrackList") \in SaxEvent /\ EndOf \in SaxEvent
  BY <1>1 DEF Tag, EndOf, SaxEvent
<1>3. start \in Seq(SaxEvent) /\ end \in Seq(SaxEvent) /\ Len(end) = 1
  BY <1>2
<1>4. /\ content \in Seq(SaxEvent)
      /\ \A p, q : Inside(p, List) /\ p.made = TracksStart.made /\ Reaches(p, content, q) =>
           Inside(q, List) /\ AfterTracks(tracks, Len(tracks), q.made)
  BY TracksAreRead
<1>5. all = Element("TrackList", NoAttributes, content) /\ all = (start \o content) \o end
  BY DEF TrackList, Element, StartTag, EndTag, Tag, EndOf
<1>6. Inside(p0, <<>>)
  <2>1. p0.path = <<>> /\ p0.ok /\ ~p0.done
    BY DEF TracksStart, ParserStart
  <2>2. Len(<<>>) = 0
    OBVIOUS
  <2> QED  BY <2>1, <2>2, StartIs DEF Inside
<1> HIDE DEF start, content, end, all, p0
<1>7. Inside(p1, List) /\ p1.made = TracksStart.made
  BY <1>1, <1>6, OpensATag DEF p0
<1> HIDE DEF p1
<1>8. all \in Seq(SaxEvent)
  BY <1>1, <1>4, <1>5, ElementReaches
<1>9. start \o content \in Seq(SaxEvent)
  BY <1>3, <1>4, ConcatProperties
<1>10. Front(all) = start \o content
  <2> DEFINE s == start \o content
             n == Len(s)
  <2>1. s \in Seq(SaxEvent) /\ n \in Nat
    BY <1>9, LenProperties
  <2> HIDE DEF s, n
  <2>2. Len(s \o end) = n + 1 /\ \A i \in 1..n : (s \o end)[i] = s[i]
    <3>1. /\ Len(s \o end) = Len(s) + Len(end)
          /\ \A i \in 1..(Len(s) + Len(end)) :
               (s \o end)[i] = IF i <= Len(s) THEN s[i] ELSE end[i - Len(s)]
      BY <1>3, <2>1, ConcatProperties
    <3>2. Len(s) = n
      BY DEF n
    <3> QED  BY <3>1, <3>2, <1>3, <2>1
  <2>3. Front(all) \in Seq(SaxEvent) /\ Len(all) = n + 1 /\ \A i \in 1..n : all[i] = s[i]
    BY <1>5, <1>8, <2>2, FrontIs DEF s
  <2>4. Len(Front(all)) = n /\ \A i \in 1..n : Front(all)[i] = all[i]
    <3>1. Len(all) > 0 /\ Len(all) - 1 = n
      BY <2>1, <2>3
    <3> QED  BY <3>1, <1>8, FrontIs, Zenon
  <2> QED  BY <2>1, <2>3, <2>4, SeqEqual DEF s, n
<1>11. ParseTrackList(all).ok /\ AfterTracks(tracks, Len(tracks), ParseTrackList(all).made)
  <2>1. PICK q : Reaches(p0, all, q) /\ ParseTrackList(all) = Parsed(q)
    BY <1>8, ParsedIs DEF p0
  <2>2. PICK p2 : Reaches(p1, content, p2) /\ q = ParserStep(p2, EndOf)
    BY <1>1, <1>4, <1>5, <2>1, ElementReaches DEF p1
  <2>3. Inside(p2, List) /\ AfterTracks(tracks, Len(tracks), p2.made)
    BY <1>4, <1>7, <2>2
  <2>4. q.ok /\ q.done /\ q.made = p2.made
    <3>1. Inside(p2, Append(<<>>, "TrackList"))
      BY <1>1, <2>3
    <3> QED  BY <3>1, <1>1, <2>2, ClosesATag
  <2> QED  BY <2>1, <2>3, <2>4, ParsedHas
<1>12. ~ParseTrackList(Front(all)).ok
  <2>1. PICK q : Reaches(p0, start \o content, q) /\ ParseTrackList(Front(all)) = Parsed(q)
    BY <1>9, <1>10, ParsedIs DEF p0
  <2>2. PICK p : Reaches(p0, start, p) /\ Reaches(p, content, q)
    BY <1>3, <1>4, <2>1, ReachesBetween
  <2>3. p = p1
    BY <1>2, <2>2, ReachesByOne DEF p1, start
  <2>4. ~q.done
    BY <1>4, <1>7, <2>2, <2>3 DEF Inside
  <2> QED  BY <2>1, <2>4, ParsedHas
<1> QED  BY <1>11, <1>12 DEF all

\* What the device answers are tracks of its own.
LEMMA TrackAtIs ==
  ASSUME NEW S, NEW list \in Seq(S), NEW id, IsAt(list, id)
  PROVE  PlaceOf(list, id) \in 1..Len(list) /\ list[PlaceOf(list, id)].id = id
<1>1. DOMAIN list = 1..Len(list)
  BY LenProperties
<1>2. \E n \in DOMAIN list : list[n].id = id
  BY DEF IsAt, IdsAt, Range
<1> QED  BY <1>1, <1>2 DEF PlaceOf

LEMMA TracksOfIs ==
  ASSUME NEW list \in Seq(Track), NEW wanted, NEW n \in Nat, DOMAIN wanted = 1..n
  PROVE  TracksOf(list, wanted) \in Seq(Track)
<1> DEFINE Op(found, id) == IF IsAt(list, id) THEN Append(found, TrackAt(list, id)) ELSE found
           S == Seq(Track)
<1>1. <<>> \in S
  OBVIOUS
<1>2. ASSUME NEW i \in 1..n, NEW found \in S
      PROVE  Op(found, wanted[i]) \in S
  <2>1. CASE IsAt(list, wanted[i])
    <3>1. TrackAt(list, wanted[i]) \in Track
      BY <2>1, TrackAtIs, ElementOfSeq DEF TrackAt
    <3> QED  BY <2>1, <3>1, AppendProperties
  <2>2. CASE ~IsAt(list, wanted[i])
    BY <2>2
  <2> QED  BY <2>1, <2>2
<1> HIDE DEF S
<1>3. \E f : f = [piece \in SUBSET (1..n) |->
                    IF piece = {} THEN <<>> ELSE Op(f[piece \ {Max(piece)}], wanted[Max(piece)])]
  <2> DEFINE step == [x \in S \X (1..n) |-> Op(x[1], wanted[x[2]])]
  <2>1. step \in [S \X (1..n) -> S]
    BY <1>2
  <2>2. PICK f : IsFold(f, step, <<>>, S, n)
    <3> HIDE DEF step
    <3> QED  BY <1>1, <2>1, FoldExists DEF IsStep
  <2>3. ASSUME NEW piece \in SUBSET (1..n), piece # {}
        PROVE  step[<<f[piece \ {Max(piece)}], Max(piece)>>]
                 = Op(f[piece \ {Max(piece)}], wanted[Max(piece)])
    <3>1. Max(piece) \in 1..n /\ piece \ {Max(piece)} \in SUBSET (1..n)
      BY <2>3, GreatestIs
    <3> HIDE DEF Op
    <3> QED  BY <3>1, <2>2 DEF IsFold
  <2> HIDE DEF step, Op
  <2>4. f = [piece \in SUBSET (1..n) |->
               IF piece = {} THEN <<>> ELSE Op(f[piece \ {Max(piece)}], wanted[Max(piece)])]
    BY <2>2, <2>3 DEF IsFold
  <2> QED  BY <2>4
<1> DEFINE f == CHOOSE f : f = [piece \in SUBSET (DOMAIN wanted) |->
                    IF piece = {} THEN <<>> ELSE Op(f[piece \ {Max(piece)}], wanted[Max(piece)])]
<1>4. TracksOf(list, wanted) = f[DOMAIN wanted]
  BY DEF TracksOf, FoldLeft, MapThenFoldSet
<1>5. f = [piece \in SUBSET (1..n) |->
             IF piece = {} THEN <<>> ELSE Op(f[piece \ {Max(piece)}], wanted[Max(piece)])]
  <2> HIDE DEF Op
  <2> QED  BY <1>3
<1> HIDE DEF f
<1>6. f[1..0] \in S
  BY <1>1, <1>5
<1>7. ASSUME NEW i \in 1..n, f[1..(i - 1)] \in S
      PROVE  f[1..i] \in S
  <2> HIDE DEF Op
  <2>1. 1..i \in SUBSET (1..n) /\ 1..i # {}
    BY UpTo
  <2>2. Max(1..i) = i /\ (1..i) \ {i} = 1..(i - 1)
    BY LastOfUpTo
  <2>3. f[1..i] = Op(f[1..(i - 1)], wanted[i])
    BY <1>5, <2>1, <2>2
  <2> QED  BY <1>2, <1>7, <2>3
<1>8. f[1..n] \in S
  BY <1>6, <1>7, FoldKeeps
<1> QED  BY <1>4, <1>8 DEF S

-----------------------------------------------------------------------------
(* Playlist: the tracks, and the ids that the program holds.                *)

HeldTrack(final) == [id : 1..final, uri : Uris, meta : Metas]
OneOfAKind(list) == \A i, j \in 1..Len(list) : list[i].id = list[j].id => i = j
ListedRight(out) ==
  out.call = "list" /\ out.ok =>
    LET good == Unspoilt(out.of)
    IN  /\ Len(out.list) = Cardinality(good)
        /\ \A m \in good : IsListed(out.of, m, out.list)
PlaylistInv ==
  /\ token \in 0..MaxPlaylistChanges /\ held \in -1..token /\ lastId \in 0..MaxTracks
  /\ playlist \in Seq(HeldTrack(lastId)) /\ OneOfAKind(playlist)
  /\ ids \in Seq(1..lastId)
  /\ held = token => IdsEndAs(playlist)
  /\ ListedRight(outcome)

LEMMA HeldIsTrack == ASSUME NEW final \in Nat PROVE HeldTrack(final) \subseteq Track
<1>1. Uris \subseteq Seq(Chunks)
  <2>1. {"u", "&", "v"} \subseteq Chunks
    BY DEF Chunks
  <2> QED  BY <2>1, SeqMonotonic DEF Uris
<1>2. ASSUME NEW t \in HeldTrack(final)
      PROVE  t \in Track
  <2>1. t.id \in Int /\ t.uri \in Seq(Chunks)
    <3>1. t.id \in 1..final /\ t.uri \in Uris
      BY DEF HeldTrack
    <3>2. t.uri \in Seq(Chunks)
      BY <1>1, <3>1, Zenon
    <3>3. t.id \in Int
      BY <3>1
    <3> QED  BY <3>2, <3>3
  <2> QED  BY <2>1 DEF HeldTrack, Track, Metas
<1> QED  BY <1>2

LEMMA HeldGrows == ASSUME NEW final \in Nat PROVE HeldTrack(final) \subseteq HeldTrack(final + 1)
<1>1. 1..final \subseteq 1..(final + 1)
  OBVIOUS
<1> QED  BY <1>1 DEF HeldTrack

LEMMA IdsAre ==
  ASSUME NEW final \in Nat, NEW list \in Seq(HeldTrack(final))
  PROVE  /\ IdsAt(list) \in Seq(1..final) /\ DOMAIN IdsAt(list) = 1..Len(list)
         /\ \A i \in 1..Len(list) : IdsAt(list)[i] = list[i].id
<1> DEFINE n == Len(list)
<1>1. n \in Nat /\ DOMAIN list = 1..n /\ \A i \in 1..n : list[i] \in HeldTrack(final)
  BY LenProperties, ElementOfSeq
<1>2. \A i \in 1..n : list[i].id \in 1..final
  BY <1>1 DEF HeldTrack
<1> HIDE DEF n
<1>3. [i \in 1..n |-> list[i].id] \in Seq(1..final)
  BY <1>1, <1>2, IsASeq
<1>4. IdsAt(list) = [i \in 1..n |-> list[i].id]
  BY <1>1 DEF IdsAt
<1> QED  BY <1>3, <1>4 DEF n

LEMMA PlaylistStart == PlaylistInit => PlaylistInv
<1> SUFFICES ASSUME PlaylistInit PROVE PlaylistInv
  OBVIOUS
<1>1. playlist = <<>> /\ token = 0 /\ lastId = 0 /\ ids = <<>> /\ held = -1 /\ outcome = NoOutcome
  BY DEF PlaylistInit
<1>2. /\ playlist \in Seq(HeldTrack(lastId)) /\ ids \in Seq(1..lastId) /\ Len(playlist) = 0
  BY <1>1, EmptySeq
<1>3. OneOfAKind(playlist)
  BY <1>2 DEF OneOfAKind
<1>4. ListedRight(outcome)
  BY <1>1 DEF ListedRight, NoOutcome
<1> QED  BY <1>1, <1>2, <1>3, <1>4, PlaylistAssumption DEF PlaylistInv

\* An inserted track is of its kind only.
LEMMA InsertedStays ==
  ASSUME PlaylistInv, NEW after \in Anchors, NEW track \in Tracks, Inserted(after, track),
         UNCHANGED <<ids, held>>, ListedRight(outcome')
  PROVE  PlaylistInv'
<1> DEFINE new == [id |-> lastId', uri |-> track.uri, meta |-> track.meta]
           at == AfterId(playlist, after) + 1
           S == HeldTrack(lastId')
           n == Len(playlist)
<1>1. /\ token \in 0..MaxPlaylistChanges /\ held \in -1..token /\ lastId \in 0..MaxTracks
      /\ playlist \in Seq(HeldTrack(lastId)) /\ OneOfAKind(playlist)
      /\ ids \in Seq(1..lastId)
  BY DEF PlaylistInv
<1>2. /\ token < MaxPlaylistChanges /\ lastId < MaxTracks /\ lastId' = lastId + 1
      /\ playlist' = InsertAt(playlist, at, new) /\ token' = token + 1
      /\ ids' = ids /\ held' = held
  BY DEF Inserted, May, Changed
<1>3. new \in S
  BY <1>1, <1>2, PlaylistAssumption DEF HeldTrack
<1>4. at \in 1..(n + 1) /\ n \in Nat
  <2>1. n \in Nat
    BY <1>1, LenProperties
  <2>2. CASE after = 0
    BY <2>1, <2>2 DEF AfterId
  <2>3. CASE after # 0
    <3>1. IsAt(playlist, after)
      BY <2>3 DEF Anchors, IsAt
    <3>2. PlaceOf(playlist, after) \in 1..n
      BY <3>1, <1>1, TrackAtIs
    <3> QED  BY <2>1, <2>3, <3>2 DEF AfterId
  <2> QED  BY <2>2, <2>3
<1>5. playlist \in Seq(S) /\ ids \in Seq(1..lastId')
  <2>1. lastId \in Nat /\ 1..lastId \subseteq 1..lastId'
    BY <1>1, <1>2
  <2>2. HeldTrack(lastId) \subseteq S
    BY <1>2, <2>1, HeldGrows
  <2> QED  BY <1>1, <2>1, <2>2, SeqMonotonic
<1>6. \A i \in 1..n : playlist[i].id # new.id
  <2>1. ASSUME NEW i \in 1..n
        PROVE  playlist[i].id \in 1..lastId
    <3>1. playlist[i] \in HeldTrack(lastId)
      BY <1>1, ElementOfSeq
    <3> QED  BY <3>1 DEF HeldTrack
  <2>2. lastId + 1 \notin 1..lastId
    BY <1>1
  <2> QED  BY <1>2, <2>1, <2>2
<1> HIDE DEF new, at, S
<1>7. /\ playlist' \in Seq(S) /\ Len(playlist') = n + 1
      /\ \A j \in 1..(n + 1) :
           playlist'[j] = IF j < at THEN playlist[j] ELSE IF j = at THEN new ELSE playlist[j - 1]
  <2>0. playlist \in Seq(S) /\ new \in S /\ at \in 1..(Len(playlist) + 1)
    BY <1>3, <1>4, <1>5
  <2>1. /\ InsertAt(playlist, at, new) \in Seq(S)
        /\ Len(InsertAt(playlist, at, new)) = Len(playlist) + 1
        /\ \A j \in 1..(Len(playlist) + 1) :
             InsertAt(playlist, at, new)[j]
               = IF j < at THEN playlist[j] ELSE IF j = at THEN new ELSE playlist[j - 1]
    BY <2>0, InsertedIs
  <2> QED  BY <1>2, <2>1
<1> HIDE DEF n
<1>8. OneOfAKind(playlist')
  <2> SUFFICES ASSUME NEW i \in 1..(n + 1), NEW j \in 1..(n + 1),
                      playlist'[i].id = playlist'[j].id
               PROVE  i = j
    BY <1>7 DEF OneOfAKind
  <2> DEFINE place(k) == IF k < at THEN k ELSE k - 1
  <2>1. \A k \in 1..(n + 1) : k # at => place(k) \in 1..n /\ playlist'[k] = playlist[place(k)]
    <3> SUFFICES ASSUME NEW k \in 1..(n + 1), k # at
                 PROVE  place(k) \in 1..n /\ playlist'[k] = playlist[place(k)]
      OBVIOUS
    <3>1. place(k) \in 1..n
      BY <1>4
    <3> QED  BY <3>1, <1>7
  <2>2. playlist'[at] = new
    BY <1>4, <1>7
  <2>3. CASE i = at \/ j = at
    <3> HIDE DEF place
    <3> QED  BY <2>1, <2>2, <2>3, <1>6
  <2>4. CASE i # at /\ j # at
    <3>1. playlist[place(i)].id = playlist[place(j)].id /\ place(i) \in 1..n /\ place(j) \in 1..n
      <4> HIDE DEF place
      <4> QED  BY <2>1, <2>4
    <3>2. place(i) = place(j)
      <4> HIDE DEF place
      <4> QED  BY <3>1, <1>1 DEF OneOfAKind, n
    <3> QED  BY <3>2, <2>4, <1>4
  <2> QED  BY <2>3, <2>4
<1>9. /\ token' \in 0..MaxPlaylistChanges /\ held' \in -1..token' /\ held' # token'
      /\ lastId' \in 0..MaxTracks
  BY <1>1, <1>2, PlaylistAssumption
<1> QED  BY <1>2, <1>5, <1>7, <1>8, <1>9 DEF PlaylistInv, S

LEMMA DeletedStays ==
  ASSUME PlaylistInv, NEW id, Deleted(id), UNCHANGED <<ids, held>>, ListedRight(outcome')
  PROVE  PlaylistInv'
<1> DEFINE at == PlaceOf(playlist, id)
           S == HeldTrack(lastId)
           n == Len(playlist)
<1>1. /\ token \in 0..MaxPlaylistChanges /\ held \in -1..token /\ lastId \in 0..MaxTracks
      /\ playlist \in Seq(S) /\ OneOfAKind(playlist)
      /\ ids \in Seq(1..lastId)
  BY DEF PlaylistInv
<1>2. /\ token < MaxPlaylistChanges /\ lastId' = lastId /\ token' = token + 1
      /\ playlist' = IF IsAt(playlist, id) THEN RemoveAt(playlist, at) ELSE playlist
      /\ ids' = ids /\ held' = held
  BY DEF Deleted, May, Changed
<1> HIDE DEF S
<1>3. playlist' \in Seq(S) /\ OneOfAKind(playlist')
  <2>1. CASE ~IsAt(playlist, id)
    BY <2>1, <1>1, <1>2
  <2>2. CASE IsAt(playlist, id)
    <3>1. at \in 1..n /\ n \in Nat
      BY <1>1, <2>2, TrackAtIs, LenProperties
    <3> HIDE DEF at
    <3>2. /\ playlist' \in Seq(S) /\ Len(playlist') = n - 1
          /\ \A j \in 1..(at - 1) : playlist'[j] = playlist[j]
          /\ \A j \in at..(n - 1) : playlist'[j] = playlist[j + 1]
      BY <1>1, <1>2, <2>2, <3>1, RemovedIs
    <3> DEFINE place(k) == IF k < at THEN k ELSE k + 1
    <3> HIDE DEF n
    <3>3. ASSUME NEW k \in 1..(n - 1)
          PROVE  place(k) \in 1..n /\ playlist'[k] = playlist[place(k)]
      <4>1. CASE k < at
        BY <4>1, <3>1, <3>2
      <4>2. CASE ~(k < at)
        <5>1. k \in at..(n - 1)
          BY <4>2, <3>1
        <5> QED  BY <4>2, <5>1, <3>1, <3>2
      <4> QED  BY <4>1, <4>2
    <3>4. ASSUME NEW i \in 1..(n - 1), NEW j \in 1..(n - 1), playlist'[i].id = playlist'[j].id
          PROVE  i = j
      <4>1. place(i) = place(j)
        <5> HIDE DEF place
        <5>1. playlist[place(i)].id = playlist[place(j)].id /\ place(i) \in 1..n /\ place(j) \in 1..n
          BY <3>3, <3>4
        <5> QED  BY <5>1, <1>1 DEF OneOfAKind, n
      <4> QED  BY <4>1, <3>1
    <3>5. OneOfAKind(playlist')
      BY <3>2, <3>4 DEF OneOfAKind
    <3> QED  BY <3>2, <3>5
  <2> QED  BY <2>1, <2>2
<1>4. token' \in 0..MaxPlaylistChanges /\ held' \in -1..token' /\ held' # token'
  BY <1>1, <1>2, PlaylistAssumption
<1> QED  BY <1>1, <1>2, <1>3, <1>4 DEF PlaylistInv, S

LEMMA DeviceUnchanged ==
  ASSUME PlaylistInv, UnchangedAtDevice, UNCHANGED <<ids, held>>, ListedRight(outcome')
  PROVE  PlaylistInv'
BY DEF PlaylistInv, UnchangedAtDevice, OneOfAKind, IdsEndAs

LEMMA IdArrayStays ==
  ASSUME PlaylistInv, NEW empty \in BOOLEAN, IdArray(empty)
  PROVE  PlaylistInv'
<1> DEFINE before == IF empty THEN <<>> ELSE ids
           now == IdsAt(playlist)
<1>1. /\ ids' = before \o now /\ held' = token
      /\ outcome' = NoOutcome /\ playlist' = playlist /\ token' = token /\ lastId' = lastId
  BY DEF IdArray, UnchangedAtDevice
<1>2. /\ token \in 0..MaxPlaylistChanges /\ lastId \in 0..MaxTracks
      /\ playlist \in Seq(HeldTrack(lastId)) /\ OneOfAKind(playlist) /\ ids \in Seq(1..lastId)
  BY DEF PlaylistInv
<1>3. before \in Seq(1..lastId)
  BY <1>2, EmptySeq
<1>4. now \in Seq(1..lastId)
  <2>1. lastId \in Nat
    BY <1>2
  <2> QED  BY <1>2, <2>1, IdsAre
<1>5. Len(now) = Len(playlist) /\ \A n \in DOMAIN playlist : now[n] = playlist[n].id
  <2>1. DOMAIN playlist = 1..Len(playlist)
    BY <1>2, LenProperties
  <2>2. DOMAIN now = 1..Len(playlist) /\ \A n \in 1..Len(playlist) : now[n] = playlist[n].id
    BY <1>2, IdsAre
  <2>3. Len(playlist) \in Nat
    BY <1>2, LenProperties
  <2> HIDE DEF now
  <2>4. Len(now) = Len(playlist)
    BY <1>4, <2>2, <2>3, LenProperties
  <2> QED  BY <2>1, <2>2, <2>4
<1> HIDE DEF before, now
<1>6. /\ ids' \in Seq(1..lastId) /\ Len(ids') = Len(before) + Len(now)
      /\ \A n \in 1..Len(now) : ids'[Len(before) + n] = now[n]
  <2>1. ids' = before \o now
    BY <1>1
  <2>2. Len(before) \in Nat /\ Len(now) \in Nat
    BY <1>3, <1>4, LenProperties
  <2>3. /\ ids' \in Seq(1..lastId) /\ Len(ids') = Len(before) + Len(now)
        /\ \A i \in 1..(Len(before) + Len(now)) :
             ids'[i] = IF i <= Len(before) THEN before[i] ELSE now[i - Len(before)]
    BY <1>3, <1>4, <2>1, ConcatProperties, Zenon
  <2>4. ASSUME NEW n \in 1..Len(now)
        PROVE  ids'[Len(before) + n] = now[n]
    <3>1. /\ Len(before) + n \in 1..(Len(before) + Len(now))
          /\ ~(Len(before) + n <= Len(before)) /\ (Len(before) + n) - Len(before) = n
      BY <2>2
    <3> QED  BY <2>3, <3>1
  <2> QED  BY <2>3, <2>4
<1>7. held' \in -1..token /\ IdsEndAs(playlist)'
  <2>1. held' \in -1..token
    BY <1>1, <1>2
  <2>2. /\ Len(before) \in Nat /\ Len(now) \in Nat /\ DOMAIN playlist = 1..Len(now)
    BY <1>2, <1>3, <1>4, <1>5, LenProperties
  <2>3. Len(playlist) <= Len(ids') /\ Len(ids') - Len(playlist) = Len(before)
    BY <1>5, <1>6, <2>2
  <2>4. \A n \in DOMAIN playlist : ids'[Len(ids') - Len(playlist) + n] = playlist[n].id
    BY <1>5, <1>6, <2>2, <2>3
  <2> QED  BY <1>1, <2>1, <2>3, <2>4 DEF IdsEndAs
<1>8. ListedRight(outcome')
  BY <1>1 DEF ListedRight, NoOutcome
<1> QED  BY <1>1, <1>2, <1>6, <1>7, <1>8 DEF PlaylistInv

\* The list that is read is that of the tracks that are asked for.
LEMMA ReadListIsRight ==
  ASSUME PlaylistInv, NEW missing \in BOOLEAN, NEW whole \in BOOLEAN, ReadList(missing, whole)
  PROVE  ListedRight(outcome')
<1> DEFINE tracks == TracksOf(playlist, ids)
           xml == TrackList(tracks)
           p == ParseTrackList(IF whole THEN xml ELSE Front(xml))
           ok == ~missing /\ p.ok
           list == IF missing THEN <<>> ELSE p.made.list
<1>1. outcome' = [call |-> "list", ok |-> ok, list |-> list, of |-> tracks]
  BY DEF ReadList
<1>2. tracks \in Seq(Track)
  <2>1. playlist \in Seq(HeldTrack(lastId)) /\ lastId \in Nat /\ ids \in Seq(1..lastId)
    BY DEF PlaylistInv
  <2>2. playlist \in Seq(Track)
    BY <2>1, HeldIsTrack, SeqMonotonic
  <2>3. Len(ids) \in Nat /\ DOMAIN ids = 1..Len(ids)
    BY <2>1, LenProperties
  <2> QED  BY <2>2, <2>3, TracksOfIs
<1> HIDE DEF tracks
<1>3. ASSUME ok
      PROVE  list = ParseTrackList(xml).made.list /\ AfterTracks(tracks, Len(tracks), ParseTrackList(xml).made)
  <2>1. ~ParseTrackList(Front(xml)).ok /\ AfterTracks(tracks, Len(tracks), ParseTrackList(xml).made)
    BY <1>2, ListIsRead
  <2> HIDE DEF xml
  <2> QED  BY <1>3, <2>1
<1> HIDE DEF xml, p, ok, list
<1>4. Unspoilt(tracks) \cap 1..Len(tracks) = Unspoilt(tracks)
  <2>1. DOMAIN tracks = 1..Len(tracks)
    BY <1>2, LenProperties
  <2> QED  BY <2>1 DEF Unspoilt
<1>5. ASSUME ok
      PROVE  /\ Len(list) = Cardinality(Unspoilt(tracks))
             /\ \A m \in Unspoilt(tracks) : IsListed(tracks, m, list)
  BY <1>3, <1>4, <1>5 DEF AfterTracks
<1>6. outcome'.ok = ok /\ outcome'.list = list /\ outcome'.of = tracks
  BY <1>1
<1> QED  BY <1>5, <1>6 DEF ListedRight

LEMMA PlaylistKept == PlaylistInv /\ [PlaylistNext]_playlistVars => PlaylistInv'
<1> SUFFICES ASSUME PlaylistInv, [PlaylistNext]_playlistVars
             PROVE  PlaylistInv'
  OBVIOUS
<1>0. ListedRight(outcome)
  BY DEF PlaylistInv
<1>1. ASSUME NEW after \in Anchors, NEW track \in Tracks, OthersInsert(after, track)
      PROVE  PlaylistInv'
  BY <1>0, <1>1, InsertedStays DEF OthersInsert
<1>2. ASSUME NEW id, OthersDelete(id)
      PROVE  PlaylistInv'
  BY <1>0, <1>2, DeletedStays DEF OthersDelete
<1>3. ASSUME NEW empty \in BOOLEAN, IdArray(empty)
      PROVE  PlaylistInv'
  BY <1>3, IdArrayStays
<1>4. CASE IdArrayChanged
  <2>1. ListedRight(outcome')
    BY <1>4 DEF IdArrayChanged, ListedRight
  <2> QED  BY <1>4, <2>1, DeviceUnchanged DEF IdArrayChanged
<1>5. ASSUME NEW missing \in BOOLEAN, NEW whole \in BOOLEAN, ReadList(missing, whole)
      PROVE  PlaylistInv'
  BY <1>5, ReadListIsRight, DeviceUnchanged DEF ReadList
<1>6. ASSUME NEW id, ReadTrack(id)
      PROVE  PlaylistInv'
  <2>1. ListedRight(outcome')
    BY <1>6 DEF ReadTrack, ListedRight
  <2> QED  BY <1>6, <2>1, DeviceUnchanged DEF ReadTrack
<1>7. ASSUME NEW id, DeleteId(id)
      PROVE  PlaylistInv'
  <2>1. ListedRight(outcome')
    BY <1>7 DEF DeleteId, NoOutcome, ListedRight
  <2> QED  BY <1>7, <2>1, DeletedStays DEF DeleteId
<1>8. ASSUME NEW after \in Anchors, NEW track \in Tracks, NEW answered \in BOOLEAN,
             Insert(after, track, answered)
      PROVE  PlaylistInv'
  <2>1. ListedRight(outcome')
    BY <1>8 DEF Insert, ListedRight
  <2> QED  BY <1>8, <2>1, InsertedStays DEF Insert
<1>9. CASE DeleteAll
  <2>1. /\ token < MaxPlaylistChanges /\ playlist' = <<>> /\ token' = token + 1
        /\ lastId' = lastId /\ ids' = ids /\ held' = held /\ outcome' = NoOutcome
    BY <1>9 DEF DeleteAll, May, Changed
  <2>2. /\ token \in 0..MaxPlaylistChanges /\ held \in -1..token /\ lastId \in 0..MaxTracks
        /\ ids \in Seq(1..lastId)
    BY DEF PlaylistInv
  <2>3. playlist' \in Seq(HeldTrack(lastId')) /\ OneOfAKind(playlist')
    <3>1. playlist' \in Seq(HeldTrack(lastId')) /\ Len(playlist') = 0
      BY <2>1, EmptySeq
    <3> QED  BY <3>1 DEF OneOfAKind
  <2>4. token' \in 0..MaxPlaylistChanges /\ held' \in -1..token' /\ held' # token'
    BY <2>1, <2>2, PlaylistAssumption
  <2>5. ListedRight(outcome')
    BY <2>1 DEF NoOutcome, ListedRight
  <2> QED  BY <2>1, <2>2, <2>3, <2>4, <2>5 DEF PlaylistInv
<1>10. CASE UNCHANGED playlistVars
  <2>1. UnchangedAtDevice /\ UNCHANGED <<ids, held>> /\ outcome' = outcome
    BY <1>10 DEF playlistVars, UnchangedAtDevice
  <2>2. ListedRight(outcome')
    BY <1>0, <2>1
  <2> QED  BY <2>1, <2>2, DeviceUnchanged
<1> QED
  BY <1>1, <1>2, <1>3, <1>4, <1>5, <1>6, <1>7, <1>8, <1>9, <1>10 DEF PlaylistNext

LEMMA PlaylistInvIsSound == PlaylistInv => PlaylistTypeOK /\ ListedAsHeld
<1> SUFFICES ASSUME PlaylistInv PROVE PlaylistTypeOK /\ ListedAsHeld
  OBVIOUS
<1>1. /\ token \in 0..MaxPlaylistChanges /\ held \in -1..token /\ lastId \in 0..MaxTracks
      /\ playlist \in Seq(HeldTrack(lastId)) /\ OneOfAKind(playlist)
      /\ ids \in Seq(1..lastId) /\ (held = token => IdsEndAs(playlist)) /\ ListedRight(outcome)
  BY DEF PlaylistInv
<1>2. lastId \in Nat
  BY <1>1
<1>3. IsInjective(IdsAt(playlist))
  <2>1. /\ DOMAIN IdsAt(playlist) = 1..Len(playlist)
        /\ \A i \in 1..Len(playlist) : IdsAt(playlist)[i] = playlist[i].id
    BY <1>1, <1>2, IdsAre
  <2> QED  BY <1>1, <2>1 DEF IsInjective, OneOfAKind
<1>4. ASSUME NEW n \in DOMAIN playlist
      PROVE  playlist[n].uri \in Uris /\ playlist[n].meta \in Metas
  <2>1. n \in 1..Len(playlist)
    BY <1>1, LenProperties
  <2>2. playlist[n] \in HeldTrack(lastId)
    BY <1>1, <2>1, ElementOfSeq
  <2> QED  BY <2>2 DEF HeldTrack
<1>5. \A n \in DOMAIN ids : ids[n] \in 1..lastId
  BY <1>1, LenProperties, ElementOfSeq
<1>6. PlaylistTypeOK
  BY <1>1, <1>3, <1>4, <1>5 DEF PlaylistTypeOK
<1>7. ListedAsHeld
  BY <1>1 DEF ListedAsHeld, ListedRight, IsListed
<1> QED  BY <1>6, <1>7

LEMMA PlaylistAlways == PlaylistSpec => []PlaylistInv
BY PlaylistStart, PlaylistKept, PTL DEF PlaylistSpec

\* Whatever is inserted, deleted and read, the ids at the device are of one
\* track each, and those that the program holds are ids that were given.
THEOREM PlaylistTypeCorrect == PlaylistSpec => []PlaylistTypeOK
BY PlaylistAlways, PlaylistInvIsSound, PTL

\* OHPlaylist::readList(), idArray() and idArrayChanged(): a list that is read
\* has the tracks that were asked for and are good up to the first that spoils
\* it, in their order and each with its own id and URI; ids of the token of the
\* device are those of its list.
THEOREM PlaylistIsListedAsHeld == PlaylistSpec => []ListedAsHeld
BY PlaylistAlways, PlaylistInvIsSound, PTL

-----------------------------------------------------------------------------
(* MCParts: the components together.                                        *)

\* Each behaviour of the parts is one of each component, which moves or stays.
LEMMA PartsAreComponents ==
  PartsSpec => /\ VDirSpec /\ RegistrySpec /\ LibrarySpec /\ FindSpec /\ RendererSpec
               /\ ProxiesSpec /\ VolumeSpec /\ BrowseSpec /\ PlaylistSpec
<1>1. PartsInit => /\ VDirInit /\ RegistryInit /\ LibraryInit /\ FindInit /\ RendererInit
                   /\ ProxiesInit /\ VolumeInit /\ BrowseInit /\ PlaylistInit
  BY DEF PartsInit
<1>2. [PartsNext]_partsVars =>
        /\ [VDirNext]_vdirVars /\ [RegistryNext]_registryVars /\ [LibraryNext]_libraryVars
        /\ [FindNext]_findVars /\ [RendererNext]_rendererVars /\ [ProxiesNext]_proxiesVars
        /\ [VolumeNext]_volumeVars /\ [BrowseNext]_browseVars /\ [PlaylistNext]_playlistVars
  BY DEF PartsNext, partsVars
<1> QED
  BY <1>1, <1>2, PTL
     DEF PartsSpec, VDirSpec, RegistrySpec, LibrarySpec, FindSpec, RendererSpec, ProxiesSpec,
         VolumeSpec, BrowseSpec, PlaylistSpec

\* Whatever component moves, each has its types, for all values of the constants.
THEOREM AllTypesCorrect == PartsSpec => []AllTypeOK
<1>1. LibraryTypeOK /\ LibrarySound => LibraryTypeOK
  OBVIOUS
<1>2. VDirTypeOK /\ RegistryTypeOK /\ LibraryTypeOK /\ FindTypeOK /\ RendererTypeOK
        /\ ProxiesTypeOK /\ VolumeTypeOK /\ BrowseTypeOK /\ PlaylistTypeOK => AllTypeOK
  BY DEF AllTypeOK
<1> QED
  BY <1>1, <1>2, PartsAreComponents, VDirTypeCorrect, RegistryTypeCorrect, LibraryIsSound,
     FindTypeCorrect, RendererTypeCorrect, ProxiesTypeCorrect, VolumeTypeCorrect,
     BrowseTypeCorrect, PlaylistTypeCorrect, PTL

==============================================================================
