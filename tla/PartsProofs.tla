------------------------------ MODULE PartsProofs ------------------------------
(***************************************************************************)
(* Proofs about the smaller components Library, Registry, Browse, Volume,  *)
(* FindService and Renderer, each for its own specification and for all    *)
(* values of its constants; and that base64 text decodes to the bytes it   *)
(* was made of.                                                            *)
(***************************************************************************)
EXTENDS Library, Registry, Browse, Volume, FindService, Renderer, Base64,
        SequenceTheorems, WellFoundedInduction, TLAPS

-----------------------------------------------------------------------------
(* Library: types, and that the users agree with the instance.              *)

\* What getLibUPnP() does to the instance and to libupnp: the handlers and the
\* users are left to its callers.
LEMMA GetsIt ==
  ASSUME LibraryTypeOK, LibrarySound,
         NEW serveronly \in BOOLEAN, NEW nonempty \in SUBSET OptionNames, NEW attempt \in Attempt,
         GetLibUPnP(serveronly, nonempty, attempt)
  PROVE  /\ theLib' \in [made : BOOLEAN, ok : BOOLEAN]
         /\ options' \in [serveronly : BOOLEAN, set : SUBSET OptionNames]
         /\ libupnp' \in {"down", "devices", "clients"}
         /\ inits' \in 0..MaxInits /\ told' \in BOOLEAN
         /\ theLib'.made <=> theLib'.ok
         /\ theLib'.ok <=> libupnp' # "down"
         /\ theLib.ok => theLib'.ok
<1> USE LibraryAssumption
<1>1. theLib \in [made : BOOLEAN, ok : BOOLEAN] /\ (theLib.made \/ ~theLib.ok => TRUE)
  BY DEF LibraryTypeOK
<1>2. CASE theLib.made /\ UNCHANGED <<options, inits>> /\ theLib' = Kept(theLib)
  <2>1. theLib' \in [made : BOOLEAN, ok : BOOLEAN]
    <3>1. theLib' = theLib \/ theLib' = NoLib
      BY <1>2 DEF Kept
    <3>2. NoLib \in [made : BOOLEAN, ok : BOOLEAN]
      BY DEF NoLib
    <3> QED  BY <3>1, <3>2, <1>1
  <2>2. CASE theLib.ok
    <3>1. theLib' = theLib /\ libupnp' = libupnp
      BY <1>2, <2>2 DEF Kept, GetLibUPnP
    <3> QED  BY <3>1, <1>2, <2>2, <2>1, Zenon DEF LibraryTypeOK, LibrarySound, GetLibUPnP
  <2>3. CASE ~theLib.ok
    <3>1. theLib' = NoLib
      BY <1>2, <2>3 DEF Kept
    <3>2. libupnp' = "down"
      BY <3>1 DEF GetLibUPnP, NoLib
    <3> QED  BY <3>1, <3>2, <1>2, <2>1, <2>3 DEF LibraryTypeOK, NoLib, GetLibUPnP
  <2> QED  BY <2>2, <2>3
<1>3. CASE /\ ~theLib.made /\ inits < MaxInits /\ inits' = inits + 1
           /\ options' = Options(serveronly, OptionNames, nonempty)
           /\ theLib' = IF Conflict THEN NoLib
                        ELSE Kept([made |-> TRUE, ok |-> IsOk(attempt)])
  <2>1. options' \in [serveronly : BOOLEAN, set : SUBSET OptionNames]
    BY <1>3 DEF Options, LibraryTypeOK
  <2>2. IsOk(attempt) \in BOOLEAN
    BY <2>1 DEF IsOk, Attempt
  <2>3. ~theLib.ok
    BY <1>3 DEF LibrarySound, LibraryTypeOK
  <2>4. CASE IsOk(attempt) /\ ~Conflict
    <3>1. theLib' = [made |-> TRUE, ok |-> TRUE]
      BY <2>4, <1>3, <2>2 DEF Kept
    <3>2. libupnp' = Up(attempt)
      BY <3>1, <1>3 DEF GetLibUPnP
    <3>3. Up(attempt) \in {"devices", "clients"}
      BY <2>4, <2>1 DEF Up, IsOk, Attempt
    <3> QED  BY <3>1, <3>2, <3>3, <1>3, <2>1 DEF GetLibUPnP, LibraryTypeOK
  <2>5. CASE ~IsOk(attempt) \/ Conflict
    <3>1. theLib' = NoLib
      BY <2>5, <1>3 DEF Kept
    <3>2. libupnp' = "down"
      BY <3>1 DEF GetLibUPnP, NoLib
    <3> QED  BY <3>1, <3>2, <1>3, <2>1, <2>3 DEF GetLibUPnP, LibraryTypeOK, NoLib
  <2> QED  BY <2>4, <2>5
<1> QED  BY <1>2, <1>3 DEF GetLibUPnP

LibraryInv == LibraryTypeOK /\ LibrarySound

LEMMA InitIsPreserved ==
  ASSUME LibraryInv, LibInit
  PROVE  LibraryInv'
<1> USE LibraryAssumption
<1>1. CASE UNCHANGED <<theLib, options, libupnp, inits, handlers>>
           /\ told' = FALSE /\ UNCHANGED userVars
  BY <1>1 DEF LibraryInv, LibraryTypeOK, LibrarySound, Hears, userVars
<1>2. ASSUME ~theLib.made,
             NEW flag \in BOOLEAN, NEW given \in SUBSET OptionNames,
             NEW attempt \in Attempt, NEW nonempty \in SUBSET given,
             Initialise(flag, given, nonempty, attempt), UNCHANGED userVars
      PROVE  LibraryInv'
  <2>0. UNCHANGED <<user, eventinit>>
    BY <1>2 DEF userVars
  <2>1. options' \in [serveronly : BOOLEAN, set : SUBSET OptionNames]
    BY <1>2 DEF Initialise, Options, LibraryInv, LibraryTypeOK
  <2>2. inits' \in 0..MaxInits /\ told' \in BOOLEAN
    BY <1>2 DEF Initialise, LibraryInv, LibraryTypeOK
  <2>3. \A u \in {"directory", "device"} : user[u] # "has"
    BY <1>2 DEF LibraryInv, LibraryTypeOK, LibrarySound
  <2>4. CASE UNCHANGED <<theLib, libupnp, handlers>>
    BY <2>0, <2>1, <2>2, <2>3, <2>4 DEF LibraryInv, LibraryTypeOK, LibrarySound, Hears
  <2>5. CASE Made(attempt)
    <3>1. IsOk(attempt) \in BOOLEAN
      BY <2>1 DEF IsOk, Attempt
    <3>2. /\ Up(attempt) \in {"down", "devices", "clients"}
          /\ IsOk(attempt) => Up(attempt) # "down"
      BY <2>1 DEF Up, IsOk, Attempt
    <3> QED
      BY <2>0, <2>1, <2>2, <2>3, <2>5, <3>1, <3>2
      DEF Made, LibraryInv, LibraryTypeOK, LibrarySound
  <2> QED  BY <2>4, <2>5, <1>2 DEF Initialise, NotMade
<1> QED  BY <1>1, <1>2 DEF LibInit

LEMMA UsersArePreserved ==
  ASSUME LibraryInv,
         ProgramGets \/ DirectoryStarts \/ DeviceStarts \/ DirectoryEnds \/ InitEvents
  PROVE  LibraryInv'
<1>0. LibraryTypeOK /\ LibrarySound
  BY DEF LibraryInv
<1>1. ASSUME NEW u \in Users, NEW serveronly \in BOOLEAN, NEW attempt \in Attempt,
             GetLibUPnP(serveronly, {}, attempt),
             Register(u), user' = Told(u), eventinit' \in BOOLEAN
      PROVE  LibraryInv'
  <2>1. /\ theLib' \in [made : BOOLEAN, ok : BOOLEAN]
        /\ options' \in [serveronly : BOOLEAN, set : SUBSET OptionNames]
        /\ libupnp' \in {"down", "devices", "clients"}
        /\ inits' \in 0..MaxInits /\ told' \in BOOLEAN
        /\ theLib'.made <=> theLib'.ok
        /\ theLib'.ok <=> libupnp' # "down"
        /\ theLib.ok => theLib'.ok
    BY <1>0, <1>1, GetsIt
  <2>2. user' = [user EXCEPT ![u] = IF theLib'.made THEN "has" ELSE "refused"]
    BY <1>1 DEF Told, Given
  <2>3. handlers' = IF theLib'.made THEN handlers \cup {u} ELSE {}
    BY <1>1 DEF Register, Given
  <2>4. LibraryTypeOK'
    BY <1>0, <1>1, <2>1, <2>2, <2>3 DEF LibraryTypeOK
  <2>5. ASSUME NEW v \in {"directory", "device"}, user'[v] = "has"
        PROVE  theLib'.ok /\ v \in handlers'
    BY <1>0, <2>1, <2>2, <2>3, <2>5 DEF LibraryTypeOK, LibrarySound, Hears, Users
  <2> QED  BY <2>1, <2>4, <2>5 DEF LibraryInv, LibrarySound, Hears
<1>2. CASE DirectoryStarts
  BY <1>0, <1>1, <1>2 DEF DirectoryStarts, Users, LibraryTypeOK
<1>3. CASE DeviceStarts
  BY <1>0, <1>1, <1>3 DEF DeviceStarts, Users, LibraryTypeOK
<1>4. CASE DirectoryEnds
  <2>1. PICK attempt \in Attempt : GetLibUPnP(FALSE, {}, attempt)
    BY <1>4 DEF DirectoryEnds
  <2>2. /\ theLib' \in [made : BOOLEAN, ok : BOOLEAN]
        /\ options' \in [serveronly : BOOLEAN, set : SUBSET OptionNames]
        /\ libupnp' \in {"down", "devices", "clients"}
        /\ inits' \in 0..MaxInits /\ told' \in BOOLEAN
        /\ theLib'.made <=> theLib'.ok
        /\ theLib'.ok <=> libupnp' # "down"
        /\ theLib.ok => theLib'.ok
    BY <1>0, <2>1, GetsIt
  <2>3. /\ handlers' = handlers \ {"directory"}
        /\ user' = [user EXCEPT !["directory"] = "none"]
        /\ eventinit' = eventinit
    BY <1>4 DEF DirectoryEnds
  <2>4. LibraryTypeOK'
    BY <1>0, <2>2, <2>3 DEF LibraryTypeOK, Users
  <2>5. ASSUME NEW v \in {"directory", "device"}, user'[v] = "has"
        PROVE  theLib'.ok /\ v \in handlers'
    BY <1>0, <2>2, <2>3, <2>5 DEF LibraryTypeOK, LibrarySound, Hears, Users
  <2> QED  BY <2>2, <2>4, <2>5 DEF LibraryInv, LibrarySound, Hears
<1>5. CASE InitEvents
  <2>1. CASE eventinit
    <3>1. /\ user' = [user EXCEPT !["events"] = "has"] /\ eventinit' = TRUE
          /\ UNCHANGED <<theLib, options, libupnp, inits, told, handlers>>
      BY <1>5, <2>1 DEF InitEvents
    <3> QED
      BY <1>0, <3>1 DEF LibraryInv, LibraryTypeOK, LibrarySound, Hears, Users
  <2>2. CASE ~eventinit
    BY <1>0, <1>1, <1>5, <2>2 DEF InitEvents, Users
  <2> QED  BY <2>1, <2>2 DEF InitEvents
<1>6. CASE ProgramGets
  <2>1. PICK serveronly \in BOOLEAN, nonempty \in SUBSET OptionNames, attempt \in Attempt :
          GetLibUPnP(serveronly, nonempty, attempt)
    BY <1>6 DEF ProgramGets
  <2>2. /\ theLib' \in [made : BOOLEAN, ok : BOOLEAN]
        /\ options' \in [serveronly : BOOLEAN, set : SUBSET OptionNames]
        /\ libupnp' \in {"down", "devices", "clients"}
        /\ inits' \in 0..MaxInits /\ told' \in BOOLEAN
        /\ theLib'.made <=> theLib'.ok
        /\ theLib'.ok <=> libupnp' # "down"
        /\ theLib.ok => theLib'.ok
    BY <1>0, <2>1, GetsIt
  <2>3. /\ handlers' = IF theLib'.made THEN handlers ELSE {}
        /\ user' = user /\ eventinit' = eventinit
    BY <1>6 DEF ProgramGets, Given, userVars
  <2>4. LibraryTypeOK'
    BY <1>0, <2>2, <2>3 DEF LibraryTypeOK
  <2>5. ASSUME NEW v \in {"directory", "device"}, user'[v] = "has"
        PROVE  theLib'.ok /\ v \in handlers'
    BY <1>0, <2>2, <2>3, <2>5 DEF LibraryTypeOK, LibrarySound, Hears
  <2> QED  BY <2>2, <2>4, <2>5 DEF LibraryInv, LibrarySound, Hears
<1> QED  BY <1>2, <1>3, <1>4, <1>5, <1>6

\* However initialisation fails, is tried again or is asked for by users of other
\* needs (upnpplib.cxx), the types are kept, libupnp runs for an instance at most,
\* an instance that is ok has a libupnp that runs, and the directory and the
\* device, once they were given the library, keep their handlers in its table.
THEOREM LibraryIsSound == LibrarySpec => [](LibraryTypeOK /\ LibrarySound)
<1>1. LibraryInit => LibraryInv
  <2> SUFFICES ASSUME LibraryInit PROVE LibraryInv
    OBVIOUS
  <2>1. LibraryTypeOK
    <3>1. /\ theLib \in [made : BOOLEAN, ok : BOOLEAN]
          /\ options \in [serveronly : BOOLEAN, set : SUBSET OptionNames]
      BY DEF LibraryInit, NoLib
    <3>2. inits \in 0..MaxInits
      BY LibraryAssumption DEF LibraryInit
    <3> QED  BY <3>1, <3>2 DEF LibraryInit, LibraryTypeOK
  <2>2. LibrarySound
    BY DEF LibraryInit, LibrarySound, NoLib, Users
  <2> QED  BY <2>1, <2>2 DEF LibraryInv
<1>2. LibraryInv /\ [LibraryNext]_libraryVars => LibraryInv'
  <2> SUFFICES ASSUME LibraryInv, [LibraryNext]_libraryVars PROVE LibraryInv'
    OBVIOUS
  <2>1. CASE UNCHANGED libraryVars
    BY <2>1 DEF libraryVars, LibraryInv, LibraryTypeOK, LibrarySound, Hears
  <2>2. CASE LibraryNext
    BY <2>2, InitIsPreserved, UsersArePreserved DEF LibraryNext
  <2> QED  BY <2>1, <2>2
<1> QED  BY <1>1, <1>2, PTL DEF LibrarySpec, LibraryInv

-----------------------------------------------------------------------------
(* Registry: the vector of ids.                                             *)

\* No id is in a vector twice.
Injective(ids) == \A i, j \in DOMAIN ids : ids[i] = ids[j] => i = j

LEMMA AppendedIds ==
  ASSUME NEW S, NEW ids \in Seq(S), NEW id \in S
  PROVE  /\ Append(ids, id) \in Seq(S)
         /\ DOMAIN ids = 1..Len(ids) /\ Len(ids) \in Nat
         /\ DOMAIN Append(ids, id) = 1..(Len(ids) + 1)
         /\ \A i \in DOMAIN ids : Append(ids, id)[i] = ids[i]
         /\ Append(ids, id)[Len(ids) + 1] = id
         /\ ToSet(Append(ids, id)) = ToSet(ids) \cup {id}
<1>1. /\ Append(ids, id) \in Seq(S)
      /\ Len(ids) \in Nat /\ DOMAIN ids = 1..Len(ids)
      /\ DOMAIN Append(ids, id) = 1..(Len(ids) + 1)
      /\ \A i \in 1..Len(ids) : Append(ids, id)[i] = ids[i]
      /\ Append(ids, id)[Len(ids) + 1] = id
  BY AppendProperties, LenProperties
<1>2. ToSet(Append(ids, id)) = ToSet(ids) \cup {id}
  <2>1. ASSUME NEW x
        PROVE  x \in ToSet(Append(ids, id)) <=> x \in ToSet(ids) \/ x = id
    <3>1. x \in ToSet(Append(ids, id))
            <=> \E i \in 1..(Len(ids) + 1) : Append(ids, id)[i] = x
      BY <1>1 DEF ToSet
    <3>2. x \in ToSet(ids) <=> \E i \in 1..Len(ids) : ids[i] = x
      BY <1>1 DEF ToSet
    <3>3. ASSUME NEW i \in 1..(Len(ids) + 1)
          PROVE  Append(ids, id)[i] = IF i = Len(ids) + 1 THEN id ELSE ids[i]
      BY <1>1
    <3>4. Len(ids) + 1 \in 1..(Len(ids) + 1) /\ 1..Len(ids) \subseteq 1..(Len(ids) + 1)
      BY <1>1
    <3>5. \A i \in 1..(Len(ids) + 1) : i = Len(ids) + 1 \/ i \in 1..Len(ids)
      BY <1>1
    <3> QED  BY <3>1, <3>2, <3>4, <3>5, <1>1
  <2> QED  BY <2>1
<1> QED  BY <1>1, <1>2

\* From a vector without repetitions goes the id, if it was there; each of the
\* others comes from a place of the old vector, in the same order.
LEMMA ErasedIds ==
  ASSUME NEW S, NEW ids \in Seq(S), NEW id \in S, Injective(ids)
  PROVE  /\ Erased(ids, id) \in Seq(S)
         /\ ToSet(Erased(ids, id)) = ToSet(ids) \ {id}
         /\ \E f \in [DOMAIN Erased(ids, id) -> DOMAIN ids] :
              /\ \A i \in DOMAIN Erased(ids, id) : Erased(ids, id)[i] = ids[f[i]]
              /\ \A i, j \in DOMAIN Erased(ids, id) : i < j => f[i] < f[j]
<1>0. /\ Len(ids) \in Nat /\ DOMAIN ids = 1..Len(ids)
      /\ \A i \in 1..Len(ids) : ids[i] \in S
  BY LenProperties, ElementOfSeq
<1>1. CASE id \notin ToSet(ids)
  <2>1. Erased(ids, id) = ids
    BY <1>1 DEF Erased
  <2> DEFINE f == [i \in DOMAIN ids |-> i]
  <2>2. /\ f \in [DOMAIN ids -> DOMAIN ids]
        /\ \A i \in DOMAIN ids : ids[i] = ids[f[i]]
        /\ \A i, j \in DOMAIN ids : i < j => f[i] < f[j]
    OBVIOUS
  <2>3. ToSet(ids) = ToSet(ids) \ {id}
    BY <1>1
  <2> HIDE DEF f
  <2>4. \E g \in [DOMAIN ids -> DOMAIN ids] :
          /\ \A i \in DOMAIN ids : ids[i] = ids[g[i]]
          /\ \A i, j \in DOMAIN ids : i < j => g[i] < g[j]
    BY <2>2
  <2> QED  BY <2>1, <2>3, <2>4
<1>2. CASE id \in ToSet(ids)
  <2> DEFINE k == CHOOSE i \in DOMAIN ids : IsFound(ids, id, i)
             a == SubSeq(ids, 1, k - 1)
             b == SubSeq(ids, k + 1, Len(ids))
             e == Erased(ids, id)
             f == [i \in 1..(Len(ids) - 1) |-> IF i < k THEN i ELSE i + 1]
  <2>1. k \in 1..Len(ids) /\ ids[k] = id
    <3>1. PICK i \in DOMAIN ids : ids[i] = id
      BY <1>2 DEF ToSet
    <3>2. \A j \in DOMAIN ids : j < i => ids[j] # id
      BY <3>1, <1>0 DEF Injective
    <3>3. IsFound(ids, id, i)
      BY <3>1, <3>2 DEF IsFound
    <3>4. IsFound(ids, id, k) /\ k \in DOMAIN ids
      BY <3>3
    <3> QED  BY <3>4, <1>0 DEF IsFound
  <2>2. e = a \o b
    BY <1>2 DEF Erased, RemoveAt
  <2> HIDE DEF k
  <2>3. a \in Seq(S) /\ Len(a) = k - 1 /\ \A i \in 1..(k - 1) : a[i] = ids[i]
    <3>1. 1 \in Int /\ k - 1 \in Int /\ \A i \in 1..(k - 1) : ids[i] \in S
      BY <1>0, <2>1
    <3> QED  BY <3>1, <2>1, <1>0, SubSeqProperties
  <2>4. /\ b \in Seq(S) /\ Len(b) = Len(ids) - k
        /\ \A i \in 1..(Len(ids) - k) : b[i] = ids[k + i]
    <3>1. k + 1 \in Int /\ Len(ids) \in Int /\ \A i \in (k + 1)..Len(ids) : ids[i] \in S
      BY <1>0, <2>1
    <3>2. /\ b \in Seq(S)
          /\ Len(b) = IF k + 1 <= Len(ids) THEN Len(ids) - (k + 1) + 1 ELSE 0
          /\ \A i \in 1..(Len(ids) - (k + 1) + 1) : b[i] = ids[(k + 1) + i - 1]
      BY <3>1, SubSeqProperties
    <3> HIDE DEF a, b, e, f
    <3>3. k \in Int /\ Len(ids) \in Int /\ k <= Len(ids)
      BY <1>0, <2>1
    <3>4. Len(ids) - (k + 1) + 1 = Len(ids) - k
      BY <3>3
    <3>5. ~(k + 1 <= Len(ids)) => Len(ids) - k = 0
      BY <3>3
    <3>6. \A i \in 1..(Len(ids) - k) : (k + 1) + i - 1 = k + i
      BY <3>3
    <3> QED  BY <3>2, <3>4, <3>5, <3>6
  <2>5. /\ a \o b \in Seq(S) /\ DOMAIN (a \o b) = 1..(Len(ids) - 1)
        /\ \A i \in 1..(Len(ids) - 1) :
             (a \o b)[i] = IF i <= k - 1 THEN a[i] ELSE b[i - (k - 1)]
    <3> HIDE DEF a, b
    <3>1. /\ a \o b \in Seq(S) /\ Len(a \o b) = Len(a) + Len(b)
          /\ \A i \in 1..(Len(a) + Len(b)) :
               (a \o b)[i] = IF i <= Len(a) THEN a[i] ELSE b[i - Len(a)]
      BY <2>3, <2>4, ConcatProperties
    <3>2. Len(a) + Len(b) = Len(ids) - 1 /\ Len(a) = k - 1
      BY <1>0, <2>1, <2>3, <2>4
    <3>3. DOMAIN (a \o b) = 1..Len(a \o b)
      BY <3>1, LenProperties
    <3> QED  BY <3>1, <3>2, <3>3
  <2>6. /\ f \in [1..(Len(ids) - 1) -> DOMAIN ids]
        /\ \A i, j \in 1..(Len(ids) - 1) : i < j => f[i] < f[j]
    BY <1>0, <2>1
  <2>7. ASSUME NEW i \in 1..(Len(ids) - 1)
        PROVE  e[i] = ids[f[i]]
    <3> HIDE DEF a, b, e
    <3>0. (a \o b)[i] = IF i <= k - 1 THEN a[i] ELSE b[i - (k - 1)]
      BY <2>5
    <3>1. CASE i < k
      <4>1. i <= k - 1 /\ i \in 1..(k - 1) /\ f[i] = i
        BY <3>1, <1>0, <2>1
      <4> QED  BY <4>1, <3>0, <2>2, <2>3
    <3>2. CASE ~(i < k)
      <4>1. i - (k - 1) \in 1..(Len(ids) - k) /\ k + (i - (k - 1)) = i + 1
        BY <3>2, <1>0, <2>1
      <4>2. (a \o b)[i] = b[i - (k - 1)]
        <5>1. ~(i <= k - 1)
          BY <3>2, <1>0, <2>1
        <5> QED  BY <5>1, <3>0
      <4>3. b[i - (k - 1)] = ids[i + 1]
        BY <4>1, <2>4
      <4> QED  BY <4>2, <4>3, <2>2, <3>2
    <3> QED  BY <3>1, <3>2
  <2>8. ToSet(e) = ToSet(ids) \ {id}
    <3>0. DOMAIN e = 1..(Len(ids) - 1)
      BY <2>2, <2>5
    <3>1. ASSUME NEW x \in ToSet(e)
          PROVE  x \in ToSet(ids) /\ x # id
      <4> HIDE DEF e, f
      <4>1. PICK i \in 1..(Len(ids) - 1) : e[i] = x
        BY <3>0 DEF ToSet
      <4>2. f[i] \in DOMAIN ids /\ ids[f[i]] = x
        BY <4>1, <2>6, <2>7
      <4>3. f[i] # k
        BY <1>0, <2>1 DEF f
      <4> QED  BY <4>2, <4>3, <2>1, <1>0 DEF ToSet, Injective
    <3>2. ASSUME NEW x \in ToSet(ids), x # id
          PROVE  x \in ToSet(e)
      <4>1. PICK j \in 1..Len(ids) : ids[j] = x
        BY <1>0 DEF ToSet
      <4>2. j # k
        BY <4>1, <3>2, <2>1
      <4>3. CASE j < k
        <5>1. j \in 1..(Len(ids) - 1) /\ f[j] = j
          BY <4>3, <1>0, <2>1
        <5> HIDE DEF e, f
        <5> QED  BY <5>1, <4>1, <2>7, <3>0 DEF ToSet
      <4>4. CASE j > k
        <5>1. j - 1 \in 1..(Len(ids) - 1) /\ f[j - 1] = j
          BY <4>4, <1>0, <2>1
        <5> HIDE DEF e, f
        <5> QED  BY <5>1, <4>1, <2>7, <3>0 DEF ToSet
      <4> QED  BY <4>2, <4>3, <4>4, <1>0, <2>1
    <3> QED  BY <3>1, <3>2
  <2>9. e \in Seq(S) /\ DOMAIN e = 1..(Len(ids) - 1)
    BY <2>2, <2>5
  <2> HIDE DEF e, f
  <2>10. /\ f \in [DOMAIN e -> DOMAIN ids]
         /\ \A i \in DOMAIN e : e[i] = ids[f[i]]
         /\ \A i, j \in DOMAIN e : i < j => f[i] < f[j]
    BY <2>6, <2>7, <2>9
  <2>11. \E g \in [DOMAIN e -> DOMAIN ids] :
           /\ \A i \in DOMAIN e : e[i] = ids[g[i]]
           /\ \A i, j \in DOMAIN e : i < j => g[i] < g[j]
    BY <2>10
  <2> QED  BY <2>8, <2>9, <2>11 DEF e
<1> QED  BY <1>1, <1>2

-----------------------------------------------------------------------------
(* Registry: types.                                                         *)

ServiceObject == [service : Services, at : {"base", "whole", "ending", "gone"}]

\* The object that an id has was made, and for this id.
ForItsId ==
  /\ Len(objects) <= MaxObjects
  /\ \A s \in Services : servicemap[s] # None =>
       servicemap[s] \in DOMAIN objects /\ objects[servicemap[s]].service = s

LEMMA ObjectsAre ==
  ASSUME RegistryTypeOK, ForItsId
  PROVE  /\ objects \in Seq(ServiceObject) /\ Len(objects) \in Nat
         /\ DOMAIN objects = 1..Len(objects) /\ DOMAIN objects \subseteq Objects
         /\ \A o \in DOMAIN objects : objects[o] \in ServiceObject
<1>1. objects \in Seq(ServiceObject)
  BY DEF RegistryTypeOK, ServiceObject
<1>2. /\ Len(objects) \in Nat /\ DOMAIN objects = 1..Len(objects)
      /\ \A o \in 1..Len(objects) : objects[o] \in ServiceObject
  BY <1>1, LenProperties, ElementOfSeq
<1>3. DOMAIN objects \subseteq Objects
  BY <1>2, RegistryAssumption DEF ForItsId, Objects
<1> QED  BY <1>1, <1>2, <1>3

LEMMA BecomesIs ==
  ASSUME RegistryTypeOK, ForItsId, NEW o, NEW from,
         NEW to \in {"base", "whole", "ending", "gone"}, Becomes(o, from, to)
  PROVE  /\ objects' \in Seq(ServiceObject) /\ Len(objects') = Len(objects)
         /\ o \in DOMAIN objects /\ objects[o].at = from
         /\ DOMAIN objects' = DOMAIN objects /\ objects'[o].at = to
         /\ \A p \in DOMAIN objects :
              /\ objects'[p].service = objects[p].service
              /\ p # o => objects'[p] = objects[p]
<1> DEFINE e == [objects[o] EXCEPT !.at = to]
<1>1. /\ objects \in Seq(ServiceObject) /\ DOMAIN objects = 1..Len(objects)
      /\ \A p \in DOMAIN objects : objects[p] \in ServiceObject
  BY ObjectsAre
<1>2. o \in DOMAIN objects /\ objects[o].at = from /\ objects' = [objects EXCEPT ![o] = e]
  BY DEF Becomes
<1>3. e \in ServiceObject /\ e.service = objects[o].service /\ e.at = to
  BY <1>1, <1>2 DEF ServiceObject
<1> HIDE DEF e
<1>4. /\ objects' \in Seq(ServiceObject) /\ Len(objects') = Len(objects)
      /\ \A p \in 1..Len(objects) : objects'[p] = IF p = o THEN e ELSE objects[p]
  BY <1>1, <1>2, <1>3, ExceptSeq
<1>5. DOMAIN objects' = DOMAIN objects
  BY <1>2
<1> QED  BY <1>1, <1>2, <1>3, <1>4, <1>5

LEMMA MadeIs ==
  ASSUME RegistryTypeOK, ForItsId, NEW s \in Services,
         objects' = Append(objects, [service |-> s, at |-> "base"]),
         Len(objects) < MaxObjects
  PROVE  /\ objects' \in Seq(ServiceObject) /\ Len(objects') = Len(objects) + 1
         /\ Len(objects') <= MaxObjects
         /\ DOMAIN objects' = 1..(Len(objects) + 1)
         /\ \A p \in DOMAIN objects : p \in DOMAIN objects' /\ objects'[p] = objects[p]
         /\ objects'[Len(objects) + 1] = [service |-> s, at |-> "base"]
<1> DEFINE e == [service |-> s, at |-> "base"]
<1>1. e \in ServiceObject
  BY DEF ServiceObject
<1>2. objects \in Seq(ServiceObject) /\ DOMAIN objects = 1..Len(objects) /\ Len(objects) \in Nat
  BY ObjectsAre
<1> HIDE DEF e
<1>3. /\ objects' \in Seq(ServiceObject) /\ Len(objects') = Len(objects) + 1
      /\ \A p \in 1..Len(objects) : objects'[p] = objects[p]
      /\ objects'[Len(objects) + 1] = e
  BY <1>1, <1>2, AppendProperties DEF e
<1>4. DOMAIN objects' = 1..(Len(objects) + 1)
  BY <1>3, LenProperties
<1>5. Len(objects') <= MaxObjects
  BY <1>2, <1>3, RegistryAssumption
<1> QED  BY <1>2, <1>3, <1>4, <1>5 DEF e

LEMMA RegistryInitTypes == RegistryInit => RegistryTypeOK /\ ForItsId
<1> SUFFICES ASSUME RegistryInit PROVE RegistryTypeOK /\ ForItsId
  OBVIOUS
<1>1. /\ servicexml \in [Devices -> Seq(Ids)] /\ serviceids \in [Devices -> Seq(Ids)]
      /\ objects \in Seq(ServiceObject) /\ Len(objects) = 0
  BY EmptySeq DEF RegistryInit
<1>2. \A s \in Services : servicemap[s] = None
  BY DEF RegistryInit
<1>3. ForItsId
  BY <1>1, <1>2, RegistryAssumption DEF ForItsId
<1> QED  BY <1>1, <1>3 DEF RegistryInit, RegistryTypeOK, ServiceObject

\* Members of a pair of Services.
LEMMA ServiceIs ==
  ASSUME NEW s \in Services
  PROVE  s = <<s[1], s[2]>> /\ s[1] \in Devices /\ s[2] \in Ids
BY RegistryAssumption

LEMMA NoIdTwice ==
  ASSUME RegistryTypeOK, PollsWhatIsCalled, NEW d \in Devices
  PROVE  Injective(serviceids[d])
<1> DEFINE ids == serviceids[d]
<1>1. /\ \A i, j \in DOMAIN ids :
           i < j => servicemap[<<d, ids[i]>>] < servicemap[<<d, ids[j]>>]
      /\ \A id \in ToSet(ids) : <<d, id>> \in Services
  BY DEF PollsWhatIsCalled, Polled
<1>2. /\ Len(ids) \in Nat /\ DOMAIN ids = 1..Len(ids)
  <2>1. ids \in Seq(Ids)
    BY DEF RegistryTypeOK
  <2> QED  BY <2>1, LenProperties
<1> HIDE DEF ids
<1> SUFFICES ASSUME NEW i \in DOMAIN ids, NEW j \in DOMAIN ids, ids[i] = ids[j], i # j
             PROVE  FALSE
  BY DEF Injective, ids
<1>3. ids[i] \in ToSet(ids)
  BY DEF ToSet
<1>4. servicemap[<<d, ids[i]>>] \in Int
  BY <1>1, <1>3 DEF RegistryTypeOK, Objects, None
<1>5. i < j \/ j < i
  BY <1>2
<1> QED  BY <1>1, <1>4, <1>5

LEMMA RegistryTypes ==
  ASSUME RegistryTypeOK, ForItsId, PollsWhatIsCalled, [RegistryNext]_registryVars
  PROVE  RegistryTypeOK' /\ ForItsId'
<1> USE DEF None
<1>0. /\ objects \in Seq(ServiceObject) /\ Len(objects) \in Nat
      /\ DOMAIN objects = 1..Len(objects) /\ DOMAIN objects \subseteq Objects
      /\ \A o \in DOMAIN objects : objects[o] \in ServiceObject
  BY ObjectsAre
<1>1. ASSUME NEW d \in Devices, NewDevice(d)
      PROVE  RegistryTypeOK' /\ ForItsId'
  <2>1. [servicexml EXCEPT ![d] = <<>>] \in [Devices -> Seq(Ids)]
    BY EmptySeq DEF RegistryTypeOK
  <2> QED
    BY <1>1, <2>1 DEF NewDevice, serviceVars, RegistryTypeOK, ForItsId
<1>2. ASSUME NEW d \in Devices, DeleteDevice(d)
      PROVE  RegistryTypeOK' /\ ForItsId'
  BY <1>2 DEF DeleteDevice, RegistryTypeOK, ForItsId
<1>3. ASSUME NEW d \in Devices, Start(d)
      PROVE  RegistryTypeOK' /\ ForItsId'
  BY <1>3 DEF Start, serviceVars, RegistryTypeOK, ForItsId
<1>4. ASSUME NEW s \in Services, NEW p \in BOOLEAN, NEW x \in BOOLEAN, AddService(s, p, x)
      PROVE  RegistryTypeOK' /\ ForItsId'
  <2>1. s[1] \in Devices /\ s[2] \in Ids
    BY ServiceIs
  <2>2. /\ objects' \in Seq(ServiceObject) /\ Len(objects') = Len(objects) + 1
        /\ Len(objects') <= MaxObjects
        /\ DOMAIN objects' = 1..(Len(objects) + 1)
        /\ \A q \in DOMAIN objects : q \in DOMAIN objects' /\ objects'[q] = objects[q]
        /\ objects'[Len(objects) + 1] = [service |-> s, at |-> "base"]
    BY <1>4, MadeIs DEF AddService
  <2>3. /\ propsxml' \subseteq Devices
        /\ UNCHANGED <<devices, embedxml, calls, described, advertised, request>>
    BY <1>4, <2>1 DEF AddService, RegistryTypeOK
  <2>4. CASE UNCHANGED <<servicemap, serviceids, servicexml, files, unread>>
    BY <2>2, <2>3, <2>4, <1>0 DEF RegistryTypeOK, ForItsId, ServiceObject
  <2>5. CASE /\ servicemap' = [servicemap EXCEPT ![s] = Len(objects) + 1]
             /\ serviceids' = [serviceids EXCEPT ![s[1]] = Reordered(@, s[2])]
             /\ servicexml' = [servicexml EXCEPT ![s[1]] = Append(@, s[2])]
             /\ files' = IF x THEN files \cup {s} ELSE files
             /\ unread' = IF x THEN unread ELSE unread \cup {s}
    <3>1. Reordered(serviceids[s[1]], s[2]) \in Seq(Ids)
      <4>1. serviceids[s[1]] \in Seq(Ids)
        BY <2>1 DEF RegistryTypeOK
      <4>2. Erased(serviceids[s[1]], s[2]) \in Seq(Ids)
        BY <4>1, <2>1, NoIdTwice, ErasedIds
      <4> QED  BY <4>2, <2>1, AppendProperties DEF Reordered
    <3>2. Append(servicexml[s[1]], s[2]) \in Seq(Ids)
      <4>1. servicexml[s[1]] \in Seq(Ids)
        BY <2>1 DEF RegistryTypeOK
      <4> QED  BY <4>1, <2>1, AppendProperties
    <3>3. Len(objects) + 1 \in Objects
      BY <2>2, <1>0 DEF Objects
    <3>4. RegistryTypeOK'
      BY <2>2, <2>3, <2>5, <3>1, <3>2, <3>3 DEF RegistryTypeOK, ServiceObject
    <3>5. ForItsId'
      <4> SUFFICES ASSUME NEW t \in Services, servicemap'[t] # 0
                   PROVE  /\ servicemap'[t] \in DOMAIN objects'
                          /\ objects'[servicemap'[t]].service = t
        BY <2>2 DEF ForItsId
      <4>1. CASE t = s
        BY <4>1, <2>2, <2>5, <1>0 DEF RegistryTypeOK
      <4>2. CASE t # s
        BY <4>2, <2>2, <2>5 DEF RegistryTypeOK, ForItsId
      <4> QED  BY <4>1, <4>2
    <3> QED  BY <3>4, <3>5
  <2> QED  BY <1>4, <2>4, <2>5 DEF AddService
<1>5. ASSUME NEW o \in Objects, AddActionMapping(o)
      PROVE  RegistryTypeOK' /\ ForItsId'
  <2>1. /\ objects' \in Seq(ServiceObject) /\ Len(objects') = Len(objects)
        /\ DOMAIN objects' = DOMAIN objects
        /\ \A p \in DOMAIN objects : objects'[p].service = objects[p].service
    BY <1>5, BecomesIs DEF AddActionMapping
  <2>2. /\ UNCHANGED <<servicemap, serviceids, files, unread, request>>
        /\ UNCHANGED <<devices, embedxml, propsxml, servicexml, described, advertised>>
        /\ calls' = [calls EXCEPT ![objects[o].service] = o]
    BY <1>5 DEF AddActionMapping, hostVars
  <2>3. calls' \in [Services -> {0} \cup Objects]
    BY <2>2 DEF RegistryTypeOK
  <2> QED  BY <2>1, <2>2, <2>3 DEF RegistryTypeOK, ForItsId, ServiceObject
<1>6. ASSUME NEW o \in Objects, EndService(o)
      PROVE  RegistryTypeOK' /\ ForItsId'
  <2>1. /\ objects' \in Seq(ServiceObject) /\ Len(objects') = Len(objects)
        /\ DOMAIN objects' = DOMAIN objects
        /\ \A p \in DOMAIN objects : objects'[p].service = objects[p].service
    BY <1>6, BecomesIs DEF EndService
  <2>2. /\ UNCHANGED <<servicemap, serviceids, calls, files, unread, request>>
        /\ UNCHANGED <<devices, embedxml, propsxml, servicexml, described, advertised>>
    BY <1>6 DEF EndService, hostVars
  <2> QED  BY <2>1, <2>2 DEF RegistryTypeOK, ForItsId, ServiceObject
<1>7. ASSUME NEW o \in Objects, ForgetService(o)
      PROVE  RegistryTypeOK' /\ ForItsId'
  <2>1. /\ objects' \in Seq(ServiceObject) /\ Len(objects') = Len(objects)
        /\ DOMAIN objects' = DOMAIN objects /\ o \in DOMAIN objects
        /\ \A p \in DOMAIN objects : objects'[p].service = objects[p].service
    BY <1>7, BecomesIs DEF ForgetService
  <2>2. /\ UNCHANGED <<calls, files, unread, request>>
        /\ UNCHANGED <<devices, embedxml, propsxml, servicexml, described, advertised>>
        /\ servicemap' = [servicemap EXCEPT ![objects[o].service] = 0]
        /\ serviceids' = [serviceids EXCEPT ![objects[o].service[1]] =
                            Erased(@, objects[o].service[2])]
    BY <1>7 DEF ForgetService, hostVars
  <2>3. objects[o].service \in Services
    BY <2>1, <1>0 DEF ServiceObject
  <2>4. objects[o].service[1] \in Devices /\ objects[o].service[2] \in Ids
    BY <2>3, ServiceIs
  <2>5. serviceids' \in [Devices -> Seq(Ids)]
    <3>1. serviceids[objects[o].service[1]] \in Seq(Ids)
      BY <2>4 DEF RegistryTypeOK
    <3>2. Erased(serviceids[objects[o].service[1]], objects[o].service[2]) \in Seq(Ids)
      BY <3>1, <2>4, NoIdTwice, ErasedIds
    <3> QED  BY <3>2, <2>2 DEF RegistryTypeOK
  <2>6. RegistryTypeOK'
    BY <2>1, <2>2, <2>5 DEF RegistryTypeOK, ServiceObject
  <2>7. ForItsId'
    BY <2>1, <2>2, <2>3 DEF RegistryTypeOK, ForItsId
  <2> QED  BY <2>6, <2>7
<1>8. ASSUME NEW s \in Requested, SCallBack(s)
      PROVE  RegistryTypeOK' /\ ForItsId'
  BY <1>8, RegistryAssumption DEF SCallBack, Request, hostVars, serviceVars, RegistryTypeOK, ForItsId
<1>9. CASE FindService
  <2>1. /\ UNCHANGED <<devices, embedxml, propsxml, servicexml, described, advertised>>
        /\ UNCHANGED <<servicemap, serviceids, calls, objects, files, unread>>
    BY <1>9 DEF FindService, Request, hostVars, serviceVars
  <2>2. request.service \in Services
    BY <1>9 DEF FindService, RegistryTypeOK, Idle
  <2>3. servicemap[request.service] = 0 \/ servicemap[request.service] \in Objects
    BY <2>2 DEF RegistryTypeOK
  <2>4. \/ request' = Idle
        \/ request' \in [at : {"service"}, service : Services, object : Objects]
    BY <1>9, <2>2, <2>3 DEF FindService, Request
  <2> QED  BY <2>1, <2>4 DEF RegistryTypeOK, ForItsId
<1>10. CASE CallAction
  BY <1>10 DEF CallAction, Request, hostVars, serviceVars, RegistryTypeOK, ForItsId
<1>11. CASE UNCHANGED registryVars
  BY <1>11 DEF registryVars, RegistryTypeOK, ForItsId
<1> QED
  BY <1>1, <1>2, <1>3, <1>4, <1>5, <1>6, <1>7, <1>8, <1>9, <1>10, <1>11 DEF RegistryNext

-----------------------------------------------------------------------------
(* Registry: the map, the vector of ids and the objects agree.              *)

\* PollsWhatIsCalled, for a device.
PolledAreCalled(d) ==
  Polled(d) = {id \in Ids : <<d, id>> \in Services /\ servicemap[<<d, id>>] # None}
InOrder(d) ==
  \A i, j \in DOMAIN serviceids[d] :
    i < j => servicemap[<<d, serviceids[d][i]>>] < servicemap[<<d, serviceids[d][j]>>]
PolledAlive(d) == \A id \in Polled(d) : Alive(servicemap[<<d, id>>])
Agrees(d) == PolledAreCalled(d) /\ InOrder(d) /\ PolledAlive(d)

LEMMA AgreeIs == PollsWhatIsCalled <=> \A d \in Devices : Agrees(d)
BY DEF PollsWhatIsCalled, Agrees, PolledAreCalled, InOrder, PolledAlive

\* What the map has under a polled id is an object, made earlier than the next.
LEMMA PolledIs ==
  ASSUME RegistryTypeOK, ForItsId, NEW d \in Devices, Agrees(d), NEW id \in Polled(d)
  PROVE  /\ <<d, id>> \in Services /\ id \in Ids
         /\ servicemap[<<d, id>>] \in DOMAIN objects
         /\ servicemap[<<d, id>>] \in 1..Len(objects)
<1>1. <<d, id>> \in Services /\ id \in Ids /\ servicemap[<<d, id>>] # None
  BY DEF Agrees, PolledAreCalled
<1>2. DOMAIN objects = 1..Len(objects)
  BY ObjectsAre
<1> QED  BY <1>1, <1>2 DEF ForItsId

\* A device of which nothing moves still agrees.
LEMMA AgreesAsBefore ==
  ASSUME RegistryTypeOK, ForItsId, NEW d \in Devices, Agrees(d),
         serviceids'[d] = serviceids[d],
         \A id : <<d, id>> \in Services => servicemap'[<<d, id>>] = servicemap[<<d, id>>],
         \A o \in DOMAIN objects : objects[o].service[1] = d /\ Alive(o) => Alive(o)'
  PROVE  Agrees(d)'
<1>1. Polled(d)' = Polled(d)
  BY DEF Polled
<1>2. ASSUME NEW id \in Polled(d)
      PROVE  /\ servicemap'[<<d, id>>] = servicemap[<<d, id>>]
             /\ objects[servicemap[<<d, id>>]].service = <<d, id>>
             /\ servicemap[<<d, id>>] \in DOMAIN objects
  <2>1. /\ <<d, id>> \in Services /\ servicemap[<<d, id>>] \in DOMAIN objects
        /\ servicemap[<<d, id>>] # None
    BY PolledIs DEF Agrees, PolledAreCalled
  <2> QED  BY <2>1 DEF ForItsId
<1>3. PolledAreCalled(d)'
  BY <1>1 DEF PolledAreCalled, Agrees
<1>4. InOrder(d)'
  <2>1. \A i \in DOMAIN serviceids[d] : serviceids[d][i] \in Polled(d)
    BY DEF Polled, ToSet
  <2> QED  BY <2>1, <1>2 DEF InOrder, Agrees
<1>5. PolledAlive(d)'
  <2> SUFFICES ASSUME NEW id \in Polled(d) PROVE Alive(servicemap[<<d, id>>])'
    BY <1>1, <1>2 DEF PolledAlive
  <2>1. Alive(servicemap[<<d, id>>])
    BY DEF Agrees, PolledAlive
  <2>2. objects[servicemap[<<d, id>>]].service[1] = d
    BY <1>2
  <2>3. Alive(servicemap[<<d, id>>])' <=> objects'[servicemap'[<<d, id>>]].at # "gone"
    BY DEF Alive
  <2>4. objects'[servicemap[<<d, id>>]].at # "gone"
    BY <1>2, <2>1, <2>2 DEF Alive
  <2> QED  BY <1>2, <2>3, <2>4
<1> QED  BY <1>3, <1>4, <1>5 DEF Agrees

\* addService(): the id goes to the end with the newest object.
LEMMA AddedAgrees ==
  ASSUME RegistryTypeOK, ForItsId, NEW s \in Services, Agrees(s[1]),
         Injective(serviceids[s[1]]),
         Len(objects) < MaxObjects,
         objects' = Append(objects, [service |-> s, at |-> "base"]),
         servicemap' = [servicemap EXCEPT ![s] = Len(objects) + 1],
         serviceids'[s[1]] = Reordered(serviceids[s[1]], s[2])
  PROVE  Agrees(s[1])'
<1> DEFINE d == s[1]
           id == s[2]
           ids == serviceids[d]
           e == Erased(ids, id)
<1>1. s = <<d, id>> /\ d \in Devices /\ id \in Ids
  BY ServiceIs
<1>2. Agrees(d) /\ ids \in Seq(Ids) /\ Injective(ids) /\ serviceids'[d] = Append(e, id)
  BY <1>1 DEF RegistryTypeOK, Reordered
<1>3. /\ Len(objects) \in Nat /\ DOMAIN objects = 1..Len(objects)
      /\ \A p \in DOMAIN objects : objects'[p] = objects[p]
      /\ objects'[Len(objects) + 1] = [service |-> s, at |-> "base"]
  BY ObjectsAre, MadeIs
<1>4. /\ servicemap'[s] = Len(objects) + 1
      /\ \A t \in Services : t # s => servicemap'[t] = servicemap[t]
  BY DEF RegistryTypeOK
<1> HIDE DEF d, id
<1>5. PICK f \in [DOMAIN e -> DOMAIN ids] :
        /\ \A i \in DOMAIN e : e[i] = ids[f[i]]
        /\ \A i, j \in DOMAIN e : i < j => f[i] < f[j]
  BY <1>1, <1>2, ErasedIds
<1>6. e \in Seq(Ids) /\ ToSet(e) = Polled(d) \ {id}
  BY <1>1, <1>2, ErasedIds DEF Polled
<1>7. /\ DOMAIN e = 1..Len(e) /\ Len(e) \in Nat
      /\ DOMAIN Append(e, id) = 1..(Len(e) + 1)
      /\ \A i \in DOMAIN e : Append(e, id)[i] = e[i]
      /\ Append(e, id)[Len(e) + 1] = id
      /\ ToSet(Append(e, id)) = ToSet(e) \cup {id}
  <2> HIDE DEF e
  <2> QED  BY <1>1, <1>6, AppendedIds
<1>8. Polled(d)' = Polled(d) \cup {id}
  BY <1>2, <1>6, <1>7 DEF Polled
<1>9. ASSUME NEW x \in Polled(d), x # id
      PROVE  /\ <<d, x>> \in Services /\ servicemap'[<<d, x>>] = servicemap[<<d, x>>]
             /\ servicemap[<<d, x>>] \in 1..Len(objects)
  <2>1. <<d, x>> \in Services /\ servicemap[<<d, x>>] \in 1..Len(objects)
    BY <1>1, <1>2, PolledIs
  <2>2. <<d, x>> # s
    BY <1>1, <1>9
  <2> QED  BY <2>1, <2>2, <1>4
<1>10. PolledAreCalled(d)'
  <2>1. ASSUME NEW x \in Ids
        PROVE  x \in Polled(d)' <=> <<d, x>> \in Services /\ servicemap'[<<d, x>>] # None
    <3>1. CASE x = id
      BY <3>1, <1>1, <1>3, <1>4, <1>8 DEF None
    <3>2. CASE x # id
      <4>1. x \in Polled(d)' <=> x \in Polled(d)
        BY <3>2, <1>8
      <4>2. x \in Polled(d) <=> <<d, x>> \in Services /\ servicemap[<<d, x>>] # None
        BY <1>2 DEF Agrees, PolledAreCalled
      <4>3. <<d, x>> \in Services => servicemap'[<<d, x>>] = servicemap[<<d, x>>]
        BY <3>2, <1>1, <1>4
      <4> QED  BY <4>1, <4>2, <4>3
    <3> QED  BY <3>1, <3>2
  <2>2. Polled(d)' \subseteq Ids
    BY <1>1, <1>2, <1>8 DEF Agrees, PolledAreCalled
  <2>3. PolledAreCalled(d)' <=>
          Polled(d)' = {x \in Ids : <<d, x>> \in Services /\ servicemap'[<<d, x>>] # None}
    BY DEF PolledAreCalled, d
  <2> QED  BY <2>1, <2>2, <2>3
<1>11. InOrder(d)'
  <2> DEFINE new == Append(e, id)
  <2> HIDE DEF new
  <2>0. serviceids'[d] = new
    BY <1>2 DEF new
  <2>1. ASSUME NEW i \in DOMAIN e
        PROVE  /\ new[i] = ids[f[i]] /\ f[i] \in DOMAIN ids
               /\ new[i] \in Polled(d) /\ new[i] # id
    <3>1. new[i] = e[i] /\ e[i] \in ToSet(e)
      BY <1>7 DEF new, ToSet
    <3> QED  BY <3>1, <1>5, <1>6
  <2> HIDE DEF e, ids
  <2>2. ASSUME NEW i \in DOMAIN new, NEW j \in DOMAIN new, i < j
        PROVE  servicemap'[<<d, new[i]>>] < servicemap'[<<d, new[j]>>]
    <3>1. i \in DOMAIN e
      BY <2>2, <1>7 DEF new
    <3>2. CASE j \in DOMAIN e
      <4>1. f[i] < f[j]
        BY <3>1, <3>2, <2>2, <1>5
      <4>2. servicemap[<<d, ids[f[i]]>>] < servicemap[<<d, ids[f[j]]>>]
        BY <4>1, <2>1, <3>1, <3>2, <1>2 DEF Agrees, InOrder, ids
      <4>3. /\ servicemap'[<<d, new[i]>>] = servicemap[<<d, ids[f[i]]>>]
            /\ servicemap'[<<d, new[j]>>] = servicemap[<<d, ids[f[j]]>>]
        BY <2>1, <3>1, <3>2, <1>9
      <4> QED  BY <4>2, <4>3
    <3>3. CASE j = Len(e) + 1
      <4>1. servicemap'[<<d, new[j]>>] = Len(objects) + 1
        BY <3>3, <1>1, <1>4, <1>7 DEF new
      <4>2. servicemap'[<<d, new[i]>>] \in 1..Len(objects)
        BY <2>1, <3>1, <1>9
      <4> QED  BY <4>1, <4>2, <1>3
    <3>4. j \in 1..(Len(e) + 1) /\ Len(e) \in Nat /\ DOMAIN e = 1..Len(e)
      BY <1>7 DEF new
    <3>5. j \in DOMAIN e \/ j = Len(e) + 1
      BY <3>4
    <3> QED  BY <3>2, <3>3, <3>5
  <2>3. InOrder(d)' <=> \A i, j \in DOMAIN serviceids'[d] :
          i < j => servicemap'[<<d, serviceids'[d][i]>>] < servicemap'[<<d, serviceids'[d][j]>>]
    BY DEF InOrder, d
  <2> QED  BY <2>0, <2>2, <2>3
<1>12. PolledAlive(d)'
  <2> SUFFICES ASSUME NEW x \in Polled(d) \cup {id}
               PROVE  objects'[servicemap'[<<d, x>>]].at # "gone"
    BY <1>8 DEF PolledAlive, Alive, d
  <2>1. CASE x = id
    BY <2>1, <1>1, <1>3, <1>4
  <2>2. CASE x # id
    <3>1. x \in Polled(d) /\ objects[servicemap[<<d, x>>]].at # "gone"
      BY <2>2, <1>2 DEF Agrees, PolledAlive, Alive
    <3> QED  BY <3>1, <2>2, <1>3, <1>9
  <2> QED  BY <2>1, <2>2
<1> QED  BY <1>10, <1>11, <1>12 DEF Agrees, d

\* forgetService(): the id goes from both.
LEMMA ForgottenAgrees ==
  ASSUME RegistryTypeOK, ForItsId, NEW o \in Objects, ForgetService(o),
         Agrees(objects[o].service[1]), Injective(serviceids[objects[o].service[1]])
  PROVE  Agrees(objects[o].service[1])'
<1> DEFINE s == objects[o].service
           d == s[1]
           id == s[2]
           ids == serviceids[d]
           e == Erased(ids, id)
<1>0. /\ o \in DOMAIN objects /\ DOMAIN objects' = DOMAIN objects
      /\ objects'[o].service = s
      /\ \A p \in DOMAIN objects : p # o => objects'[p] = objects[p]
  BY BecomesIs DEF ForgetService
<1>1. s \in Services /\ s = <<d, id>> /\ d \in Devices /\ id \in Ids
  <2>1. s \in Services
    BY <1>0, ObjectsAre DEF ServiceObject
  <2> QED  BY <2>1, ServiceIs
<1>2. Agrees(d) /\ ids \in Seq(Ids) /\ Injective(ids) /\ serviceids'[d] = e
  BY <1>1 DEF RegistryTypeOK, ForgetService
<1>3. /\ servicemap'[s] = None
      /\ \A t \in Services : t # s => servicemap'[t] = servicemap[t]
  BY <1>1 DEF RegistryTypeOK, ForgetService
<1>4. objects'[o].service[1] = d
  BY <1>0
<1> HIDE DEF d, id
<1>5. PICK f \in [DOMAIN e -> DOMAIN ids] :
        /\ \A i \in DOMAIN e : e[i] = ids[f[i]]
        /\ \A i, j \in DOMAIN e : i < j => f[i] < f[j]
  BY <1>1, <1>2, ErasedIds
<1>6. ToSet(e) = Polled(d) \ {id}
  BY <1>1, <1>2, ErasedIds DEF Polled
<1>7. ToSet(serviceids'[d]) = Polled(d) \ {id}
  BY <1>2, <1>6
<1>8. ASSUME NEW x \in Polled(d), x # id
      PROVE  /\ <<d, x>> \in Services /\ servicemap'[<<d, x>>] = servicemap[<<d, x>>]
             /\ servicemap[<<d, x>>] \in DOMAIN objects /\ servicemap[<<d, x>>] # o
  <2>1. /\ <<d, x>> \in Services /\ servicemap[<<d, x>>] \in DOMAIN objects
        /\ servicemap[<<d, x>>] # None
    BY <1>1, <1>2, PolledIs DEF Agrees, PolledAreCalled
  <2>2. <<d, x>> # s
    BY <1>1, <1>8
  <2>3. objects[servicemap[<<d, x>>]].service # s
    BY <2>1, <2>2 DEF ForItsId
  <2> QED  BY <2>1, <2>2, <2>3, <1>3
<1>9. \A x \in Ids : x \in Polled(d) \ {id}
        <=> <<d, x>> \in Services /\ servicemap'[<<d, x>>] # None
  <2> SUFFICES ASSUME NEW x \in Ids
               PROVE  x \in Polled(d) \ {id}
                        <=> <<d, x>> \in Services /\ servicemap'[<<d, x>>] # None
    OBVIOUS
  <2>1. CASE x = id
    BY <2>1, <1>1, <1>3
  <2>2. CASE x # id
    <3>1. x \in Polled(d) <=> <<d, x>> \in Services /\ servicemap[<<d, x>>] # None
      BY <1>2 DEF Agrees, PolledAreCalled
    <3>2. <<d, x>> \in Services => servicemap'[<<d, x>>] = servicemap[<<d, x>>]
      BY <2>2, <1>1, <1>3
    <3> QED  BY <3>1, <3>2, <2>2
  <2> QED  BY <2>1, <2>2
<1>10. Polled(d) \subseteq Ids
  BY <1>2 DEF Agrees, PolledAreCalled
<1>11. ASSUME NEW i \in DOMAIN e, NEW j \in DOMAIN e, i < j
       PROVE  servicemap'[<<d, e[i]>>] < servicemap'[<<d, e[j]>>]
  <2>1. f[i] < f[j] /\ e[i] = ids[f[i]] /\ e[j] = ids[f[j]]
        /\ f[i] \in DOMAIN ids /\ f[j] \in DOMAIN ids
    BY <1>11, <1>5
  <2>2. servicemap[<<d, e[i]>>] < servicemap[<<d, e[j]>>]
    BY <2>1, <1>2 DEF Agrees, InOrder
  <2>3. e[i] \in Polled(d) \ {id} /\ e[j] \in Polled(d) \ {id}
    BY <1>6 DEF ToSet
  <2> QED  BY <2>2, <2>3, <1>8
<1>12. \A x \in Polled(d) \ {id} : objects'[servicemap'[<<d, x>>]].at # "gone"
  BY <1>0, <1>2, <1>8 DEF Agrees, PolledAlive, Alive
<1>13. ASSUME NEW c, c = d
       PROVE  Agrees(c)'
  <2>1. PolledAreCalled(c)'
    BY <1>7, <1>9, <1>10, <1>13 DEF PolledAreCalled, Polled
  <2>2. InOrder(c)'
    BY <1>2, <1>11, <1>13 DEF InOrder
  <2>3. PolledAlive(c)'
    BY <1>7, <1>12, <1>13 DEF PolledAlive, Polled, Alive
  <2> QED  BY <2>1, <2>2, <2>3 DEF Agrees
<1> QED  BY <1>4, <1>13

\* Nothing is polled on a device that is not there.
NoneLeft == \A d \in Devices \ devices : Polled(d) = {}

\* What is in the description of a device has its definition read, or known to
\* be unreadable.
Defined ==
  \A s \in Services : s[2] \in ToSet(servicexml[s[1]]) => s \in files \cup unread

RegistryInv ==
  RegistryTypeOK /\ ForItsId /\ PollsWhatIsCalled /\ NoneLeft /\ DescribesWhatIsPolled /\ Defined

LEMMA EmptyVector == ToSet(<<>>) = {}
BY DEF ToSet

LEMMA RegistryInitIsSound == RegistryInit => RegistryInv
<1> SUFFICES ASSUME RegistryInit PROVE RegistryInv
  OBVIOUS
<1>1. RegistryTypeOK /\ ForItsId
  BY RegistryInitTypes
<1>2. \A d \in Devices : Polled(d) = {} /\ DOMAIN serviceids[d] = {}
  BY EmptyVector DEF RegistryInit, Polled
<1>3. PollsWhatIsCalled
  <2>1. \A s \in Services : servicemap[s] = None
    BY DEF RegistryInit
  <2> QED  BY <1>2, <2>1, AgreeIs DEF Agrees, PolledAreCalled, InOrder, PolledAlive
<1>4. DescribesWhatIsPolled
  BY RegistryAssumption DEF RegistryInit, DescribesWhatIsPolled
<1>5. Defined
  <2>1. \A s \in Services : servicexml[s[1]] = <<>>
    BY ServiceIs DEF RegistryInit
  <2> QED  BY <2>1, EmptyVector DEF Defined
<1> QED  BY <1>1, <1>2, <1>3, <1>4, <1>5 DEF RegistryInv, NoneLeft

LEMMA AgreementIsPreserved ==
  ASSUME RegistryInv, [RegistryNext]_registryVars
  PROVE  PollsWhatIsCalled' /\ NoneLeft'
<1>0. /\ RegistryTypeOK /\ ForItsId /\ NoneLeft
      /\ \A d \in Devices : Agrees(d) /\ Injective(serviceids[d])
  BY AgreeIs, NoIdTwice DEF RegistryInv
<1>1. ASSUME UNCHANGED <<serviceids, servicemap, objects>>, devices \subseteq devices'
      PROVE  PollsWhatIsCalled' /\ NoneLeft'
  BY <1>0, <1>1 DEF RegistryInv, PollsWhatIsCalled, NoneLeft, Polled, Alive
<1>2. ASSUME NEW d \in Devices, DeleteDevice(d)
      PROVE  PollsWhatIsCalled' /\ NoneLeft'
  <2>1. UNCHANGED <<serviceids, servicemap, objects>> /\ devices' = devices \ {d}
    BY <1>2 DEF DeleteDevice
  <2>2. PollsWhatIsCalled'
    BY <2>1 DEF RegistryInv, PollsWhatIsCalled, Polled, Alive
  <2>3. Polled(d) = {}
    <3> SUFFICES ASSUME NEW id \in Polled(d) PROVE FALSE
      OBVIOUS
    <3>1. /\ servicemap[<<d, id>>] \in DOMAIN objects
          /\ <<d, id>> \in Services /\ servicemap[<<d, id>>] # None
          /\ Alive(servicemap[<<d, id>>])
      BY <1>0, PolledIs DEF Agrees, PolledAreCalled, PolledAlive
    <3>2. objects[servicemap[<<d, id>>]].service[1] = d
      BY <1>0, <3>1 DEF ForItsId
    <3> QED  BY <1>2, <3>1, <3>2 DEF DeleteDevice
  <2>4. NoneLeft'
    BY <1>0, <2>1, <2>3 DEF NoneLeft, Polled
  <2> QED  BY <2>2, <2>4
<1>3. ASSUME NEW s \in Services, NEW p \in BOOLEAN, NEW x \in BOOLEAN, AddService(s, p, x)
      PROVE  PollsWhatIsCalled' /\ NoneLeft'
  <2>1. /\ s[1] \in Devices /\ s[1] \in devices /\ devices' = devices
        /\ Len(objects) < MaxObjects
        /\ objects' = Append(objects, [service |-> s, at |-> "base"])
    BY <1>3, ServiceIs DEF AddService
  <2>2. /\ Len(objects) \in Nat /\ DOMAIN objects = 1..Len(objects)
        /\ \A q \in DOMAIN objects : objects'[q] = objects[q]
    BY <1>0, <2>1, ObjectsAre, MadeIs
  <2>3. CASE UNCHANGED <<servicemap, serviceids>>
    <3>1. \A d \in Devices : Agrees(d)'
      <4> SUFFICES ASSUME NEW d \in Devices PROVE Agrees(d)'
        OBVIOUS
      <4>1. \A o \in DOMAIN objects : Alive(o) => Alive(o)'
        BY <2>2 DEF Alive
      <4> QED  BY <4>1, <1>0, <2>3, AgreesAsBefore
    <3>2. NoneLeft'
      BY <1>0, <2>1, <2>3 DEF NoneLeft, Polled
    <3> QED  BY <3>1, <3>2, AgreeIs DEF PollsWhatIsCalled, Agrees, PolledAreCalled, InOrder, PolledAlive
  <2>4. CASE /\ servicemap' = [servicemap EXCEPT ![s] = Len(objects) + 1]
             /\ serviceids' = [serviceids EXCEPT ![s[1]] = Reordered(@, s[2])]
    <3>1. ASSUME NEW d \in Devices
          PROVE  Agrees(d)'
      <4>1. CASE d = s[1]
        <5>1. serviceids'[s[1]] = Reordered(serviceids[s[1]], s[2])
          BY <1>0, <2>1, <2>4 DEF RegistryTypeOK
        <5>2. Agrees(s[1])'
          BY <5>1, <1>0, <2>1, <2>4, AddedAgrees
        <5> QED  BY <5>2, <4>1
      <4>2. CASE d # s[1]
        <5>1. serviceids'[d] = serviceids[d]
          BY <4>2, <1>0, <2>4 DEF RegistryTypeOK
        <5>2. \A id : <<d, id>> \in Services => servicemap'[<<d, id>>] = servicemap[<<d, id>>]
          BY <4>2, <1>0, <2>4 DEF RegistryTypeOK
        <5>3. \A o \in DOMAIN objects : Alive(o) => Alive(o)'
          BY <2>2 DEF Alive
        <5> QED  BY <5>1, <5>2, <5>3, <1>0, AgreesAsBefore
      <4> QED  BY <4>1, <4>2
    <3>2. \A d \in Devices \ devices' : Polled(d)' = {}
      BY <1>0, <2>1, <2>4 DEF NoneLeft, Polled, RegistryTypeOK
    <3> QED  BY <3>1, <3>2 DEF NoneLeft, PollsWhatIsCalled, Agrees, PolledAreCalled, InOrder, PolledAlive
  <2> QED  BY <1>3, <2>3, <2>4 DEF AddService
<1>4. ASSUME NEW o \in Objects, NEW from, NEW to \in {"whole", "ending"},
             Becomes(o, from, to), UNCHANGED <<servicemap, serviceids, devices>>
      PROVE  PollsWhatIsCalled' /\ NoneLeft'
  <2>1. \A p \in DOMAIN objects : Alive(p) => Alive(p)'
    BY <1>0, <1>4, BecomesIs DEF Alive
  <2>2. \A d \in Devices : Agrees(d)'
    <3> SUFFICES ASSUME NEW d \in Devices PROVE Agrees(d)'
      OBVIOUS
    <3> QED  BY <2>1, <1>0, <1>4, AgreesAsBefore
  <2>3. NoneLeft'
    BY <1>0, <1>4 DEF NoneLeft, Polled
  <2> QED  BY <2>2, <2>3 DEF PollsWhatIsCalled, Agrees, PolledAreCalled, InOrder, PolledAlive
<1>5. ASSUME NEW o \in Objects, ForgetService(o)
      PROVE  PollsWhatIsCalled' /\ NoneLeft'
  <2> DEFINE s == objects[o].service
  <2>1. /\ o \in DOMAIN objects
        /\ \A p \in DOMAIN objects : p # o => objects'[p] = objects[p]
    BY <1>0, <1>5, BecomesIs DEF ForgetService
  <2>2. s \in Services /\ s[1] \in Devices /\ s[2] \in Ids
    <3>1. s \in Services
      BY <1>0, <2>1, ObjectsAre DEF ServiceObject
    <3> HIDE DEF s
    <3> QED  BY <3>1, ServiceIs
  <2>3. /\ servicemap' = [servicemap EXCEPT ![s] = None]
        /\ serviceids' = [serviceids EXCEPT ![s[1]] = Erased(@, s[2])]
        /\ devices' = devices
    BY <1>5 DEF ForgetService, hostVars
  <2>4. Agrees(objects[o].service[1])'
    BY <1>0, <1>5, <2>2, ForgottenAgrees
  <2>5. ASSUME NEW d \in Devices, d # s[1]
        PROVE  Agrees(d)'
    <3>1. serviceids'[d] = serviceids[d]
      BY <2>5, <1>0, <2>3 DEF RegistryTypeOK
    <3>2. \A id : <<d, id>> \in Services => servicemap'[<<d, id>>] = servicemap[<<d, id>>]
      BY <2>5, <1>0, <2>3 DEF RegistryTypeOK
    <3>3. \A p \in DOMAIN objects : objects[p].service[1] = d /\ Alive(p) => Alive(p)'
      BY <2>1, <2>5 DEF Alive
    <3> QED  BY <3>1, <3>2, <3>3, <1>0, AgreesAsBefore
  <2>6. \A d \in Devices : Agrees(d)'
    <3>1. objects'[o].service = s
      BY <1>0, <1>5, BecomesIs DEF ForgetService
    <3>2. ASSUME NEW d \in Devices, d = s[1]
          PROVE  Agrees(d)'
      BY <2>4, <3>1, <3>2 DEF Agrees, PolledAreCalled, InOrder, PolledAlive, Polled, Alive
    <3> QED  BY <3>2, <2>5
  <2>7. NoneLeft'
    <3> SUFFICES ASSUME NEW d \in Devices \ devices' PROVE Polled(d)' = {}
      BY DEF NoneLeft
    <3>1. Polled(d) = {}
      BY <1>0, <2>3 DEF NoneLeft
    <3>2. CASE d # s[1]
      BY <3>1, <3>2, <1>0, <2>3 DEF Polled, RegistryTypeOK
    <3>3. CASE d = s[1]
      <4>1. serviceids[d] \in Seq(Ids) /\ serviceids'[d] = Erased(serviceids[d], s[2])
        BY <3>3, <1>0, <2>3 DEF RegistryTypeOK
      <4>2. ToSet(Erased(serviceids[d], s[2])) = ToSet(serviceids[d]) \ {s[2]}
        BY <4>1, <1>0, <2>2, ErasedIds
      <4> QED  BY <4>1, <4>2, <3>1 DEF Polled
    <3> QED  BY <3>2, <3>3
  <2> QED  BY <2>6, <2>7 DEF PollsWhatIsCalled, Agrees, PolledAreCalled, InOrder, PolledAlive
<1>6. CASE \E d \in Devices : NewDevice(d) \/ Start(d)
  BY <1>1, <1>6 DEF NewDevice, Start, serviceVars
<1>7. CASE \E o \in Objects : AddActionMapping(o) \/ EndService(o)
  BY <1>4, <1>7 DEF AddActionMapping, EndService, hostVars
<1>8. CASE (\E s \in Requested : SCallBack(s)) \/ FindService \/ CallAction
  BY <1>1, <1>8 DEF SCallBack, FindService, CallAction, Request, hostVars, serviceVars
<1>9. CASE UNCHANGED registryVars
  BY <1>1, <1>9 DEF registryVars
<1> QED
  BY <1>2, <1>3, <1>5, <1>6, <1>7, <1>8, <1>9 DEF RegistryNext

LEMMA DescriptionIsPreserved ==
  ASSUME RegistryInv, [RegistryNext]_registryVars
  PROVE  DescribesWhatIsPolled' /\ Defined'
<1>0. /\ RegistryTypeOK /\ ForItsId /\ NoneLeft /\ DescribesWhatIsPolled /\ Defined
      /\ \A d \in Devices : Injective(serviceids[d])
      /\ RootOf \in [Devices -> Devices]
  BY RegistryAssumption, NoIdTwice DEF RegistryInv
<1>1. ASSUME UNCHANGED <<devices, embedxml, serviceids, servicexml, described, files, unread>>
      PROVE  DescribesWhatIsPolled' /\ Defined'
  BY <1>0, <1>1 DEF DescribesWhatIsPolled, DeviceList, Polled, Defined
<1>2. ASSUME NEW d \in Devices, NewDevice(d)
      PROVE  DescribesWhatIsPolled' /\ Defined'
  <2>1. /\ d \notin devices /\ RootOf[d] \in devices \cup {d}
        /\ devices' = devices \cup {d}
        /\ embedxml' = embedxml \cup ({d} \ {RootOf[d]})
        /\ servicexml' = [servicexml EXCEPT ![d] = <<>>]
        /\ UNCHANGED <<serviceids, described, files, unread>>
    BY <1>2 DEF NewDevice, serviceVars
  <2>2. \A e \in devices' : Polled(e)' \subseteq ToSet(servicexml'[e])
    <3>1. Polled(d) = {}
      BY <1>0, <2>1 DEF NoneLeft
    <3> QED  BY <3>1, <1>0, <2>1 DEF DescribesWhatIsPolled, Polled, RegistryTypeOK
  <2>3. \A e \in devices' : e \in DeviceList(RootOf[e])'
    BY <1>0, <2>1 DEF DescribesWhatIsPolled, DeviceList, RegistryTypeOK
  <2>4. \A r \in Devices : \A s \in described'[r] : s \in files' \cup unread'
    BY <1>0, <2>1 DEF DescribesWhatIsPolled
  <2>5. Defined'
    <3> SUFFICES ASSUME NEW s \in Services, s[2] \in ToSet(servicexml'[s[1]])
                 PROVE  s \in files \cup unread
      BY <2>1 DEF Defined
    <3>1. s[1] \in Devices
      BY ServiceIs
    <3>2. s[1] # d
      BY <3>1, <2>1, <1>0, EmptyVector DEF RegistryTypeOK
    <3> QED  BY <3>1, <3>2, <2>1, <1>0 DEF Defined, RegistryTypeOK
  <2> QED  BY <2>2, <2>3, <2>4, <2>5 DEF DescribesWhatIsPolled
<1>3. ASSUME NEW d \in Devices, DeleteDevice(d)
      PROVE  DescribesWhatIsPolled' /\ Defined'
  <2>1. /\ devices' = devices \ {d}
        /\ \A e \in devices \ {d} : RootOf[e] # d
        /\ embedxml' = {e \in embedxml : RootOf[e] # d}
        /\ UNCHANGED <<serviceids, servicexml, described, files, unread>>
    BY <1>3 DEF DeleteDevice
  <2>2. \A e \in devices' : e \in DeviceList(RootOf[e])'
    BY <1>0, <2>1 DEF DescribesWhatIsPolled, DeviceList
  <2> QED  BY <1>0, <2>1, <2>2 DEF DescribesWhatIsPolled, Polled, Defined
<1>4. ASSUME NEW r \in Devices, Start(r)
      PROVE  DescribesWhatIsPolled' /\ Defined'
  <2>1. /\ described' = [described EXCEPT ![r] =
             {s \in Services : s[1] \in DeviceList(r) /\ s[2] \in ToSet(servicexml[s[1]])}]
        /\ UNCHANGED <<devices, embedxml, serviceids, servicexml, files, unread>>
    BY <1>4 DEF Start, serviceVars
  <2>2. ASSUME NEW q \in Devices, NEW s \in described'[q]
        PROVE  s \in files' \cup unread'
    <3>1. CASE q = r
      BY <3>1, <1>0, <2>1, <2>2 DEF Defined, RegistryTypeOK
    <3>2. CASE q # r
      BY <3>2, <1>0, <2>1, <2>2 DEF DescribesWhatIsPolled, RegistryTypeOK
    <3> QED  BY <3>1, <3>2
  <2> QED  BY <1>0, <2>1, <2>2 DEF DescribesWhatIsPolled, DeviceList, Polled, Defined
<1>5. ASSUME NEW s \in Services, NEW p \in BOOLEAN, NEW x \in BOOLEAN, AddService(s, p, x)
      PROVE  DescribesWhatIsPolled' /\ Defined'
  <2>1. /\ s[1] \in Devices /\ s[2] \in Ids
        /\ UNCHANGED <<devices, embedxml, described>>
    BY <1>5, ServiceIs DEF AddService
  <2>2. CASE UNCHANGED <<servicemap, serviceids, servicexml, files, unread>>
    BY <1>1, <2>1, <2>2
  <2>3. CASE /\ serviceids' = [serviceids EXCEPT ![s[1]] = Reordered(@, s[2])]
             /\ servicexml' = [servicexml EXCEPT ![s[1]] = Append(@, s[2])]
             /\ files' = IF x THEN files \cup {s} ELSE files
             /\ unread' = IF x THEN unread ELSE unread \cup {s}
    <3>1. ToSet(Reordered(serviceids[s[1]], s[2])) = Polled(s[1]) \cup {s[2]}
      <4> DEFINE ids == serviceids[s[1]]
                 e == Erased(ids, s[2])
      <4>1. ids \in Seq(Ids) /\ Injective(ids)
        BY <1>0, <2>1 DEF RegistryTypeOK
      <4> HIDE DEF ids
      <4>2. e \in Seq(Ids) /\ ToSet(e) = ToSet(ids) \ {s[2]}
        BY <4>1, <2>1, ErasedIds
      <4> HIDE DEF e
      <4>3. ToSet(Append(e, s[2])) = ToSet(e) \cup {s[2]}
        BY <4>2, <2>1, AppendedIds
      <4> QED  BY <4>2, <4>3 DEF e, ids, Reordered, Polled
    <3>2. ToSet(Append(servicexml[s[1]], s[2])) = ToSet(servicexml[s[1]]) \cup {s[2]}
      <4>1. servicexml[s[1]] \in Seq(Ids)
        BY <1>0, <2>1 DEF RegistryTypeOK
      <4> QED  BY <4>1, <2>1, AppendedIds
    <3>3. \A e \in devices' : Polled(e)' \subseteq ToSet(servicexml'[e])
      <4> SUFFICES ASSUME NEW e \in devices
                   PROVE  ToSet(serviceids'[e]) \subseteq ToSet(servicexml'[e])
        BY <2>1 DEF Polled
      <4>1. Polled(e) \subseteq ToSet(servicexml[e])
        BY <1>0 DEF DescribesWhatIsPolled
      <4>2. CASE e = s[1]
        <5>1. /\ serviceids'[e] = Reordered(serviceids[s[1]], s[2])
              /\ servicexml'[e] = Append(servicexml[s[1]], s[2])
          BY <4>2, <1>0, <2>1, <2>3 DEF RegistryTypeOK
        <5> QED  BY <5>1, <4>1, <4>2, <3>1, <3>2
      <4>3. CASE e # s[1]
        <5>1. serviceids'[e] = serviceids[e] /\ servicexml'[e] = servicexml[e]
          BY <4>3, <1>0, <2>3 DEF RegistryTypeOK
        <5> QED  BY <5>1, <4>1 DEF Polled
      <4> QED  BY <4>2, <4>3
    <3>4. Defined'
      <4> SUFFICES ASSUME NEW t \in Services, t[2] \in ToSet(servicexml'[t[1]])
                   PROVE  t \in files' \cup unread'
        BY DEF Defined
      <4>1. t = <<t[1], t[2]>> /\ s = <<s[1], s[2]>> /\ t[1] \in Devices
        BY ServiceIs
      <4>2. CASE t = s
        BY <4>2, <2>3
      <4>3. CASE t # s
        <5>1. t[2] \in ToSet(servicexml[t[1]])
          <6>1. CASE t[1] = s[1]
            <7>1. servicexml'[t[1]] = Append(servicexml[s[1]], s[2])
              BY <6>1, <1>0, <2>1, <2>3 DEF RegistryTypeOK
            <7>2. t[2] # s[2]
              BY <6>1, <4>1, <4>3
            <7> QED  BY <7>1, <7>2, <6>1, <3>2
          <6>2. CASE t[1] # s[1]
            BY <6>2, <4>1, <1>0, <2>3 DEF RegistryTypeOK
          <6> QED  BY <6>1, <6>2
        <5> QED  BY <5>1, <1>0, <2>3 DEF Defined
      <4> QED  BY <4>2, <4>3
    <3>5. \A r \in Devices : \A t \in described'[r] : t \in files' \cup unread'
      BY <1>0, <2>1, <2>3 DEF DescribesWhatIsPolled
    <3>6. \A d \in devices' : d \in DeviceList(RootOf[d])'
      BY <1>0, <2>1 DEF DescribesWhatIsPolled, DeviceList
    <3> QED  BY <3>3, <3>4, <3>5, <3>6 DEF DescribesWhatIsPolled
  <2> QED  BY <1>5, <2>2, <2>3 DEF AddService
<1>6. ASSUME NEW o \in Objects, ForgetService(o)
      PROVE  DescribesWhatIsPolled' /\ Defined'
  <2> DEFINE s == objects[o].service
  <2>1. /\ serviceids' = [serviceids EXCEPT ![s[1]] = Erased(@, s[2])]
        /\ UNCHANGED <<devices, embedxml, servicexml, described, files, unread>>
    BY <1>6 DEF ForgetService, hostVars
  <2>2. s[1] \in Devices /\ s[2] \in Ids
    <3>1. o \in DOMAIN objects
      BY <1>6 DEF ForgetService, Becomes
    <3>2. s \in Services
      BY <1>0, <3>1, ObjectsAre DEF ServiceObject
    <3> HIDE DEF s
    <3> QED  BY <3>2, ServiceIs
  <2> HIDE DEF s
  <2>3. ToSet(Erased(serviceids[s[1]], s[2])) = Polled(s[1]) \ {s[2]}
    <3>1. serviceids[s[1]] \in Seq(Ids) /\ Injective(serviceids[s[1]])
      BY <1>0, <2>2 DEF RegistryTypeOK
    <3> QED  BY <3>1, <2>2, ErasedIds DEF Polled
  <2>4. \A e \in Devices : ToSet(serviceids'[e]) \subseteq Polled(e)
    <3> SUFFICES ASSUME NEW e \in Devices PROVE ToSet(serviceids'[e]) \subseteq Polled(e)
      OBVIOUS
    <3>1. CASE e = s[1]
      BY <3>1, <2>1, <2>2, <2>3, <1>0 DEF RegistryTypeOK
    <3>2. CASE e # s[1]
      BY <3>2, <2>1, <1>0 DEF RegistryTypeOK, Polled
    <3> QED  BY <3>1, <3>2
  <2>5. devices \subseteq Devices
    BY <1>0 DEF RegistryTypeOK
  <2>6. \A e \in devices' : Polled(e)' \subseteq ToSet(servicexml'[e])
    BY <1>0, <2>1, <2>4, <2>5 DEF DescribesWhatIsPolled, Polled
  <2> QED  BY <1>0, <2>1, <2>6 DEF DescribesWhatIsPolled, DeviceList, Defined
<1>7. CASE \E o \in Objects : AddActionMapping(o) \/ EndService(o)
  BY <1>1, <1>7 DEF AddActionMapping, EndService, hostVars
<1>8. CASE (\E s \in Requested : SCallBack(s)) \/ FindService \/ CallAction
  BY <1>1, <1>8 DEF SCallBack, FindService, CallAction, Request, hostVars, serviceVars
<1>9. CASE UNCHANGED registryVars
  BY <1>1, <1>9 DEF registryVars
<1> QED
  BY <1>2, <1>3, <1>4, <1>5, <1>6, <1>7, <1>8, <1>9 DEF RegistryNext

LEMMA RegistryInvHolds == RegistrySpec => []RegistryInv
<1>1. RegistryInv /\ [RegistryNext]_registryVars => RegistryInv'
  BY RegistryTypes, AgreementIsPreserved, DescriptionIsPreserved DEF RegistryInv
<1> QED  BY <1>1, RegistryInitIsSound, PTL DEF RegistrySpec

\* The tables of devices and services, the objects and the request of device.cxx
\* and service.cxx keep their types.
THEOREM RegistryTypeCorrect == RegistrySpec => []RegistryTypeOK
<1>1. RegistryInv => RegistryTypeOK
  BY DEF RegistryInv
<1> QED  BY <1>1, RegistryInvHolds, PTL

\* Through any sequence of constructions, replacements under an id, and endings of
\* services, and of devices and embedded devices that come and go (device.cxx),
\* the map of the services and the vector that the event loop walks agree, in the
\* order of the last addService() of each id, neither has an object that is gone,
\* and the description of a device that starts lists what it polls.
THEOREM RegistryIsSound == RegistrySpec => []RegistrySound
<1>1. RegistryInv => RegistrySound
  BY DEF RegistryInv, RegistrySound
<1> QED  BY <1>1, RegistryInvHolds, PTL

-----------------------------------------------------------------------------
(* Browse: the sequences.                                                   *)

LEMMA Widened ==
  ASSUME NEW n \in Nat, NEW s \in Seq(1..n)
  PROVE  s \in Seq(1..(n + 1))
<1>1. \A i \in 1..Len(s) : s[i] \in 1..(n + 1)
  BY ElementOfSeq
<1>2. s \in [1..Len(s) -> 1..(n + 1)] /\ Len(s) \in Nat
  BY <1>1, LenProperties
<1> QED  BY <1>2, IsASeq

\* An inserted object moves those behind it by a place.
LEMMA InsertedIs ==
  ASSUME NEW S, NEW s \in Seq(S), NEW e \in S, NEW i \in 1..(Len(s) + 1)
  PROVE  /\ InsertAt(s, i, e) \in Seq(S) /\ Len(InsertAt(s, i, e)) = Len(s) + 1
         /\ \A j \in 1..(Len(s) + 1) :
              InsertAt(s, i, e)[j] = IF j < i THEN s[j] ELSE IF j = i THEN e ELSE s[j - 1]
<1> DEFINE a == SubSeq(s, 1, i - 1)
           b == SubSeq(s, i, Len(s))
<1>0. Len(s) \in Nat /\ i \in Int /\ \A j \in 1..Len(s) : s[j] \in S
  BY LenProperties, ElementOfSeq
<1>1. a \in Seq(S) /\ Len(a) = i - 1 /\ \A j \in 1..(i - 1) : a[j] = s[j]
  <2>1. 1 \in Int /\ i - 1 \in Int /\ \A j \in 1..(i - 1) : s[j] \in S
    BY <1>0
  <2>2. /\ a \in Seq(S)
        /\ Len(a) = IF 1 <= i - 1 THEN (i - 1) - 1 + 1 ELSE 0
        /\ \A j \in 1..((i - 1) - 1 + 1) : a[j] = s[1 + j - 1]
    BY <2>1, SubSeqProperties
  <2> HIDE DEF a
  <2> QED  BY <2>2, <1>0
<1>2. b \in Seq(S) /\ Len(b) = Len(s) - i + 1 /\ \A j \in 1..(Len(s) - i + 1) : b[j] = s[i + j - 1]
  <2>1. \A j \in i..Len(s) : s[j] \in S
    BY <1>0
  <2>2. /\ b \in Seq(S)
        /\ Len(b) = IF i <= Len(s) THEN Len(s) - i + 1 ELSE 0
        /\ \A j \in 1..(Len(s) - i + 1) : b[j] = s[i + j - 1]
    BY <1>0, <2>1, SubSeqProperties
  <2> HIDE DEF b
  <2> QED  BY <2>2, <1>0
<1>3. InsertAt(s, i, e) = (a \o <<e>>) \o b
  BY DEF InsertAt
<1> HIDE DEF a, b
<1>4. /\ a \o <<e>> \in Seq(S) /\ Len(a \o <<e>>) = i
      /\ \A j \in 1..i : (a \o <<e>>)[j] = IF j < i THEN s[j] ELSE e
  <2>1. <<e>> \in Seq(S) /\ Len(<<e>>) = 1 /\ <<e>>[1] = e
    OBVIOUS
  <2> DEFINE one == <<e>>
  <2> HIDE DEF one
  <2>2. /\ a \o one \in Seq(S) /\ Len(a \o one) = Len(a) + Len(one)
        /\ \A j \in 1..(Len(a) + Len(one)) :
             (a \o one)[j] = IF j <= Len(a) THEN a[j] ELSE one[j - Len(a)]
    BY <1>1, <2>1, ConcatProperties DEF one
  <2>3. Len(one) = 1 /\ one[1] = e /\ Len(a) + Len(one) = i
    BY <1>0, <1>1, <2>1 DEF one
  <2>4. ASSUME NEW j \in 1..i
        PROVE  (a \o one)[j] = IF j < i THEN s[j] ELSE e
    <3>1. (a \o one)[j] = IF j <= Len(a) THEN a[j] ELSE one[j - Len(a)]
      BY <2>2, <2>3
    <3>2. CASE j < i
      <4>1. j <= Len(a) /\ j \in 1..(i - 1)
        BY <3>2, <1>0, <1>1
      <4> QED  BY <4>1, <3>1, <3>2, <1>1
    <3>3. CASE ~(j < i)
      <4>1. ~(j <= Len(a)) /\ j - Len(a) = 1
        BY <3>3, <1>0, <1>1
      <4> QED  BY <4>1, <3>1, <3>3, <2>3
    <3> QED  BY <3>2, <3>3
  <2> QED  BY <2>2, <2>3, <2>4 DEF one
<1> DEFINE c == a \o <<e>>
<1>7. /\ c \in Seq(S) /\ Len(c) = i
      /\ \A j \in 1..i : c[j] = IF j < i THEN s[j] ELSE e
  BY <1>4
<1> HIDE DEF c
<1>5. /\ c \o b \in Seq(S) /\ Len(c \o b) = Len(s) + 1
      /\ \A j \in 1..(Len(s) + 1) : (c \o b)[j] = IF j <= i THEN c[j] ELSE b[j - i]
  <2>1. c \in Seq(S) /\ Len(c) = i
    BY <1>7
  <2>2. /\ c \o b \in Seq(S) /\ Len(c \o b) = Len(c) + Len(b)
        /\ \A j \in 1..(Len(c) + Len(b)) :
             (c \o b)[j] = IF j <= Len(c) THEN c[j] ELSE b[j - Len(c)]
    BY <1>2, <2>1, ConcatProperties
  <2>3. Len(c) + Len(b) = Len(s) + 1
    BY <1>0, <1>2, <2>1
  <2> QED  BY <2>1, <2>2, <2>3
<1>6. ASSUME NEW j \in 1..(Len(s) + 1)
      PROVE  (c \o b)[j] = IF j < i THEN s[j] ELSE IF j = i THEN e ELSE s[j - 1]
  <2>1. CASE j <= i
    <3>1. c[j] = IF j < i THEN s[j] ELSE e
      BY <2>1, <1>0, <1>7
    <3> QED  BY <3>1, <2>1, <1>0, <1>5
  <2>2. CASE ~(j <= i)
    <3>1. j - i \in 1..(Len(s) - i + 1) /\ i + (j - i) - 1 = j - 1 /\ ~(j < i) /\ j # i
      BY <2>2, <1>0
    <3>2. (c \o b)[j] = b[j - i]
      BY <2>2, <1>5
    <3>3. b[j - i] = s[j - 1]
      BY <3>1, <1>2
    <3> QED  BY <3>1, <3>2, <3>3
  <2> QED  BY <2>1, <2>2
<1> QED  BY <1>3, <1>5, <1>6 DEF c

\* A removed object leaves a sequence that is shorter by one.
LEMMA RemovedIs ==
  ASSUME NEW S, NEW s \in Seq(S), NEW i \in 1..Len(s)
  PROVE  /\ RemoveAt(s, i) \in Seq(S) /\ Len(RemoveAt(s, i)) = Len(s) - 1
         /\ \A j \in 1..(i - 1) : RemoveAt(s, i)[j] = s[j]
         /\ \A j \in i..(Len(s) - 1) : RemoveAt(s, i)[j] = s[j + 1]
<1> DEFINE a == SubSeq(s, 1, i - 1)
           b == SubSeq(s, i + 1, Len(s))
<1>0. Len(s) \in Nat /\ i \in Int /\ \A j \in 1..Len(s) : s[j] \in S
  BY LenProperties, ElementOfSeq
<1>1. a \in Seq(S) /\ Len(a) = i - 1 /\ \A j \in 1..(i - 1) : a[j] = s[j]
  <2>1. \A j \in 1..(i - 1) : s[j] \in S
    BY <1>0
  <2>2. /\ a \in Seq(S) /\ Len(a) = IF 1 <= i - 1 THEN (i - 1) - 1 + 1 ELSE 0
        /\ \A j \in 1..(i - 1 - 1 + 1) : a[j] = s[1 + j - 1]
    BY <1>0, <2>1, SubSeqProperties
  <2> HIDE DEF a
  <2> QED  BY <2>2, <1>0
<1>2. b \in Seq(S) /\ Len(b) = Len(s) - i /\ \A j \in 1..(Len(s) - i) : b[j] = s[i + j]
  <2>1. \A j \in (i + 1)..Len(s) : s[j] \in S
    BY <1>0
  <2>2. /\ b \in Seq(S) /\ Len(b) = IF i + 1 <= Len(s) THEN Len(s) - (i + 1) + 1 ELSE 0
        /\ \A j \in 1..(Len(s) - (i + 1) + 1) : b[j] = s[(i + 1) + j - 1]
    BY <1>0, <2>1, SubSeqProperties
  <2> HIDE DEF b
  <2> QED  BY <2>2, <1>0
<1>3. RemoveAt(s, i) = a \o b
  BY DEF RemoveAt
<1> HIDE DEF a, b
<1>4. /\ a \o b \in Seq(S) /\ Len(a \o b) = Len(a) + Len(b)
      /\ \A j \in 1..(Len(a) + Len(b)) :
           (a \o b)[j] = IF j <= Len(a) THEN a[j] ELSE b[j - Len(a)]
  BY <1>1, <1>2, ConcatProperties
<1> DEFINE left == RemoveAt(s, i)
           n == Len(s)
<1>5. left \in Seq(S) /\ Len(left) = n - 1
  <2>1. left \in Seq(S) /\ Len(left) = Len(a) + Len(b)
    BY <1>3, <1>4
  <2> HIDE DEF left
  <2> QED  BY <1>0, <1>1, <1>2, <2>1
<1>6. \A j \in 1..(n - 1) : left[j] = IF j <= i - 1 THEN a[j] ELSE b[j - (i - 1)]
  <2>1. Len(a) = i - 1 /\ Len(a) + Len(b) = n - 1
    BY <1>0, <1>1, <1>2
  <2> QED  BY <1>3, <1>4, <2>1, Zenon
<1> HIDE DEF left, n
<1>7. n \in Nat /\ i \in 1..n
  BY <1>0 DEF n
<1>8. \A j \in 1..(i - 1) : left[j] = s[j]
  BY <1>1, <1>6, <1>7
<1>9. ASSUME NEW j \in i..(n - 1) PROVE left[j] = s[j + 1]
  <2>1. j \in 1..(n - 1) /\ ~(j <= i - 1) /\ j - (i - 1) \in 1..(n - i)
    BY <1>7
  <2>2. b[j - (i - 1)] = s[i + (j - (i - 1))]
    BY <1>2, <2>1 DEF n
  <2>3. i + (j - (i - 1)) = j + 1
    BY <1>7
  <2> QED  BY <1>6, <2>1, <2>2, <2>3
<1> QED  BY <1>5, <1>8, <1>9 DEF left, n

\* A slice has what there is from its offset on, up to its length.
LEMMA SliceIs ==
  ASSUME BrowseTypeOK, NEW count \in Nat, count > 0
  PROVE  LET got == Slice(offset, count) IN
         /\ got \in Seq(1..made) /\ Len(got) \in Nat /\ Len(got) <= count
         /\ got = <<>> <=> Len(got) = 0
         /\ offset >= Len(container) => Len(got) = 0
         /\ offset < Len(container) =>
              /\ Len(got) > 0 /\ offset + Len(got) <= Len(container)
              /\ Len(got) < count => offset + Len(got) = Len(container)
         /\ \A i \in 1..Len(got) : got[i] = container[offset + i]
<1> DEFINE got == Slice(offset, count)
           end == Min({Len(container), offset + count})
<1>0. /\ container \in Seq(1..made) /\ Len(container) \in Nat /\ offset \in Nat
      /\ \A i \in 1..Len(container) : container[i] \in 1..made
  <2>1. container \in Seq(1..made) /\ offset \in Nat
    BY DEF BrowseTypeOK
  <2> QED  BY <2>1, LenProperties, ElementOfSeq
<1>1. end \in Int /\ end = IF Len(container) <= offset + count THEN Len(container) ELSE offset + count
  <2>1. Len(container) \in Int /\ offset + count \in Int
    BY <1>0
  <2>2. \E x \in {Len(container), offset + count} :
          \A y \in {Len(container), offset + count} : x <= y
    BY <2>1
  <2> QED  BY <2>1, <2>2 DEF Min
<1> HIDE DEF end
<1>2. /\ got \in Seq(1..made)
      /\ Len(got) = IF offset + 1 <= end THEN end - (offset + 1) + 1 ELSE 0
      /\ \A i \in 1..(end - (offset + 1) + 1) : got[i] = container[(offset + 1) + i - 1]
  <2>1. offset + 1 \in Int /\ \A i \in (offset + 1)..end : container[i] \in 1..made
    BY <1>0, <1>1
  <2>2. got = SubSeq(container, offset + 1, end)
    BY DEF Slice, end
  <2> HIDE DEF got
  <2> QED  BY <1>1, <2>1, <2>2, SubSeqProperties
<1> HIDE DEF got
<1>3. Len(got) = IF offset + 1 <= end THEN end - offset ELSE 0
  BY <1>0, <1>1, <1>2
<1>4. \A i \in 1..Len(got) : got[i] = container[offset + i]
  <2> SUFFICES ASSUME NEW i \in 1..Len(got) PROVE got[i] = container[offset + i]
    OBVIOUS
  <2>1. i \in 1..(end - (offset + 1) + 1) /\ (offset + 1) + i - 1 = offset + i
    BY <1>0, <1>1, <1>3
  <2> QED  BY <2>1, <1>2
<1>5. got = <<>> <=> Len(got) = 0
  BY <1>2, EmptySeq
<1>6. Len(got) \in Nat /\ Len(got) <= count /\ (offset >= Len(container) => Len(got) = 0)
  BY <1>0, <1>1, <1>3
<1>7. offset < Len(container) =>
        /\ Len(got) > 0 /\ offset + Len(got) <= Len(container)
        /\ Len(got) < count => offset + Len(got) = Len(container)
  BY <1>0, <1>1, <1>3
<1> QED  BY <1>2, <1>4, <1>5, <1>6, <1>7 DEF got

LEMMA FrontPart ==
  ASSUME NEW S, NEW s \in Seq(S), NEW n \in Nat, n <= Len(s)
  PROVE  /\ SubSeq(s, 1, n) \in Seq(S) /\ Len(SubSeq(s, 1, n)) = n
         /\ \A i \in 1..n : SubSeq(s, 1, n)[i] = s[i]
<1>1. Len(s) \in Nat /\ 1 \in Int /\ n \in Int
  BY LenProperties
<1>2. \A i \in 1..n : s[i] \in S
  BY <1>1, ElementOfSeq
<1> QED  BY <1>1, <1>2, SubSeqProperties

-----------------------------------------------------------------------------
(* Browse: what a call has read, and what it can still read.                *)

\* Ids are given in order, and a container that has as many objects as were made
\* has lost none.
Contained ==
  /\ Len(container) <= made
  /\ Len(container) = made =>
       \A o \in 1..(made - history.changes) : \E i \in 1..Len(container) : container[i] = o

\* Before a call nothing is read, has failed or is in error.
NotYet ==
  browsing.call = "none" =>
    offset = 0 /\ dirbuf = <<>> /\ ~error /\ ~history.failed /\ Still /\ browsing.done

\* Of a container that does not change, what is before the offset is read.
ReadAsItIs ==
  browsing.call # "getMetadata" /\ Still =>
    /\ offset <= Len(container) /\ Len(dirbuf) = offset
    /\ \A i \in 1..offset : dirbuf[i] = container[i]

\* A call goes on after full slices only, and not past a total that it was told.
GoingOn ==
  ~browsing.done =>
    /\ ~error /\ ~history.failed
    /\ \E k \in Nat : offset = k * m_rdreqcnt
    /\ offset > 0 => Full
    /\ Still /\ server.totals /\ offset > 0 => offset < Len(container)

\* Of a container that objects only come to, what is before the offset and was
\* there at first is read: those that come push objects behind it, none before it.
NoneMissed ==
  browsing.call # "getMetadata" /\ Len(container) = made =>
    \A i \in 1..Len(container) :
      i <= offset /\ container[i] <= made - history.changes
        => \E j \in 1..Len(dirbuf) : dirbuf[j] = container[i]

\* A call that ends well has come to the end, and what makes it end in error.
Ended ==
  HasRead =>
    /\ ~error /\ Full => offset >= Len(container)
    /\ Still /\ error /\ ~history.failed =>
         browsing.call = "readDir" /\ Multiple /\ (container = <<>> \/ ~server.totals)

BrowseInv ==
  BrowseTypeOK /\ Contained /\ NotYet /\ ReadAsItIs /\ GoingOn /\ NoneMissed /\ Ended

LEMMA ContainerIs ==
  ASSUME BrowseTypeOK
  PROVE  /\ container \in Seq(1..made) /\ dirbuf \in Seq(1..made) /\ made \in Nat
         /\ Len(container) \in Nat /\ Len(dirbuf) \in Nat /\ offset \in Nat
         /\ \A i \in 1..Len(container) : container[i] \in 1..made
         /\ container = <<>> <=> Len(container) = 0
         /\ history.changes \in Nat
         /\ m_rdreqcnt \in Nat /\ m_rdreqcnt > 0
         /\ server.slice \in 1..m_rdreqcnt
<1>1. /\ container \in Seq(1..made) /\ dirbuf \in Seq(1..made)
      /\ made \in Nat /\ offset \in Nat /\ server.slice \in 1..m_rdreqcnt
      /\ history.changes \in 0..MaxContainerChanges
  BY DEF BrowseTypeOK
<1>2. /\ Len(container) \in Nat /\ Len(dirbuf) \in Nat
      /\ \A i \in 1..Len(container) : container[i] \in 1..made
  BY <1>1, LenProperties, ElementOfSeq
<1>3. container = <<>> <=> Len(container) = 0
  BY <1>1, EmptySeq
<1>4. history.changes \in Nat /\ m_rdreqcnt \in Nat /\ m_rdreqcnt > 0
  BY <1>1, BrowseAssumption
<1> QED  BY <1>1, <1>2, <1>3, <1>4

LEMMA BrowseInitIsFine == BrowseInit => BrowseInv
<1> SUFFICES ASSUME BrowseInit PROVE BrowseInv
  OBVIOUS
<1>1. container \in Seq(1..made) /\ dirbuf \in Seq(1..made) /\ Len(container) = 0 /\ Len(dirbuf) = 0
  BY EmptySeq DEF BrowseInit
<1>2. BrowseTypeOK
  <2>1. m_rdreqcnt \in 1..m_rdreqcnt /\ 0 \in 0..MaxContainerChanges
    BY BrowseAssumption
  <2> QED  BY <1>1, <2>1 DEF BrowseInit, BrowseTypeOK
<1> QED
  BY <1>1, <1>2
  DEF BrowseInit, BrowseInv, Contained, NotYet, ReadAsItIs, GoingOn, NoneMissed, Ended,
      HasRead, Still

LEMMA ServesPreserves ==
  ASSUME BrowseInv, NEW n \in 0..MaxContained, NEW s \in 1..m_rdreqcnt, NEW t \in BOOLEAN,
         Serves(n, s, t)
  PROVE  BrowseInv'
<1>0. /\ browsing.call = "none" /\ container' = [i \in 1..n |-> i] /\ made' = n
      /\ server' = [slice |-> s, totals |-> t] /\ made = 0 /\ n \in Nat
      /\ UNCHANGED <<browsing, offset, total, dirbuf, error, history>>
      /\ BrowseTypeOK /\ offset = 0 /\ dirbuf = <<>> /\ Still /\ browsing.done
  BY DEF Serves, BrowseInv, NotYet
<1>1. /\ container' \in Seq(1..n) /\ Len(container') = n
      /\ \A i \in 1..n : container'[i] = i
  <2>1. container' \in [1..n -> 1..n]
    BY <1>0
  <2>2. container' \in Seq(1..n) /\ Len(container') = n
    BY <2>1, <1>0, IsASeq, LenProperties
  <2> QED  BY <2>2, <1>0
<1>2. dirbuf' \in Seq(1..n) /\ Len(dirbuf') = 0
  BY <1>0, EmptySeq
<1>3. BrowseTypeOK'
  BY <1>0, <1>1, <1>2 DEF BrowseTypeOK
<1>4. Contained'
  BY <1>0, <1>1 DEF Contained, Still
<1> QED
  BY <1>0, <1>1, <1>2, <1>3, <1>4
  DEF BrowseInv, NotYet, ReadAsItIs, GoingOn, NoneMissed, Ended, HasRead, Still

LEMMA ChangePreserves ==
  ASSUME BrowseInv, ContainerChanges
  PROVE  BrowseInv'
<1>0. /\ ~browsing.done /\ history.changes < MaxContainerChanges
      /\ history' = [history EXCEPT !.changes = @ + 1]
      /\ UNCHANGED <<server, browsing, offset, total, dirbuf, error>>
      /\ BrowseTypeOK
  BY DEF ContainerChanges, BrowseInv
<1>1. /\ container \in Seq(1..made) /\ dirbuf \in Seq(1..made) /\ made \in Nat
      /\ Len(container) \in Nat /\ Len(dirbuf) \in Nat /\ offset \in Nat
      /\ \A i \in 1..Len(container) : container[i] \in 1..made
      /\ history.changes \in Nat
  BY <1>0, ContainerIs
<1>2. /\ history'.changes = history.changes + 1 /\ history'.failed = history.failed
      /\ history' \in [changes : 0..MaxContainerChanges, failed : BOOLEAN]
  <2>1. history \in [changes : 0..MaxContainerChanges, failed : BOOLEAN]
    BY <1>0 DEF BrowseTypeOK
  <2>2. history.changes + 1 \in 0..MaxContainerChanges
    BY <2>1, <1>0, BrowseAssumption
  <2> QED  BY <2>1, <2>2, <1>0
<1>6. /\ made \in Nat /\ Len(container) \in Nat /\ Len(dirbuf) \in Nat
      /\ offset \in Nat /\ history.changes \in Nat
  BY <1>1
<1>3. NotYet' /\ ReadAsItIs' /\ GoingOn' /\ Ended'
  <2>1. ~Still'
    BY <1>1, <1>2 DEF Still
  <2>2. browsing.call # "none"
    BY <1>0 DEF BrowseInv, NotYet
  <2> QED
    BY <2>1, <2>2, <1>0, <1>2
    DEF BrowseInv, NotYet, ReadAsItIs, GoingOn, Ended, HasRead, Full
<1>4. ASSUME NEW i \in 1..(Len(container) + 1),
             container' = InsertAt(container, i, made + 1), made' = made + 1
      PROVE  BrowseTypeOK' /\ Contained' /\ NoneMissed'
  <2>1. container \in Seq(1..(made + 1)) /\ dirbuf \in Seq(1..(made + 1))
    BY <1>1, Widened
  <2>2. /\ container' \in Seq(1..(made + 1)) /\ Len(container') = Len(container) + 1
        /\ \A j \in 1..(Len(container) + 1) :
             container'[j] = IF j < i THEN container[j]
                             ELSE IF j = i THEN made + 1 ELSE container[j - 1]
    <3> DEFINE S == 1..(made + 1)
               e == made + 1
    <3>1. e \in S
      BY <1>6
    <3>2. container \in Seq(S) /\ container' = InsertAt(container, i, e)
      BY <2>1, <1>4
    <3>3. container' \in Seq(S)
      <4> HIDE DEF S, e
      <4> QED  BY <3>1, <3>2, InsertedIs
    <3>4. /\ Len(container') = Len(container) + 1
          /\ \A j \in 1..(Len(container) + 1) :
               container'[j] = IF j < i THEN container[j]
                               ELSE IF j = i THEN e ELSE container[j - 1]
      <4> HIDE DEF S, e
      <4>1. /\ Len(InsertAt(container, i, e)) = Len(container) + 1
            /\ \A j \in 1..(Len(container) + 1) :
                 InsertAt(container, i, e)[j] = IF j < i THEN container[j]
                                                ELSE IF j = i THEN e ELSE container[j - 1]
        BY <3>1, <3>2, InsertedIs
      <4> QED  BY <4>1, <3>2, Zenon
    <3> QED  BY <3>3, <3>4
  <2>3. BrowseTypeOK'
    <3>1. made' = made + 1 /\ made' \in Nat
      BY <1>1, <1>4
    <3>2. container' \in Seq(1..made') /\ dirbuf' \in Seq(1..made')
      BY <1>0, <2>1, <2>2, <3>1
    <3> QED  BY <1>0, <1>2, <3>1, <3>2 DEF BrowseTypeOK
  <2>4. made' - history'.changes = made - history.changes
    BY <1>6, <1>2, <1>4
  <2>5. Contained'
    <3>1. Len(container') <= made'
      BY <1>1, <1>4, <2>2 DEF BrowseInv, Contained
    <3>2. ASSUME Len(container') = made', NEW o \in 1..(made - history.changes)
          PROVE  \E j \in 1..Len(container') : container'[j] = o
      <4>1. PICK k \in 1..Len(container) : container[k] = o
        <5>1. Len(container) = made
          BY <1>6, <1>4, <2>2, <3>2
        <5> QED  BY <5>1 DEF BrowseInv, Contained
      <4>2. CASE k < i
        <5>1. k \in 1..Len(container') /\ k \in 1..(Len(container) + 1)
          BY <4>1, <1>6, <2>2
        <5>2. container'[k] = o
          BY <5>1, <4>1, <4>2, <2>2
        <5> QED  BY <5>1, <5>2
      <4>3. CASE k >= i
        <5>1. /\ k + 1 \in 1..(Len(container) + 1) /\ ~(k + 1 < i) /\ k + 1 # i
              /\ (k + 1) - 1 = k
          BY <4>3, <1>1
        <5>2. container'[k + 1] = o
          BY <5>1, <4>1, <2>2
        <5> QED  BY <5>1, <5>2, <2>2
      <4> QED  BY <4>2, <4>3, <1>1
    <3> QED  BY <3>1, <3>2, <2>4 DEF Contained
  <2>6. NoneMissed'
    <3> SUFFICES ASSUME browsing.call # "getMetadata", Len(container') = made',
                        NEW j \in 1..(Len(container) + 1),
                        j <= offset, container'[j] <= made - history.changes
                 PROVE  \E d \in 1..Len(dirbuf) : dirbuf[d] = container'[j]
      BY <1>0, <2>2, <2>4 DEF NoneMissed
    <3>1. Len(container) = made
      BY <1>1, <1>4, <2>2
    <3>2. \A k \in 1..Len(container) :
            k <= offset /\ container[k] <= made - history.changes
              => \E d \in 1..Len(dirbuf) : dirbuf[d] = container[k]
      BY <3>1 DEF BrowseInv, NoneMissed
    <3>3. j # i
      BY <1>1, <2>2
    <3>4. CASE j < i
      <4>1. j \in 1..Len(container) /\ container'[j] = container[j]
        BY <3>4, <2>2, <1>6
      <4> QED  BY <4>1, <3>2
    <3>5. CASE j > i
      <4>1. j - 1 \in 1..Len(container) /\ j - 1 <= offset /\ container'[j] = container[j - 1]
        BY <3>5, <2>2, <1>1
      <4> QED  BY <4>1, <3>2
    <3> QED  BY <3>3, <3>4, <3>5, <1>1
  <2> QED  BY <2>3, <2>5, <2>6
<1>5. ASSUME NEW i \in DOMAIN container, container' = RemoveAt(container, i), made' = made
      PROVE  BrowseTypeOK' /\ Contained' /\ NoneMissed'
  <2>1. container' \in Seq(1..made) /\ Len(container') = Len(container) - 1
    <3>1. i \in 1..Len(container)
      BY <1>1, LenProperties
    <3> QED  BY <3>1, <1>1, <1>5, RemovedIs
  <2>2. Len(container') < made'
    BY <2>1, <1>1, <1>5 DEF BrowseInv, Contained
  <2>3. BrowseTypeOK'
    BY <1>0, <1>1, <1>2, <1>5, <2>1 DEF BrowseTypeOK
  <2>4. Len(container') # made' /\ Len(container') <= made'
    BY <2>1, <2>2, <1>1, <1>5
  <2> QED  BY <2>3, <2>4 DEF Contained, NoneMissed
<1> QED  BY <1>3, <1>4, <1>5 DEF ContainerChanges, BrowseInv

LEMMA SlicePreserves ==
  ASSUME BrowseInv, BrowseSlice
  PROVE  BrowseInv'
<1> DEFINE got == Slice(offset, server.slice)
           n == Len(got)
<1>0. /\ ~browsing.done /\ browsing.call \in {"readDir", "search"} /\ BrowseTypeOK
      /\ dirbuf' = dirbuf \o got /\ offset' = offset + n
      /\ total' = IF server.totals THEN Len(container) ELSE 0
      /\ UNCHANGED <<container, made, server, history>>
  BY DEF BrowseSlice, serverVars, BrowseInv
<1>1. /\ container \in Seq(1..made) /\ dirbuf \in Seq(1..made) /\ made \in Nat
      /\ Len(container) \in Nat /\ Len(dirbuf) \in Nat /\ offset \in Nat
      /\ container = <<>> <=> Len(container) = 0
      /\ m_rdreqcnt \in Nat /\ m_rdreqcnt > 0 /\ server.slice \in 1..m_rdreqcnt
      /\ server.slice \in Nat /\ server.slice > 0
  BY <1>0, ContainerIs
<1>2. /\ got \in Seq(1..made) /\ n \in Nat /\ n <= server.slice
      /\ got = <<>> <=> n = 0
      /\ offset >= Len(container) => n = 0
      /\ offset < Len(container) =>
           /\ n > 0 /\ offset + n <= Len(container)
           /\ n < server.slice => offset + n = Len(container)
      /\ \A i \in 1..n : got[i] = container[offset + i]
  BY <1>0, <1>1, SliceIs
<1>13. /\ Len(container) \in Nat /\ Len(dirbuf) \in Nat /\ offset \in Nat /\ n \in Nat
       /\ m_rdreqcnt \in Nat /\ server.slice \in 1..m_rdreqcnt
  BY <1>1, <1>2
<1>3. /\ n = 0 => /\ browsing' = [browsing EXCEPT !.done = TRUE]
                  /\ error' = (browsing.call # "search")
      /\ n # 0 /\ GoesOn(n, total') => UNCHANGED <<browsing, error>>
      /\ n # 0 /\ ~GoesOn(n, total') => /\ browsing' = [browsing EXCEPT !.done = TRUE]
                                        /\ error' = FALSE
  BY <1>2 DEF BrowseSlice, Done
<1> HIDE DEF got, n
<1>4. /\ dirbuf' \in Seq(1..made) /\ Len(dirbuf') = Len(dirbuf) + n
      /\ \A i \in 1..(Len(dirbuf) + n) :
           dirbuf'[i] = IF i <= Len(dirbuf) THEN dirbuf[i] ELSE got[i - Len(dirbuf)]
  BY <1>0, <1>1, <1>2, ConcatProperties DEF n
<1>5. /\ ~error /\ ~history.failed
      /\ offset > 0 => Full
      /\ Still /\ server.totals /\ offset > 0 => offset < Len(container)
  BY <1>0 DEF BrowseInv, GoingOn
<1>6. /\ browsing' \in [call : {"none", "readDir", "search", "getMetadata"}, done : BOOLEAN]
      /\ browsing'.call = browsing.call /\ error' \in BOOLEAN
  BY <1>0, <1>3 DEF BrowseTypeOK
<1>7. BrowseTypeOK'
  <2>1. total' \in Nat /\ offset' \in Nat
    BY <1>0, <1>1, <1>2
  <2> QED  BY <2>1, <1>0, <1>4, <1>6 DEF BrowseTypeOK
<1>8. Contained' /\ NotYet'
  BY <1>0, <1>6 DEF BrowseInv, Contained, NotYet
<1>9. ReadAsItIs'
  <2> SUFFICES ASSUME Still
               PROVE  /\ offset + n <= Len(container) /\ Len(dirbuf') = offset + n
                      /\ \A i \in 1..(offset + n) : dirbuf'[i] = container[i]
    BY <1>0 DEF ReadAsItIs, Still
  <2>1. /\ offset <= Len(container) /\ Len(dirbuf) = offset
        /\ \A i \in 1..offset : dirbuf[i] = container[i]
    BY <1>0 DEF BrowseInv, ReadAsItIs
  <2>2. offset + n <= Len(container)
    BY <2>1, <1>1, <1>2
  <2>3. ASSUME NEW i \in 1..(offset + n)
        PROVE  dirbuf'[i] = container[i]
    <3>1. CASE i <= offset
      <4>1. i \in 1..offset /\ i <= Len(dirbuf) /\ i \in 1..(Len(dirbuf) + n)
        BY <3>1, <2>1, <1>13
      <4>2. dirbuf'[i] = dirbuf[i]
        BY <4>1, <1>4
      <4> QED  BY <4>1, <4>2, <2>1
    <3>2. CASE ~(i <= offset)
      <4>1. i - offset \in 1..n /\ offset + (i - offset) = i
        BY <3>2, <1>1, <1>2
      <4>2. dirbuf'[i] = got[i - offset]
        BY <3>2, <2>1, <1>4
      <4>3. got[i - offset] = container[offset + (i - offset)]
        BY <4>1, <1>2
      <4> QED  BY <4>1, <4>2, <4>3
    <3> QED  BY <3>1, <3>2
  <2> QED  BY <2>1, <2>2, <2>3, <1>4
<1>10. NoneMissed'
  <2> SUFFICES ASSUME Len(container) = made, NEW i \in 1..Len(container),
                      i <= offset + n, container[i] <= made - history.changes
               PROVE  \E j \in 1..Len(dirbuf') : dirbuf'[j] = container[i]
    BY <1>0 DEF NoneMissed
  <2>1. CASE i <= offset
    <3>1. PICK j \in 1..Len(dirbuf) : dirbuf[j] = container[i]
      BY <2>1, <1>0 DEF BrowseInv, NoneMissed
    <3>2. j \in 1..(Len(dirbuf) + n) /\ j <= Len(dirbuf)
      BY <3>1, <1>13
    <3>3. j \in 1..Len(dirbuf') /\ dirbuf'[j] = container[i]
      BY <3>1, <3>2, <1>4
    <3> QED  BY <3>3
  <2>2. CASE ~(i <= offset)
    <3>1. i - offset \in 1..n /\ offset + (i - offset) = i
      BY <2>2, <1>1, <1>2
    <3>2. got[i - offset] = container[i]
      BY <3>1, <1>2
    <3>3. /\ Len(dirbuf) + (i - offset) \in 1..Len(dirbuf')
          /\ ~(Len(dirbuf) + (i - offset) <= Len(dirbuf))
          /\ (Len(dirbuf) + (i - offset)) - Len(dirbuf) = i - offset
      <4>1. Len(dirbuf') = Len(dirbuf) + n /\ Len(dirbuf) \in Nat /\ n \in Nat
        BY <1>1, <1>2, <1>4
      <4> HIDE DEF n
      <4> QED  BY <3>1, <4>1
    <3>4. dirbuf'[Len(dirbuf) + (i - offset)] = container[i]
      BY <3>2, <3>3, <1>4
    <3> QED  BY <3>3, <3>4
  <2> QED  BY <2>1, <2>2
<1>11. GoingOn'
  <2> SUFFICES ASSUME ~browsing'.done PROVE GoingOn'
    BY DEF GoingOn
  <2>1. n # 0 /\ GoesOn(n, total') /\ UNCHANGED <<browsing, error>>
    BY <1>0, <1>3 DEF BrowseTypeOK
  <2>2. n = m_rdreqcnt /\ (total' = 0 \/ offset + n < total')
    BY <2>1 DEF GoesOn
  <2>3. Full
    <3>1. n <= server.slice
      BY <1>2
    <3> QED  BY <3>1, <2>2, <1>13 DEF Full
  <2>4. \E k \in Nat : offset' = k * m_rdreqcnt
    <3>1. PICK k \in Nat : offset = k * m_rdreqcnt
      BY <1>0 DEF BrowseInv, GoingOn
    <3>2. offset' = (k + 1) * m_rdreqcnt
      BY <3>1, <2>2, <1>0, <1>1
    <3> QED  BY <3>2
  <2>5. Still /\ server.totals => offset' < Len(container)
    <3> SUFFICES ASSUME Still, server.totals PROVE offset + n < Len(container)
      BY <1>0
    <3>1. offset < Len(container)
      BY <2>1, <1>1, <1>2
    <3>2. total' = Len(container) /\ total' # 0
      BY <3>1, <1>0, <1>1
    <3> QED  BY <3>2, <2>2
  <2> QED  BY <1>0, <1>5, <2>1, <2>3, <2>4, <2>5 DEF GoingOn, Still, Full
<1>12. Ended'
  <2> SUFFICES ASSUME browsing'.done PROVE Ended'
    BY DEF Ended, HasRead
  <2>1. n = 0 \/ ~GoesOn(n, total')
    BY <1>0, <1>3
  <2>2. ~error' /\ Full => offset + n >= Len(container)
    <3> SUFFICES ASSUME Full, offset < Len(container) PROVE offset + n >= Len(container)
      BY <1>1, <1>2
    <3>1. n > 0 /\ server.slice = m_rdreqcnt
      BY <1>2 DEF Full
    <3>2. CASE n # m_rdreqcnt
      BY <3>1, <3>2, <1>1, <1>2
    <3>3. CASE total' # 0 /\ ~(offset + n < total')
      BY <3>3, <1>0, <1>1, <1>2
    <3> QED  BY <2>1, <3>1, <3>2, <3>3 DEF GoesOn
  <2>3. ASSUME Still, error'
        PROVE  browsing.call = "readDir" /\ Multiple /\ (container = <<>> \/ ~server.totals)
    <3>1. n = 0 /\ browsing.call = "readDir"
      BY <2>1, <2>3, <1>0, <1>3
    <3>2. offset <= Len(container) /\ ~(offset < Len(container))
      BY <3>1, <2>3, <1>0, <1>2 DEF BrowseInv, ReadAsItIs
    <3>3. offset = Len(container)
      BY <3>2, <1>1
    <3>4. Multiple
      <4>1. PICK k \in Nat : offset = k * m_rdreqcnt
        BY <1>0 DEF BrowseInv, GoingOn
      <4>2. (k * m_rdreqcnt) % m_rdreqcnt = 0
        BY <1>1
      <4> QED  BY <3>3, <4>1, <4>2 DEF Multiple
    <3>5. container = <<>> \/ ~server.totals
      BY <3>3, <2>3, <1>1, <1>5
    <3> QED  BY <3>1, <3>4, <3>5
  <2> QED  BY <2>2, <2>3, <1>0, <1>6 DEF Ended, HasRead, Full, Still, Multiple
<1> QED  BY <1>7, <1>8, <1>9, <1>10, <1>11, <1>12 DEF BrowseInv

LEMMA OtherCallsPreserve ==
  ASSUME BrowseInv,
         (\E c \in {"readDir", "search", "getMetadata"} : CallBrowse(c))
           \/ BrowseMetadata \/ BrowseFails
  PROVE  BrowseInv'
<1>0. BrowseTypeOK
  BY DEF BrowseInv
<1>1. ASSUME NEW c \in {"readDir", "search", "getMetadata"}, CallBrowse(c)
      PROVE  BrowseInv'
  <2>1. /\ browsing.call = "none" /\ browsing' = [call |-> c, done |-> FALSE]
        /\ UNCHANGED <<container, made, server, offset, total, dirbuf, error, history>>
        /\ offset = 0 /\ dirbuf = <<>> /\ ~error /\ ~history.failed
    BY <1>1 DEF CallBrowse, serverVars, BrowseInv, NotYet
  <2>2. BrowseTypeOK'
    BY <1>0, <2>1 DEF BrowseTypeOK
  <2>3. Len(dirbuf) = 0 /\ Len(container) \in Nat
    BY <1>0, <2>1, EmptySeq, ContainerIs
  <2>4. GoingOn'
    <3>1. 0 * m_rdreqcnt = 0
      BY BrowseAssumption
    <3> QED  BY <2>1, <3>1 DEF GoingOn
  <2> QED
    BY <2>1, <2>2, <2>3, <2>4
    DEF BrowseInv, Contained, NotYet, ReadAsItIs, NoneMissed, Ended, HasRead
<1>2. CASE BrowseMetadata
  <2>1. /\ browsing.call = "getMetadata" /\ browsing' = [browsing EXCEPT !.done = TRUE]
        /\ error' \in BOOLEAN
        /\ UNCHANGED <<container, made, server, offset, total, history>>
    BY <1>2 DEF BrowseMetadata, serverVars, Done
  <2>2. dirbuf' \in Seq(1..made)
    <3>1. CASE container = <<>>
      BY <3>1, <1>0, <1>2 DEF BrowseMetadata, BrowseTypeOK
    <3>2. CASE container # <<>>
      <4>1. Head(container) \in 1..made
        BY <3>2, <1>0, HeadTailProperties DEF BrowseTypeOK
      <4>2. dirbuf' = <<Head(container)>>
        BY <3>2, <1>2 DEF BrowseMetadata
      <4> QED  BY <4>1, <4>2
    <3> QED  BY <3>1, <3>2
  <2>3. /\ browsing'.call = "getMetadata" /\ browsing'.done
        /\ browsing' \in [call : {"none", "readDir", "search", "getMetadata"}, done : BOOLEAN]
    BY <1>0, <2>1 DEF BrowseTypeOK
  <2>4. BrowseTypeOK'
    BY <1>0, <2>1, <2>2, <2>3 DEF BrowseTypeOK
  <2> QED
    BY <2>1, <2>3, <2>4
    DEF BrowseInv, Contained, NotYet, ReadAsItIs, GoingOn, NoneMissed, Ended, HasRead
<1>3. CASE BrowseFails
  <2>1. /\ ~browsing.done /\ browsing' = [browsing EXCEPT !.done = TRUE] /\ error' = TRUE
        /\ history' = [history EXCEPT !.failed = TRUE]
        /\ UNCHANGED <<container, made, server, offset, total, dirbuf>>
    BY <1>3 DEF BrowseFails, serverVars, Done
  <2>2. /\ browsing'.call = browsing.call /\ browsing'.done
        /\ browsing' \in [call : {"none", "readDir", "search", "getMetadata"}, done : BOOLEAN]
        /\ history'.failed /\ history'.changes = history.changes
        /\ history' \in [changes : 0..MaxContainerChanges, failed : BOOLEAN]
    BY <1>0, <2>1 DEF BrowseTypeOK
  <2>3. BrowseTypeOK'
    BY <1>0, <2>1, <2>2 DEF BrowseTypeOK
  <2> QED
    BY <2>1, <2>2, <2>3
    DEF BrowseInv, Contained, NotYet, ReadAsItIs, GoingOn, NoneMissed, Ended, HasRead, Still
<1> QED  BY <1>1, <1>2, <1>3

LEMMA BrowseStep == BrowseInv /\ [BrowseNext]_browseVars => BrowseInv'
<1> SUFFICES ASSUME BrowseInv, [BrowseNext]_browseVars PROVE BrowseInv'
  OBVIOUS
<1>1. CASE UNCHANGED browseVars
  BY <1>1
  DEF browseVars, BrowseInv, BrowseTypeOK, Contained, NotYet, ReadAsItIs, GoingOn,
      NoneMissed, Ended, HasRead, Still, Full, Multiple
<1>2. CASE BrowseNext
  BY <1>2, ServesPreserves, ChangePreserves, SlicePreserves, OtherCallsPreserve
  DEF BrowseNext
<1> QED  BY <1>1, <1>2

\* What readDir(), search() and getMetadata() of cdirectory.cxx work on keeps its
\* types.
THEOREM BrowseTypeCorrect == BrowseSpec => []BrowseTypeOK
<1>1. BrowseInv => BrowseTypeOK
  BY DEF BrowseInv
<1> QED  BY <1>1, BrowseInitIsFine, BrowseStep, PTL DEF BrowseSpec

\* A container read by offset while the server changes it, for any sizes of slices
\* and containers: still, it is read whole, once and in order, or the call fails for
\* a reason; while objects come, none that was there is missed.
THEOREM BrowseIsComplete == BrowseSpec => []BrowseComplete
<1>1. BrowseInv => BrowseComplete
  <2> SUFFICES ASSUME BrowseInv, HasRead PROVE BrowseComplete
    BY DEF BrowseComplete
  <2>0. /\ container \in Seq(1..made) /\ dirbuf \in Seq(1..made)
        /\ Len(container) \in Nat /\ Len(dirbuf) \in Nat /\ offset \in Nat
        /\ DOMAIN dirbuf = 1..Len(dirbuf)
        /\ browsing.call # "getMetadata"
    <3>1. /\ dirbuf \in Seq(1..made) /\ container \in Seq(1..made)
          /\ Len(container) \in Nat /\ Len(dirbuf) \in Nat
          /\ offset \in Nat
      BY ContainerIs DEF BrowseInv
    <3>2. DOMAIN dirbuf = 1..Len(dirbuf)
      BY <3>1, LenProperties
    <3>3. browsing.call # "getMetadata"
      BY DEF HasRead
    <3> QED  BY <3>1, <3>2, <3>3
  <2>1. Still => /\ offset <= Len(container) /\ Len(dirbuf) = offset
                 /\ \A i \in 1..offset : dirbuf[i] = container[i]
    BY <2>0, Zenon DEF BrowseInv, ReadAsItIs
  <2>2. ASSUME Still, ~error, Full
        PROVE  dirbuf = container
    <3>1. Len(dirbuf) = Len(container)
      BY <2>0, <2>1, <2>2 DEF BrowseInv, Ended
    <3> QED  BY <3>1, <2>0, <2>1, <2>2, SeqEqual
  <2>3. ASSUME Still
        PROVE  IsPrefix(dirbuf, container)
    <3> DEFINE a == SubSeq(dirbuf, 1, offset)
               b == SubSeq(container, 1, offset)
    <3>1. a \in Seq(1..made) /\ Len(a) = offset /\ \A i \in 1..offset : a[i] = dirbuf[i]
      <4>1. offset <= Len(dirbuf)
        BY <2>0, <2>1, <2>3
      <4> QED  BY <4>1, <2>0, FrontPart
    <3>2. b \in Seq(1..made) /\ Len(b) = offset /\ \A i \in 1..offset : b[i] = container[i]
      <4>1. offset <= Len(container)
        BY <2>1, <2>3
      <4> QED  BY <4>1, <2>0, FrontPart
    <3> HIDE DEF a, b
    <3>3. a = b
      BY <3>1, <3>2, <2>1, <2>3, SeqEqual
    <3> QED  BY <3>3, <2>1, <2>3 DEF IsPrefix, a, b
  <2>4. ASSUME Full, ~error, Len(container) = made, NEW o \in 1..(made - history.changes)
        PROVE  o \in ToSet(dirbuf)
    <3>1. PICK i \in 1..Len(container) : container[i] = o
      BY <2>4 DEF BrowseInv, Contained
    <3>2. i <= offset /\ o <= made - history.changes
      BY <2>0, <2>4 DEF BrowseInv, Ended
    <3>3. \E j \in 1..Len(dirbuf) : dirbuf[j] = o
      BY <3>1, <3>2, <2>0, <2>4 DEF BrowseInv, NoneMissed
    <3> QED  BY <3>3, <2>0 DEF ToSet
  <2> QED  BY <2>2, <2>3, <2>4 DEF BrowseInv, Ended, BrowseComplete
<1> QED  BY <1>1, BrowseInitIsFine, BrowseStep, PTL DEF BrowseSpec

-----------------------------------------------------------------------------
(* Volume: the arithmetic of a scale, what is chosen and what is sent.      *)


\* Max({low, Min({v, high})}) by cases.
LEMMA ClampIs ==
  ASSUME NEW v \in Int, NEW low \in Int, NEW high \in Int, low <= high
  PROVE  Clamp(v, low, high) =
           IF v < low THEN low ELSE IF v > high THEN high ELSE v
<1>1. Min({v, high}) = IF v > high THEN high ELSE v
  BY DEF Min
<1> DEFINE m == IF v > high THEN high ELSE v
<1>2. Max({low, m}) = IF m < low THEN low ELSE m
  BY DEF Max
<1> QED BY <1>1, <1>2 DEF Clamp

\* What a division that rounds down gives and leaves.
LEMMA DivIs ==
  ASSUME NEW x \in Int, NEW d \in Nat \ {0}
  PROVE  /\ x \div d \in Int /\ x % d \in 0..(d - 1)
         /\ x = d * (x \div d) + (x % d)
BY SMT

LEMMA DivAtLeast ==
  ASSUME NEW x \in Int, NEW d \in Nat \ {0}, NEW v \in Int
  PROVE  v <= x \div d <=> v * d <= x
<1>1. /\ x \div d \in Int
      /\ d * (x \div d) <= x /\ x < d * (x \div d) + d
  <2>1. /\ x \div d \in Int /\ x % d \in 0..(d - 1)
        /\ x = d * (x \div d) + (x % d)
    BY DivIs
  <2> QED BY <2>1, SMT
<1> DEFINE q == x \div d
<1> HIDE DEF q
<1>2. q \in Int /\ d * q <= x /\ x < d * q + d
  BY <1>1 DEF q
<1>3. ASSUME v <= q PROVE v * d <= x
  <2>1. (q - v) * d >= 0
    BY <1>2, <1>3, SMT
  <2>2. (q - v) * d = d * q - v * d
    BY <1>2, SMT
  <2> QED BY <2>1, <2>2, <1>2, SMT
<1>4. ASSUME v > q PROVE v * d > x
  <2>1. (v - q - 1) * d >= 0
    BY <1>2, <1>4, SMT
  <2>2. (v - q - 1) * d = v * d - d * q - d
    BY <1>2, SMT
  <2> QED BY <2>1, <2>2, <1>2, SMT
<1>5. v <= q <=> v * d <= x
  BY <1>2, <1>3, <1>4, SMT
<1> QED BY <1>5 DEF q

\* What a factor that is off makes of a whole number: one next to it at most, and
\* nothing if the factor is exact.
LEMMA RoundingIs ==
  ASSUME NEW w, NEW n, NEW off
  PROVE  /\ Rounding(w, n, off) \in {-1, 0, 1}
         /\ n = 0 \/ FactorIsExact(w) => Rounding(w, n, off) = 0
BY DEF Rounding

LEMMA ProductRoundingIs ==
  ASSUME NEW w \in Nat, NEW n \in Int
  PROVE  /\ ProductRounding(w, n) \in {-1, 0, 1}
         /\ ProductRounding(w, n) # 0 => n # 0 /\ n % 100 = 0 /\ w % 25 # 0
<1> DEFINE e == FactorError(w)
           a == Rounding(w, n \div 100, e)
           b == Rounding(w, -n \div 100, e)
<1>1. /\ a \in {-1, 0, 1} /\ b \in {-1, 0, 1}
      /\ n \div 100 = 0 \/ w % 25 = 0 => a = 0
      /\ w % 25 = 0 => b = 0
  BY RoundingIs DEF FactorIsExact
<1>2. ProductRounding(w, n) = IF w = 0 \/ n % 100 # 0 THEN 0
                              ELSE IF n >= 0 THEN a ELSE -b
  BY DEF ProductRounding
<1> HIDE DEF a, b
<1>3. n = 0 => n \div 100 = 0
  OBVIOUS
<1> QED  BY <1>1, <1>2, <1>3

\* 0 if it is the smaller or the greater one.
LEMMA AtMostZero ==
  ASSUME NEW t \in {-1, 0, 1}
  PROVE  /\ Max({0, t}) = IF t = 1 THEN 1 ELSE 0
         /\ Min({0, t}) = IF t = -1 THEN -1 ELSE 0
BY DEF Max, Min

\* The volume of 0-100 on the scale of the device, rounded the way it goes.
LEMMA ScaledIs ==
  ASSUME NEW p, p.min \in Int, VolMax(p) \in Int, Width(p) \in Nat, NEW v \in Int,
         NEW up \in BOOLEAN
  PROVE  LET n == Scaled(p, v, up)
             exact == v * Width(p)
         IN  /\ n \in Int
             /\ up => exact <= 100 * n
             /\ ~up => 100 * n <= exact
             /\ \/ 100 * n - exact \in -99..99
                \/ /\ 100 * n - exact \in {-100, 100}
                   /\ exact # 0 /\ exact % 100 = 0 /\ Width(p) % 25 # 0
<1> DEFINE exact == v * Width(p)
           t == ProductRounding(Width(p), exact)
<1>1. exact \in Int
  BY SMT
<1> HIDE DEF exact
<1>2. /\ t \in {-1, 0, 1}
      /\ t # 0 => exact # 0 /\ exact % 100 = 0 /\ Width(p) % 25 # 0
  BY <1>1, ProductRoundingIs
<1>3. /\ Max({0, t}) = IF t = 1 THEN 1 ELSE 0
      /\ Min({0, t}) = IF t = -1 THEN -1 ELSE 0
  BY <1>2, AtMostZero
<1>4. /\ exact \div 100 \in Int
      /\ 100 * (exact \div 100) <= exact /\ exact < 100 * (exact \div 100) + 100
      /\ exact % 100 = 0 => 100 * (exact \div 100) = exact
  BY <1>1, SMT
<1>5. /\ CeilDiv(exact, 100) \in Int
      /\ exact <= 100 * CeilDiv(exact, 100) /\ 100 * CeilDiv(exact, 100) <= exact + 99
      /\ exact % 100 = 0 => 100 * CeilDiv(exact, 100) = exact
  BY <1>1, SMT DEF CeilDiv
<1>6. Scaled(p, v, up) = IF up THEN CeilDiv(exact, 100) + Max({0, t})
                               ELSE exact \div 100 + Min({0, t})
  BY DEF Scaled, exact
<1> DEFINE hi == CeilDiv(exact, 100)
           lo == exact \div 100
<1> HIDE DEF t, hi, lo
<1>7. /\ hi \in Int /\ lo \in Int
      /\ exact <= 100 * hi /\ 100 * hi <= exact + 99
      /\ 100 * lo <= exact /\ exact < 100 * lo + 100
      /\ exact % 100 = 0 => 100 * hi = exact /\ 100 * lo = exact
      /\ Scaled(p, v, up) = IF up THEN hi + (IF t = 1 THEN 1 ELSE 0)
                                   ELSE lo + (IF t = -1 THEN -1 ELSE 0)
  BY <1>3, <1>4, <1>5, <1>6 DEF hi, lo
<1> DEFINE whole == exact % 100 = 0
           odd == Width(p) % 25 # 0
           n == Scaled(p, v, up)
<1>8. t \in {-1, 0, 1} /\ (t # 0 => exact # 0 /\ whole /\ odd)
      /\ (whole => 100 * hi = exact /\ 100 * lo = exact)
  BY <1>2, <1>7
<1> HIDE DEF whole, odd, n
<1>9. n = IF up THEN hi + (IF t = 1 THEN 1 ELSE 0) ELSE lo + (IF t = -1 THEN -1 ELSE 0)
  BY <1>7 DEF n
<1>10. /\ n \in Int
       /\ up => exact <= 100 * n
       /\ ~up => 100 * n <= exact
       /\ \/ 100 * n - exact \in -99..99
          \/ 100 * n - exact \in {-100, 100} /\ exact # 0 /\ whole /\ odd
  BY <1>1, <1>7, <1>8, <1>9
<1> QED BY <1>10 DEF exact, n, whole, odd

\* A whole number of steps, less than a step away, and the way it goes.
LEMMA SteppedIs ==
  ASSUME NEW p, p.step \in Nat \ {0}, NEW n \in Int, NEW up \in BOOLEAN
  PROVE  LET s == Stepped(p, n, up) IN
         /\ s \in Int /\ s % p.step = 0
         /\ up => n <= s /\ s < n + p.step
         /\ ~up => n - p.step < s /\ s <= n
         /\ \A m \in Int : up /\ n <= m /\ m % p.step = 0 => s <= m
         /\ ~up /\ n >= 0 => s >= 0
<1> DEFINE d == p.step
           q == n \div d
           r == n % d
           k == IF r # 0 /\ up THEN q + 1 ELSE q
<1>1. d \in Nat \ {0} /\ q \in Int /\ r \in 0..(d - 1) /\ n = d * q + r
  BY DivIs
<1>2. Stepped(p, n, up) = IF r # 0 /\ up THEN n + d - r ELSE n - r
  BY DEF Stepped
<1> HIDE DEF q, r, d
<1>3. k \in Int
  BY <1>1
<1>4. d * (q + 1) = d * q + d
  BY <1>1, SMT
<1>5. Stepped(p, n, up) = d * k
  BY <1>1, <1>2, <1>4, SMT
<1>6. /\ up => n <= d * k /\ d * k < n + d
      /\ ~up => n - d < d * k /\ d * k <= n
  BY <1>1, <1>4, SMT
<1> HIDE DEF k
<1>7. d * k \in Int /\ (d * k) % d = 0
  <2>1. (k * d) % d = 0
    BY <1>1, <1>3, SMT
  <2>2. k * d = d * k /\ d * k \in Int
    BY <1>1, <1>3, SMT
  <2> QED BY <2>1, <2>2
<1>8. ASSUME NEW m \in Int, up, n <= m, m % d = 0
      PROVE  d * k <= m
  <2> DEFINE j == m \div d
  <2>1. j \in Int /\ m = d * j
    BY <1>1, <1>8, SMT
  <2> HIDE DEF j
  <2>2. SUFFICES ASSUME k > j PROVE FALSE
    BY <2>1, <1>1, <1>3, SMT
  <2>3. d * (k - j - 1) >= 0 /\ d * (k - j - 1) = d * k - d * j - d
    BY <2>1, <2>2, <1>1, <1>3, SMT
  <2> QED BY <2>1, <2>3, <1>1, <1>3, <1>6, <1>7, <1>8, SMT
<1>9. ASSUME ~up, n >= 0 PROVE d * k >= 0
  <2>1. d * k + d > 0
    BY <1>1, <1>6, <1>7, <1>9, SMT
  <2>2. d * (k + 1) > 0
    BY <2>1, <1>1, <1>3, SMT
  <2>3. k >= 0
    BY <2>2, <1>1, <1>3, SMT
  <2> QED BY <2>3, <1>1, <1>3, SMT
<1> QED BY <1>5, <1>6, <1>7, <1>8, <1>9 DEF d

\* What a device with the range r can be sent and read.
ARange(r) == /\ r.min \in Nat /\ r.max \in Nat /\ r.step \in Nat \ {0}
             /\ r.min <= r.max

\* The volume of 0-100 that is read from a device, by what it is at least: what
\* should be a whole number may be read as one less.
LEMMA ReadsAtLeast ==
  ASSUME NEW r, ARange(r), r.min < r.max, NEW v \in Int, NEW a \in Int
  PROVE  LET c == Clamp(v, r.min, r.max)
             d == r.max - r.min
         IN  /\ DevVolTo0100(r, v) \in Int
             /\ a <= DevVolTo0100(r, v) => a * d <= 100 * (c - r.min)
             /\ a * d < 100 * (c - r.min) => a <= DevVolTo0100(r, v)
             /\ a * d = 100 * (c - r.min) =>
                  /\ a - 1 <= DevVolTo0100(r, v)
                  /\ d % 25 = 0 => a <= DevVolTo0100(r, v)
             /\ c = IF v < r.min THEN r.min ELSE IF v > r.max THEN r.max ELSE v
<1> DEFINE c == Clamp(v, r.min, r.max)
           d == r.max - r.min
           x == 100 * (c - r.min)
           t == Rounding(d, x \div d, -FactorError(d))
<1>1. c = IF v < r.min THEN r.min ELSE IF v > r.max THEN r.max ELSE v
  BY ClampIs DEF ARange
<1>2. c \in Int /\ d \in Nat \ {0} /\ VolMax(r) = r.max
  BY <1>1 DEF ARange, VolMax
<1>3. DevVolTo0100(r, v) = x \div d + (IF x % d = 0 THEN Min({0, t}) ELSE 0)
  BY <1>2 DEF DevVolTo0100, Width
<1>4. t \in {-1, 0, 1} /\ (d % 25 = 0 => t = 0)
  BY RoundingIs DEF FactorIsExact
<1>5. Min({0, t}) = IF t = -1 THEN -1 ELSE 0
  BY <1>4, AtMostZero
<1> HIDE DEF c, d, t
<1>6. x \in Int
  BY <1>2 DEF ARange
<1> HIDE DEF x
<1> DEFINE q == x \div d
<1>7. /\ q \in Int /\ x % d \in 0..(d - 1) /\ x = d * q + (x % d)
      /\ a <= q <=> a * d <= x
  BY <1>2, <1>6, DivIs, DivAtLeast
<1> DEFINE f == DevVolTo0100(r, v)
           rest == x % d
<1>8. f = q + (IF rest = 0 /\ t = -1 THEN -1 ELSE 0)
  BY <1>3, <1>5, <1>7
<1> HIDE DEF q, f, rest
<1>9. f \in Int /\ (a <= f => a <= q) /\ (a <= q => a - 1 <= f) /\ (t # -1 /\ a <= q => a <= f)
  BY <1>7, <1>8
<1>10. ASSUME a * d < x PROVE a <= f
  <2>1. a <= q
    BY <1>2, <1>6, <1>7, <1>10
  <2>2. CASE a < q
    BY <2>2, <1>7, <1>8
  <2>3. CASE a = q
    <3>1. rest # 0
      BY <1>2, <1>6, <1>7, <1>10, <2>3 DEF rest
    <3> QED  BY <3>1, <2>3, <1>7, <1>8
  <2> QED  BY <2>1, <2>2, <2>3, <1>7
<1>11. /\ f \in Int
       /\ a <= f => a * d <= x
       /\ a * d < x => a <= f
       /\ a * d = x => a - 1 <= f /\ (d % 25 = 0 => a <= f)
  BY <1>2, <1>4, <1>6, <1>7, <1>9, <1>10
<1> QED BY <1>1, <1>11 DEF c, d, x, f

\* The volume that is sent, as a number of the steps of the device.
LEMMA SentIs ==
  ASSUME NEW r, ARange(r), r.min < r.max, NEW a \in Int, NEW up \in BOOLEAN
  PROVE  LET s == DesiredVolume(r, a, up) - r.min
             d == r.max - r.min
             slack == IF d % 25 = 0 THEN 1 ELSE 0
         IN  /\ s \in Int /\ DesiredVolume(r, a, up) \in Int
             /\ s % r.step = 0
             /\ up => a * d <= 100 * s /\ 100 * s <= a * d + 100 * r.step - slack
             /\ ~up => a * d - 100 * r.step + slack <= 100 * s /\ 100 * s <= a * d
             /\ ~up /\ a >= 0 => s >= 0
             /\ up /\ Divided(r) /\ (a < 100 \/ (a = 100 /\ d % 25 = 0)) => s <= d
<1> DEFINE d == r.max - r.min
           n == Scaled(r, a, up)
           s == Stepped(r, n, up)
           x == a * d
           slack == IF d % 25 = 0 THEN 1 ELSE 0
<1>1. /\ VolMax(r) = r.max /\ r.min \in Int /\ r.max \in Int /\ d \in Nat \ {0}
      /\ r.step \in Nat \ {0} /\ Width(r) = d
  BY DEF VolMax, ARange, Width
<1>2. /\ n \in Int
      /\ up => x <= 100 * n
      /\ ~up => 100 * n <= x
      /\ \/ 100 * n - x \in -99..99
         \/ 100 * n - x \in {-100, 100} /\ x # 0 /\ x % 100 = 0 /\ d % 25 # 0
  BY <1>1, ScaledIs
<1>3. x \in Int
  BY <1>1, SMT
<1> HIDE DEF n, s
<1>4. /\ s \in Int /\ s % r.step = 0
      /\ up => n <= s /\ s < n + r.step
      /\ ~up => n - r.step < s /\ s <= n
      /\ \A m \in Int : up /\ n <= m /\ m % r.step = 0 => s <= m
      /\ ~up /\ n >= 0 => s >= 0
  BY <1>1, <1>2, SteppedIs DEF s
<1>5. DesiredVolume(r, a, up) = r.min + s
  BY DEF DesiredVolume, s, n
<1>6. a >= 0 => x >= 0
  BY <1>1, SMT
<1>7. (a <= 100 => x <= 100 * d) /\ (a < 100 => x <= 100 * d - d)
  <2>1. (100 - a) * d = 100 * d - x /\ (99 - a) * d = 100 * d - d - x
    BY <1>1, SMT
  <2>2. (a <= 100 => (100 - a) * d >= 0) /\ (a < 100 => (99 - a) * d >= 0)
    BY <1>1, SMT
  <2> HIDE DEF x, d
  <2> QED  BY <1>1, <1>3, <2>1, <2>2
<1> DEFINE odd == d % 25 # 0
           whole == x % 100 = 0
<1>8. whole => \E m \in Int : x = 100 * m
  BY <1>3, SMT
<1>9. slack = IF odd THEN 0 ELSE 1
  OBVIOUS
<1> HIDE DEF x, d, odd, whole, slack
<1>10. \/ 100 * n - x \in -99..99
       \/ 100 * n - x \in {-100, 100} /\ x # 0 /\ whole /\ odd
  BY <1>2 DEF odd, whole
<1>11. up => x <= 100 * s /\ 100 * s <= x + 100 * r.step - slack
  BY <1>1, <1>2, <1>3, <1>4, <1>9, <1>10
<1>12. ~up => x - 100 * r.step + slack <= 100 * s /\ 100 * s <= x
  BY <1>1, <1>2, <1>3, <1>4, <1>9, <1>10
<1>13. ASSUME ~up, a >= 0 PROVE s >= 0
  <2>1. n >= 0
    BY <1>2, <1>3, <1>6, <1>8, <1>10, <1>13
  <2> QED  BY <2>1, <1>4, <1>13
<1>14. ASSUME up, Divided(r), a < 100 \/ (a = 100 /\ ~odd) PROVE s <= d
  <2>1. n <= d
    BY <1>1, <1>2, <1>3, <1>7, <1>8, <1>10, <1>14
  <2>2. d % r.step = 0
    BY <1>14 DEF Divided, d
  <2> QED BY <1>1, <1>4, <1>14, <2>1, <2>2
<1>15. DesiredVolume(r, a, up) - r.min = s /\ DesiredVolume(r, a, up) \in Int
  BY <1>1, <1>4, <1>5
<1> QED BY <1>4, <1>11, <1>12, <1>13, <1>14, <1>15 DEF x, d, slack, odd

\* Where the device goes when the volume it had has been read: to another one, or
\* nowhere when going up to the one it has, which was read as one less.
LEMMA MovesThatWay ==
  ASSUME NEW r, ARange(r), r.min < r.max, NEW a \in 0..100, NEW up \in BOOLEAN,
         NEW was \in Int, was <= r.max
  PROVE  LET sent == DesiredVolume(r, a, up)
             d == r.max - r.min
         IN  /\ up /\ a > DevVolTo0100(r, was) =>
                  sent > was \/ (sent = was /\ 100 * (sent - r.min) = a * d /\ d % 25 # 0)
             /\ ~up /\ a < DevVolTo0100(r, was) => sent < was
<1> DEFINE d == r.max - r.min
           c == Clamp(was, r.min, r.max)
           s == DesiredVolume(r, a, up) - r.min
           x == a * d
           read == DevVolTo0100(r, was)
           odd == d % 25 # 0
<1>1. r.min \in Int /\ r.max \in Int /\ d \in Nat \ {0} /\ x \in Int
  BY SMT DEF ARange
<1>2. /\ read \in Int
      /\ x < 100 * (c - r.min) => a <= read
      /\ x = 100 * (c - r.min) => odd \/ a <= read
      /\ a + 1 <= read => (a + 1) * d <= 100 * (c - r.min)
      /\ c = IF was < r.min THEN r.min ELSE was
  <2>1. /\ read \in Int
        /\ x < 100 * (c - r.min) => a <= read
        /\ x = 100 * (c - r.min) /\ d % 25 = 0 => a <= read
        /\ c = IF was < r.min THEN r.min ELSE IF was > r.max THEN r.max ELSE was
    BY ReadsAtLeast
  <2>2. a + 1 <= read => (a + 1) * d <= 100 * (c - r.min)
    BY ReadsAtLeast
  <2> QED  BY <1>1, <2>1, <2>2
<1>3. (a + 1) * d = x + d /\ x >= 0 /\ x <= 100 * d
  BY <1>1, SMT
<1>4. /\ s \in Int /\ DesiredVolume(r, a, up) = r.min + s
      /\ up => x <= 100 * s
      /\ ~up => 100 * s <= x
  BY <1>1, SentIs
<1> HIDE DEF d, c, s, x, read, odd
<1>5. ASSUME up, a > read
      PROVE  r.min + s > was \/ (r.min + s = was /\ 100 * s = x /\ odd)
  <2>1. 100 * (c - r.min) <= x /\ (100 * (c - r.min) = x => odd)
    BY <1>1, <1>2, <1>5
  <2>2. s >= c - r.min
    BY <1>1, <1>2, <1>4, <1>5, <2>1
  <2> QED BY <1>1, <1>2, <1>3, <1>4, <1>5, <2>1, <2>2
<1>6. ASSUME ~up, a < read PROVE r.min + s < was
  <2>1. x + d <= 100 * (c - r.min)
    BY <1>1, <1>2, <1>3, <1>6
  <2>2. s < c - r.min
    BY <1>1, <1>2, <1>4, <1>6, <2>1
  <2> QED BY <1>1, <1>2, <1>3, <1>4, <2>1, <2>2
<1> QED BY <1>4, <1>5, <1>6 DEF s, x, d, read, odd

-----------------------------------------------------------------------------
(* The invariant of the volume.                                             *)

OfOpenHome == [min : {0}, max : Limits, step : {1}]
\* What is known of the range leaves room for a volume.
Usable(p) == p \in [min : Nat, max : Int, step : Nat \ {0}] /\ VolMax(p) >= p.min
ParamsUsable ==
  /\ Usable(params)
  /\ control = "none" => params = DefaultParams /\ vset = Unset /\ last.sent = -1
  /\ control = "OHVolume" => range \in OfOpenHome
  /\ control = "OHVolume" \/ params.max < 0 => params.min = 0
\* The way to go was chosen from the volume that was read.
Chosen(w) ==
  /\ w.asked \in Int /\ w.was \in Int /\ w.up \in BOOLEAN /\ Usable(w.with)
  /\ w.knew => /\ w.up <=> w.asked > DevVolTo0100(w.with, w.was)
               /\ control = "RenderingControl" => w.asked # DevVolTo0100(w.with, w.was)
WayChosen == vset # Unset => Chosen(vset)
SentAsChosen ==
  last.sent # -1 =>
    Chosen(last) /\ last.sent = DesiredVolume(last.with, last.asked, last.up)

VolumeInv == VolumeTypeOK /\ ParamsUsable /\ WayChosen /\ SentAsChosen

LEMMA ReadsAnInt ==
  ASSUME NEW q, Usable(q), NEW v \in Int
  PROVE  DevVolTo0100(q, v) \in Int
<1>1. q.min \in Int /\ VolMax(q) \in Int /\ Width(q) \in Nat
  BY DEF Usable, VolMax, Width
<1>2. Clamp(v, q.min, VolMax(q)) \in Int
  BY <1>1, ClampIs DEF Width
<1> DEFINE d == Width(q)
           x == 100 * (Clamp(v, q.min, VolMax(q)) - q.min)
           t == Rounding(d, x \div d, -FactorError(d))
<1>3. d \in Nat /\ x \in Int
  BY <1>1, <1>2
<1>4. DevVolTo0100(q, v) = IF d = 0 THEN x
                           ELSE x \div d + (IF x % d = 0 THEN Min({0, t}) ELSE 0)
  BY DEF DevVolTo0100
<1>5. t \in {-1, 0, 1}
  BY RoundingIs
<1> HIDE DEF d, x, t
<1>6. Min({0, t}) \in Int
  BY <1>5, AtMostZero
<1> QED BY <1>3, <1>4, <1>6, DivIs

LEMMA SentAnInt ==
  ASSUME NEW q, Usable(q), NEW a \in Int, NEW up \in BOOLEAN
  PROVE  DesiredVolume(q, a, up) \in Int
<1>1. q.min \in Int /\ VolMax(q) \in Int /\ q.step \in Nat \ {0} /\ Width(q) \in Nat
  BY DEF Usable, VolMax, Width
<1>2. Scaled(q, a, up) \in Int
  BY <1>1, ScaledIs
<1>3. Stepped(q, Scaled(q, a, up), up) \in Int
  BY <1>1, <1>2, SteppedIs
<1> QED BY <1>1, <1>3 DEF DesiredVolume

LEMMA RangesAre ==
  /\ \A r \in Ranges : /\ ARange(r) /\ Usable(VolParams(r))
                       /\ VolParams(r).max \in {r.max, 100} /\ VolParams(r).max > 0
  /\ \A r \in OfOpenHome : ARange(r)
<1>1. ASSUME NEW r \in Ranges
      PROVE  /\ ARange(r) /\ Usable(VolParams(r))
             /\ VolParams(r).max \in {r.max, 100} /\ VolParams(r).max > 0
  <2>1. r \in [min : Nat, max : Nat, step : Nat \ {0}] /\ r.min <= r.max
    BY VolumeAssumption
  <2>2. VolParams(r) = [min |-> r.min, max |-> IF r.max > 0 THEN r.max ELSE 100,
                        step |-> r.step]
    BY <2>1 DEF VolParams
  <2> QED BY <2>1, <2>2 DEF ARange, Usable, VolMax
<1>2. ASSUME NEW r \in OfOpenHome PROVE ARange(r)
  <2>1. r \in [min : {0}, max : Nat \ {0}, step : {1}]
    BY VolumeAssumption DEF OfOpenHome
  <2> QED BY <2>1 DEF ARange
<1> QED BY <1>1, <1>2

LEMMA VolumeStarts == VolumeInit => VolumeInv
<1> SUFFICES ASSUME VolumeInit PROVE VolumeInv
  OBVIOUS
<1>1. range \in Ranges /\ device = range.min
  BY VolumeAssumption DEF VolumeInit
<1>2. ARange(range)
  BY <1>1, RangesAre
<1>3. device \in Levels(range)
  BY <1>1, <1>2, SMT DEF Levels, ARange
<1>4. Usable(DefaultParams)
  BY DEF Usable, DefaultParams, VolMax
<1> QED
  BY <1>1, <1>3, <1>4
  DEF VolumeInit, VolumeInv, VolumeTypeOK, ParamsUsable, WayChosen, SentAsChosen,
      DefaultParams

LEMMA VolumeKept == VolumeInv /\ [VolumeNext]_volumeVars => VolumeInv'
<1> SUFFICES ASSUME VolumeInv, [VolumeNext]_volumeVars PROVE VolumeInv'
  OBVIOUS
<1> USE DEF VolumeInv
<1>1. ASSUME NEW r \in Ranges, NEW found \in BOOLEAN, ServiceInit(r, found)
      PROVE  VolumeInv'
  <2>1. range' = r /\ params' \in {VolParams(r), DefaultParams} /\ Usable(params')
    BY <1>1, RangesAre DEF ServiceInit, ParamsUsable
  <2>2. vset' = Unset /\ last'.sent = -1 /\ control' = "RenderingControl"
    BY <1>1 DEF ServiceInit, ParamsUsable
  <2>3. device' \in Levels(range')
    BY <1>1 DEF ServiceInit
  <2>4. ~(params'.max < 0) /\ params'.max \in {range'.max, 100}
    BY <2>1, RangesAre DEF ARange, DefaultParams
  <2>5. VolumeTypeOK'
    BY <2>1, <2>2, <2>3, <2>4 DEF VolumeTypeOK
  <2>6. ParamsUsable' /\ WayChosen' /\ SentAsChosen'
    <3>1. control' # "none" /\ control' # "OHVolume"
      BY <2>2
    <3> QED BY <2>1, <2>2, <2>4, <3>1 DEF ParamsUsable, WayChosen, SentAsChosen
  <2> QED BY <2>5, <2>6
<1>2. ASSUME NEW limit \in Limits, OHInit(limit) PROVE VolumeInv'
  <2>1. /\ control' = "OHVolume" /\ range' \in OfOpenHome /\ params'.max = -1
        /\ params'.min = 0 /\ device' \in Levels(range')
    BY <1>2 DEF OHInit, OfOpenHome, DefaultParams
  <2>2. vset' = Unset /\ last'.sent = -1
    BY <1>2 DEF OHInit, ParamsUsable
  <2>3. Usable(params')
    BY <1>2 DEF OHInit, Usable, DefaultParams, VolMax
  <2> QED
    BY <2>1, <2>2, <2>3
    DEF VolumeTypeOK, ParamsUsable, WayChosen, SentAsChosen, OfOpenHome
<1>3. ASSUME NEW limit \in Limits, LimitChanges(limit) PROVE VolumeInv'
  <2>1. range \in OfOpenHome /\ range' = [range EXCEPT !.max = limit]
    BY <1>3 DEF LimitChanges, ParamsUsable
  <2>2. range' \in OfOpenHome /\ range'.max = limit /\ range.max \in Limits
    BY <2>1 DEF OfOpenHome
  <2>3. /\ range.min = 0 /\ range'.min = 0 /\ range.step = 1 /\ range'.step = 1
        /\ limit \in Nat /\ range.max \in Nat
    BY <2>1, <2>2, VolumeAssumption DEF OfOpenHome
  <2>4. device \in 0..range.max
    BY <2>3 DEF VolumeTypeOK, Levels
  <2>5. device' \in 0..limit
    <3>1. device' = IF device > limit THEN limit ELSE device
      BY <1>3, <2>3, <2>4 DEF LimitChanges, Min
    <3> QED BY <3>1, <2>3, <2>4
  <2>6. device' \in Levels(range')
    <3> DEFINE x == device' - 0
    <3>1. x \in Int
      BY <2>3, <2>5
    <3> HIDE DEF x
    <3>2. x % 1 = 0
      BY <3>1, DivIs
    <3> QED BY <2>2, <2>3, <2>5, <3>2 DEF Levels, x
  <2>7. params' = params /\ vset' = vset /\ control' = control /\ last'.sent = -1
    BY <1>3 DEF LimitChanges
  <2>8. VolumeTypeOK'
    BY <2>2, <2>6, <2>7 DEF VolumeTypeOK, OfOpenHome
  <2>9. ParamsUsable' /\ WayChosen' /\ SentAsChosen'
    BY <1>3, <2>2, <2>7
    DEF LimitChanges, ParamsUsable, WayChosen, SentAsChosen, Chosen
  <2> QED BY <2>8, <2>9
<1>4. ASSUME VolumeLimit PROVE VolumeInv'
  <2>1. range \in OfOpenHome /\ params' = [params EXCEPT !.max = range.max]
    BY <1>4 DEF VolumeLimit, ParamsUsable
  <2>2. range.max \in Nat \ {0} /\ params.min = 0
    BY <1>4, <2>1, VolumeAssumption DEF OfOpenHome, VolumeLimit, ParamsUsable
  <2>3. params'.max = range.max /\ params'.min = 0 /\ Usable(params')
    BY <2>1, <2>2 DEF Usable, VolMax, ParamsUsable
  <2> QED
    BY <1>4, <2>3
    DEF VolumeLimit, VolumeTypeOK, ParamsUsable, WayChosen, SentAsChosen, Chosen
<1>5. ASSUME NEW v \in Asks, SetVolume(v) PROVE VolumeInv'
  <2>1. params' \in Known /\ range' = range /\ device' = device /\ control' = control
        /\ last'.sent = -1 /\ control # "none"
    BY <1>5 DEF SetVolume
  <2>2. /\ params'.max \in {params.max, range.max} /\ params'.min = params.min
        /\ params'.max < 0 => params.max < 0
        /\ Usable(params')
    <3>1. CASE params' = params
      BY <3>1 DEF ParamsUsable
    <3>2. CASE params' = [params EXCEPT !.max = range.max] /\ params.max < 0
      <4>1. range.max \in Nat
        BY RangesAre DEF VolumeTypeOK, OfOpenHome, ARange
      <4> QED BY <3>2, <4>1 DEF ParamsUsable, Usable, VolMax
    <3> QED BY <2>1, <3>1, <3>2 DEF Known
  <2>3. VolumeTypeOK' /\ ParamsUsable' /\ SentAsChosen' /\ WayChosen'
    <3>1. PICK current \in {DevVolTo0100(params', device)} \cup Failed :
            vset' = IF control = "RenderingControl" /\ current = Effective(v) THEN Unset
                    ELSE [at |-> "read", asked |-> Effective(v),
                          up |-> Effective(v) > current, was |-> device,
                          knew |-> current \notin Failed, with |-> params']
      BY <1>5 DEF SetVolume
    <3>2. device \in Int
      <4>1. range.min \in Int /\ range.max \in Int
        BY RangesAre DEF VolumeTypeOK, OfOpenHome, ARange
      <4> QED BY <4>1 DEF VolumeTypeOK, Levels
    <3>3. Effective(v) \in Int
      BY VolumeAssumption, ClampIs DEF Effective
    <3>4. DevVolTo0100(params', device) \in Int
      BY <2>2, <3>2, ReadsAnInt
    <3>5. current \in Int
      BY <3>4 DEF Failed
    <3>6. CASE vset' = Unset
      BY <2>1, <2>2, <3>6
      DEF VolumeTypeOK, ParamsUsable, SentAsChosen, WayChosen
    <3>7. CASE /\ vset' = [at |-> "read", asked |-> Effective(v),
                           up |-> Effective(v) > current, was |-> device,
                           knew |-> current \notin Failed, with |-> params']
               /\ ~(control = "RenderingControl" /\ current = Effective(v))
      <4>1. vset'.at = "read" /\ vset'.asked = Effective(v) /\ vset'.was = device
            /\ vset'.up = (Effective(v) > current) /\ vset'.with = params'
            /\ vset'.knew = (current \notin Failed)
        BY <3>7
      <4>2. vset'.knew => current = DevVolTo0100(params', device)
        BY <4>1
      <4>3. Chosen(vset)'
        <5>1. /\ vset'.asked \in Int /\ vset'.was \in Int /\ vset'.up \in BOOLEAN
              /\ Usable(vset'.with)
          BY <2>2, <3>2, <3>3, <3>5, <4>1
        <5>2. ASSUME vset'.knew
              PROVE  /\ vset'.up <=> vset'.asked > DevVolTo0100(vset'.with, vset'.was)
                     /\ control' = "RenderingControl" =>
                          vset'.asked # DevVolTo0100(vset'.with, vset'.was)
          BY <2>1, <3>7, <4>1, <4>2, <5>2
        <5> QED BY <5>1, <5>2 DEF Chosen
      <4> QED
        BY <2>1, <2>2, <3>3, <4>1, <4>3
        DEF VolumeTypeOK, ParamsUsable, SentAsChosen, WayChosen
    <3> QED BY <3>1, <3>6, <3>7
  <2> QED BY <2>3
<1>6. ASSUME SendVolume PROVE VolumeInv'
  <2> DEFINE s == DesiredVolume(vset.with, vset.asked, vset.up)
  <2>1. Chosen(vset)
    BY <1>6 DEF SendVolume, WayChosen
  <2>2. s \in Int
    BY <2>1, SentAnInt DEF Chosen
  <2>3. /\ last'.sent = s /\ last'.asked = vset.asked /\ last'.up = vset.up
        /\ last'.was = vset.was /\ last'.knew = vset.knew /\ last'.with = vset.with
        /\ vset' = Unset /\ UNCHANGED <<control, range, params>>
        /\ device' = IF s \in Levels(range) THEN s ELSE device
    BY <1>6 DEF SendVolume
  <2>4. Chosen(last)' /\ last'.sent = DesiredVolume(last'.with, last'.asked, last'.up)
    BY <2>1, <2>3 DEF Chosen
  <2>5. control # "none"
    BY <1>6 DEF SendVolume, ParamsUsable
  <2>6. VolumeTypeOK' /\ ParamsUsable' /\ WayChosen'
    BY <2>2, <2>3, <2>5 DEF VolumeTypeOK, ParamsUsable, WayChosen
  <2>7. SentAsChosen'
    BY <2>4 DEF SentAsChosen
  <2> QED BY <2>6, <2>7
<1>7. ASSUME OtherSets PROVE VolumeInv'
  BY <1>7
  DEF OtherSets, VolumeTypeOK, ParamsUsable, WayChosen, SentAsChosen, Chosen
<1>8. ASSUME UNCHANGED volumeVars PROVE VolumeInv'
  BY <1>8
  DEF volumeVars, VolumeTypeOK, ParamsUsable, WayChosen, SentAsChosen, Chosen
<1> QED BY <1>1, <1>2, <1>3, <1>4, <1>5, <1>6, <1>7, <1>8 DEF VolumeNext

-----------------------------------------------------------------------------

\* What was chosen by the volume that was read is what the device is sent to, on
\* its scale: this is all arithmetic.
LEMMA VolumeInvIsSound == VolumeInv => MovesAsAsked
<1> DEFINE r == range
           d == range.max - range.min
           a == last.asked
           s == last.sent - range.min
           x == a * d
           slack == IF d % 25 = 0 THEN 1 ELSE 0
           read == DevVolTo0100(r, last.sent)
<1> SUFFICES ASSUME VolumeInv, Informed, a \in 0..100, r.min < r.max
             PROVE  /\ \/ last.sent \in Levels(r)
                       \/ last.up /\ (~Divided(r) \/ (d % 25 # 0 /\ a = 100))
                    /\ IF last.up THEN 100 * s - x \in 0..(100 * r.step - slack)
                                  ELSE x - 100 * s \in 0..(100 * r.step - slack)
                    /\ IF last.up THEN read >= a - 1 + slack ELSE read <= a
                    /\ last.knew /\ last.was <= r.max =>
                         IF last.up THEN \/ last.sent > last.was
                                         \/ d % 25 # 0 /\ last.sent = last.was /\ 100 * s = x
                                    ELSE last.sent < last.was \/ control = "OHVolume"
  BY DEF MovesAsAsked, FactorIsExact
<1>1. ARange(r) /\ r.min \in Int /\ r.max \in Int /\ d \in Nat \ {0}
      /\ r.step \in Nat \ {0}
  BY RangesAre DEF VolumeInv, VolumeTypeOK, OfOpenHome, ARange
<1>2. /\ Chosen(last) /\ last.with = r
      /\ last.sent = DesiredVolume(r, a, last.up)
  BY DEF VolumeInv, SentAsChosen, Informed
<1>3. /\ a \in Int /\ a >= 0 /\ a <= 100 /\ last.up \in BOOLEAN /\ last.was \in Int
      /\ x \in Int /\ x >= 0 /\ x <= 100 * d
  BY <1>1, <1>2, SMT DEF Chosen
<1>4. /\ s \in Int /\ last.sent \in Int /\ s % r.step = 0
      /\ last.up => x <= 100 * s /\ 100 * s <= x + 100 * r.step - slack
      /\ ~last.up => x - 100 * r.step + slack <= 100 * s /\ 100 * s <= x
      /\ ~last.up => s >= 0
      /\ last.up /\ Divided(r) /\ (a < 100 \/ (a = 100 /\ d % 25 = 0)) => s <= d
  BY <1>1, <1>2, <1>3, SentIs
<1>5. last.sent = r.min + s /\ r.max = r.min + d
  <2>1. \A m, n \in Int : m = n + (m - n)
    OBVIOUS
  <2>2. last.sent \in Int
    BY <1>4
  <2> QED BY <1>1, <2>1, <2>2
<1> DEFINE odd == d % 25 # 0
<1>6. slack = IF odd THEN 0 ELSE 1
  OBVIOUS
<1>7. ASSUME ~(last.up /\ (~Divided(r) \/ (odd /\ a = 100))) PROVE last.sent \in Levels(r)
  <2>1. s >= 0 /\ s <= d
    <3>1. last.up => Divided(r) /\ (a < 100 \/ (a = 100 /\ ~odd))
      BY <1>3, <1>7
    <3>2. last.up => s <= d
      BY <3>1, <1>4
    <3> HIDE DEF x, s, d, odd, slack
    <3> QED BY <1>1, <1>3, <1>4, <1>6, <3>2
  <2>2. last.sent \in r.min..r.max
    BY <1>1, <1>4, <1>5, <2>1
  <2> QED BY <1>4, <2>2 DEF Levels
<1>8. IF last.up THEN 100 * s - x \in 0..(100 * r.step - slack)
                 ELSE x - 100 * s \in 0..(100 * r.step - slack)
  <2> HIDE DEF x, s, d, odd, slack
  <2> QED BY <1>1, <1>3, <1>4, <1>6
<1>9. IF last.up THEN read >= a - 1 + slack ELSE read <= a
  <2> DEFINE c == Clamp(last.sent, r.min, r.max) - r.min
  <2>1. /\ read \in Int
        /\ x < 100 * c => a <= read
        /\ x = 100 * c => a - 1 <= read /\ (~odd => a <= read)
        /\ Clamp(last.sent, r.min, r.max) =
             IF last.sent < r.min THEN r.min
             ELSE IF last.sent > r.max THEN r.max ELSE last.sent
    BY <1>1, <1>3, <1>4, ReadsAtLeast
  <2>2. c = IF s < 0 THEN 0 ELSE IF s > d THEN d ELSE s
    BY <1>1, <1>4, <1>5, <2>1
  <2>3. a + 1 <= read => (a + 1) * d <= 100 * c
    BY <1>1, <1>3, <1>4, ReadsAtLeast
  <2>4. (a + 1) * d = x + d
    BY <1>1, <1>3, SMT
  <2> HIDE DEF c, read, x, s, d, odd, slack
  <2>5. last.up => x <= 100 * c
    BY <1>1, <1>3, <1>4, <2>2
  <2>6. last.up => a - 1 + slack <= read
    BY <1>3, <1>6, <2>1, <2>2, <2>5
  <2>7. ~last.up => read <= a
    BY <1>1, <1>3, <1>4, <1>6, <2>1, <2>2, <2>3, <2>4
  <2> QED BY <1>3, <1>6, <2>1, <2>6, <2>7
<1>10. ASSUME last.knew, last.was <= r.max
       PROVE  IF last.up THEN \/ last.sent > last.was
                              \/ odd /\ last.sent = last.was /\ 100 * s = x
              ELSE last.sent < last.was \/ control = "OHVolume"
  <2> DEFINE w == DevVolTo0100(r, last.was)
  <2>1. w \in Int /\ (last.up <=> a > w) /\ (control = "RenderingControl" => a # w)
    BY <1>1, <1>2, <1>3, <1>10, ReadsAtLeast DEF Chosen
  <2>2. control \in {"RenderingControl", "OHVolume"}
    BY DEF VolumeInv, VolumeTypeOK, ParamsUsable, Informed
  <2>3. /\ last.up /\ a > w =>
             last.sent > last.was \/ (last.sent = last.was /\ 100 * s = x /\ odd)
        /\ ~last.up /\ a < w => last.sent < last.was
    <3>1. LET sent == DesiredVolume(r, a, last.up)
          IN  /\ last.up /\ a > w =>
                   \/ sent > last.was
                   \/ sent = last.was /\ 100 * (sent - r.min) = a * d /\ d % 25 # 0
              /\ ~last.up /\ a < w => sent < last.was
      BY <1>1, <1>3, <1>10, MovesThatWay
    <3> QED  BY <3>1, <1>2
  <2> HIDE DEF w, odd, x, s, d
  <2> QED BY <1>3, <2>1, <2>2, <2>3
<1> QED BY <1>7, <1>8, <1>9, <1>10

LEMMA VolumeAlways == VolumeSpec => []VolumeInv
BY VolumeStarts, VolumeKept, PTL DEF VolumeSpec

\* The range a control point works with, a volume that is being set and the one
\* of the device (renderingcontrol.cxx, ohvolume.cxx) keep their types; so the
\* device has one of its levels, whatever it is sent.
THEOREM VolumeTypeCorrect == VolumeSpec => []VolumeTypeOK
<1>1. VolumeInv => VolumeTypeOK
  BY DEF VolumeInv
<1> QED BY <1>1, VolumeAlways, PTL

\* For any range, step and limit of a device, wherever the double of its factor
\* falls, whatever moves the device and changes its limit between the two actions
\* of setVolume(), and whichever of them fail: a volume that was worked out with the
\* range of the device is on the side of what was asked for that the move comes to,
\* less than a step from it, or a step if the factor is off; it is a level of the
\* device unless an odd step or the factor takes it up above the range; and the
\* device moves that way, or stays where it was asked to be.
THEOREM VolumeMovesAsAsked == VolumeSpec => []MovesAsAsked
BY VolumeInvIsSound, VolumeAlways, PTL

-----------------------------------------------------------------------------
(* FindService: services, devices and what is found in them.              *)

\* A set of numbers has a least one: what CHOOSE takes for "the first".
LEMMA LeastOf ==
  ASSUME NEW T, T \subseteq Nat, T # {}
  PROVE  \E x \in T : \A y \in T : x <= y
<1>1. PICK x \in T : \A y \in T : ~(<<y, x>> \in OpToRel(<, Nat))
  BY NatLessThanWellFounded, WFMin
<1>2. \A y \in T : ~(y < x)
  BY <1>1 DEF OpToRel
<1>3. x \in Nat /\ \A y \in T : y \in Nat
  OBVIOUS
<1> QED  BY <1>2, <1>3

AService == [type : STRING, version : Nat \ {0}]
ADevice == [name : STRING \cup {"none"}, services : Seq(AService)]

LEMMA FirstOfIs ==
  ASSUME NEW services \in Seq(AService), NEW some, some \subseteq DOMAIN services
  PROVE  IF some = {} THEN FirstOf(services, some) = <<>>
         ELSE \E k \in some : FirstOf(services, some) = <<services[k]>>
<1>1. some \subseteq Nat
  BY LenProperties
<1>2. CASE some = {}
  BY <1>2 DEF FirstOf
<1>3. CASE some # {}
  BY <1>1, <1>3, LeastOf DEF FirstOf
<1> QED  BY <1>2, <1>3

\* The service that a visitor takes from a device is one that was asked for.
LEMMA FirstWantedIs ==
  ASSUME NEW asked, NEW owner \in ADevice, FirstWanted(asked, owner) # <<>>
  PROVE  /\ owner # NoFound /\ owner.name = asked.name
         /\ FirstWanted(asked, owner)[1] \in AService
         /\ FirstWanted(asked, owner)[1] \in ToSet(owner.services)
         /\ ServiceMatches(asked, FirstWanted(asked, owner)[1])
<1> DEFINE services == owner.services
           some == {k \in DOMAIN services : ServiceMatches(asked, services[k])}
<1>1. services \in Seq(AService) /\ \A k \in DOMAIN services : services[k] \in AService
  BY ElementOfSeq, LenProperties DEF ADevice
<1>2. owner.name = asked.name /\ FirstWanted(asked, owner) = FirstOf(services, some)
  BY DEF FirstWanted, FirstWanted_AnyDevice
<1>3. PICK k \in some : FirstOf(services, some) = <<services[k]>>
  BY <1>1, <1>2, FirstOfIs
<1>4. FirstWanted(asked, owner)[1] = services[k]
  BY <1>2, <1>3
<1>5. services # <<>>
  BY <1>3
<1>6. owner # NoFound
  BY <1>5 DEF NoFound, DeviceNamed
<1> QED  BY <1>1, <1>2, <1>3, <1>4, <1>6 DEF ToSet

\* The object is bound to a service of the type of the one that was found.
LEMMA BoundToIs ==
  ASSUME NEW owner \in ADevice, NEW typed \in ToSet(owner.services)
  PROVE  /\ BoundTo(typed, owner) \in AService
         /\ BoundTo(typed, owner).type = typed.type
         /\ BoundTo(typed, owner).version <= typed.version
<1> DEFINE services == owner.services
           some == {k \in DOMAIN services : /\ services[k].type = typed.type
                                            /\ services[k].version <= typed.version}
<1>1. services \in Seq(AService) /\ \A k \in DOMAIN services : services[k] \in AService
  BY ElementOfSeq, LenProperties DEF ADevice
<1>2. PICK n \in DOMAIN services : typed = services[n]
  BY DEF ToSet
<1>3. n \in some
  <2>1. services[n].version \in Nat
    BY <1>1 DEF AService
  <2> QED  BY <1>2, <2>1
<1>4. PICK k \in some : FirstOf(services, some) = <<services[k]>>
  BY <1>1, <1>3, FirstOfIs
<1>5. BoundTo(typed, owner) = services[k]
  <2> DEFINE fits == FirstOf(services, some)
  <2>1. BoundTo(typed, owner) = IF fits = <<>> THEN NoTyped ELSE fits[1]
    BY DEF BoundTo
  <2>2. fits = <<services[k]>>
    BY <1>4
  <2> HIDE DEF fits
  <2> QED  BY <2>1, <2>2
<1> QED  BY <1>1, <1>4, <1>5

LEMMA KnownAre ==
  /\ DOMAIN KnownDevices \subseteq Nat /\ 0 \notin DOMAIN KnownDevices
  /\ \A n \in DOMAIN KnownDevices : KnownDevices[n] \in ADevice
<1> DEFINE D == [name : STRING, services : Seq(AService)]
<1>1. KnownDevices \in Seq(D)
  BY FindAssumption DEF AService
<1>2. D \subseteq ADevice
  BY DEF ADevice
<1> HIDE DEF D
<1> QED  BY <1>1, <1>2, LenProperties, ElementOfSeq

\* A traversal ends at a device that was asked for, unless there is none.
LEMMA TraversedIs ==
  ASSUME NEW asked, pool \subseteq DOMAIN KnownDevices
  PROVE  LET found == Traversed(asked) IN
         \/ /\ found.dev = NoFound /\ found.serv = NoTyped
            /\ \A n \in pool : FirstWanted(asked, KnownDevices[n]) = <<>>
         \/ \E n \in pool : /\ FirstWanted(asked, KnownDevices[n]) # <<>>
                            /\ found.dev = KnownDevices[n]
                            /\ found.serv = FirstWanted(asked, KnownDevices[n])[1]
<1> DEFINE wanted == {n \in pool : FirstWanted(asked, KnownDevices[n]) # <<>>}
           n == CHOOSE k \in wanted : \A j \in wanted : k <= j
<1>1. CASE wanted = {}
  BY <1>1 DEF Traversed
<1>2. CASE wanted # {}
  <2>1. n \in wanted
    BY <1>2, LeastOf, KnownAre
  <2>2. /\ Traversed(asked).dev = KnownDevices[n]
        /\ Traversed(asked).serv = FirstWanted(asked, KnownDevices[n])[1]
    BY <1>2 DEF Traversed
  <2> QED  BY <2>1, <2>2
<1> QED  BY <1>1, <1>2

-----------------------------------------------------------------------------
(* The invariant of the searches.                                           *)

FindPlaces == {"start", "wait", "remove", "look", "bind", "done"}
AServiceOrNone == AService \cup {NoTyped}
SomeDevices == SUBSET DOMAIN KnownDevices
ASeeker ==
  [pc : FindPlaces, request : SomeRequests, index : Nat, dev : ADevice,
   serv : AServiceOrNone, ret : AServiceOrNone,
   bound : AServiceOrNone, seen : SomeDevices]
FindTypes ==
  /\ pool \subseteq DOMAIN KnownDevices
  /\ callbacks \in Seq({"deviceFound"} \cup Seekers) /\ callbacks # <<>>
  /\ callbacks[1] = "deviceFound"
  /\ \A n \in 2..Len(callbacks) : callbacks[n] \in Seekers
  /\ explorer \in [pc : {"idle", "visiting"}, dev : DOMAIN KnownDevices \cup {0},
                   at : Nat, half : BOOLEAN]
  /\ explorer.pc = "visiting" => explorer.dev # 0
  /\ explorer.pc = "idle" => explorer.at = 0
  /\ explorer.at <= Len(callbacks) + 1
  /\ explorer.half => explorer.at \in 1..Len(callbacks)
  /\ seekers \in [Seekers -> ASeeker]
  /\ \A s \in Seekers : seekers[s].pc # "start" => seekers[s].index >= 2
  /\ finds \in 0..MaxFinds /\ overlapped \subseteq Seekers

\* Of two threads that have a visitor at one time each has overlapped.
OverlapsAreSeen == \A s, t \in Watching : s # t => s \in overlapped
\* The visitor of a thread is the last one while it is alone, and has its index.
Placed(s) ==
  \A n \in DOMAIN callbacks :
    callbacks[n] = s => s \in Watching /\ n = Len(callbacks) /\ seekers[s].index = n
\* What a thread has found is what it has asked for ...
Right(p) ==
  p.dev = NoFound \/ /\ p.dev.name = p.request.name
                     /\ p.serv \in ToSet(p.dev.services) /\ p.serv \in AService
                     /\ ServiceMatches(p.request, p.serv)
\* ... but while its visitor has written the device and not yet the service.
Writing(s) == explorer.half /\ callbacks[explorer.at] = s
FoundRight(s) ==
  IF Writing(s)
  THEN /\ FirstWanted(seekers[s].request, KnownDevices[explorer.dev]) # <<>>
       /\ seekers[s].dev = KnownDevices[explorer.dev]
  ELSE Right(seekers[s])
\* The last resort is looked into when nothing was found, and is all that counts.
Concluded(s) ==
  LET p == seekers[s] IN
  /\ p.pc \notin {"bind", "done"} => p.seen = {}
  /\ p.dev = NoFound => \A n \in p.seen : FirstWanted(p.request, KnownDevices[n]) = <<>>
  /\ p.pc = "done" => /\ p.ret = IF p.dev = NoFound THEN NoTyped ELSE p.serv
                      /\ p.bound = BoundTo(p.serv, p.dev)

FindInv ==
  /\ FindTypes /\ OverlapsAreSeen
  /\ \A s \in Seekers \ overlapped : Placed(s) /\ FoundRight(s) /\ Concluded(s)

LEMMA NoneAre == NoFound \in ADevice /\ NoFound.services = <<>> /\ NoTyped \notin AService
<1>1. <<>> \in Seq(AService)
  BY EmptySeq
<1>2. NoFound = [name |-> "none", services |-> <<>>]
  BY DEF NoFound, DeviceNamed
<1>3. NoTyped.version = 0
  BY DEF NoTyped, Typed
<1>4. \A x \in AService : x.version # 0
  BY DEF AService
<1>5. NoFound \in ADevice
  <2>1. ASSUME NEW e \in Seq(AService) PROVE [name |-> "none", services |-> e] \in ADevice
    BY DEF ADevice
  <2> QED  BY <1>1, <1>2, <2>1
<1>6. NoFound.services = <<>>
  BY <1>2
<1>7. NoTyped \notin AService
  BY <1>3, <1>4
<1> QED  BY <1>5, <1>6, <1>7

LEMMA BoundToType ==
  ASSUME NEW owner \in ADevice, NEW typed
  PROVE  BoundTo(typed, owner) \in AServiceOrNone
<1> DEFINE services == owner.services
           some == {k \in DOMAIN services : /\ services[k].type = typed.type
                                            /\ services[k].version <= typed.version}
           fits == FirstOf(services, some)
<1>1. services \in Seq(AService) /\ \A k \in DOMAIN services : services[k] \in AService
  BY ElementOfSeq, LenProperties DEF ADevice
<1>2. BoundTo(typed, owner) = IF fits = <<>> THEN NoTyped ELSE fits[1]
  BY DEF BoundTo
<1>3. fits = <<>> \/ \E k \in some : fits = <<services[k]>>
  BY <1>1, FirstOfIs
<1> HIDE DEF fits
<1> QED  BY <1>1, <1>2, <1>3 DEF AServiceOrNone

LEMMA FindInitIsFine == FindInit => FindInv
<1> SUFFICES ASSUME FindInit PROVE FindInv
  OBVIOUS
<1>1. callbacks = <<"deviceFound">> /\ Len(callbacks) = 1 /\ callbacks[1] = "deviceFound"
      /\ DOMAIN callbacks = 1..1 /\ callbacks # <<>>
      /\ callbacks \in Seq({"deviceFound"} \cup Seekers)
  <2>1. callbacks = <<"deviceFound">>
    BY DEF FindInit
  <2> QED  BY <2>1
<1>2. PICK requests \in [Seekers -> SomeRequests] :
        seekers = [s \in Seekers |->
          [pc |-> "start", request |-> requests[s], index |-> 0, dev |-> NoFound,
           serv |-> NoTyped, ret |-> NoTyped, bound |-> NoTyped, seen |-> {}]]
  BY DEF FindInit
<1>3. seekers \in [Seekers -> ASeeker] /\ \A s \in Seekers : seekers[s].pc = "start"
      /\ seekers[s].dev = NoFound /\ seekers[s].seen = {}
  <2>1. /\ "start" \in FindPlaces /\ NoTyped \in AServiceOrNone /\ {} \in SomeDevices
        /\ NoFound \in ADevice
    BY NoneAre DEF FindPlaces, AServiceOrNone, SomeDevices
  <2> QED  BY <1>2, <2>1 DEF ASeeker
<1>4. FindTypes
  BY <1>1, <1>3, KnownAre, FindAssumption DEF FindInit, FindTypes, Resting
<1>5. Watching = {}
  BY <1>3 DEF Watching
<1>6. ASSUME NEW s \in Seekers PROVE Placed(s) /\ FoundRight(s) /\ Concluded(s)
  <2>1. \A n \in DOMAIN callbacks : callbacks[n] # s
    BY <1>1, FindAssumption
  <2>2. ~explorer.half
    BY DEF FindInit, Resting
  <2> QED  BY <1>3, <2>1, <2>2 DEF Placed, FoundRight, Writing, Right, Concluded
<1> QED  BY <1>4, <1>5, <1>6 DEF FindInv, OverlapsAreSeen

\* Where no visitor comes, goes or writes, only one that is between its two
\* steps matters.
LEMMA NoSeekerKeeps ==
  ASSUME FindInv, FindTypes', UNCHANGED <<callbacks, seekers, overlapped>>,
         explorer' = explorer \/ (~explorer.half /\ ~explorer'.half)
  PROVE  FindInv'
<1>1. Watching' = Watching
  BY DEF Watching
<1>2. OverlapsAreSeen'
  BY <1>1 DEF FindInv, OverlapsAreSeen
<1>3. ASSUME NEW s \in Seekers \ overlapped PROVE Placed(s)' /\ FoundRight(s)' /\ Concluded(s)'
  <2>1. Placed(s) /\ FoundRight(s) /\ Concluded(s)
    BY DEF FindInv
  <2>2. Placed(s)' /\ Concluded(s)'
    BY <1>1, <2>1 DEF Placed, Concluded
  <2>3. FoundRight(s)'
    BY <2>1 DEF FoundRight, Writing
  <2> QED  BY <2>2, <2>3
<1> QED  BY <1>2, <1>3 DEF FindInv

LEMMA ExplorerKeeps ==
  ASSUME FindInv,
         \/ \E n \in DOMAIN KnownDevices : Finds(n)
         \/ \E n \in pool : Loses(n)
         \/ BeginVisits \/ EndVisits \/ WindowCloses \/ UNCHANGED findVars
  PROVE  FindInv'
<1>0. FindTypes /\ Len(callbacks) \in Nat
  BY LenProperties DEF FindInv, FindTypes
<1>1. ASSUME NEW n \in DOMAIN KnownDevices, Finds(n) PROVE FindInv'
  <2>1. /\ explorer' = [pc |-> "visiting", dev |-> n, at |-> 0, half |-> FALSE]
        /\ pool' = pool \cup {n} /\ finds' = finds + 1 /\ finds < MaxFinds
        /\ UNCHANGED <<callbacks, seekers, overlapped>> /\ explorer.pc = "idle"
    BY <1>1 DEF Finds, Resting, NoSeeker
  <2>2. ~explorer.half
    BY <1>0, <2>1 DEF FindTypes
  <2>3. FindTypes'
    BY <1>0, <2>1, KnownAre, FindAssumption DEF FindTypes
  <2> QED  BY <2>1, <2>2, <2>3, NoSeekerKeeps
<1>2. ASSUME NEW n \in pool, Loses(n) PROVE FindInv'
  <2>1. pool' \subseteq pool /\ UNCHANGED <<callbacks, seekers, overlapped, explorer, finds>>
    BY <1>2 DEF Loses, NoSeeker
  <2>2. FindTypes'
    BY <1>0, <2>1 DEF FindTypes
  <2> QED  BY <2>1, <2>2, NoSeekerKeeps
<1>3. ASSUME BeginVisits PROVE FindInv'
  <2>1. /\ explorer' = [explorer EXCEPT !.at = 1] /\ explorer.at = 0
        /\ explorer.pc = "visiting"
        /\ UNCHANGED <<callbacks, seekers, overlapped, pool, finds>>
    BY <1>3 DEF BeginVisits, NoSeeker
  <2>2. ~explorer.half
    BY <1>0, <2>1 DEF FindTypes
  <2>3. FindTypes'
    BY <1>0, <2>1, <2>2 DEF FindTypes
  <2> QED  BY <1>0, <2>1, <2>2, <2>3, NoSeekerKeeps DEF FindTypes
<1>4. ASSUME EndVisits PROVE FindInv'
  <2>1. explorer' = [pc |-> "idle", dev |-> 0, at |-> 0, half |-> FALSE]
        /\ UNCHANGED <<callbacks, seekers, overlapped, pool, finds>>
    BY <1>4 DEF EndVisits, NoSeeker, Resting
  <2>2. ~explorer.half
    BY <1>0, <1>4 DEF EndVisits, FindTypes
  <2>3. FindTypes'
    BY <1>0, <2>1 DEF FindTypes
  <2> QED  BY <2>1, <2>2, <2>3, NoSeekerKeeps
<1>5. ASSUME WindowCloses \/ UNCHANGED findVars PROVE FindInv'
  <2>1. UNCHANGED <<callbacks, seekers, overlapped, explorer, pool, finds>>
    BY <1>5 DEF WindowCloses, findVars, NoSeeker
  <2>2. FindTypes'
    BY <1>0, <2>1 DEF FindTypes
  <2> QED  BY <2>1, <2>2, NoSeekerKeeps
<1> QED  BY <1>1, <1>2, <1>3, <1>4, <1>5

\* A thread's record with some fields written, the others' left alone.
LEMMA OneIsWritten ==
  ASSUME seekers \in [Seekers -> ASeeker], NEW s \in Seekers, NEW r \in ASeeker,
         seekers' = [seekers EXCEPT ![s] = r]
  PROVE  /\ seekers' \in [Seekers -> ASeeker] /\ seekers'[s] = r
         /\ \A t \in Seekers : t # s => seekers'[t] = seekers[t]
OBVIOUS

LEMMA VisitTypes ==
  ASSUME FindTypes, explorer.pc = "visiting", explorer.at \in 1..Len(callbacks),
         UNCHANGED <<pool, callbacks, finds, overlapped>>,
         seekers' \in [Seekers -> ASeeker],
         \A t \in Seekers : /\ seekers'[t].pc = seekers[t].pc
                           /\ seekers'[t].index = seekers[t].index,
         NEW at \in {explorer.at, explorer.at + 1}, NEW half \in BOOLEAN,
         half => at = explorer.at,
         explorer' = [pc |-> "visiting", dev |-> explorer.dev, at |-> at, half |-> half]
  PROVE  FindTypes'
<1>1. Len(callbacks) \in Nat
  BY LenProperties DEF FindTypes
<1>2. /\ explorer.at \in Nat /\ explorer.dev \in DOMAIN KnownDevices \cup {0}
      /\ explorer.dev # 0
  BY DEF FindTypes
<1>3. at \in Nat /\ at <= Len(callbacks) + 1
  BY <1>1, <1>2
<1>4. explorer' \in [pc : {"idle", "visiting"}, dev : DOMAIN KnownDevices \cup {0},
                    at : Nat, half : BOOLEAN]
  BY <1>2, <1>3
<1>5. /\ explorer'.pc = "visiting" /\ explorer'.dev = explorer.dev
      /\ explorer'.at = at /\ explorer'.half = half
  OBVIOUS
<1> QED  BY <1>2, <1>3, <1>4, <1>5 DEF FindTypes

LEMMA VisitKeeps ==
  ASSUME FindInv, Visit, NEW s, s = callbacks[explorer.at]
  PROVE  FindInv'
<1> DEFINE owner == KnownDevices[explorer.dev]
           wanted == FirstWanted(seekers[s].request, owner)
<1>0. /\ FindTypes /\ OverlapsAreSeen /\ Len(callbacks) \in Nat
      /\ explorer.at \in 1..Len(callbacks) /\ explorer.at \in DOMAIN callbacks
      /\ explorer.pc = "visiting" /\ seekers \in [Seekers -> ASeeker]
      /\ explorer.half \in BOOLEAN
  BY LenProperties DEF FindInv, FindTypes, Visit, Visiting
<1>1. explorer.dev \in DOMAIN KnownDevices /\ owner \in ADevice
  BY <1>0, KnownAre DEF FindTypes
<1>2. UNCHANGED <<pool, callbacks, window, finds, overlapped>>
  BY DEF Visit
<1>3. ASSUME NEW t \in Seekers \ overlapped
      PROVE  Placed(t) /\ FoundRight(t) /\ Concluded(t)
  BY DEF FindInv
<1>4. ASSUME NextVisitor
      PROVE  explorer' = [pc |-> "visiting", dev |-> explorer.dev, at |-> explorer.at + 1,
                          half |-> FALSE]
  BY <1>0, <1>4 DEF NextVisitor, FindTypes
<1>5. ASSUME s \in Seekers \ overlapped
      PROVE  seekers[s].pc \in {"wait", "remove"} /\ seekers[s].seen = {}
  <2>1. Placed(s) /\ Concluded(s)
    BY <1>3, <1>5
  <2>2. s \in Watching
    BY <1>0, <2>1 DEF Placed
  <2> QED  BY <2>1, <2>2 DEF Watching, Concluded
\* The visitor does nothing.
<1>6. ASSUME NextVisitor, UNCHANGED seekers,
             s \in Seekers /\ seekers[s].pc # "done" => wanted = <<>>
      PROVE  FindInv'
  <2>1. FindTypes'
    <3> DEFINE at == explorer.at + 1
               half == FALSE
    <3>1. at \in {explorer.at, explorer.at + 1} /\ half \in BOOLEAN
          /\ (half => at = explorer.at)
      OBVIOUS
    <3>2. explorer' = [pc |-> "visiting", dev |-> explorer.dev, at |-> at, half |-> half]
      BY <1>4, <1>6
    <3> HIDE DEF at, half
    <3> QED  BY <1>0, <1>2, <1>6, <3>1, <3>2, VisitTypes
  <2>2. Watching' = Watching /\ OverlapsAreSeen'
    BY <1>0, <1>2, <1>6 DEF Watching, OverlapsAreSeen
  <2>3. ASSUME NEW t \in Seekers \ overlapped
        PROVE  Placed(t)' /\ FoundRight(t)' /\ Concluded(t)'
    <3>1. Placed(t)' /\ Concluded(t)'
      BY <1>2, <1>3, <1>6, <2>2 DEF Placed, Concluded
    <3>2. ~Writing(t)
      BY <1>3, <1>5, <1>6 DEF Writing, FoundRight
    <3>3. ~explorer'.half
      BY <1>4, <1>6
    <3> QED  BY <1>3, <1>6, <3>1, <3>2, <3>3 DEF FoundRight, Writing
  <2> QED  BY <1>2, <2>1, <2>2, <2>3 DEF FindInv
\* It writes the device or the service.
<1>7. ASSUME s \in Seekers, NEW r \in ASeeker, seekers' = [seekers EXCEPT ![s] = r],
             r.pc = seekers[s].pc, r.index = seekers[s].index, r.seen = seekers[s].seen,
             NEW half \in BOOLEAN,
             explorer' = [pc |-> "visiting", dev |-> explorer.dev, half |-> half,
                          at |-> IF half THEN explorer.at ELSE explorer.at + 1],
             IF half THEN r.dev = owner /\ r.request = seekers[s].request /\ wanted # <<>>
                     ELSE s \notin overlapped => Right(r)
      PROVE  FindInv'
  <2>1. /\ seekers' \in [Seekers -> ASeeker]
        /\ seekers'[s] = r /\ \A t \in Seekers : t # s => seekers'[t] = seekers[t]
    BY <1>0, <1>7, OneIsWritten
  <2>2. \A t \in Seekers : /\ seekers'[t].pc = seekers[t].pc
                           /\ seekers'[t].index = seekers[t].index
    BY <1>7, <2>1
  <2>3. Watching' = Watching /\ OverlapsAreSeen'
    BY <1>0, <1>2, <2>2 DEF Watching, OverlapsAreSeen
  <2>4. FindTypes'
    <3> DEFINE at == IF half THEN explorer.at ELSE explorer.at + 1
    <3>1. at \in {explorer.at, explorer.at + 1} /\ (half => at = explorer.at)
      OBVIOUS
    <3>2. explorer' = [pc |-> "visiting", dev |-> explorer.dev, at |-> at, half |-> half]
      BY <1>7
    <3> HIDE DEF at
    <3> QED  BY <1>0, <1>2, <2>1, <2>2, <3>1, <3>2, VisitTypes
  <2>5. explorer'.half = half /\ explorer'.dev = explorer.dev
        /\ (half => explorer'.at = explorer.at)
    BY <1>7
  <2>6. ASSUME NEW t \in Seekers \ overlapped
        PROVE  Placed(t)' /\ FoundRight(t)' /\ Concluded(t)'
    <3>1. Placed(t)'
      BY <1>2, <1>3, <2>2, <2>3 DEF Placed
    <3>2. CASE t = s
      <4>1. seekers'[t].pc \in {"wait", "remove"} /\ seekers'[t].seen = {}
        BY <1>5, <1>7, <2>1, <3>2
      <4>2. Concluded(t)'
        BY <4>1 DEF Concluded
      <4>3. FoundRight(t)'
        <5>1. CASE half
          <6>1. Writing(t)' /\ KnownDevices[explorer'.dev] = owner
            BY <1>2, <2>5, <3>2, <5>1 DEF Writing
          <6>2. seekers'[t].dev = owner /\ seekers'[t].request = seekers[s].request
                /\ wanted # <<>>
            BY <1>7, <2>1, <3>2, <5>1
          <6> QED  BY <6>1, <6>2 DEF FoundRight
        <5>2. CASE ~half
          BY <1>7, <2>1, <2>5, <3>2, <5>2 DEF FoundRight, Writing
        <5> QED  BY <5>1, <5>2
      <4> QED  BY <3>1, <4>2, <4>3
    <3>3. CASE t # s
      <4>1. seekers'[t] = seekers[t] /\ ~Writing(t) /\ ~Writing(t)'
        <5>1. seekers'[t] = seekers[t]
          BY <2>1, <3>3
        <5>2. ~Writing(t)
          BY <3>3 DEF Writing
        <5>3. ~Writing(t)'
          BY <1>2, <2>5, <3>3 DEF Writing
        <5> QED  BY <5>1, <5>2, <5>3
      <4> QED  BY <1>3, <3>1, <4>1 DEF FoundRight, Concluded
    <3> QED  BY <3>2, <3>3
  <2> QED  BY <1>2, <2>3, <2>4, <2>6 DEF FindInv
<1>8. ASSUME s \in Seekers, wanted # <<>>, explorer.half, NextVisitor,
             seekers' = [seekers EXCEPT ![s].serv = wanted[1]]
      PROVE  FindInv'
  <2> DEFINE p == seekers[s]
             r == [p EXCEPT !.serv = wanted[1]]
  <2>1. /\ owner.name = p.request.name
        /\ wanted[1] \in AService /\ wanted[1] \in ToSet(owner.services)
        /\ ServiceMatches(p.request, wanted[1])
    BY <1>1, <1>8, FirstWantedIs
  <2>2. p \in ASeeker
    BY <1>0, <1>8
  <2>3. /\ r \in ASeeker /\ r.pc = p.pc /\ r.index = p.index /\ r.seen = p.seen
        /\ r.serv = wanted[1] /\ r.dev = p.dev /\ r.request = p.request
    <3> HIDE DEF p, wanted, owner
    <3> QED  BY <2>1, <2>2 DEF ASeeker, AServiceOrNone
  <2>4. seekers' = [seekers EXCEPT ![s] = r]
    BY <1>8
  <2> HIDE DEF r
  <2>5. ASSUME s \notin overlapped PROVE Right(r)
    <3>1. p.dev = owner
      BY <1>3, <1>8, <2>5 DEF FoundRight, Writing
    <3> QED  BY <2>1, <2>3, <3>1 DEF Right
  <2> QED  BY <1>4, <1>7, <1>8, <2>3, <2>4, <2>5
<1>9. ASSUME s \in Seekers, wanted # <<>>, ~explorer.half,
             seekers' = [seekers EXCEPT ![s].dev = owner],
             explorer' = [explorer EXCEPT !.half = TRUE]
      PROVE  FindInv'
  <2> DEFINE p == seekers[s]
             r == [p EXCEPT !.dev = owner]
  <2>1. p \in ASeeker
    BY <1>0, <1>9
  <2>2. /\ r \in ASeeker /\ r.pc = p.pc /\ r.index = p.index /\ r.seen = p.seen
        /\ r.dev = owner /\ r.request = p.request
    <3> HIDE DEF p, wanted, owner
    <3> QED  BY <1>1, <2>1 DEF ASeeker
  <2>3. seekers' = [seekers EXCEPT ![s] = r]
    BY <1>9
  <2> HIDE DEF r
  <2>4. explorer' = [pc |-> "visiting", dev |-> explorer.dev, half |-> TRUE, at |-> explorer.at]
    BY <1>0, <1>9 DEF FindTypes
  <2> QED  BY <1>7, <1>9, <2>2, <2>3, <2>4
<1> QED
  <2>1. s = "deviceFound" => s \notin Seekers
    BY FindAssumption
  <2> QED  BY <2>1, <1>0, <1>6, <1>8, <1>9 DEF Visit

\* What a thread does without its visitor: it is enough to look at what it has then.
LEMMA OwnStepKeeps ==
  ASSUME FindInv, NEW s \in Seekers, NEW r \in ASeeker,
         UNCHANGED <<pool, callbacks, explorer, finds, overlapped>>,
         seekers' = [seekers EXCEPT ![s] = r],
         r.index = seekers[s].index, r.request = seekers[s].request,
         \/ seekers[s].pc = "wait" /\ r.pc = "remove"
         \/ seekers[s].pc \in {"look", "bind"} /\ r.pc \in {"bind", "done"},
         \/ r.dev = seekers[s].dev /\ r.serv = seekers[s].serv
         \/ seekers[s].pc = "look" /\ Right(r),
         s \notin overlapped => Concluded(s)'
  PROVE  FindInv'
<1>0. FindTypes /\ OverlapsAreSeen
  BY DEF FindInv
<1>2. ASSUME NEW t \in Seekers \ overlapped
      PROVE  Placed(t) /\ FoundRight(t) /\ Concluded(t)
  BY DEF FindInv
<1>3. /\ seekers' \in [Seekers -> ASeeker] /\ seekers'[s] = r
      /\ \A t \in Seekers : t # s => seekers'[t] = seekers[t]
  BY <1>0, OneIsWritten DEF FindTypes
<1>4. Watching' = Watching
  BY <1>3 DEF Watching
<1>5. FindTypes' /\ OverlapsAreSeen'
  BY <1>0, <1>3, <1>4 DEF FindTypes, OverlapsAreSeen
<1>6. ASSUME NEW t \in Seekers \ overlapped
      PROVE  Placed(t)' /\ FoundRight(t)' /\ Concluded(t)'
  <2>1. Placed(t)'
    BY <1>2, <1>3, <1>4 DEF Placed
  <2>2. CASE t # s
    BY <1>2, <1>3, <2>1, <2>2 DEF FoundRight, Writing, Concluded
  <2>3. CASE t = s
    <3>1. Writing(s)' <=> Writing(s)
      BY DEF Writing
    <3>2. CASE r.dev = seekers[s].dev /\ r.serv = seekers[s].serv
      BY <1>2, <1>3, <2>1, <2>3, <3>1, <3>2 DEF FoundRight, Right
    <3>3. CASE seekers[s].pc = "look" /\ Right(r)
      <4>1. ~Writing(s)
        BY <1>0, <1>2, <2>3, <3>3, LenProperties DEF Writing, Placed, Watching, FindTypes
      <4> QED  BY <1>3, <2>1, <2>3, <3>1, <3>3, <4>1 DEF FoundRight
    <3> QED  BY <3>2, <3>3
  <2> QED  BY <2>2, <2>3
<1> QED  BY <1>5, <1>6 DEF FindInv

LEMMA ThreadKeeps ==
  ASSUME FindInv, NEW s \in Seekers, WaitEnds(s) \/ LookAgain(s) \/ Bind(s)
  PROVE  FindInv'
<1> DEFINE p == seekers[s]
<1>0. /\ FindTypes /\ OverlapsAreSeen /\ p \in ASeeker
      /\ pool \subseteq DOMAIN KnownDevices
  BY DEF FindInv, FindTypes
<1>1. UNCHANGED <<pool, callbacks, explorer, finds, overlapped>>
  BY DEF WaitEnds, LookAgain, Bind
<1>2. s \notin overlapped => Concluded(s)
  BY DEF FindInv
<1>4. ASSUME WaitEnds(s) PROVE FindInv'
  <2> DEFINE r == [p EXCEPT !.pc = "remove"]
  <2>1. p.pc = "wait" /\ seekers' = [seekers EXCEPT ![s] = r]
    BY <1>4 DEF WaitEnds
  <2>2. /\ r \in ASeeker /\ r.pc = "remove" /\ r.index = p.index /\ r.request = p.request
        /\ r.dev = p.dev /\ r.serv = p.serv /\ r.seen = p.seen
    <3> HIDE DEF p
    <3>1. "remove" \in FindPlaces
      BY DEF FindPlaces
    <3> QED  BY <1>0, <3>1 DEF ASeeker
  <2> HIDE DEF r
  <2>3. seekers'[s] = r
    BY <1>0, <2>1 DEF FindTypes
  <2>4. ASSUME s \notin overlapped PROVE Concluded(s)'
    BY <1>2, <2>1, <2>2, <2>3, <2>4 DEF Concluded
  <2> QED  BY <1>1, <2>1, <2>2, <2>4, OwnStepKeeps
<1>5. ASSUME LookAgain(s) PROVE FindInv'
  <2> DEFINE found == Traversed(p.request)
             r == [p EXCEPT !.pc = "bind", !.dev = found.dev, !.serv = found.serv,
                            !.seen = pool]
  <2>1. p.pc = "look" /\ seekers' = [seekers EXCEPT ![s] = r]
    BY <1>5 DEF LookAgain
  <2>2. \/ /\ found.dev = NoFound /\ found.serv = NoTyped
           /\ \A n \in pool : FirstWanted(p.request, KnownDevices[n]) = <<>>
        \/ \E n \in pool : /\ FirstWanted(p.request, KnownDevices[n]) # <<>>
                           /\ found.dev = KnownDevices[n]
                           /\ found.serv = FirstWanted(p.request, KnownDevices[n])[1]
    BY <1>0, TraversedIs
  <2>3. \/ /\ found.dev = NoFound /\ found.serv = NoTyped
           /\ \A n \in pool : FirstWanted(p.request, KnownDevices[n]) = <<>>
        \/ /\ found.dev \in ADevice /\ found.dev # NoFound
           /\ found.dev.name = p.request.name
           /\ found.serv \in AService /\ found.serv \in ToSet(found.dev.services)
           /\ ServiceMatches(p.request, found.serv)
    <3> HIDE DEF found, p
    <3> QED  BY <1>0, <2>2, KnownAre, FirstWantedIs
  <2>4. found.dev \in ADevice /\ found.serv \in AServiceOrNone
    BY <2>3, NoneAre DEF AServiceOrNone
  <2>5. /\ r \in ASeeker /\ r.pc = "bind" /\ r.index = p.index /\ r.request = p.request
        /\ r.dev = found.dev /\ r.serv = found.serv /\ r.seen = pool
    <3> HIDE DEF p, found
    <3>1. "bind" \in FindPlaces
      BY DEF FindPlaces
    <3>2. pool \in SomeDevices
      BY <1>0 DEF SomeDevices
    <3>3. p \in ASeeker
      BY <1>0
    <3> QED  BY <2>4, <3>1, <3>2, <3>3 DEF ASeeker
  <2> HIDE DEF r, found
  <2>6. seekers'[s] = r
    BY <1>0, <2>1 DEF FindTypes
  <2>7. Right(r)
    BY <2>3, <2>5 DEF Right
  <2>8. Concluded(s)'
    BY <2>3, <2>5, <2>6 DEF Concluded
  <2> QED  BY <1>1, <2>1, <2>5, <2>7, <2>8, OwnStepKeeps
<1>6. ASSUME Bind(s) PROVE FindInv'
  <2> DEFINE ret == IF p.dev = NoFound THEN NoTyped ELSE p.serv
             bound == BoundTo(p.serv, p.dev)
             r == [p EXCEPT !.pc = "done", !.ret = ret, !.bound = bound]
  <2>1. p.pc = "bind" /\ seekers' = [seekers EXCEPT ![s] = r]
    BY <1>6 DEF Bind
  <2>2. ret \in AServiceOrNone /\ bound \in AServiceOrNone
    <3>1. p.dev \in ADevice /\ p.serv \in AServiceOrNone
      BY <1>0 DEF ASeeker
    <3> QED  BY <3>1, BoundToType DEF AServiceOrNone
  <2>3. /\ r \in ASeeker /\ r.pc = "done" /\ r.index = p.index /\ r.request = p.request
        /\ r.dev = p.dev /\ r.serv = p.serv /\ r.seen = p.seen
        /\ r.ret = ret /\ r.bound = bound
    <3> HIDE DEF p, ret, bound
    <3>1. "done" \in FindPlaces
      BY DEF FindPlaces
    <3>3. p \in ASeeker
      BY <1>0
    <3> QED  BY <2>2, <3>1, <3>3 DEF ASeeker
  <2> HIDE DEF r
  <2>4. seekers'[s] = r
    BY <1>0, <2>1 DEF FindTypes
  <2>5. ASSUME s \notin overlapped PROVE Concluded(s)'
    BY <1>2, <2>1, <2>3, <2>4, <2>5 DEF Concluded
  <2> HIDE DEF ret, bound
  <2> QED  BY <1>1, <2>1, <2>3, <2>5, OwnStepKeeps
<1> QED  BY <1>4, <1>5, <1>6

\* A visitor comes as the last one.
LEMMA AddKeeps ==
  ASSUME FindInv, NEW s \in Seekers, AddVisitor(s)
  PROVE  FindInv'
<1> DEFINE p == seekers[s]
           found == Traversed(p.request)
           pc == IF found.dev = NoFound THEN "wait" ELSE "remove"
           index == Len(callbacks) + 1
           r == [p EXCEPT !.pc = pc, !.index = index,
                          !.dev = found.dev, !.serv = found.serv]
<1>0. /\ FindTypes /\ OverlapsAreSeen /\ p \in ASeeker /\ Len(callbacks) \in Nat \ {0}
      /\ pool \subseteq DOMAIN KnownDevices
  BY LenProperties, EmptySeq DEF FindInv, FindTypes
<1>1. /\ p.pc = "start" /\ ~Visiting /\ seekers' = [seekers EXCEPT ![s] = r]
      /\ callbacks' = Append(callbacks, s)
      /\ overlapped' = IF Watching = {} THEN overlapped ELSE overlapped \cup Watching \cup {s}
      /\ UNCHANGED <<pool, explorer, finds>>
  BY DEF AddVisitor
<1>2. ASSUME NEW t \in Seekers \ overlapped
      PROVE  Placed(t) /\ FoundRight(t) /\ Concluded(t)
  BY DEF FindInv
<1>3. ~explorer.half
  BY <1>0, <1>1 DEF FindTypes, Visiting
<1>4. \/ found.dev = NoFound /\ found.serv = NoTyped
      \/ /\ found.dev \in ADevice /\ found.dev # NoFound
         /\ found.dev.name = p.request.name
         /\ found.serv \in AService /\ found.serv \in ToSet(found.dev.services)
         /\ ServiceMatches(p.request, found.serv)
  <2>1. \/ found.dev = NoFound /\ found.serv = NoTyped
        \/ \E n \in pool : /\ FirstWanted(p.request, KnownDevices[n]) # <<>>
                           /\ found.dev = KnownDevices[n]
                           /\ found.serv = FirstWanted(p.request, KnownDevices[n])[1]
    BY <1>0, TraversedIs
  <2> HIDE DEF found, p
  <2> QED  BY <1>0, <2>1, KnownAre, FirstWantedIs
<1>5. found.dev \in ADevice /\ found.serv \in AServiceOrNone
  BY <1>4, NoneAre DEF AServiceOrNone
<1>6. /\ r \in ASeeker /\ r.pc \in {"wait", "remove"} /\ r.index = Len(callbacks) + 1
      /\ r.request = p.request /\ r.dev = found.dev /\ r.serv = found.serv
      /\ r.seen = p.seen
  <2>1. pc \in {"wait", "remove"} /\ index \in Nat /\ index = Len(callbacks) + 1
    BY <1>0
  <2> HIDE DEF p, found, pc, index
  <2>2. pc \in FindPlaces
    BY <2>1 DEF FindPlaces
  <2>3. p \in ASeeker
    BY <1>0
  <2> QED  BY <1>5, <2>1, <2>2, <2>3 DEF ASeeker
<1> HIDE DEF r, found
<1>7. /\ seekers' \in [Seekers -> ASeeker] /\ seekers'[s] = r
      /\ \A t \in Seekers : t # s => seekers'[t] = seekers[t]
  BY <1>0, <1>1, <1>6, OneIsWritten DEF FindTypes
<1>8. /\ callbacks' \in Seq({"deviceFound"} \cup Seekers)
      /\ Len(callbacks') = Len(callbacks) + 1 /\ DOMAIN callbacks' = 1..(Len(callbacks) + 1)
      /\ \A n \in 1..Len(callbacks) : callbacks'[n] = callbacks[n]
      /\ callbacks'[Len(callbacks) + 1] = s
  <2>1. callbacks \in Seq({"deviceFound"} \cup Seekers)
    BY <1>0 DEF FindTypes
  <2> QED  BY <1>1, <2>1, AppendProperties, LenProperties
<1>9. FindTypes'
  <2>1. callbacks' # <<>>
    BY <1>0, <1>8
  <2>2. callbacks'[1] = "deviceFound" /\ \A n \in 2..Len(callbacks') : callbacks'[n] \in Seekers
    BY <1>0, <1>8 DEF FindTypes
  <2>3. explorer'.at <= Len(callbacks') + 1
    BY <1>0, <1>1, <1>8 DEF FindTypes
  <2>4. \A t \in Seekers : seekers'[t].pc # "start" => seekers'[t].index >= 2
    BY <1>0, <1>6, <1>7 DEF FindTypes
  <2>5. overlapped' \subseteq Seekers
    BY <1>0, <1>1 DEF FindTypes, Watching
  <2> QED  BY <1>0, <1>1, <1>3, <1>7, <1>8, <2>1, <2>2, <2>3, <2>4, <2>5 DEF FindTypes
<1>10. Watching' = Watching \cup {s} /\ s \notin Watching
  BY <1>1, <1>6, <1>7 DEF Watching
<1>11. OverlapsAreSeen'
  BY <1>0, <1>1, <1>10 DEF OverlapsAreSeen
<1>12. ASSUME NEW t \in Seekers \ overlapped'
       PROVE  Placed(t)' /\ FoundRight(t)' /\ Concluded(t)'
  <2>1. t \in Seekers \ overlapped /\ t \notin Watching /\ (Watching # {} => t # s)
    BY <1>1, <1>12
  <2>2. \A n \in 1..Len(callbacks) : callbacks[n] # t
    BY <1>0, <1>2, <2>1, LenProperties DEF Placed, FindTypes
  <2>3. ~Writing(t) /\ ~Writing(t)'
    BY <1>1, <1>3 DEF Writing
  <2>4. CASE t = s
    <3>1. Placed(t)'
      BY <1>0, <1>6, <1>7, <1>8, <1>10, <2>2, <2>4 DEF Placed
    <3>2. Right(r)
      BY <1>4, <1>6 DEF Right
    <3>3. Concluded(t)'
      <4>1. p.seen = {}
        BY <1>1, <1>2, <2>1, <2>4 DEF Concluded
      <4> QED  BY <1>6, <1>7, <2>4, <4>1 DEF Concluded
    <3> QED  BY <1>7, <2>3, <2>4, <3>1, <3>2, <3>3 DEF FoundRight
  <2>5. CASE t # s
    <3>1. Placed(t)'
      BY <1>0, <1>8, <2>2, <2>5 DEF Placed
    <3> QED  BY <1>2, <1>7, <2>1, <2>3, <2>5, <3>1 DEF FoundRight, Concluded
  <2> QED  BY <2>4, <2>5
<1> QED  BY <1>9, <1>11, <1>12 DEF FindInv

\* It goes, or one that is where it was before others went.
LEMMA RemoveKeeps ==
  ASSUME FindInv, NEW s \in Seekers, RemoveVisitor(s)
  PROVE  FindInv'
<1> DEFINE p == seekers[s]
           pc == IF p.dev = NoFound THEN "look" ELSE "bind"
           r == [p EXCEPT !.pc = pc]
           k == p.index
           n == Len(callbacks)
<1>0. /\ FindTypes /\ OverlapsAreSeen /\ p \in ASeeker /\ n \in Nat \ {0}
      /\ callbacks \in Seq({"deviceFound"} \cup Seekers) /\ DOMAIN callbacks = 1..n
  BY LenProperties, EmptySeq DEF FindInv, FindTypes
<1>1. /\ p.pc = "remove" /\ ~Visiting /\ seekers' = [seekers EXCEPT ![s] = r]
      /\ callbacks' = IF k <= n THEN RemoveAt(callbacks, k) ELSE callbacks
      /\ UNCHANGED <<pool, explorer, finds, overlapped>>
  BY DEF RemoveVisitor
<1>2. k \in Nat /\ k >= 2 /\ s \in Watching
  BY <1>0, <1>1 DEF ASeeker, FindTypes, Watching
<1>3. ASSUME NEW t \in Seekers \ overlapped
      PROVE  Placed(t) /\ FoundRight(t) /\ Concluded(t)
  BY DEF FindInv
<1>4. ~explorer.half /\ explorer.at = 0
  BY <1>0, <1>1 DEF FindTypes, Visiting
<1>5. /\ r \in ASeeker /\ r.pc \in {"look", "bind"} /\ r.index = p.index
      /\ r.request = p.request /\ r.dev = p.dev /\ r.serv = p.serv /\ r.seen = p.seen
  <2>1. pc \in {"look", "bind"}
    OBVIOUS
  <2> HIDE DEF p, pc
  <2>2. pc \in FindPlaces
    BY <2>1 DEF FindPlaces
  <2>3. p \in ASeeker
    BY <1>0
  <2> QED  BY <2>1, <2>2, <2>3 DEF ASeeker
<1> HIDE DEF r
<1>6. /\ seekers' \in [Seekers -> ASeeker] /\ seekers'[s] = r
      /\ \A t \in Seekers : t # s => seekers'[t] = seekers[t]
  BY <1>0, <1>1, <1>5, OneIsWritten DEF FindTypes
\* What is left is in its order.
<1>7. /\ callbacks' \in Seq({"deviceFound"} \cup Seekers) /\ Len(callbacks') \in Nat \ {0}
      /\ DOMAIN callbacks' = 1..Len(callbacks') /\ callbacks'[1] = callbacks[1]
      /\ \A j \in 1..Len(callbacks') :
           \E i \in 1..n : i # k /\ callbacks'[j] = callbacks[i] /\ (j >= 2 => i >= 2)
  <2>1. CASE k <= n
    <3>1. k \in 1..n /\ callbacks' = RemoveAt(callbacks, k)
      <4>1. k \in 1..n
        <5> HIDE DEF k, n
        <5> QED  BY <1>0, <1>2, <2>1
      <4> QED  BY <1>1, <2>1, <4>1, Zenon
    <3>2. /\ callbacks' \in Seq({"deviceFound"} \cup Seekers) /\ Len(callbacks') = n - 1
          /\ \A j \in 1..(k - 1) : callbacks'[j] = callbacks[j]
          /\ \A j \in k..(n - 1) : callbacks'[j] = callbacks[j + 1]
      BY <1>0, <3>1, RemovedIs, Zenon
    <3> HIDE DEF k, n
    <3>3. ASSUME NEW j \in 1..Len(callbacks')
          PROVE  \E i \in 1..n : i # k /\ callbacks'[j] = callbacks[i] /\ (j >= 2 => i >= 2)
      <4>1. j \in 1..(n - 1)
        BY <3>2
      <4>2. CASE j < k
        <5>1. j \in 1..(k - 1) /\ j \in 1..n /\ j # k
          BY <1>0, <1>2, <4>1, <4>2
        <5> QED  BY <3>2, <5>1
      <4>3. CASE j >= k
        <5>1. j \in k..(n - 1) /\ j + 1 \in 1..n /\ j + 1 # k /\ (j >= 2 => j + 1 >= 2)
          BY <1>0, <1>2, <4>1, <4>3
        <5> QED  BY <3>2, <5>1
      <4> QED  BY <1>2, <4>1, <4>2, <4>3
    <3>4. DOMAIN callbacks' = 1..Len(callbacks')
      BY <3>2, LenProperties
    <3> QED  BY <1>0, <1>2, <2>1, <3>2, <3>3, <3>4
  <2>2. CASE ~(k <= n)
    <3>1. callbacks' = callbacks
      BY <1>1, <2>2
    <3>2. \A j \in 1..n : j # k
      BY <1>0, <1>2, <2>2
    <3> QED  BY <1>0, <3>1, <3>2
  <2> QED  BY <2>1, <2>2
<1>8. FindTypes'
  <2>1. callbacks' # <<>>
    BY <1>7
  <2>2. callbacks'[1] = "deviceFound"
    BY <1>0, <1>7 DEF FindTypes
  <2>3. ASSUME NEW j \in 2..Len(callbacks') PROVE callbacks'[j] \in Seekers
    <3>1. PICK i \in 1..n : callbacks'[j] = callbacks[i] /\ i >= 2
      BY <1>7
    <3> QED  BY <1>0, <3>1 DEF FindTypes
  <2>4. \A t \in Seekers : seekers'[t].pc # "start" => seekers'[t].index >= 2
    BY <1>0, <1>2, <1>5, <1>6 DEF FindTypes
  <2>5. explorer'.at <= Len(callbacks') + 1
    BY <1>1, <1>4, <1>7
  <2> QED  BY <1>0, <1>1, <1>4, <1>6, <1>7, <2>1, <2>2, <2>3, <2>4, <2>5 DEF FindTypes
<1>9. Watching' = Watching \ {s}
  BY <1>5, <1>6 DEF Watching
<1>10. OverlapsAreSeen'
  BY <1>0, <1>1, <1>9 DEF OverlapsAreSeen
\* Beside it no other one had a visitor, but those that have overlapped.
<1>11. ASSUME NEW t \in Seekers \ overlapped'
       PROVE  Placed(t)' /\ FoundRight(t)' /\ Concluded(t)'
  <2>1. t \in Seekers \ overlapped /\ (t # s => t \notin Watching)
    BY <1>0, <1>1, <1>2, <1>11 DEF OverlapsAreSeen
  <2>2. \A i \in 1..n : callbacks[i] = t => i = k
    BY <1>0, <1>3, <2>1 DEF Placed
  <2>3. \A j \in DOMAIN callbacks' : callbacks'[j] # t
    BY <1>7, <2>2
  <2>4. ~Writing(t) /\ ~Writing(t)'
    BY <1>1, <1>4 DEF Writing
  <2>5. Placed(t)'
    BY <2>3 DEF Placed
  <2>6. CASE t # s
    BY <1>3, <1>6, <2>1, <2>4, <2>5, <2>6 DEF FoundRight, Concluded
  <2>7. CASE t = s
    <3>1. p.seen = {} /\ Right(p)
      BY <1>1, <1>3, <2>1, <2>4, <2>7 DEF FoundRight, Concluded
    <3>2. Concluded(t)'
      BY <1>5, <1>6, <2>7, <3>1 DEF Concluded
    <3>3. FoundRight(t)'
      BY <1>5, <1>6, <2>4, <2>7, <3>1 DEF FoundRight, Right
    <3> QED  BY <2>5, <3>2, <3>3
  <2> QED  BY <2>6, <2>7
<1> QED  BY <1>8, <1>10, <1>11 DEF FindInv

LEMMA FindKept == FindInv /\ [FindNext]_findVars => FindInv'
<1> SUFFICES ASSUME FindInv, [FindNext]_findVars PROVE FindInv'
  OBVIOUS
<1>1. ASSUME NEW s \in Seekers,
             AddVisitor(s) \/ WaitEnds(s) \/ RemoveVisitor(s) \/ LookAgain(s) \/ Bind(s)
      PROVE  FindInv'
  BY <1>1, AddKeeps, RemoveKeeps, ThreadKeeps
<1>2. CASE Visit
  BY <1>2, VisitKeeps
<1> QED  BY <1>1, <1>2, ExplorerKeeps DEF FindNext

LEMMA FindInvIsSound == FindInv => FindTypeOK /\ FindsWhatIsThere
<1> SUFFICES ASSUME FindInv PROVE FindTypeOK /\ FindsWhatIsThere
  OBVIOUS
<1>1. FindTypes /\ Len(callbacks) \in Nat
  BY LenProperties DEF FindInv, FindTypes
<1>2. FindTypeOK
  <2>1. callbacks \in Seq({"deviceFound"} \cup Seekers) /\ callbacks # <<>>
    BY <1>1 DEF FindTypes
  <2>2. /\ Head(callbacks) = "deviceFound" /\ Tail(callbacks) \in Seq({"deviceFound"} \cup Seekers)
        /\ Len(Tail(callbacks)) = Len(callbacks) - 1
        /\ \A i \in 1..Len(Tail(callbacks)) : Tail(callbacks)[i] = callbacks[i + 1]
    BY <1>1, <2>1, HeadTailProperties DEF FindTypes
  <2>3. ToSet(Tail(callbacks)) \subseteq Seekers
    <3>1. DOMAIN Tail(callbacks) = 1..(Len(callbacks) - 1)
      BY <2>2, LenProperties
    <3>2. \A i \in 1..(Len(callbacks) - 1) : callbacks[i + 1] \in Seekers
      BY <1>1 DEF FindTypes
    <3> HIDE DEF FindInv
    <3> QED  BY <2>2, <3>1, <3>2 DEF ToSet
  <2>4. \A s \in Seekers : seekers[s].pc \in FindPlaces
    BY <1>1 DEF FindTypes, ASeeker
  <2>5. explorer.pc \in {"idle", "visiting"} /\ explorer.at \in 0..(Len(callbacks) + 2)
    BY <1>1 DEF FindTypes
  <2>6. pool \subseteq DOMAIN KnownDevices /\ finds \in 0..MaxFinds /\ overlapped \subseteq Seekers
    BY <1>1 DEF FindTypes
  <2> QED  BY <2>2, <2>3, <2>4, <2>5, <2>6 DEF FindTypeOK, FindPlaces
<1>3. ASSUME NEW s \in Seekers \ overlapped
      PROVE  LET p == seekers[s]
             IN  /\ (\E n \in DOMAIN callbacks : callbacks[n] = s) => s \in Watching
                 /\ p.pc = "done" /\ p.ret # NoTyped =>
                      /\ p.dev.name = p.request.name
                      /\ p.ret \in ToSet(p.dev.services) /\ ServiceMatches(p.request, p.ret)
                      /\ p.bound.type = p.request.type /\ p.bound.version <= p.ret.version
                 /\ p.pc = "done" /\ p.ret = NoTyped =>
                      \A n \in p.seen : FirstWanted(p.request, KnownDevices[n]) = <<>>
  <2> DEFINE p == seekers[s]
  <2>1. Placed(s) /\ FoundRight(s) /\ Concluded(s) /\ p \in ASeeker
    BY <1>1 DEF FindInv, FindTypes
  <2>2. (\E n \in DOMAIN callbacks : callbacks[n] = s) => s \in Watching
    BY <2>1 DEF Placed
  <2>3. ASSUME p.pc = "done"
        PROVE  /\ p.ret # NoTyped =>
                    /\ p.dev.name = p.request.name
                    /\ p.ret \in ToSet(p.dev.services) /\ ServiceMatches(p.request, p.ret)
                    /\ p.bound.type = p.request.type /\ p.bound.version <= p.ret.version
               /\ p.ret = NoTyped =>
                    \A n \in p.seen : FirstWanted(p.request, KnownDevices[n]) = <<>>
    <3>1. ~Writing(s)
      BY <1>1, <2>1, <2>3, LenProperties DEF Writing, Placed, Watching, FindTypes
    <3>2. /\ Right(p) /\ p.ret = (IF p.dev = NoFound THEN NoTyped ELSE p.serv)
          /\ p.bound = BoundTo(p.serv, p.dev)
          /\ p.dev = NoFound => \A n \in p.seen : FirstWanted(p.request, KnownDevices[n]) = <<>>
      BY <2>1, <2>3, <3>1 DEF FoundRight, Concluded
    <3>3. CASE p.dev = NoFound
      BY <3>2, <3>3
    <3>4. CASE p.dev # NoFound
      <4>1. /\ p.dev.name = p.request.name /\ p.ret = p.serv /\ p.ret # NoTyped
            /\ p.serv \in ToSet(p.dev.services) /\ p.serv.type = p.request.type
            /\ ServiceMatches(p.request, p.serv)
        BY <3>2, <3>4, NoneAre DEF Right, ServiceMatches
      <4>2. p.dev \in ADevice
        BY <2>1 DEF ASeeker
      <4>3. p.bound.type = p.serv.type /\ p.bound.version <= p.serv.version
        BY <3>2, <4>1, <4>2, BoundToIs
      <4> QED  BY <4>1, <4>3
    <3> QED  BY <3>3, <3>4
  <2> QED  BY <2>2, <2>3
<1> QED  BY <1>2, <1>3 DEF FindsWhatIsThere

\* Searches for a service (findTypedService() in typedservice.cxx, with addCallback(),
\* delCallback() and traverse() of the directory) keep the types of what the threads,
\* the explorer and the table of visitors hold, whatever the devices, the requests and
\* the number of threads.
THEOREM FindTypeCorrect == FindSpec => []FindTypeOK
<1>1. FindSpec => []FindInv
  BY FindInitIsFine, FindKept, PTL DEF FindSpec
<1> QED  BY <1>1, FindInvIsSound, PTL

\* findTypedService() returns what was asked for or nothing: a search beside which no
\* other one has had a visitor leaves none behind, its service is one of a device of the
\* name that it looks for, the object is bound to a service of that type and no higher
\* version, and where it found nothing there was nothing at its last look.
THEOREM FindsWhatWasAskedFor == FindSpec => []FindsWhatIsThere
<1>1. FindSpec => []FindInv
  BY FindInitIsFine, FindKept, PTL DEF FindSpec
<1> QED  BY <1>1, FindInvIsSound, PTL

-----------------------------------------------------------------------------
(* Renderer: the objects, their subscriptions and the weak pointers to them. *)

AProxy == [kind : Kinds, service : Nat, held : BOOLEAN, sid : Nat]
ALoop ==
  [at : {"idle", "next", "subscribe", "drop"}, kind : Nat, obj : Nat, from : Nat,
   disturbed : BOOLEAN]
AResult == [result : {"none", "true", "false"}, kind : Nat, from : Nat, disturbed : BOOLEAN]

RendererTypes ==
  /\ offered \in Seq(Kinds) /\ proxies \in Seq(AProxy) /\ cached \in [Kinds -> Nat]
  /\ resub \in ALoop /\ done \in AResult
SidTypes ==
  /\ lastSid \in Nat /\ forgotten \in 0..lastSid /\ sids \subseteq (forgotten + 1)..lastSid

\* A proxy stands for the first service of its kind, has a SID that was given, and
\* none when it is gone.
ProxyIsRight(o) ==
  /\ \A k \in Kinds : proxies[o].kind = k => proxies[o].service = ServiceOf(k)
  /\ proxies[o].service \in DOMAIN offered /\ offered[proxies[o].service] = proxies[o].kind
  /\ proxies[o].sid <= lastSid /\ (proxies[o].sid # NoSid => IsThere(o))
\* No two have one SID, and the device has not taken one back.
SidsAreRight ==
  /\ \A o, p \in DOMAIN proxies : proxies[o].sid # NoSid /\ proxies[o].sid = proxies[p].sid => o = p
  /\ \A o \in DOMAIN proxies :
       proxies[o].sid # NoSid => proxies[o].sid \in sids \/ proxies[o].sid <= forgotten
\* The weak pointers are to proxies of their kinds, and to all that are there.
PointersAreRight ==
  /\ \A k \in Kinds : cached[k] # 0 => cached[k] \in DOMAIN proxies /\ proxies[cached[k]].kind = k
  /\ \A o \in DOMAIN proxies : IsThere(o) => cached[proxies[o].kind] = o
ObjectsAreRight ==
  /\ \A o \in DOMAIN proxies : ProxyIsRight(o)
  /\ SidsAreRight /\ PointersAreRight

\* What reSubscribeAll() has passed, when it is at kind: new subscriptions, or none
\* if there was a reason.
PassedBy(kind, from, disturbed) ==
  \A o \in DOMAIN proxies :
    IsThere(o) /\ proxies[o].kind < kind =>
      IF proxies[o].sid = NoSid THEN disturbed ELSE proxies[o].sid > from
LoopIsRight ==
  /\ resub.at = "idle" => resub = NoCall
  /\ resub.at # "idle" =>
       /\ done = NotDone /\ resub.from <= lastSid /\ resub.kind \in 1..NKinds + 1
       /\ PassedBy(resub.kind, resub.from, resub.disturbed)
  /\ resub.at = "next" => resub.obj = NoProxy
  /\ resub.at \in {"subscribe", "drop"} =>
       /\ resub.obj \in DOMAIN proxies /\ resub.kind \in Kinds
       /\ proxies[resub.obj].kind = resub.kind
  /\ resub.at = "subscribe" => proxies[resub.obj].sid = NoSid
  /\ resub.at = "drop" =>
       IF proxies[resub.obj].sid = NoSid THEN resub.disturbed ELSE proxies[resub.obj].sid > resub.from
\* What it returned, if that was the last step.
ResultIsRight ==
  done # NotDone =>
    /\ resub = NoCall /\ PassedBy(done.kind, done.from, done.disturbed)
    /\ done.result = "false" =>
         \E o \in DOMAIN proxies :
           proxies[o].held /\ proxies[o].kind = done.kind /\ proxies[o].sid = NoSid
    /\ done.result = "true" => done.kind = NKinds + 1

RendererInv ==
  RendererTypes /\ SidTypes /\ ObjectsAreRight /\ LoopIsRight /\ ResultIsRight

\* What an accessor stands for is the first service of its kind.
LEMMA ServiceOfIs ==
  ASSUME NEW k \in Kinds, offered \in Seq(Kinds), ServiceOf(k) # 0
  PROVE  ServiceOf(k) \in DOMAIN offered /\ offered[ServiceOf(k)] = k
<1> DEFINE I == {i \in 1..Len(offered) : offered[i] = k}
<1>1. I \subseteq Nat
  BY LenProperties
<1>2. ServiceOf(k) = IF I # {} THEN Min(I) ELSE 0
  BY DEF ServiceOf, SelectInSeq
<1>3. I # {}
  BY <1>2
<1>4. Min(I) \in I
  <2>1. \E x \in I : \A y \in I : x <= y
    BY <1>1, <1>3, LeastOf
  <2> QED  BY <2>1 DEF Min
<1>5. DOMAIN offered = 1..Len(offered)
  BY LenProperties
<1> QED  BY <1>2, <1>3, <1>4, <1>5

LEMMA ServiceKept ==
  ASSUME offered' = offered, NEW k
  PROVE  ServiceOf(k)' = ServiceOf(k)
BY DEF ServiceOf, SelectInSeq

LEMMA ProxiesAre ==
  ASSUME RendererTypes
  PROVE  /\ DOMAIN proxies = 1..Len(proxies) /\ Len(proxies) \in Nat
         /\ \A o \in DOMAIN proxies :
              /\ proxies[o] \in AProxy /\ proxies[o].kind \in Kinds /\ proxies[o].sid \in Nat
              /\ proxies[o].held \in BOOLEAN /\ o # NoProxy
<1>1. DOMAIN proxies = 1..Len(proxies) /\ Len(proxies) \in Nat
  BY LenProperties DEF RendererTypes
<1>2. ASSUME NEW o \in DOMAIN proxies PROVE proxies[o] \in AProxy
  BY <1>1, ElementOfSeq DEF RendererTypes
<1> QED  BY <1>1, <1>2 DEF AProxy, NoProxy

LEMMA RendererStarts == RendererInit => RendererInv
<1> SUFFICES ASSUME RendererInit PROVE RendererInv
  OBVIOUS
<1>1. offered \in Seq(Kinds)
  <2>1. PICK n \in 0..NKinds : offered \in [1..n -> Kinds]
    BY DEF RendererInit
  <2> QED  BY <2>1, RendererAssumption
<1>2. RendererTypes /\ SidTypes
  BY <1>1 DEF RendererInit, RendererTypes, SidTypes, ALoop, AResult, NoSid, NoProxy, NoCall, NotDone
<1>3. DOMAIN proxies = {}
  BY DEF RendererInit
<1>4. LoopIsRight /\ ResultIsRight
  BY DEF RendererInit, LoopIsRight, ResultIsRight, NoCall
<1>5. ObjectsAreRight
  BY <1>3 DEF RendererInit, ObjectsAreRight, SidsAreRight, PointersAreRight, NoProxy
<1> QED  BY <1>2, <1>4, <1>5 DEF RendererInv

\* A step that changes one proxy: whether it is held, or its SID, for none or for
\* one that is new.
Turns(o, held, sid) == proxies' = [proxies EXCEPT ![o].held = held, ![o].sid = sid]
LEMMA OneTurns ==
  ASSUME RendererTypes, NEW o \in DOMAIN proxies, NEW held \in BOOLEAN, NEW sid \in Nat,
         Turns(o, held, sid)
  PROVE  /\ proxies' \in Seq(AProxy) /\ DOMAIN proxies' = DOMAIN proxies
         /\ proxies'[o].held = held /\ proxies'[o].sid = sid
         /\ \A p \in DOMAIN proxies :
              /\ proxies'[p].kind = proxies[p].kind /\ proxies'[p].service = proxies[p].service
              /\ p # o => proxies'[p] = proxies[p]
<1> DEFINE new == [proxies[o] EXCEPT !.held = held, !.sid = sid]
<1>1. proxies[o] \in AProxy
  BY ProxiesAre
<1>2. new \in AProxy /\ new.kind = proxies[o].kind /\ new.service = proxies[o].service
      /\ new.held = held /\ new.sid = sid
  BY <1>1 DEF AProxy
<1>3. proxies' = [proxies EXCEPT ![o] = new]
  BY DEF Turns
<1>4. proxies' \in Seq(AProxy) /\ DOMAIN proxies' = DOMAIN proxies /\ proxies'[o] = new
      /\ \A p \in DOMAIN proxies \ {o} : proxies'[p] = proxies[p]
  BY <1>2, <1>3, ExceptSeq, ProxiesAre DEF RendererTypes
<1> QED  BY <1>2, <1>4

\* What such a step keeps of the objects, if no other one comes or goes, and the
\* device drops no SID but the one that the proxy has had.
LEMMA ObjectsKept ==
  ASSUME RendererTypes, SidTypes, ObjectsAreRight,
         NEW o \in DOMAIN proxies, NEW held \in BOOLEAN, NEW sid \in Nat, Turns(o, held, sid),
         UNCHANGED <<offered, cached, forgotten>>, SidTypes', lastSid <= lastSid',
         sids \ {proxies[o].sid} \subseteq sids',
         \/ sid = NoSid
         \/ sid = proxies[o].sid /\ sids \subseteq sids'
         \/ sid > lastSid /\ sid \in sids',
         \A p \in DOMAIN proxies : p # o => (IsThere(p)' <=> IsThere(p)),
         IsThere(o)' => IsThere(o), sid # NoSid => IsThere(o)'
  PROVE  ObjectsAreRight'
<1> USE DEF ObjectsAreRight
<1>1. /\ proxies' \in Seq(AProxy) /\ DOMAIN proxies' = DOMAIN proxies
      /\ proxies'[o].sid = sid
      /\ \A p \in DOMAIN proxies :
           /\ proxies'[p].kind = proxies[p].kind /\ proxies'[p].service = proxies[p].service
           /\ p # o => proxies'[p].sid = proxies[p].sid
  BY OneTurns
<1>2. /\ \A p \in DOMAIN proxies : proxies[p].sid \in Nat /\ proxies[p].sid <= lastSid
      /\ lastSid \in Nat /\ lastSid' \in Nat /\ sids' \subseteq 1..lastSid' /\ forgotten \in Nat
  BY ProxiesAre DEF ProxyIsRight, SidTypes
<1>3. sid <= lastSid'
  BY <1>2 DEF NoSid
<1>4. ASSUME NEW p \in DOMAIN proxies' PROVE ProxyIsRight(p)'
  <2>1. ProxyIsRight(p) /\ p \in DOMAIN proxies
    BY <1>1
  <2>2. proxies'[p].sid <= lastSid' /\ (proxies'[p].sid # NoSid => IsThere(p)')
    BY <2>1, <1>1, <1>2, <1>3 DEF ProxyIsRight
  <2> QED  BY <2>1, <2>2, <1>1, ServiceKept DEF ProxyIsRight
<1>5. SidsAreRight'
  <2>1. ASSUME NEW p \in DOMAIN proxies, NEW q \in DOMAIN proxies,
               proxies'[p].sid # NoSid, proxies'[p].sid = proxies'[q].sid
        PROVE  p = q
    BY <2>1, <1>1, <1>2 DEF SidsAreRight
  <2>2. ASSUME NEW p \in DOMAIN proxies, proxies'[p].sid # NoSid
        PROVE  proxies'[p].sid \in sids' \/ proxies'[p].sid <= forgotten
    <3>1. CASE p # o
      <4>1. proxies'[p].sid = proxies[p].sid /\ proxies[p].sid # proxies[o].sid
        BY <2>2, <3>1, <1>1 DEF SidsAreRight
      <4> QED  BY <2>2, <4>1 DEF SidsAreRight
    <3>2. CASE p = o
      BY <2>2, <3>2, <1>1 DEF SidsAreRight
    <3> QED  BY <3>1, <3>2
  <2> QED  BY <2>1, <2>2, <1>1 DEF SidsAreRight
<1>6. PointersAreRight'
  BY <1>1 DEF PointersAreRight
<1> QED  BY <1>4, <1>5, <1>6

LEMMA SidTurns ==
  ASSUME RendererTypes, NEW o \in DOMAIN proxies, NEW sid
  PROVE  [proxies EXCEPT ![o].sid = sid] = [proxies EXCEPT ![o].held = proxies[o].held, ![o].sid = sid]
<1>1. proxies[o] \in AProxy
  BY ProxiesAre
<1>2. [proxies[o] EXCEPT !.sid = sid] = [proxies[o] EXCEPT !.held = proxies[o].held, !.sid = sid]
  BY <1>1 DEF AProxy
<1> QED  BY <1>2
LEMMA HeldTurns ==
  ASSUME RendererTypes, NEW o \in DOMAIN proxies, NEW held
  PROVE  [proxies EXCEPT ![o].held = held] = [proxies EXCEPT ![o].held = held, ![o].sid = proxies[o].sid]
<1>1. proxies[o] \in AProxy
  BY ProxiesAre
<1>2. [proxies[o] EXCEPT !.held = held] = [proxies[o] EXCEPT !.held = held, !.sid = proxies[o].sid]
  BY <1>1 DEF AProxy
<1> QED  BY <1>2

\* What the two calls to the device do to a proxy and to the SIDs.
LEMMA UnregisterIs ==
  ASSUME RendererTypes, SidTypes, NEW o \in DOMAIN proxies, Unregister(o), UNCHANGED forgotten
  PROVE  /\ Turns(o, proxies[o].held, NoSid) /\ SidTypes' /\ lastSid' = lastSid
         /\ sids \ {proxies[o].sid} \subseteq sids'
BY SidTurns DEF Unregister, Turns, SidTypes
LEMMA RegisteredIs ==
  ASSUME RendererTypes, SidTypes, NEW o \in DOMAIN proxies, Registered(o), UNCHANGED forgotten,
         NEW given, given = lastSid'
  PROVE  /\ Turns(o, proxies[o].held, given) /\ SidTypes' /\ given = lastSid + 1
         /\ sids \subseteq sids' /\ given \in sids'
<1>1. lastSid' = lastSid + 1 /\ sids' = sids \cup {lastSid + 1}
  BY DEF Registered
<1>2. SidTypes'
  BY <1>1 DEF SidTypes
<1>3. Turns(o, proxies[o].held, given)
  BY SidTurns DEF Registered, Turns
<1> QED  BY <1>1, <1>2, <1>3

LEMMA NotRegisteredIs ==
  ASSUME RendererTypes, SidTypes, NEW o \in DOMAIN proxies, NotRegistered, UNCHANGED forgotten
  PROVE  /\ Turns(o, proxies[o].held, proxies[o].sid) /\ SidTypes' /\ lastSid <= lastSid'
         /\ sids \subseteq sids' /\ UNCHANGED proxies
<1>1. SidTypes' /\ lastSid <= lastSid' /\ sids \subseteq sids' /\ UNCHANGED proxies
  <2>1. CASE UNCHANGED <<proxies, sids, lastSid>>
    BY <2>1 DEF SidTypes
  <2>2. CASE lastSid' = lastSid + 1 /\ sids' = sids \cup {lastSid + 1} /\ UNCHANGED proxies
    BY <2>2 DEF SidTypes
  <2> QED  BY <2>1, <2>2 DEF NotRegistered
<1>2. proxies[o] \in AProxy
  BY ProxiesAre
<1>3. [proxies[o] EXCEPT !.held = proxies[o].held, !.sid = proxies[o].sid] = proxies[o]
  BY <1>2 DEF AProxy
<1>4. proxies = [p \in DOMAIN proxies |-> proxies[p]]
  BY LenProperties DEF RendererTypes
<1> QED  BY <1>1, <1>3, <1>4 DEF Turns

\* A step before or after reSubscribeAll(), or outside it, that leaves what it
\* has passed in order.
LEMMA OutsideKept ==
  ASSUME RendererInv, done' = NotDone, lastSid <= lastSid', lastSid' \in Nat,
         DOMAIN proxies \subseteq DOMAIN proxies',
         \A o \in DOMAIN proxies : proxies'[o].kind = proxies[o].kind,
         \/ UNCHANGED resub
         \/ resub.at = "idle" /\ resub' = NoCall
         \/ resub.at # "idle" /\ resub' = [resub EXCEPT !.disturbed = TRUE],
         resub.at # "idle" => PassedBy(resub.kind, resub.from, resub.disturbed)',
         resub.obj # NoProxy => proxies'[resub.obj].sid = proxies[resub.obj].sid
  PROVE  LoopIsRight' /\ ResultIsRight' /\ resub' \in ALoop /\ done' \in AResult
<1> USE DEF RendererInv
<1>1. resub \in ALoop
  BY DEF RendererTypes
<1>2. /\ resub' \in ALoop /\ resub'.at = resub.at /\ resub'.kind = resub.kind
      /\ resub'.obj = resub.obj /\ resub'.from = resub.from
      /\ resub.disturbed => resub'.disturbed
      /\ resub.at = "idle" => resub' = NoCall
  BY <1>1 DEF ALoop, LoopIsRight, NoCall
<1>3. ResultIsRight' /\ done' \in AResult
  BY DEF ResultIsRight, NotDone, AResult
<1>4. resub.at # "idle" => resub'.from <= lastSid'
  BY <1>1, <1>2 DEF LoopIsRight, SidTypes, ALoop
<1>5. resub.at \in {"subscribe", "drop"} => proxies'[resub.obj].sid = proxies[resub.obj].sid
  BY ProxiesAre DEF LoopIsRight, RendererTypes
<1>6. LoopIsRight'
  <2>1. resub'.at = "drop" =>
          IF proxies'[resub'.obj].sid = NoSid THEN resub'.disturbed
          ELSE proxies'[resub'.obj].sid > resub'.from
    BY <1>1, <1>2, <1>5 DEF LoopIsRight, ALoop
  <2> QED  BY <1>1, <1>2, <1>4, <1>5, <2>1 DEF LoopIsRight
<1> QED  BY <1>2, <1>3, <1>6

LEMMA DisturbsIs ==
  ASSUME RendererInv, Disturbs
  PROVE  /\ \/ resub.at = "idle" /\ resub' = NoCall
            \/ resub.at # "idle" /\ resub' = [resub EXCEPT !.disturbed = TRUE]
         /\ resub'.obj = resub.obj /\ resub'.kind = resub.kind /\ resub'.from = resub.from
         /\ resub.at # "idle" => resub'.disturbed
BY DEF RendererInv, RendererTypes, ALoop, LoopIsRight, Disturbs, NoCall

LEMMA AccessorPreserves ==
  ASSUME RendererInv, NEW k \in Kinds, Accessor(k)
  PROVE  RendererInv'
<1> USE DEF RendererInv
<1>0. done' = NotDone /\ UNCHANGED <<offered, sids, lastSid, forgotten>>
  BY DEF Accessor
<1>1. /\ lastSid \in Nat /\ lastSid' \in Nat /\ lastSid <= lastSid' /\ SidTypes'
  BY <1>0 DEF SidTypes
<1>2. CASE /\ IsThere(cached[k]) /\ UNCHANGED <<cached, resub>>
           /\ proxies' = [proxies EXCEPT ![cached[k]].held = TRUE]
  <2> DEFINE o == cached[k]
  <2>1. o \in DOMAIN proxies
    BY <1>2 DEF IsThere, NoProxy, ObjectsAreRight, PointersAreRight
  <2>2. Turns(o, TRUE, proxies[o].sid) /\ proxies[o].sid \in Nat
    BY <1>2, <2>1, HeldTurns, ProxiesAre DEF Turns
  <2>3. /\ proxies' \in Seq(AProxy) /\ DOMAIN proxies' = DOMAIN proxies
        /\ proxies'[o].held = TRUE /\ proxies'[o].sid = proxies[o].sid
        /\ \A p \in DOMAIN proxies :
             /\ proxies'[p].kind = proxies[p].kind /\ proxies'[p].service = proxies[p].service
             /\ p # o => proxies'[p] = proxies[p]
    BY <2>1, <2>2, OneTurns
  <2>4. \A p \in DOMAIN proxies : (IsThere(p)' <=> IsThere(p)) /\ proxies'[p].sid = proxies[p].sid
    BY <1>2, <2>3 DEF IsThere
  <2>5. ObjectsAreRight'
    BY <1>0, <1>1, <1>2, <2>1, <2>2, <2>4, ObjectsKept DEF ObjectsAreRight, ProxyIsRight
  <2>6. resub.at # "idle" => PassedBy(resub.kind, resub.from, resub.disturbed)'
    BY <1>2, <2>3, <2>4 DEF LoopIsRight, PassedBy
  <2>7. resub.obj # NoProxy => proxies'[resub.obj].sid = proxies[resub.obj].sid
    <3>1. resub.obj # NoProxy => resub.obj \in DOMAIN proxies
      BY DEF LoopIsRight, RendererTypes, ALoop, NoCall
    <3> QED  BY <3>1, <2>4
  <2>8. LoopIsRight' /\ ResultIsRight' /\ resub' \in ALoop /\ done' \in AResult
    BY <1>0, <1>1, <1>2, <2>3, <2>6, <2>7, OutsideKept
  <2> QED  BY <1>0, <1>1, <1>2, <2>3, <2>5, <2>8 DEF RendererTypes
<1>3. CASE /\ ~IsThere(cached[k]) /\ cached' = [cached EXCEPT ![k] = NoProxy]
           /\ UNCHANGED <<proxies, resub>>
  <2>1. \A o \in DOMAIN proxies : IsThere(o)' <=> IsThere(o)
    BY <1>3 DEF IsThere
  <2>2. RendererTypes'
    BY <1>0, <1>3 DEF RendererTypes, AResult, NotDone, NoProxy
  <2>3. \A o \in DOMAIN proxies' : ProxyIsRight(o)'
    BY <1>0, <1>3, <2>1, ServiceKept DEF ObjectsAreRight, ProxyIsRight
  <2>4. PointersAreRight'
    <3>1. ASSUME NEW o \in DOMAIN proxies, IsThere(o) PROVE proxies[o].kind # k
      BY <3>1, <1>3 DEF ObjectsAreRight, PointersAreRight
    <3>2. \A o \in DOMAIN proxies : proxies[o].kind \in Kinds
      BY ProxiesAre
    <3> QED  BY <2>1, <3>1, <3>2, <1>3 DEF ObjectsAreRight, PointersAreRight, RendererTypes, NoProxy
  <2>5. SidsAreRight'
    BY <1>0, <1>3 DEF ObjectsAreRight, SidsAreRight
  <2>6. resub.at # "idle" => PassedBy(resub.kind, resub.from, resub.disturbed)'
    BY <1>3, <2>1 DEF LoopIsRight, PassedBy
  <2>7. LoopIsRight' /\ ResultIsRight'
    BY <1>0, <1>1, <1>3, <2>6, OutsideKept
  <2> QED  BY <1>1, <2>2, <2>3, <2>4, <2>5, <2>7 DEF ObjectsAreRight
<1>4. CASE /\ ~IsThere(cached[k]) /\ ServiceOf(k) # 0 /\ Disturbs
           /\ proxies' = Append(proxies, [kind |-> k, service |-> ServiceOf(k),
                                          held |-> TRUE, sid |-> NoSid])
           /\ cached' = [cached EXCEPT ![k] = Len(proxies) + 1]
  <2> DEFINE new == [kind |-> k, service |-> ServiceOf(k), held |-> TRUE, sid |-> NoSid]
             added == Len(proxies) + 1
  <2>1. ServiceOf(k) \in DOMAIN offered /\ offered[ServiceOf(k)] = k /\ ServiceOf(k) \in Nat
    BY <1>4, ServiceOfIs, LenProperties DEF RendererTypes
  <2>2. new \in AProxy
    BY <2>1 DEF AProxy, NoSid
  <2>3. /\ proxies' \in Seq(AProxy) /\ Len(proxies') = added
        /\ \A o \in 1..Len(proxies) : proxies'[o] = proxies[o]
        /\ proxies'[added] = new
    BY <1>4, <2>2, AppendProperties DEF RendererTypes
  <2>4. /\ DOMAIN proxies = 1..Len(proxies) /\ Len(proxies) \in Nat
        /\ DOMAIN proxies' = 1..added /\ added \in Nat
    BY <2>3, LenProperties DEF RendererTypes
  <2>5. resub'.obj = resub.obj /\ (resub.at # "idle" => resub'.disturbed)
    BY <1>4, DisturbsIs
  <2>6. \A o \in DOMAIN proxies : (IsThere(o)' <=> IsThere(o)) /\ proxies'[o] = proxies[o]
    BY <2>3, <2>4, <2>5 DEF IsThere
  <2>7. \A o \in DOMAIN proxies' : ProxyIsRight(o)'
    <3>1. ASSUME NEW o \in DOMAIN proxies PROVE ProxyIsRight(o)'
      BY <3>1, <1>0, <2>6, ServiceKept DEF ObjectsAreRight, ProxyIsRight
    <3>2. ASSUME NEW o, o = added PROVE ProxyIsRight(o)'
      <4>1. /\ proxies'[o].kind = k /\ proxies'[o].service = ServiceOf(k)
            /\ proxies'[o].sid = NoSid
        BY <3>2, <2>3
      <4>2. proxies'[o].sid <= lastSid'
        BY <4>1, <1>1, <1>0 DEF NoSid
      <4>3. ServiceOf(k)' = ServiceOf(k)
        BY <1>0, ServiceKept
      <4> QED  BY <4>1, <4>2, <4>3, <2>1, <1>0 DEF ProxyIsRight
    <3>3. \A o \in DOMAIN proxies' : o \in DOMAIN proxies \/ o = added
      BY <2>4
    <3> QED  BY <3>1, <3>2, <3>3
  <2>8. PointersAreRight'
    <3>1. \A o \in DOMAIN proxies : IsThere(o) => proxies[o].kind # k
      BY <1>4 DEF ObjectsAreRight, PointersAreRight
    <3>2. \A o \in DOMAIN proxies : proxies[o].kind \in Kinds
      BY ProxiesAre
    <3>3. ASSUME NEW j \in Kinds, cached'[j] # 0
          PROVE  cached'[j] \in DOMAIN proxies' /\ proxies'[cached'[j]].kind = j
      BY <3>3, <1>4, <2>3, <2>4 DEF ObjectsAreRight, PointersAreRight, RendererTypes
    <3>4. ASSUME NEW o \in DOMAIN proxies', IsThere(o)'
          PROVE  cached'[proxies'[o].kind] = o
      <4>1. CASE o = added
        BY <4>1, <1>4, <2>3 DEF RendererTypes
      <4>2. CASE o \in DOMAIN proxies
        BY <4>2, <3>4, <3>1, <3>2, <1>4, <2>6 DEF ObjectsAreRight, PointersAreRight, RendererTypes
      <4> QED  BY <4>1, <4>2, <2>4
    <3> QED  BY <3>3, <3>4 DEF PointersAreRight
  <2>9. SidsAreRight'
    <3>1. proxies'[added].sid = NoSid
      BY <2>3
    <3>2. \A o \in DOMAIN proxies' : proxies'[o].sid # NoSid => o \in DOMAIN proxies
      BY <3>1, <2>4
    <3> QED  BY <3>2, <1>0, <2>6 DEF ObjectsAreRight, SidsAreRight
  <2>10. resub.at # "idle" => PassedBy(resub.kind, resub.from, resub.disturbed)'
    <3> SUFFICES ASSUME resub.at # "idle" PROVE PassedBy(resub.kind, resub.from, resub.disturbed)'
      OBVIOUS
    <3>1. resub'.disturbed /\ resub'.kind = resub.kind /\ resub'.from = resub.from
      BY <1>4, DisturbsIs
    <3>2. proxies'[added].sid = NoSid
      BY <2>3
    <3> QED  BY <3>1, <3>2, <2>4, <2>6 DEF LoopIsRight, PassedBy
  <2>11. resub.obj # NoProxy => proxies'[resub.obj].sid = proxies[resub.obj].sid
    <3>1. resub.obj # NoProxy => resub.obj \in DOMAIN proxies
      BY DEF LoopIsRight, RendererTypes, ALoop, NoCall
    <3> QED  BY <3>1, <2>6
  <2>12. LoopIsRight' /\ ResultIsRight' /\ resub' \in ALoop /\ done' \in AResult
    <3>1. \A o \in DOMAIN proxies : proxies'[o].kind = proxies[o].kind
      BY <2>6
    <3>2. DOMAIN proxies \subseteq DOMAIN proxies'
      BY <2>4
    <3>3. \/ resub.at = "idle" /\ resub' = NoCall
          \/ resub.at # "idle" /\ resub' = [resub EXCEPT !.disturbed = TRUE]
      BY <1>4, DisturbsIs
    <3> QED  BY <1>0, <1>1, <2>10, <2>11, <3>1, <3>2, <3>3, OutsideKept
  <2>13. RendererTypes'
    BY <1>0, <1>4, <2>3, <2>4, <2>12 DEF RendererTypes
  <2> QED  BY <1>1, <2>7, <2>8, <2>9, <2>12, <2>13 DEF ObjectsAreRight
<1> QED  BY <1>2, <1>3, <1>4 DEF Accessor

LEMMA ReporterPreserves ==
  ASSUME RendererInv, NEW o \in DOMAIN proxies, NEW on \in BOOLEAN, InstallReporter(o, on)
  PROVE  RendererInv'
<1> USE DEF RendererInv
<1>1. /\ proxies[o].held /\ o # resub.obj /\ done' = NotDone
      /\ UNCHANGED <<offered, cached, forgotten>>
  BY DEF InstallReporter
<1>2. /\ proxies[o].sid \in Nat /\ proxies[o].held \in BOOLEAN /\ lastSid \in Nat
      /\ \A p \in DOMAIN proxies : proxies[p].sid <= lastSid /\ proxies[p].sid \in Nat
      /\ resub.obj # NoProxy => resub.obj \in DOMAIN proxies
      /\ resub.at # "idle" => resub.from <= lastSid
      /\ resub.from \in Nat
  BY ProxiesAre
     DEF SidTypes, LoopIsRight, RendererTypes, ALoop, NoCall, ObjectsAreRight, ProxyIsRight
<1> DEFINE Result(sid) ==
      /\ Turns(o, proxies[o].held, sid) /\ SidTypes' /\ lastSid' \in Nat /\ lastSid <= lastSid'
      /\ sids \ {proxies[o].sid} \subseteq sids'
      /\ \/ sid = NoSid /\ Disturbs
         \/ sid = proxies[o].sid /\ sids \subseteq sids' /\ UNCHANGED resub
         \/ sid > lastSid /\ sid \in sids' /\ UNCHANGED resub
<1>3. \E sid \in Nat : Result(sid)
  <2>1. CASE Unregister(o) /\ Disturbs
    <3>1. Result(NoSid)
      <4>1. Unregister(o) /\ UNCHANGED forgotten /\ Disturbs
        BY <2>1, <1>1
      <4>2. /\ Turns(o, proxies[o].held, NoSid) /\ SidTypes' /\ lastSid' = lastSid
            /\ sids \ {proxies[o].sid} \subseteq sids'
        BY <4>1, UnregisterIs
      <4> QED  BY <4>1, <4>2, <1>2
    <3> QED  BY <3>1 DEF NoSid
  <2>2. CASE Registered(o) /\ UNCHANGED resub
    <3>1. ASSUME NEW given, given = lastSid' PROVE Result(given) /\ given \in Nat
      <4>1. Registered(o) /\ UNCHANGED forgotten /\ UNCHANGED resub
        BY <2>2, <1>1
      <4>2. /\ Turns(o, proxies[o].held, given) /\ SidTypes' /\ given = lastSid + 1
            /\ sids \subseteq sids' /\ given \in sids'
        BY <3>1, <4>1, RegisteredIs
      <4>3. given \in Nat /\ given > lastSid /\ lastSid' \in Nat /\ lastSid <= lastSid'
        <5>1. lastSid \in Nat /\ given = lastSid + 1
          BY <1>2, <4>2
        <5> QED  BY <5>1, <3>1
      <4>4. sids \ {proxies[o].sid} \subseteq sids'
        BY <4>2
      <4> QED  BY <4>1, <4>2, <4>3, <4>4
    <3> QED  BY <3>1
  <2>3. CASE NotRegistered /\ UNCHANGED resub
    <3>1. lastSid' \in Nat
      BY <2>3, <1>1, NotRegisteredIs DEF SidTypes
    <3>2. Result(proxies[o].sid)
      BY <2>3, <3>1, <1>1, <1>2, NotRegisteredIs
    <3> QED  BY <3>2, <1>2
  <2> QED  BY <2>1, <2>2, <2>3 DEF InstallReporter
<1>4. PICK sid \in Nat : Result(sid)
  BY <1>3
<1>5. resub'.obj = resub.obj
  BY <1>4, DisturbsIs
<1>6. /\ proxies' \in Seq(AProxy) /\ DOMAIN proxies' = DOMAIN proxies
      /\ proxies'[o].held = proxies[o].held /\ proxies'[o].sid = sid
      /\ \A p \in DOMAIN proxies :
           /\ proxies'[p].kind = proxies[p].kind /\ proxies'[p].service = proxies[p].service
           /\ p # o => proxies'[p] = proxies[p]
  BY <1>2, <1>4, OneTurns
<1>7. \A p \in DOMAIN proxies : IsThere(p)' <=> IsThere(p)
  BY <1>5, <1>6 DEF IsThere
<1>8. IsThere(o)
  BY <1>1, ProxiesAre DEF IsThere
<1>9. ObjectsAreRight'
  BY <1>1, <1>2, <1>4, <1>7, <1>8, ObjectsKept
<1>10. resub.at # "idle" => PassedBy(resub.kind, resub.from, resub.disturbed)'
  <2> SUFFICES ASSUME resub.at # "idle", NEW p \in DOMAIN proxies, IsThere(p),
                      proxies[p].kind < resub.kind
               PROVE  IF proxies'[p].sid = NoSid THEN resub'.disturbed
                      ELSE proxies'[p].sid > resub'.from
    <3>1. resub'.kind = resub.kind
      BY <1>4, DisturbsIs
    <3> QED  BY <3>1, <1>6, <1>7 DEF PassedBy
  <2>1. IF proxies[p].sid = NoSid THEN resub.disturbed ELSE proxies[p].sid > resub.from
    BY DEF LoopIsRight, PassedBy
  <2>2. resub'.from = resub.from
    BY <1>4, DisturbsIs
  <2>3. CASE sid = NoSid /\ Disturbs
    <3>1. resub'.disturbed
      BY <2>3, DisturbsIs
    <3> QED  BY <3>1, <2>1, <2>2, <2>3, <1>6
  <2>4. CASE UNCHANGED resub /\ sid = proxies[o].sid
    BY <2>1, <2>4, <1>6
  <2>5. CASE UNCHANGED resub /\ sid > lastSid
    BY <2>1, <2>5, <1>2, <1>6 DEF NoSid
  <2> QED  BY <1>4, <2>3, <2>4, <2>5
<1>11. resub.obj # NoProxy => proxies'[resub.obj].sid = proxies[resub.obj].sid
  BY <1>1, <1>2, <1>6
<1>12. \/ UNCHANGED resub
       \/ resub.at = "idle" /\ resub' = NoCall
       \/ resub.at # "idle" /\ resub' = [resub EXCEPT !.disturbed = TRUE]
  BY <1>4, DisturbsIs
<1>13. LoopIsRight' /\ ResultIsRight' /\ resub' \in ALoop /\ done' \in AResult
  BY <1>1, <1>4, <1>6, <1>10, <1>11, <1>12, OutsideKept
<1> QED  BY <1>1, <1>4, <1>6, <1>9, <1>13 DEF RendererTypes

LEMMA ReleasePreserves ==
  ASSUME RendererInv, NEW o \in DOMAIN proxies, Release(o)
  PROVE  RendererInv'
<1> USE DEF RendererInv
<1>1. /\ proxies[o].held /\ done' = NotDone
      /\ UNCHANGED <<offered, cached, lastSid, forgotten, resub>>
  BY DEF Release
<1>2. /\ proxies[o].sid \in Nat /\ lastSid \in Nat
      /\ resub.obj # NoProxy => resub.obj \in DOMAIN proxies
  BY ProxiesAre DEF SidTypes, LoopIsRight, RendererTypes, ALoop, NoCall
<1> DEFINE sid == IF o = resub.obj THEN proxies[o].sid ELSE NoSid
<1>3. /\ Turns(o, FALSE, sid) /\ SidTypes' /\ sid \in Nat
      /\ sids \ {proxies[o].sid} \subseteq sids'
      /\ sid = NoSid \/ (sid = proxies[o].sid /\ sids \subseteq sids')
  <2>1. CASE o = resub.obj
    BY <2>1, <1>1, <1>2, HeldTurns DEF Release, Turns, SidTypes
  <2>2. CASE o # resub.obj
    BY <2>2, <1>1, <1>2 DEF Release, Turns, SidTypes, NoSid
  <2> QED  BY <2>1, <2>2
<1>4. /\ proxies' \in Seq(AProxy) /\ DOMAIN proxies' = DOMAIN proxies
      /\ proxies'[o].held = FALSE /\ proxies'[o].sid = sid
      /\ \A p \in DOMAIN proxies :
           /\ proxies'[p].kind = proxies[p].kind /\ proxies'[p].service = proxies[p].service
           /\ p # o => proxies'[p] = proxies[p]
  BY <1>3, OneTurns
<1>5. /\ \A p \in DOMAIN proxies : p # o => (IsThere(p)' <=> IsThere(p))
      /\ sid # NoSid => IsThere(o)'
  BY <1>1, <1>4, ProxiesAre DEF IsThere
<1>6. ObjectsAreRight'
  <2>1. sid = NoSid \/ (sid = proxies[o].sid /\ sids \subseteq sids') \/ (sid > lastSid /\ sid \in sids')
    BY <1>3
  <2>2. IsThere(o)' => IsThere(o)
    BY <1>1, ProxiesAre DEF IsThere
  <2>3. UNCHANGED <<offered, cached, forgotten>> /\ lastSid <= lastSid'
    BY <1>1, <1>2
  <2> HIDE DEF sid
  <2> QED  BY <2>1, <2>2, <2>3, <1>3, <1>5, ObjectsKept
<1>7. resub.at # "idle" => PassedBy(resub.kind, resub.from, resub.disturbed)'
  <2>1. \A p \in DOMAIN proxies : IsThere(p)' => IsThere(p) /\ proxies'[p].sid = proxies[p].sid
    BY <1>1, <1>4, <1>5, ProxiesAre DEF IsThere
  <2> QED  BY <2>1, <1>1, <1>4 DEF LoopIsRight, PassedBy
<1>8. resub.obj # NoProxy => proxies'[resub.obj].sid = proxies[resub.obj].sid
  BY <1>2, <1>4
<1>9. LoopIsRight' /\ ResultIsRight' /\ resub' \in ALoop /\ done' \in AResult
  BY <1>1, <1>2, <1>4, <1>7, <1>8, OutsideKept
<1> QED  BY <1>1, <1>3, <1>4, <1>6, <1>9 DEF RendererTypes

\* The steps of reSubscribeAll() that leave the objects alone.
LEMMA OnlyTheLoopMoves ==
  ASSUME RendererInv, UNCHANGED <<offered, proxies, cached, sids, lastSid, forgotten>>,
         resub.obj = NoProxy, resub'.obj = NoProxy
  PROVE  SidTypes' /\ ObjectsAreRight' /\ (\A p \in DOMAIN proxies : IsThere(p)' <=> IsThere(p))
<1> USE DEF RendererInv
<1>1. \A p : IsThere(p)' <=> IsThere(p)
  BY DEF IsThere
<1>2. ASSUME NEW p \in DOMAIN proxies' PROVE ProxyIsRight(p)'
  BY <1>1, <1>2, ServiceKept DEF ObjectsAreRight, ProxyIsRight
<1>3. SidsAreRight' /\ PointersAreRight'
  BY <1>1 DEF ObjectsAreRight, SidsAreRight, PointersAreRight
<1> QED  BY <1>1, <1>2, <1>3 DEF SidTypes, ObjectsAreRight

LEMMA LoopStepsPreserve ==
  ASSUME RendererInv, ReSubscribeAll \/ Skip \/ ReturnFalse \/ ReturnTrue
  PROVE  RendererInv'
<1> USE DEF RendererInv
<1>1. /\ resub \in ALoop /\ NKinds \in Nat
      /\ lastSid \in Nat /\ \A p \in DOMAIN proxies : proxies[p].kind \in Kinds
  BY ProxiesAre, RendererAssumption DEF RendererTypes, SidTypes
<1>2. CASE ReSubscribeAll
  <2>1. /\ UNCHANGED <<offered, proxies, cached, sids, lastSid, forgotten>>
        /\ resub.obj = NoProxy /\ resub'.obj = NoProxy /\ done' = NotDone
        /\ resub' = [at |-> "next", kind |-> 1, obj |-> NoProxy, from |-> lastSid,
                     disturbed |-> FALSE]
    BY <1>2 DEF ReSubscribeAll, NoCall
  <2>2. resub' \in ALoop /\ done' \in AResult
    BY <2>1, <1>1 DEF ALoop, AResult, NotDone, NoProxy
  <2>3. LoopIsRight'
    BY <2>1, <1>1 DEF LoopIsRight, PassedBy, Kinds
  <2>4. ResultIsRight'
    BY <2>1 DEF ResultIsRight
  <2> QED  BY <2>1, <2>2, <2>3, <2>4, OnlyTheLoopMoves DEF RendererTypes
<1>3. CASE Skip
  <2>1. /\ UNCHANGED <<offered, proxies, cached, sids, lastSid, forgotten, done>>
        /\ resub.at = "next" /\ resub.kind \in Kinds /\ ~IsThere(cached[resub.kind])
        /\ resub' = [resub EXCEPT !.kind = resub.kind + 1]
    BY <1>3 DEF Skip, Passes
  <2>2. /\ resub' \in ALoop /\ resub'.at = "next" /\ resub'.kind = resub.kind + 1
        /\ resub'.obj = resub.obj /\ resub'.from = resub.from /\ resub'.disturbed = resub.disturbed
        /\ resub.kind \in Nat
    BY <2>1, <1>1 DEF ALoop
  <2>3. resub.obj = NoProxy /\ done = NotDone /\ resub.from <= lastSid
        /\ PassedBy(resub.kind, resub.from, resub.disturbed)
    BY <2>1 DEF LoopIsRight
  <2>4. \A p \in DOMAIN proxies : IsThere(p) => proxies[p].kind # resub.kind
    BY <2>1 DEF ObjectsAreRight, PointersAreRight
  <2>5. \A p \in DOMAIN proxies : IsThere(p)' <=> IsThere(p)
    BY <2>1, <2>2, <2>3, OnlyTheLoopMoves
  <2>6. PassedBy(resub.kind, resub.from, resub.disturbed)'
    <3>1. \A p \in DOMAIN proxies :
            IsThere(p) /\ proxies[p].kind < resub.kind + 1 => proxies[p].kind < resub.kind
      BY <2>2, <2>4, <1>1 DEF Kinds
    <3> QED  BY <2>1, <2>2, <2>3, <2>5, <3>1 DEF PassedBy
  <2>7. LoopIsRight'
    BY <2>1, <2>2, <2>3, <2>6, <1>1 DEF LoopIsRight, Kinds
  <2>8. ResultIsRight'
    BY <2>1, <2>3 DEF ResultIsRight
  <2> QED  BY <2>1, <2>2, <2>3, <2>7, <2>8, OnlyTheLoopMoves DEF RendererTypes
<1>4. ASSUME NEW result \in {"true", "false"}, Return(result), resub.at = "next",
             result = "true" => resub.kind = NKinds + 1,
             result = "false" =>
               \E o \in DOMAIN proxies :
                 proxies[o].held /\ proxies[o].kind = resub.kind /\ proxies[o].sid = NoSid
      PROVE  RendererInv'
  <2>1. /\ UNCHANGED <<offered, proxies, cached, sids, lastSid, forgotten>> /\ resub' = NoCall
        /\ done' = [result |-> result, kind |-> resub.kind, from |-> resub.from,
                    disturbed |-> resub.disturbed]
    BY <1>4 DEF Return
  <2>2. resub' \in ALoop /\ done' \in AResult
    BY <2>1, <1>1, <1>4 DEF ALoop, AResult, NoCall, NoProxy
  <2>3. resub.obj = NoProxy /\ resub'.obj = NoProxy
    BY <2>1, <1>4 DEF LoopIsRight, NoCall
  <2>4. PassedBy(resub.kind, resub.from, resub.disturbed)
    BY <1>4 DEF LoopIsRight
  <2>5. \A p \in DOMAIN proxies : IsThere(p)' <=> IsThere(p)
    BY <2>1, <2>3, OnlyTheLoopMoves
  <2>6. PassedBy(done.kind, done.from, done.disturbed)'
    BY <2>1, <2>4, <2>5 DEF PassedBy
  <2>7. ResultIsRight'
    BY <2>1, <2>6, <1>4 DEF ResultIsRight
  <2>8. LoopIsRight'
    BY <2>1 DEF LoopIsRight, NoCall
  <2> QED  BY <2>1, <2>2, <2>3, <2>7, <2>8, OnlyTheLoopMoves DEF RendererTypes
<1>5. CASE ReturnTrue
  <2>1. resub.kind = NKinds + 1
    BY <1>5, <1>1 DEF ReturnTrue, LoopIsRight, Kinds
  <2> QED  BY <2>1, <1>4, <1>5 DEF ReturnTrue
<1>6. CASE ReturnFalse
  <2> DEFINE o == cached[resub.kind]
  <2>1. /\ resub.at = "next" /\ resub.kind \in Kinds /\ IsThere(o)
        /\ proxies[o].sid = NoSid /\ Return("false")
    BY <1>6 DEF ReturnFalse, Passes
  <2>2. resub.obj = NoProxy
    BY <2>1 DEF LoopIsRight
  <2>3. o # NoProxy /\ proxies[o].held
    BY <2>1, <2>2 DEF IsThere
  <2>4. o \in DOMAIN proxies /\ proxies[o].kind = resub.kind
    BY <2>1, <2>3 DEF ObjectsAreRight, PointersAreRight, NoProxy
  <2> QED  BY <2>1, <2>3, <2>4, <1>4
<1> QED  BY <1>2, <1>3, <1>5, <1>6

LEMMA RenewPreserves ==
  ASSUME RendererInv, Renew
  PROVE  RendererInv'
<1> USE DEF RendererInv
<1> DEFINE o == cached[resub.kind]
<1>1. /\ resub.at = "next" /\ resub.kind \in Kinds /\ IsThere(o) /\ Unregister(o)
      /\ resub' = [resub EXCEPT !.at = "subscribe", !.obj = o]
      /\ UNCHANGED <<offered, cached, forgotten, done>>
  BY DEF Renew, Passes
<1>2. resub.obj = NoProxy /\ done = NotDone /\ resub.from <= lastSid
  BY <1>1 DEF LoopIsRight
<1>3. o # NoProxy /\ proxies[o].held
  BY <1>1, <1>2 DEF IsThere
<1>4. o \in DOMAIN proxies /\ proxies[o].kind = resub.kind
  BY <1>1, <1>3 DEF ObjectsAreRight, PointersAreRight, NoProxy
<1> HIDE DEF o
<1>5. /\ Turns(o, proxies[o].held, NoSid) /\ SidTypes' /\ lastSid' = lastSid
      /\ sids \ {proxies[o].sid} \subseteq sids'
  BY <1>1, <1>4, UnregisterIs
<1>6. /\ proxies' \in Seq(AProxy) /\ DOMAIN proxies' = DOMAIN proxies
      /\ proxies'[o].held = proxies[o].held /\ proxies'[o].sid = NoSid
      /\ \A p \in DOMAIN proxies :
           /\ proxies'[p].kind = proxies[p].kind /\ proxies'[p].service = proxies[p].service
           /\ p # o => proxies'[p] = proxies[p]
  BY <1>3, <1>4, <1>5, OneTurns, ProxiesAre DEF NoSid
<1>7. /\ resub' \in ALoop /\ resub'.at = "subscribe" /\ resub'.obj = o
      /\ resub'.kind = resub.kind /\ resub'.from = resub.from
      /\ resub'.disturbed = resub.disturbed /\ resub.kind \in Nat
  <2>1. resub \in ALoop /\ o \in Nat
    BY <1>4, ProxiesAre DEF RendererTypes
  <2> QED  BY <1>1, <2>1 DEF ALoop
<1>8. \A p \in DOMAIN proxies : IsThere(p)' <=> IsThere(p)
  BY <1>2, <1>3, <1>6, <1>7, ProxiesAre DEF IsThere
<1>9. ObjectsAreRight'
  <2>1. lastSid <= lastSid' /\ NoSid \in Nat /\ proxies[o].held \in BOOLEAN
    BY <1>4, <1>5, ProxiesAre DEF SidTypes, NoSid
  <2>2. UNCHANGED <<offered, cached, forgotten>>
    BY <1>1
  <2> QED  BY <2>1, <2>2, <1>4, <1>5, <1>8, ObjectsKept
<1>10. PassedBy(resub.kind, resub.from, resub.disturbed)'
  <2>1. PassedBy(resub.kind, resub.from, resub.disturbed)
    BY <1>1 DEF LoopIsRight
  <2>2. \A p \in DOMAIN proxies : proxies[p].kind < resub.kind => p # o
    BY <1>4, <1>7
  <2> QED  BY <2>1, <2>2, <1>6, <1>7, <1>8 DEF PassedBy
<1>11. LoopIsRight'
  <2>1. resub.kind \in 1..NKinds + 1
    BY <1>1 DEF LoopIsRight
  <2> QED  BY <2>1, <1>1, <1>2, <1>4, <1>5, <1>6, <1>7, <1>10 DEF LoopIsRight
<1>12. ResultIsRight'
  BY <1>1, <1>2 DEF ResultIsRight
<1> QED  BY <1>1, <1>5, <1>6, <1>7, <1>9, <1>11, <1>12 DEF RendererTypes

LEMMA SubscribePreserves ==
  ASSUME RendererInv, Subscribe
  PROVE  RendererInv'
<1> USE DEF RendererInv
<1> DEFINE o == resub.obj
<1>1. /\ resub.at = "subscribe" /\ UNCHANGED <<offered, cached, forgotten, done>>
      /\ \/ Registered(o) /\ resub' = [resub EXCEPT !.at = "drop"]
         \/ NotRegistered /\ resub' = [resub EXCEPT !.at = "drop", !.disturbed = TRUE]
  BY DEF Subscribe
<1>2. /\ o \in DOMAIN proxies /\ proxies[o].kind = resub.kind /\ proxies[o].sid = NoSid
      /\ resub.kind \in Kinds /\ resub.kind \in 1..NKinds + 1
      /\ done = NotDone /\ resub.from <= lastSid
      /\ PassedBy(resub.kind, resub.from, resub.disturbed)
  BY <1>1 DEF LoopIsRight
<1>3. /\ resub \in ALoop /\ lastSid \in Nat /\ resub.kind \in Nat /\ resub.from \in Nat
      /\ proxies[o].held \in BOOLEAN
  BY <1>2, ProxiesAre DEF RendererTypes, SidTypes, ALoop
<1>4. /\ resub' \in ALoop /\ resub'.at = "drop" /\ resub'.obj = o
      /\ resub'.kind = resub.kind /\ resub'.from = resub.from
      /\ resub.disturbed => resub'.disturbed
  BY <1>1, <1>3 DEF ALoop
<1>5. PICK x : x = o
  OBVIOUS
<1>6. \E sid \in Nat :
        /\ Turns(x, proxies[x].held, sid) /\ SidTypes' /\ lastSid' \in Nat /\ lastSid <= lastSid'
        /\ sids \subseteq sids'
        /\ \/ sid = NoSid /\ resub'.disturbed
           \/ sid > lastSid /\ sid \in sids'
  <2>1. CASE Registered(x)
    <3>1. ASSUME NEW given, given = lastSid'
          PROVE  /\ Turns(x, proxies[x].held, given) /\ SidTypes' /\ given = lastSid + 1
                 /\ sids \subseteq sids' /\ given \in sids'
      BY <3>1, <2>1, <1>1, <1>2, <1>5, RegisteredIs
    <3> QED  BY <3>1, <1>3
  <2>2. CASE NotRegistered /\ resub' = [resub EXCEPT !.at = "drop", !.disturbed = TRUE]
    <3>1. /\ Turns(x, proxies[x].held, proxies[x].sid) /\ SidTypes' /\ lastSid <= lastSid'
          /\ sids \subseteq sids'
      BY <2>2, <1>1, <1>2, <1>5, NotRegisteredIs
    <3>2. resub'.disturbed
      BY <2>2, <1>3 DEF ALoop
    <3>3. proxies[x].sid = NoSid /\ NoSid \in Nat
      BY <1>2, <1>5 DEF NoSid
    <3>4. lastSid' \in Nat
      BY <3>1 DEF SidTypes
    <3> QED  BY <3>1, <3>2, <3>3, <3>4
  <2> QED  BY <2>1, <2>2, <1>1, <1>5
<1> HIDE DEF o
<1>7. PICK sid \in Nat :
        /\ Turns(x, proxies[x].held, sid) /\ SidTypes' /\ lastSid' \in Nat /\ lastSid <= lastSid'
        /\ sids \subseteq sids'
        /\ \/ sid = NoSid /\ resub'.disturbed
           \/ sid > lastSid /\ sid \in sids'
  BY <1>6
<1>8. /\ proxies' \in Seq(AProxy) /\ DOMAIN proxies' = DOMAIN proxies
      /\ proxies'[x].held = proxies[x].held /\ proxies'[x].sid = sid
      /\ \A p \in DOMAIN proxies :
           /\ proxies'[p].kind = proxies[p].kind /\ proxies'[p].service = proxies[p].service
           /\ p # x => proxies'[p] = proxies[p]
  BY <1>2, <1>3, <1>5, <1>7, OneTurns
<1>9. resub'.obj = resub.obj
  BY <1>4 DEF o
<1>10. (\A p \in DOMAIN proxies : IsThere(p)' <=> IsThere(p)) /\ IsThere(x)
  BY <1>2, <1>5, <1>8, <1>9, ProxiesAre DEF IsThere, o
<1>11. ObjectsAreRight'
  <2>1. UNCHANGED <<offered, cached, forgotten>> /\ x \in DOMAIN proxies
    BY <1>1, <1>2, <1>5
  <2> QED  BY <2>1, <1>3, <1>5, <1>7, <1>10, ObjectsKept
<1>12. PassedBy(resub.kind, resub.from, resub.disturbed)'
  <2>1. \A p \in DOMAIN proxies : proxies[p].kind < resub.kind => p # x
    BY <1>2, <1>3, <1>5
  <2> QED  BY <2>1, <1>2, <1>4, <1>8, <1>10 DEF PassedBy
<1>13. IF proxies'[x].sid = NoSid THEN resub'.disturbed ELSE proxies'[x].sid > resub'.from
  BY <1>2, <1>3, <1>4, <1>7, <1>8 DEF NoSid
<1>14. LoopIsRight'
  <2>1. resub'.obj = x /\ x \in DOMAIN proxies' /\ proxies'[x].kind = resub'.kind
    BY <1>2, <1>4, <1>5, <1>8
  <2>2. resub'.from <= lastSid' /\ done' = NotDone
    BY <1>1, <1>2, <1>3, <1>4, <1>7
  <2> QED  BY <2>1, <2>2, <1>2, <1>4, <1>12, <1>13 DEF LoopIsRight
<1>15. ResultIsRight'
  BY <1>1, <1>2 DEF ResultIsRight
<1> QED  BY <1>1, <1>4, <1>7, <1>8, <1>11, <1>14, <1>15 DEF RendererTypes

LEMMA DropPreserves ==
  ASSUME RendererInv, Drop
  PROVE  RendererInv'
<1> USE DEF RendererInv
<1>1. /\ resub.at = "drop" /\ UNCHANGED <<offered, cached, lastSid, forgotten, done>>
      /\ resub' = [resub EXCEPT !.at = "next", !.obj = NoProxy, !.kind = resub.kind + 1]
      /\ IF proxies[resub.obj].held THEN UNCHANGED <<proxies, sids, lastSid>>
         ELSE Unregister(resub.obj)
  BY DEF Drop
<1>2. /\ resub.obj \in DOMAIN proxies /\ proxies[resub.obj].kind = resub.kind
      /\ resub.kind \in Kinds /\ resub.kind \in 1..NKinds + 1
      /\ done = NotDone /\ resub.from <= lastSid
      /\ PassedBy(resub.kind, resub.from, resub.disturbed)
      /\ IF proxies[resub.obj].sid = NoSid THEN resub.disturbed
         ELSE proxies[resub.obj].sid > resub.from
  BY <1>1 DEF LoopIsRight
<1>3. /\ resub \in ALoop /\ resub.kind \in Nat /\ NKinds \in Nat
      /\ \A p \in DOMAIN proxies :
           proxies[p].kind \in Kinds /\ proxies[p].held \in BOOLEAN /\ proxies[p].sid \in Nat
           /\ p # NoProxy
  BY ProxiesAre, RendererAssumption DEF RendererTypes, ALoop
<1>4. /\ resub' \in ALoop /\ resub'.at = "next" /\ resub'.obj = NoProxy
      /\ resub'.kind = resub.kind + 1 /\ resub'.from = resub.from
      /\ resub'.disturbed = resub.disturbed
  <2>1. NoProxy \in Nat /\ resub.kind + 1 \in Nat
    BY <1>3 DEF NoProxy
  <2> QED  BY <2>1, <1>1, <1>3 DEF ALoop
<1>5. PICK x : x = resub.obj
  OBVIOUS
<1>6. \A p \in DOMAIN proxies : IsThere(p) => p = x \/ proxies[p].kind # resub.kind
  <2>1. IsThere(x) /\ x \in DOMAIN proxies /\ proxies[x].kind = resub.kind
    BY <1>2, <1>3, <1>5 DEF IsThere
  <2> QED  BY <2>1 DEF ObjectsAreRight, PointersAreRight
<1>7. CASE proxies[x].held
  <2>1. UNCHANGED <<proxies, sids>>
    BY <1>1, <1>5, <1>7
  <2>2. \A p \in DOMAIN proxies : IsThere(p)' <=> IsThere(p)
    BY <2>1, <1>4, <1>5, <1>7, <1>3 DEF IsThere, NoProxy
  <2>3. ObjectsAreRight'
    <3>1. ASSUME NEW p \in DOMAIN proxies' PROVE ProxyIsRight(p)'
      BY <2>1, <2>2, <1>1, ServiceKept DEF ObjectsAreRight, ProxyIsRight
    <3>2. SidsAreRight' /\ PointersAreRight'
      BY <2>1, <2>2, <1>1 DEF ObjectsAreRight, SidsAreRight, PointersAreRight
    <3> QED  BY <3>1, <3>2 DEF ObjectsAreRight
  <2>4. ASSUME NEW p \in DOMAIN proxies, IsThere(p), proxies[p].kind < resub.kind + 1
        PROVE  IF proxies[p].sid = NoSid THEN resub.disturbed ELSE proxies[p].sid > resub.from
    <3>1. p = x \/ proxies[p].kind < resub.kind
      BY <2>4, <1>3, <1>6 DEF Kinds
    <3> QED  BY <3>1, <2>4, <1>2, <1>5 DEF PassedBy
  <2>5. PassedBy(resub.kind, resub.from, resub.disturbed)'
    BY <2>1, <2>2, <2>4, <1>4 DEF PassedBy
  <2>6. LoopIsRight' /\ ResultIsRight'
    BY <2>5, <1>1, <1>2, <1>3, <1>4 DEF LoopIsRight, ResultIsRight, Kinds
  <2> QED  BY <2>1, <2>3, <2>6, <1>1, <1>4 DEF RendererTypes, SidTypes
<1>8. CASE ~proxies[x].held
  <2>1. x \in DOMAIN proxies /\ Unregister(x) /\ UNCHANGED forgotten /\ x # NoProxy
    BY <1>1, <1>2, <1>3, <1>5, <1>8
  <2>2. /\ Turns(x, proxies[x].held, NoSid) /\ SidTypes' /\ lastSid' = lastSid
        /\ sids \ {proxies[x].sid} \subseteq sids'
    BY <2>1, UnregisterIs
  <2>3. /\ proxies' \in Seq(AProxy) /\ DOMAIN proxies' = DOMAIN proxies
        /\ proxies'[x].held = proxies[x].held /\ proxies'[x].sid = NoSid
        /\ \A p \in DOMAIN proxies :
             /\ proxies'[p].kind = proxies[p].kind /\ proxies'[p].service = proxies[p].service
             /\ p # x => proxies'[p] = proxies[p]
    BY <2>1, <2>2, <1>3, OneTurns DEF NoSid
  <2>4. \A p \in DOMAIN proxies : p # x => (IsThere(p)' <=> IsThere(p))
    BY <2>3, <1>3, <1>4, <1>5 DEF IsThere
  <2>5. ~IsThere(x)'
    BY <2>1, <2>3, <1>4, <1>8 DEF IsThere
  <2>6. ObjectsAreRight'
    <3>1. lastSid <= lastSid' /\ NoSid \in Nat /\ proxies[x].held \in BOOLEAN
      BY <2>1, <2>2, <1>3 DEF SidTypes, NoSid
    <3>2. UNCHANGED <<offered, cached, forgotten>>
      BY <1>1
    <3> QED  BY <3>1, <3>2, <2>1, <2>2, <2>4, <2>5, ObjectsKept
  <2>7. ASSUME NEW p \in DOMAIN proxies, IsThere(p)', proxies[p].kind < resub.kind + 1
        PROVE  IF proxies'[p].sid = NoSid THEN resub.disturbed ELSE proxies'[p].sid > resub.from
    <3>1. p # x /\ IsThere(p) /\ proxies'[p].sid = proxies[p].sid
      BY <2>3, <2>4, <2>5, <2>7
    <3>2. proxies[p].kind < resub.kind
      BY <2>7, <3>1, <1>3, <1>6 DEF Kinds
    <3> QED  BY <3>1, <3>2, <1>2 DEF PassedBy
  <2>8. PassedBy(resub.kind, resub.from, resub.disturbed)'
    BY <2>3, <2>7, <1>4 DEF PassedBy
  <2>9. LoopIsRight' /\ ResultIsRight'
    BY <2>2, <2>8, <1>1, <1>2, <1>3, <1>4 DEF LoopIsRight, ResultIsRight, Kinds
  <2> QED  BY <2>2, <2>3, <2>6, <2>9, <1>1, <1>4 DEF RendererTypes
<1> QED  BY <1>3, <1>7, <1>8

LEMMA RestartPreserves ==
  ASSUME RendererInv, DeviceRestarts
  PROVE  RendererInv'
<1> USE DEF RendererInv
<1>1. /\ sids' = {} /\ forgotten' = lastSid /\ done' = NotDone
      /\ UNCHANGED <<offered, proxies, cached, lastSid, resub>>
  BY DEF DeviceRestarts
<1>2. \A p : IsThere(p)' <=> IsThere(p)
  BY <1>1 DEF IsThere
<1>3. RendererTypes' /\ SidTypes'
  BY <1>1 DEF RendererTypes, SidTypes, AResult, NotDone
<1>4. ASSUME NEW p \in DOMAIN proxies' PROVE ProxyIsRight(p)'
  BY <1>1, <1>2, ServiceKept DEF ObjectsAreRight, ProxyIsRight
<1>5. PointersAreRight'
  BY <1>1, <1>2 DEF ObjectsAreRight, PointersAreRight
<1>6. SidsAreRight'
  BY <1>1 DEF ObjectsAreRight, SidsAreRight, ProxyIsRight
<1>7. LoopIsRight' /\ ResultIsRight'
  BY <1>1, <1>2 DEF LoopIsRight, PassedBy, ResultIsRight
<1> QED  BY <1>3, <1>4, <1>5, <1>6, <1>7 DEF ObjectsAreRight

LEMMA RendererKept == RendererInv /\ [RendererNext]_rendererVars => RendererInv'
<1> SUFFICES ASSUME RendererInv, [RendererNext]_rendererVars PROVE RendererInv'
  OBVIOUS
<1>1. CASE UNCHANGED rendererVars
  <2>1. \A p : IsThere(p)' <=> IsThere(p)
    BY <1>1 DEF rendererVars, IsThere
  <2>2. ASSUME NEW p \in DOMAIN proxies' PROVE ProxyIsRight(p)'
    BY <1>1, <2>1, ServiceKept DEF RendererInv, rendererVars, ObjectsAreRight, ProxyIsRight
  <2>3. SidsAreRight' /\ PointersAreRight' /\ LoopIsRight' /\ ResultIsRight'
    BY <1>1, <2>1
       DEF RendererInv, rendererVars, ObjectsAreRight, SidsAreRight, PointersAreRight,
           LoopIsRight, PassedBy, ResultIsRight
  <2> QED  BY <1>1, <2>2, <2>3 DEF RendererInv, rendererVars, RendererTypes, SidTypes,
                                   ObjectsAreRight
<1> QED  BY <1>1, AccessorPreserves, ReporterPreserves, ReleasePreserves, LoopStepsPreserve,
            RenewPreserves, SubscribePreserves, DropPreserves, RestartPreserves DEF RendererNext

LEMMA RendererInvIsSound == RendererInv => RendererTypeOK /\ OneHandleEach
<1> SUFFICES ASSUME RendererInv PROVE RendererTypeOK /\ OneHandleEach
  OBVIOUS
<1> USE DEF RendererInv
<1>1. /\ DOMAIN proxies = 1..Len(proxies) /\ Len(proxies) \in Nat /\ lastSid \in Nat
      /\ NKinds \in Nat /\ resub \in ALoop /\ done \in AResult
      /\ \A o \in DOMAIN proxies :
           /\ proxies[o].kind \in Kinds /\ proxies[o].sid \in Nat /\ proxies[o].held \in BOOLEAN
           /\ o # NoProxy /\ ProxyIsRight(o)
  BY ProxiesAre, RendererAssumption DEF RendererTypes, SidTypes, ObjectsAreRight
<1>2. \A o \in DOMAIN proxies : proxies[o].held => IsThere(o)
  BY <1>1 DEF IsThere
<1>3. RendererTypeOK
  <2>1. \A k \in Kinds : cached[k] \in 0..Len(proxies)
    BY <1>1 DEF RendererTypes, ObjectsAreRight, PointersAreRight
  <2>2. /\ resub.kind \in 0..NKinds + 1 /\ resub.obj \in 0..Len(proxies)
        /\ resub.from \in 0..lastSid
        /\ resub.obj # NoProxy <=> resub.at \in {"subscribe", "drop"}
    <3>1. CASE resub.at = "idle"
      BY <3>1, <1>1 DEF LoopIsRight, NoCall, NoProxy
    <3>2. CASE resub.at # "idle"
      BY <3>2, <1>1 DEF LoopIsRight, ALoop, NoProxy
    <3> QED  BY <3>1, <3>2
  <2>3. ASSUME NEW o \in DOMAIN proxies
        PROVE  /\ proxies[o].kind \in Kinds /\ offered[proxies[o].service] = proxies[o].kind
               /\ proxies[o].sid \in 0..lastSid
               /\ proxies[o].sid # NoSid => IsThere(o)
    BY <1>1 DEF ProxyIsRight
  <2> QED  BY <2>1, <2>2, <2>3 DEF RendererTypeOK, SidTypes
<1>4. /\ \A o, p \in DOMAIN proxies :
           Held(o) /\ Held(p) /\ proxies[o].kind = proxies[p].kind => o = p
      /\ \A o \in DOMAIN proxies :
           Held(o) => cached[proxies[o].kind] = o /\ proxies[o].service = ServiceOf(proxies[o].kind)
  BY <1>1, <1>2 DEF Held, ObjectsAreRight, PointersAreRight, ProxyIsRight
<1>5. /\ \A o, p \in DOMAIN proxies : Subscribed(o) /\ proxies[o].sid = proxies[p].sid => o = p
      /\ \A o \in DOMAIN proxies :
           Subscribed(o) => proxies[o].sid \in sids \/ proxies[o].sid <= forgotten
  BY DEF Subscribed, ObjectsAreRight, SidsAreRight
<1>6. done # NotDone =>
        /\ \A o \in DOMAIN proxies : Held(o) /\ proxies[o].kind < done.kind =>
             IF Subscribed(o) THEN proxies[o].sid > done.from ELSE done.disturbed
        /\ done.result = "false" =>
             \E o \in DOMAIN proxies : Held(o) /\ proxies[o].kind = done.kind /\ ~Subscribed(o)
        /\ done.result = "true" => done.kind = NKinds + 1
  BY <1>2 DEF Held, Subscribed, ResultIsRight, PassedBy
<1> QED  BY <1>3, <1>4, <1>5, <1>6 DEF OneHandleEach

\* The accessors, the reporters, the destructors and reSubscribeAll() of MediaRenderer
\* (mediarenderer.cxx, service.cxx) keep the types of the proxies, the weak pointers and
\* the subscriptions, whatever the description and the number of kinds, and whichever
\* of the calls to the device fail.
THEOREM RendererTypeCorrect == RendererSpec => []RendererTypeOK
<1>1. RendererSpec => []RendererInv
  BY RendererStarts, RendererKept, PTL DEF RendererSpec
<1> QED  BY <1>1, RendererInvIsSound, PTL

\* The accessors of MediaRenderer never make a second object for a service while the
\* program holds one.  reSubscribeAll() leaves no subscription from before to any object
\* that it has passed, and each with a new one unless something was in its way, although
\* every call in the loop may fail with or without effect, the device may restart
\* between any two, and other threads make, register and release objects meanwhile.
THEOREM RendererHasOneHandleEach == RendererSpec => []OneHandleEach
<1>1. RendererSpec => []RendererInv
  BY RendererStarts, RendererKept, PTL DEF RendererSpec
<1> QED  BY <1>1, RendererInvIsSound, PTL

-----------------------------------------------------------------------------
(* Folds over a sequence.                                                   *)

\* Induction over the numbers, with a set for the property.
LEMMA Induct ==
  ASSUME NEW T, 0 \in T, \A n \in Nat : n \in T => n + 1 \in T
  PROVE  Nat \subseteq T
<1> SUFFICES ASSUME Nat \ T # {} PROVE FALSE
  OBVIOUS
<1>1. PICK x \in Nat \ T : \A y \in Nat \ T : x <= y
  BY LeastOf
<1>2. x # 0 /\ x - 1 \in Nat
  BY <1>1
<1>3. x - 1 \in T
  BY <1>1, <1>2
<1> QED  BY <1>1, <1>2, <1>3

LEMMA LastOfUpTo ==
  ASSUME NEW n \in Nat \ {0}
  PROVE  Max(1..n) = n /\ (1..n) \ {n} = 1..(n - 1)
<1>1. \A x \in 1..n : (\A y \in 1..n : x >= y) => x = n
  OBVIOUS
<1>2. n \in 1..n /\ \A y \in 1..n : n >= y
  OBVIOUS
<1> QED  BY <1>1, <1>2 DEF Max

LEMMA UpTo ==
  ASSUME NEW n \in Nat, NEW i \in 1..n
  PROVE  1..i \in SUBSET (1..n) /\ 1..i # {}
OBVIOUS

LEMMA GreatestIs ==
  ASSUME NEW n \in Nat, NEW s \in SUBSET (1..n), s # {}
  PROVE  Max(s) \in s /\ \A y \in s : y <= Max(s)
<1> DEFINE U == {k \in 0..n : n - k \in s}
<1>1. PICK y \in s : TRUE
  OBVIOUS
<1>2. y \in 1..n /\ n - (n - y) = y /\ n - y \in 0..n
  OBVIOUS
<1>3. n - y \in U
  <2>1. n - (n - y) \in s
    BY <1>2
  <2> QED  BY <2>1, <1>2
<1>4. U \subseteq Nat /\ U # {}
  <2> HIDE DEF U
  <2>1. U # {}
    BY <1>3
  <2> QED  BY <2>1 DEF U
<1>5. PICK k \in U : \A j \in U : k <= j
  BY <1>4, LeastOf
<1>6. n - k \in s
  BY <1>5
<1>7. ASSUME NEW z \in s
      PROVE  n - k >= z
  <2>1. z \in 1..n /\ n - (n - z) = z /\ n - z \in 0..n
    OBVIOUS
  <2>2. n - (n - z) \in s
    BY <2>1
  <2>3. n - z \in U
    BY <2>1, <2>2
  <2>4. k \in Nat /\ k <= n - z
    BY <2>3, <1>5
  <2> HIDE DEF U
  <2> QED  BY <2>1, <2>4
<1>8. \E x \in s : \A z \in s : x >= z
  BY <1>6, <1>7
<1>9. Max(s) \in s /\ \A z \in s : Max(s) >= z
  BY <1>8 DEF Max
<1> QED  BY <1>9

\* The function that FoldLeft() chooses exists, if the states of the fold stay
\* in a set: step[<<state, n>>] is what the n-th element makes of a state.
IsStep(step, S, n) == step \in [S \X (1..n) -> S]
IsFold(f, step, base, S, n) ==
  /\ f \in [SUBSET (1..n) -> S]
  /\ \A s \in SUBSET (1..n) :
       f[s] = IF s = {} THEN base ELSE step[<<f[s \ {Max(s)}], Max(s)>>]
LEMMA FoldExists ==
  ASSUME NEW n \in Nat, NEW S, NEW base \in S, NEW step, IsStep(step, S, n)
  PROVE  \E f : IsFold(f, step, base, S, n)
<1> USE DEF IsStep
<1> DEFINE Is(f, m) ==
             /\ f \in [SUBSET (1..m) -> S]
             /\ \A s \in SUBSET (1..m) :
                  f[s] = IF s = {} THEN base ELSE step[<<f[s \ {Max(s)}], Max(s)>>]
           Exists(m) == \E f : Is(f, m)
           T == {m \in Nat : m <= n => Exists(m)}
<1>1. 0 \in T
  <2> DEFINE f == [s \in SUBSET (1..0) |-> base]
  <2>1. \A s \in SUBSET (1..0) : s = {}
    OBVIOUS
  <2>2. Is(f, 0)
    BY <2>1
  <2>3. Exists(0)
    <3> HIDE DEF Is
    <3> QED  BY <2>2
  <2> QED  BY <2>3
<1>2. ASSUME NEW m \in Nat, m \in T
      PROVE  m + 1 \in T
  <2> SUFFICES ASSUME m + 1 <= n
               PROVE  Exists(m + 1)
    <3> HIDE DEF Exists
    <3> QED  OBVIOUS
  <2>0. Exists(m)
    <3> HIDE DEF Exists
    <3> QED  BY <1>2
  <2>1. PICK f : Is(f, m)
    <3> HIDE DEF Is
    <3> QED  BY <2>0
  <2> DEFINE g == [s \in SUBSET (1..(m + 1)) |->
                     IF m + 1 \in s THEN step[<<f[s \ {m + 1}], m + 1>>] ELSE f[s]]
  <2>2. ASSUME NEW s \in SUBSET (1..(m + 1))
        PROVE  /\ g[s] \in S
               /\ g[s] = IF s = {} THEN base ELSE step[<<g[s \ {Max(s)}], Max(s)>>]
    <3>1. s # {} => Max(s) \in s /\ \A y \in s : y <= Max(s)
      <4>1. m + 1 \in Nat
        OBVIOUS
      <4> QED  BY <4>1, GreatestIs
    <3>2. CASE m + 1 \in s
      <4>1. Max(s) \in 1..(m + 1) /\ m + 1 <= Max(s) /\ s # {}
        BY <3>1, <3>2
      <4>2. Max(s) = m + 1
        BY <4>1
      <4>3. s \ {m + 1} \in SUBSET (1..m) /\ s \ {m + 1} \in SUBSET (1..(m + 1))
        OBVIOUS
      <4>4. g[s] = step[<<f[s \ {m + 1}], m + 1>>]
        BY <3>2
      <4>5. g[s \ {m + 1}] = f[s \ {m + 1}]
        BY <4>3
      <4>6. f[s \ {m + 1}] \in S
        BY <4>3, <2>1
      <4>7. <<f[s \ {m + 1}], m + 1>> \in S \X (1..n)
        BY <4>6
      <4>8. g[s] \in S
        BY <4>4, <4>7
      <4> HIDE DEF g, Is
      <4> QED  BY <4>1, <4>2, <4>4, <4>5, <4>8
    <3>3. CASE m + 1 \notin s
      <4>1. s \in SUBSET (1..m)
        BY <3>3
      <4>2. g[s] = f[s]
        BY <3>3
      <4>3. s # {} => s \ {Max(s)} \in SUBSET (1..(m + 1)) /\ g[s \ {Max(s)}] = f[s \ {Max(s)}]
        BY <3>3
      <4>4. f[s] \in S /\ f[s] = IF s = {} THEN base ELSE step[<<f[s \ {Max(s)}], Max(s)>>]
        BY <4>1, <2>1
      <4> HIDE DEF g, Is
      <4> QED  BY <4>2, <4>3, <4>4
    <3> QED  BY <3>2, <3>3
  <2>3. Is(g, m + 1)
    BY <2>2
  <2> HIDE DEF Is, g
  <2> QED  BY <2>3
<1>3. Exists(n)
  <2> HIDE DEF Exists
  <2>1. Nat \subseteq T
    <3> HIDE DEF T
    <3> QED  BY <1>1, <1>2, Induct
  <2> QED  BY <2>1
<1>4. PICK f : Is(f, n)
  <2> HIDE DEF Is
  <2> QED  BY <1>3
<1>5. IsFold(f, step, base, S, n)
  BY <1>4 DEF IsFold
<1> QED  BY <1>5

\* What holds at the start of a fold and after each step holds at its end.
LEMMA FoldKeeps ==
  ASSUME NEW n \in Nat, NEW f, NEW S, f[1..0] \in S,
         \A i \in 1..n : f[1..(i - 1)] \in S => f[1..i] \in S
  PROVE  f[1..n] \in S
<1> DEFINE T == {m \in Nat : m <= n => f[1..m] \in S}
<1>1. 0 \in T
  OBVIOUS
<1>2. ASSUME NEW m \in Nat, m \in T
      PROVE  m + 1 \in T
  <2> SUFFICES ASSUME m + 1 <= n
               PROVE  f[1..(m + 1)] \in S
    OBVIOUS
  <2>1. m + 1 \in 1..n /\ (m + 1) - 1 = m
    OBVIOUS
  <2>2. f[1..((m + 1) - 1)] \in S
    BY <2>1, <1>2
  <2> QED  BY <2>1, <2>2
<1> HIDE DEF T
<1>3. n \in T
  BY <1>1, <1>2, Induct
<1> QED  BY <1>3 DEF T

LEMMA FrontIs ==
  ASSUME NEW S, NEW s \in Seq(S)
  PROVE  /\ Front(s) \in Seq(S)
         /\ Len(s) > 0 => /\ Len(Front(s)) = Len(s) - 1
                          /\ \A i \in 1..(Len(s) - 1) : Front(s)[i] = s[i]
<1>0. Len(s) \in Nat
  BY LenProperties
<1>1. Len(s) \in Nat /\ \A i \in 1..(Len(s) - 1) : s[i] \in S
  BY LenProperties, ElementOfSeq
<1>2. /\ Front(s) \in Seq(S)
      /\ Len(Front(s)) = IF 1 <= Len(s) - 1 THEN Len(s) - 1 - 1 + 1 ELSE 0
      /\ \A i \in 1..(Len(s) - 1 - 1 + 1) : Front(s)[i] = s[1 + i - 1]
  BY <1>1, SubSeqProperties DEF Front
<1> HIDE DEF Front
<1>3. ASSUME Len(s) > 0, NEW i \in 1..(Len(s) - 1)
      PROVE  Front(s)[i] = s[i]
  <2>1. i \in 1..(Len(s) - 1 - 1 + 1) /\ 1 + i - 1 = i
    BY <1>1
  <2> QED  BY <2>1, <1>2
<1>4. ASSUME Len(s) > 0
      PROVE  Len(Front(s)) = Len(s) - 1
  <2> DEFINE n == Len(s)
  <2> HIDE DEF n
  <2>1. n \in Nat /\ n > 0 /\ Len(Front(s)) = IF 1 <= n - 1 THEN n - 1 - 1 + 1 ELSE 0
    BY <1>0, <1>2, <1>4 DEF n
  <2>2. Len(Front(s)) = n - 1
    BY <2>1
  <2> QED  BY <2>2 DEF n
<1> QED  BY <1>2, <1>3, <1>4

\* The sequences one after the other, up to each of them.
IsFlat(flat, seqs, S) ==
  /\ flat \in [0..Len(seqs) -> Seq(S)]
  /\ flat[0] = <<>> /\ FlattenSeq(seqs) = flat[Len(seqs)]
  /\ \A i \in 1..Len(seqs) : flat[i] = flat[i - 1] \o seqs[i]
LEMMA FlatIs ==
  ASSUME NEW S, NEW seqs \in Seq(Seq(S))
  PROVE  \E flat : IsFlat(flat, seqs, S)
<1> DEFINE n == Len(seqs)
           Is(f, m) == /\ f \in [0..m -> Seq(S)] /\ f[0] = <<>>
                       /\ \A i \in 1..m : f[i] = f[i - 1] \o seqs[i]
           Exists(m) == \E f : Is(f, m)
           T == {m \in Nat : m <= n => Exists(m)}
<1>1. n \in Nat /\ \A i \in 1..n : seqs[i] \in Seq(S)
  BY LenProperties, ElementOfSeq
<1>2. <<>> \in Seq(S)
  OBVIOUS
<1> HIDE DEF n
<1>3. 0 \in T
  <2> DEFINE f == [i \in 0..0 |-> <<>>]
  <2>1. f \in [0..0 -> Seq(S)] /\ f[0] = <<>>
    BY <1>2
  <2>2. Is(f, 0)
    <3> HIDE DEF f
    <3> QED  BY <2>1
  <2>3. Exists(0)
    <3> HIDE DEF Is
    <3> QED  BY <2>2
  <2> QED  BY <2>3
<1>4. ASSUME NEW m \in Nat, m \in T
      PROVE  m + 1 \in T
  <2> SUFFICES ASSUME m + 1 <= n
               PROVE  Exists(m + 1)
    <3> HIDE DEF Exists
    <3> QED  OBVIOUS
  <2>0. Exists(m)
    <3> HIDE DEF Exists
    <3> QED  BY <1>1, <1>4
  <2>1. PICK f : Is(f, m)
    <3> HIDE DEF Is
    <3> QED  BY <2>0
  <2> DEFINE next == f[m] \o seqs[m + 1]
             g == [i \in 0..(m + 1) |-> IF i = m + 1 THEN next ELSE f[i]]
  <2>2. next \in Seq(S)
    <3>1. f[m] \in Seq(S) /\ seqs[m + 1] \in Seq(S)
      BY <1>1, <2>1
    <3> QED  BY <3>1, ConcatProperties
  <2>3. /\ g \in [0..(m + 1) -> Seq(S)] /\ g[0] = <<>> /\ g[m + 1] = next
        /\ \A i \in 0..m : g[i] = f[i]
    <3> HIDE DEF next
    <3> QED  BY <2>1, <2>2
  <2>4. ASSUME NEW i \in 1..(m + 1)
        PROVE  g[i] = g[i - 1] \o seqs[i]
    <3> HIDE DEF g
    <3>1. i - 1 \in 0..m /\ m \in 0..m
      OBVIOUS
    <3>2. g[i - 1] = f[i - 1]
      BY <2>3, <3>1
    <3>3. CASE i = m + 1
      <4>1. i - 1 = m
        BY <3>3
      <4> QED  BY <4>1, <2>3, <3>2, <3>3
    <3>4. CASE i # m + 1
      <4>1. i \in 0..m /\ i \in 1..m
        BY <3>4
      <4> QED  BY <4>1, <2>1, <2>3, <3>2
    <3> QED  BY <3>3, <3>4
  <2> HIDE DEF g
  <2>5. Is(g, m + 1)
    BY <2>3, <2>4
  <2> HIDE DEF Is
  <2> QED  BY <2>5
<1>5. Exists(n)
  <2> HIDE DEF Exists
  <2>1. Nat \subseteq T
    <3> HIDE DEF T
    <3> QED  BY <1>3, <1>4, Induct
  <2> QED  BY <1>1, <2>1
<1>6. PICK flat : Is(flat, n)
  <2> HIDE DEF Is
  <2> QED  BY <1>5
<1>7. CASE n = 0
  <2>1. seqs = <<>>
    BY <1>7, EmptySeq DEF n
  <2>2. FlattenSeq(seqs) = seqs
    BY <1>7 DEF FlattenSeq, n
  <2> QED  BY <1>6, <1>7, <2>1, <2>2 DEF IsFlat, n
<1>8. CASE n # 0
  <2> DEFINE g == [i \in 1..n |-> flat[i]]
             h == CHOOSE h : h = [i \in 1..n |-> IF i = 1 THEN seqs[i] ELSE h[i - 1] \o seqs[i]]
  <2>1. ASSUME NEW i \in 1..n
        PROVE  g[i] = IF i = 1 THEN seqs[i] ELSE g[i - 1] \o seqs[i]
    <3>1. flat[i] = flat[i - 1] \o seqs[i]
      BY <1>6
    <3>2. CASE i = 1
      <4>1. flat[i - 1] = <<>> /\ seqs[i] \in Seq(S)
        BY <1>1, <1>6, <3>2
      <4> QED  BY <4>1, <3>1, <3>2
    <3>3. CASE i # 1
      <4>1. i - 1 \in 1..n
        BY <3>3, <1>1
      <4> QED  BY <4>1, <3>1, <3>3
    <3> QED  BY <3>2, <3>3
  <2>2. g = [i \in 1..n |-> IF i = 1 THEN seqs[i] ELSE g[i - 1] \o seqs[i]]
    <3>1. g = [i \in 1..n |-> g[i]]
      OBVIOUS
    <3> HIDE DEF g
    <3> QED  BY <2>1, <3>1, Zenon
  <2>3. h = [i \in 1..n |-> IF i = 1 THEN seqs[i] ELSE h[i - 1] \o seqs[i]]
    <3> HIDE DEF g
    <3> QED  BY <2>2, Zenon
  <2>4. FlattenSeq(seqs) = h[n]
    BY <1>8 DEF FlattenSeq, n
  <2> HIDE DEF h
  <2>5. h[n] = flat[n]
    <3> DEFINE U == {m \in Nat : m + 1 <= n => h[m + 1] = flat[m + 1]}
    <3>1. 0 \in U
      <4>1. 1 \in 1..n
        BY <1>1, <1>8
      <4>2. h[1] = seqs[1] /\ g[1] = seqs[1] /\ g[1] = flat[1]
        BY <2>1, <2>3, <4>1
      <4> QED  BY <4>2
    <3>2. ASSUME NEW m \in Nat, m \in U
          PROVE  m + 1 \in U
      <4> SUFFICES ASSUME (m + 1) + 1 <= n
                   PROVE  h[(m + 1) + 1] = flat[(m + 1) + 1]
        OBVIOUS
      <4>1. /\ (m + 1) + 1 \in 1..n /\ (m + 1) + 1 # 1
            /\ ((m + 1) + 1) - 1 = m + 1 /\ m + 1 <= n
        BY <1>1
      <4>2. h[m + 1] = flat[m + 1]
        BY <3>2, <4>1
      <4>3. h[(m + 1) + 1] = h[((m + 1) + 1) - 1] \o seqs[(m + 1) + 1]
        BY <2>3, <4>1
      <4>4. flat[(m + 1) + 1] = flat[((m + 1) + 1) - 1] \o seqs[(m + 1) + 1]
        BY <1>6, <4>1
      <4> QED  BY <4>1, <4>2, <4>3, <4>4
    <3> HIDE DEF U
    <3>3. n - 1 \in U
      <4>1. Nat \subseteq U
        BY <3>1, <3>2, Induct
      <4> QED  BY <4>1, <1>1, <1>8
    <3>4. (n - 1) + 1 = n
      BY <1>1
    <3> QED  BY <3>3, <3>4, <1>1 DEF U
  <2> QED  BY <1>6, <2>4, <2>5 DEF IsFlat, n
<1> QED  BY <1>7, <1>8

LEMMA AppendIs ==
  ASSUME NEW S, NEW s \in Seq(S), NEW e \in S, NEW t \in Seq(S), Len(t) = Len(s) + 1,
         \A i \in 1..Len(s) : t[i] = s[i], t[Len(s) + 1] = e
  PROVE  Append(s, e) = t
<1>1. /\ Append(s, e) \in Seq(S) /\ Len(Append(s, e)) = Len(s) + 1
      /\ \A i \in 1..Len(s) : Append(s, e)[i] = s[i]
      /\ Append(s, e)[Len(s) + 1] = e
  BY AppendProperties
<1>2. Len(s) \in Nat
  BY LenProperties
<1>3. \A i \in 1..(Len(s) + 1) : Append(s, e)[i] = t[i]
  BY <1>1, <1>2
<1> QED  BY <1>1, <1>3, SeqEqual

-----------------------------------------------------------------------------
(* Base64: whatever bytes are encoded are decoded, with a blank anywhere.    *)

DecodeState ==
  {d \in [out : Seq(Nat), state : 0..3, ended : {"no", "pad", "invalid"}] :
     d.state # 0 => d.out # <<>>}

\* The last byte is the one that was appended.
LEMMA OrLastAppended ==
  ASSUME NEW out \in Seq(Nat), NEW byte \in Nat, NEW bits \in Nat
  PROVE  OrLast(Append(out, byte), bits) = Append(out, byte + bits)
<1> DEFINE s == Append(out, byte)
           n == Len(out)
           t == OrLast(s, bits)
<1>1. n \in Nat /\ byte + bits \in Nat
  BY LenProperties
<1>2. /\ s \in Seq(Nat) /\ Len(s) = n + 1 /\ \A i \in 1..n : s[i] = out[i]
      /\ s[n + 1] = byte
  BY AppendProperties
<1> HIDE DEF s, n
<1>3. t = [s EXCEPT ![n + 1] = byte + bits]
  BY <1>2 DEF OrLast
<1>4. t \in Seq(Nat) /\ Len(t) = n + 1 /\ \A i \in 1..n : t[i] = out[i]
  BY <1>1, <1>2, <1>3
<1>5. t[n + 1] = byte + bits
  BY <1>1, <1>2, <1>3
<1> HIDE DEF t
<1>6. Append(out, byte + bits) = t
  BY <1>1, <1>4, <1>5, AppendIs DEF n
<1> QED  BY <1>6 DEF s, t

LEMMA OrLastIsSeq ==
  ASSUME NEW out \in Seq(Nat), out # <<>>, NEW bits \in Nat
  PROVE  OrLast(out, bits) \in Seq(Nat) /\ OrLast(out, bits) # <<>>
<1> DEFINE n == Len(out)
           t == OrLast(out, bits)
<1>1. n \in Nat /\ n # 0 /\ out[n] + bits \in Nat
  <2>1. n \in Nat /\ n # 0
    BY LenProperties, EmptySeq
  <2>2. out[n] \in Nat
    BY <2>1, ElementOfSeq
  <2> QED  BY <2>1, <2>2
<1>2. t = [out EXCEPT ![n] = out[n] + bits]
  BY DEF OrLast
<1>3. t \in Seq(Nat) /\ Len(t) = n
  BY <1>1, <1>2
<1> QED  BY <1>1, <1>3, EmptySeq

LEMMA BitsOf ==
  ASSUME NEW v \in 0..63, NEW s \in 0..3
  PROVE  /\ v \in Nat /\ v * 4 \in Nat /\ v \div 16 \in Nat /\ v \div 4 \in Nat
         /\ (v % 16) * 16 \in Nat /\ (v % 4) * 64 \in Nat /\ (s + 1) % 4 \in 0..3
<1>1. v % 16 \in Nat /\ v % 4 \in Nat
  OBVIOUS
<1>2. v \div 16 \in Nat /\ v \div 4 \in Nat /\ (s + 1) % 4 \in 0..3
  OBVIOUS
<1> QED  BY <1>1, <1>2

\* What a character makes of the state of base64_decode().
LEMMA DecodeStepIs ==
  ASSUME NEW d \in DecodeState, NEW v \in B64Values
  PROVE  /\ DecodeStep(d, v) \in DecodeState
         /\ v = Space \/ d.ended # "no" => DecodeStep(d, v) = d
         /\ d.ended = "no" /\ v = Pad64 => DecodeStep(d, v) = [d EXCEPT !.ended = "pad"]
         /\ d.ended = "no" /\ v \in 0..63 =>
              /\ DecodeStep(d, v).ended = "no"
              /\ DecodeStep(d, v).state = (d.state + 1) % 4
              /\ d.state = 0 => DecodeStep(d, v).out = Append(d.out, v * 4)
              /\ d.state = 1 => DecodeStep(d, v).out
                                  = Append(OrLast(d.out, v \div 16), (v % 16) * 16)
              /\ d.state = 2 => DecodeStep(d, v).out
                                  = Append(OrLast(d.out, v \div 4), (v % 4) * 64)
              /\ d.state = 3 => DecodeStep(d, v).out = OrLast(d.out, v)
<1> DEFINE e == DecodeStep(d, v)
<1>0. /\ d.out \in Seq(Nat) /\ d.state \in 0..3 /\ d.ended \in {"no", "pad", "invalid"}
      /\ d.state # 0 => d.out # <<>>
      /\ d = [out |-> d.out, state |-> d.state, ended |-> d.ended]
  BY DEF DecodeState
<1>1. CASE v = Space \/ d.ended # "no"
  <2>1. e = d
    BY <1>1 DEF DecodeStep, Space, Pad64, Invalid
  <2>2. ~(d.ended = "no" /\ v = Pad64) /\ ~(d.ended = "no" /\ v \in 0..63)
    BY <1>1 DEF Space, Pad64
  <2> QED  BY <2>1, <2>2, Zenon DEF e
<1>2. CASE d.ended = "no" /\ v = Pad64
  <2>1. e = [d EXCEPT !.ended = "pad"]
    BY <1>2 DEF DecodeStep, Space, Pad64, Invalid
  <2> HIDE DEF e
  <2>2. e.out = d.out /\ e.state = d.state /\ e.ended = "pad" /\ e \in DecodeState
    BY <1>0, <2>1 DEF DecodeState
  <2> QED  BY <2>1, <2>2, <1>2 DEF e, Space, Pad64
<1>3. CASE d.ended = "no" /\ v = Invalid
  <2>1. e = [d EXCEPT !.ended = "invalid"]
    BY <1>3 DEF DecodeStep, Space, Pad64, Invalid
  <2> HIDE DEF e
  <2>2. e \in DecodeState
    BY <1>0, <2>1 DEF DecodeState
  <2> QED  BY <2>2, <1>3 DEF e, Space, Pad64, Invalid
<1>4. CASE d.ended = "no" /\ v \in 0..63
  <2> DEFINE out == CASE d.state = 0 -> Append(d.out, v * 4)
                      [] d.state = 1 -> Append(OrLast(d.out, v \div 16), (v % 16) * 16)
                      [] d.state = 2 -> Append(OrLast(d.out, v \div 4), (v % 4) * 64)
                      [] d.state = 3 -> OrLast(d.out, v)
             state == (d.state + 1) % 4
  <2>0. v # Space /\ v # Pad64 /\ v # Invalid
    BY <1>4 DEF Space, Pad64, Invalid
  <2>1. e = [d EXCEPT !.state = state, !.out = out]
    BY <1>4, <2>0, Zenon DEF DecodeStep
  <2>2. /\ d.state = 0 => out = Append(d.out, v * 4)
        /\ d.state = 1 => out = Append(OrLast(d.out, v \div 16), (v % 16) * 16)
        /\ d.state = 2 => out = Append(OrLast(d.out, v \div 4), (v % 4) * 64)
        /\ d.state = 3 => out = OrLast(d.out, v)
    BY <1>0
  <2>3. /\ v \in Nat /\ v * 4 \in Nat /\ v \div 16 \in Nat /\ v \div 4 \in Nat
        /\ (v % 16) * 16 \in Nat /\ (v % 4) * 64 \in Nat /\ state \in 0..3
    BY <1>0, <1>4, BitsOf
  <2> HIDE DEF out, state, e
  <2>4. out \in Seq(Nat) /\ out # <<>>
    <3>1. CASE d.state = 0
      <4> DEFINE byte == v * 4
      <4>1. byte \in Nat /\ out = Append(d.out, byte)
        BY <3>1, <2>2, <2>3
      <4> HIDE DEF byte
      <4> QED  BY <4>1, <1>0, AppendProperties
    <3>2. CASE d.state = 1
      <4> DEFINE byte == (v % 16) * 16
                 before == OrLast(d.out, v \div 16)
      <4>1. before \in Seq(Nat)
        BY <3>2, <1>0, <2>3, OrLastIsSeq
      <4>2. byte \in Nat /\ out = Append(before, byte)
        BY <3>2, <2>2, <2>3
      <4> HIDE DEF byte, before
      <4> QED  BY <4>1, <4>2, AppendProperties
    <3>3. CASE d.state = 2
      <4> DEFINE byte == (v % 4) * 64
                 before == OrLast(d.out, v \div 4)
      <4>1. before \in Seq(Nat)
        BY <3>3, <1>0, <2>3, OrLastIsSeq
      <4>2. byte \in Nat /\ out = Append(before, byte)
        BY <3>3, <2>2, <2>3
      <4> HIDE DEF byte, before
      <4> QED  BY <4>1, <4>2, AppendProperties
    <3>4. CASE d.state = 3
      BY <3>4, <1>0, <2>2, <2>3, OrLastIsSeq
    <3> QED  BY <1>0, <3>1, <3>2, <3>3, <3>4
  <2>5. e.out = out /\ e.state = state /\ e.ended = "no" /\ e \in DecodeState
    BY <1>0, <1>4, <2>1, <2>3, <2>4 DEF DecodeState
  <2>6. v # Space /\ v # Pad64
    BY <1>4 DEF Space, Pad64
  <2> QED  BY <1>4, <2>2, <2>5, <2>6 DEF e, state
<1>5. v \in 0..63 \/ v = Pad64 \/ v = Space \/ v = Invalid
  BY DEF B64Values
<1> QED  BY <1>0, <1>1, <1>2, <1>3, <1>4, <1>5

\* The states of base64_decode() along a text.
DecodeRun(run, text) ==
  /\ run \in [0..Len(text) -> DecodeState]
  /\ run[0] = DecodeStart
  /\ \A i \in 1..Len(text) : run[i] = DecodeStep(run[i - 1], text[i])
LEMMA DecodeRuns ==
  ASSUME NEW text \in Seq(B64Values)
  PROVE  \E run : DecodeRun(run, text) /\ FoldLeft(DecodeStep, DecodeStart, text) = run[Len(text)]
<1> DEFINE n == Len(text)
<1>1. n \in Nat /\ DOMAIN text = 1..n /\ \A i \in 1..n : text[i] \in B64Values
  BY LenProperties, ElementOfSeq
<1> HIDE DEF n
<1>0. DecodeStart \in DecodeState
  BY DEF DecodeStart, DecodeState
<1>2. \E f : f = [piece \in SUBSET (1..n) |->
                    IF piece = {} THEN DecodeStart
                    ELSE DecodeStep(f[piece \ {Max(piece)}], text[Max(piece)])]
  <2> DEFINE step == [x \in DecodeState \X (1..n) |-> DecodeStep(x[1], text[x[2]])]
  <2>1. step \in [DecodeState \X (1..n) -> DecodeState]
    BY <1>1, DecodeStepIs
  <2>2. PICK f : IsFold(f, step, DecodeStart, DecodeState, n)
    <3> HIDE DEF step
    <3> QED  BY <1>0, <1>1, <2>1, FoldExists DEF IsStep
  <2>3. ASSUME NEW piece \in SUBSET (1..n), piece # {}
        PROVE  step[<<f[piece \ {Max(piece)}], Max(piece)>>]
                 = DecodeStep(f[piece \ {Max(piece)}], text[Max(piece)])
    <3>1. Max(piece) \in 1..n /\ piece \ {Max(piece)} \in SUBSET (1..n)
      BY <1>1, <2>3, GreatestIs
    <3> QED  BY <3>1, <2>2 DEF IsFold
  <2> HIDE DEF step
  <2>4. f = [piece \in SUBSET (1..n) |->
               IF piece = {} THEN DecodeStart
               ELSE DecodeStep(f[piece \ {Max(piece)}], text[Max(piece)])]
    BY <2>2, <2>3 DEF IsFold
  <2> QED  BY <2>4
<1> DEFINE f == CHOOSE f : f = [piece \in SUBSET (DOMAIN text) |->
                    IF piece = {} THEN DecodeStart
                    ELSE DecodeStep(f[piece \ {Max(piece)}], text[Max(piece)])]
           run == [i \in 0..n |-> f[1..i]]
<1>3. FoldLeft(DecodeStep, DecodeStart, text) = f[DOMAIN text]
  BY DEF FoldLeft, MapThenFoldSet
<1>4. f = [piece \in SUBSET (1..n) |->
             IF piece = {} THEN DecodeStart
             ELSE DecodeStep(f[piece \ {Max(piece)}], text[Max(piece)])]
  BY <1>1, <1>2
<1> HIDE DEF f
<1>5. f[1..0] = DecodeStart
  BY <1>1, <1>4
<1>6. ASSUME NEW i \in 1..n
      PROVE  f[1..i] = DecodeStep(f[1..(i - 1)], text[i])
  <2>1. 1..i \in SUBSET (1..n) /\ 1..i # {}
    BY <1>1
  <2>2. Max(1..i) = i /\ (1..i) \ {i} = 1..(i - 1)
    BY <1>1, LastOfUpTo
  <2> QED  BY <1>4, <2>1, <2>2
<1>7. ASSUME NEW m \in 0..n
      PROVE  f[1..m] \in DecodeState
  <2>1. ASSUME NEW i \in 1..m, f[1..(i - 1)] \in DecodeState
        PROVE  f[1..i] \in DecodeState
    <3>1. i \in 1..n
      BY <1>1
    <3>2. text[i] \in B64Values
      BY <3>1, <1>1
    <3> QED  BY <3>1, <3>2, <2>1, <1>6, DecodeStepIs
  <2>2. m \in Nat /\ f[1..0] \in DecodeState
    BY <1>0, <1>1, <1>5
  <2> QED  BY <2>1, <2>2, FoldKeeps
<1>8. DecodeRun(run, text)
  <2>1. run \in [0..n -> DecodeState]
    BY <1>7
  <2>2. run[0] = DecodeStart
    BY <1>1, <1>5
  <2>3. \A i \in 1..n : run[i] = DecodeStep(run[i - 1], text[i])
    BY <1>1, <1>6
  <2> HIDE DEF run
  <2> QED  BY <2>1, <2>2, <2>3 DEF DecodeRun, n
<1>9. run[n] = f[DOMAIN text]
  BY <1>1
<1> QED  BY <1>3, <1>8, <1>9 DEF n

\* A blank in the text makes no difference.
LEMMA BlankIsSkipped ==
  ASSUME NEW text \in Seq(B64Values), NEW at \in 1..(Len(text) + 1)
  PROVE  \E run : /\ DecodeRun(run, text)
                  /\ FoldLeft(DecodeStep, DecodeStart, InsertAt(text, at, Space)) = run[Len(text)]
<1> DEFINE n == Len(text)
           blank == InsertAt(text, at, Space)
           before == SubSeq(text, 1, at - 1)
           after == SubSeq(text, at, n)
<1>1. n \in Nat /\ at \in Nat /\ \A i \in 1..n : text[i] \in B64Values
  BY LenProperties, ElementOfSeq
<1>2. /\ before \in Seq(B64Values) /\ Len(before) = at - 1
      /\ \A i \in 1..(at - 1) : before[i] = text[i]
  <2> HIDE DEF before, n
  <2>1. at - 1 \in Int /\ 1 \in Int /\ \A i \in 1..(at - 1) : text[i] \in B64Values
    BY <1>1 DEF n
  <2>2. /\ before \in Seq(B64Values)
        /\ Len(before) = IF 1 <= at - 1 THEN at - 1 - 1 + 1 ELSE 0
        /\ \A i \in 1..(at - 1 - 1 + 1) : before[i] = text[1 + i - 1]
    BY <2>1, SubSeqProperties DEF before
  <2> QED  BY <2>2, <1>1
<1>3. /\ after \in Seq(B64Values) /\ Len(after) = n - at + 1
      /\ \A i \in 1..(n - at + 1) : after[i] = text[at + i - 1]
  <2> HIDE DEF after, n
  <2>1. at \in Int /\ n \in Int /\ \A i \in at..n : text[i] \in B64Values
    BY <1>1 DEF n
  <2>2. /\ after \in Seq(B64Values)
        /\ Len(after) = IF at <= n THEN n - at + 1 ELSE 0
        /\ \A i \in 1..(n - at + 1) : after[i] = text[at + i - 1]
    BY <2>1, SubSeqProperties DEF after
  <2>3. at <= n + 1
    BY DEF n
  <2> QED  BY <2>2, <2>3, <1>1
<1> DEFINE one == <<Space>>
<1>4. one \in Seq(B64Values) /\ Len(one) = 1 /\ one[1] = Space
  BY DEF B64Values
<1>5. blank = (before \o one) \o after
  BY DEF InsertAt
<1>6. at \in 1..(n + 1)
  OBVIOUS
<1> HIDE DEF n, before, after, one, blank
<1> DEFINE begin == before \o one
<1>7. /\ begin \in Seq(B64Values) /\ Len(begin) = at
      /\ \A i \in 1..at : begin[i] = IF i <= at - 1 THEN before[i] ELSE one[i - (at - 1)]
  <2>1. /\ begin \in Seq(B64Values) /\ Len(begin) = Len(before) + Len(one)
        /\ \A i \in 1..(Len(before) + Len(one)) :
             begin[i] = IF i <= Len(before) THEN before[i] ELSE one[i - Len(before)]
    BY <1>2, <1>4, ConcatProperties
  <2> HIDE DEF begin
  <2>2. Len(before) + Len(one) = at
    BY <1>1, <1>2, <1>4
  <2> QED  BY <2>1, <2>2, <1>2
<1>8. /\ blank \in Seq(B64Values) /\ Len(blank) = n + 1
      /\ \A i \in 1..(n + 1) : blank[i] = IF i <= at THEN begin[i] ELSE after[i - at]
  <2> HIDE DEF begin
  <2>1. /\ begin \o after \in Seq(B64Values) /\ Len(begin \o after) = Len(begin) + Len(after)
        /\ \A i \in 1..(Len(begin) + Len(after)) :
             (begin \o after)[i] = IF i <= Len(begin) THEN begin[i] ELSE after[i - Len(begin)]
    BY <1>3, <1>7, ConcatProperties
  <2>2. Len(begin) + Len(after) = n + 1
    BY <1>1, <1>3, <1>7
  <2>3. blank = begin \o after
    BY <1>5 DEF begin
  <2> QED  BY <2>1, <2>2, <2>3, <1>7
<1> HIDE DEF begin
<1>9. /\ \A i \in 1..(at - 1) : blank[i] = text[i]
      /\ blank[at] = Space
      /\ \A i \in at..n : blank[i + 1] = text[i]
  <2>1. ASSUME NEW i \in 1..(at - 1)
        PROVE  blank[i] = text[i]
    <3>1. i \in 1..(n + 1) /\ i \in 1..at /\ i <= at /\ i <= at - 1
      BY <1>1, <1>6
    <3> QED  BY <3>1, <1>2, <1>7, <1>8
  <2>2. blank[at] = Space
    <3>1. at \in 1..at /\ at <= at /\ ~(at <= at - 1) /\ at - (at - 1) = 1
      BY <1>1, <1>6
    <3>2. blank[at] = begin[at] /\ begin[at] = one[at - (at - 1)]
      BY <3>1, <1>6, <1>7, <1>8
    <3> QED  BY <3>1, <3>2, <1>4
  <2>3. ASSUME NEW i \in at..n
        PROVE  blank[i + 1] = text[i]
    <3>1. /\ i + 1 \in 1..(n + 1) /\ ~(i + 1 <= at) /\ (i + 1) - at \in 1..(n - at + 1)
          /\ at + ((i + 1) - at) - 1 = i
      BY <1>1, <1>6
    <3>2. blank[i + 1] = after[(i + 1) - at]
      BY <3>1, <1>8
    <3>3. after[(i + 1) - at] = text[at + ((i + 1) - at) - 1]
      BY <3>1, <1>3
    <3> QED  BY <3>1, <3>2, <3>3
  <2> QED  BY <2>1, <2>2, <2>3
<1>10. PICK run : DecodeRun(run, blank) /\ FoldLeft(DecodeStep, DecodeStart, blank) = run[n + 1]
  BY <1>8, DecodeRuns
<1>11. /\ run \in [0..(n + 1) -> DecodeState] /\ run[0] = DecodeStart
       /\ \A i \in 1..(n + 1) : run[i] = DecodeStep(run[i - 1], blank[i])
  BY <1>8, <1>10 DEF DecodeRun
<1> DEFINE short == [i \in 0..n |-> IF i < at THEN run[i] ELSE run[i + 1]]
<1>12. short \in [0..n -> DecodeState] /\ short[0] = DecodeStart
  <2>1. ASSUME NEW i \in 0..n
        PROVE  run[i] \in DecodeState /\ run[i + 1] \in DecodeState
    <3>1. i \in 0..(n + 1) /\ i + 1 \in 0..(n + 1)
      BY <1>1
    <3> QED  BY <3>1, <1>11
  <2>2. 0 < at /\ 0 \in 0..n
    BY <1>1, <1>6
  <2> QED  BY <2>1, <2>2, <1>11
<1>13. run[at] = run[at - 1]
  <2>1. at \in 1..(n + 1) /\ at - 1 \in 0..(n + 1)
    BY <1>6, <1>1
  <2>2. run[at] = DecodeStep(run[at - 1], Space) /\ run[at - 1] \in DecodeState
    BY <2>1, <1>9, <1>11
  <2> QED  BY <2>2, DecodeStepIs DEF B64Values
<1>14. ASSUME NEW i \in 1..n
       PROVE  short[i] = DecodeStep(short[i - 1], text[i])
  <2>1. CASE i < at
    <3>1. i \in 1..(at - 1) /\ i \in 1..(n + 1) /\ i \in 0..n /\ i - 1 \in 0..n /\ i - 1 < at
      BY <1>1, <2>1
    <3>2. short[i] = run[i] /\ short[i - 1] = run[i - 1]
      BY <2>1, <3>1
    <3> HIDE DEF short
    <3> QED  BY <3>1, <3>2, <1>9, <1>11
  <2>2. CASE i >= at
    <3>1. /\ i \in at..n /\ i + 1 \in 1..(n + 1) /\ (i + 1) - 1 = i
          /\ i \in 0..n /\ i - 1 \in 0..n /\ ~(i < at)
      BY <1>1, <2>2
    <3>2. short[i] = run[i + 1]
      BY <3>1
    <3>3. short[i - 1] = run[i]
      <4>1. CASE i = at
        <5>1. short[i - 1] = run[i - 1]
          BY <3>1, <4>1
        <5> HIDE DEF short
        <5> QED  BY <5>1, <4>1, <1>13
      <4>2. CASE i # at
        BY <1>1, <3>1, <4>2
      <4> QED  BY <4>1, <4>2
    <3>4. run[i + 1] = DecodeStep(run[(i + 1) - 1], blank[i + 1])
      BY <3>1, <1>11
    <3> HIDE DEF short
    <3> QED  BY <3>1, <3>2, <3>3, <3>4, <1>9
  <2> QED  BY <1>1, <2>1, <2>2
<1>15. short[n] = run[n + 1]
  <2>1. CASE n < at
    <3>1. at = n + 1 /\ n \in 0..n /\ at - 1 = n
      BY <1>1, <1>6, <2>1
    <3>2. short[n] = run[n]
      BY <3>1
    <3> HIDE DEF short
    <3> QED  BY <3>1, <3>2, <1>13
  <2>2. CASE ~(n < at)
    BY <1>1, <2>2
  <2> QED  BY <2>1, <2>2
<1> HIDE DEF short
<1>16. DecodeRun(short, text)
  BY <1>12, <1>14 DEF DecodeRun, n
<1> QED  BY <1>10, <1>15, <1>16 DEF n, blank

\* What each character of a group of four makes of the bytes.
Decoded(d, state, out) ==
  d \in DecodeState /\ d.ended = "no" /\ d.state = state /\ d.out = out

LEMMA FirstIsDecoded ==
  ASSUME NEW d, NEW out, Decoded(d, 0, out), NEW v \in 0..63
  PROVE  Decoded(DecodeStep(d, v), 1, Append(out, v * 4))
<1>1. v \in B64Values /\ (0 + 1) % 4 = 1
  BY DEF B64Values
<1> QED  BY <1>1, DecodeStepIs DEF Decoded

LEMMA SecondIsDecoded ==
  ASSUME NEW d, NEW out \in Seq(Nat), NEW bits \in Nat, Decoded(d, 1, Append(out, bits)),
         NEW v \in 0..63
  PROVE  Decoded(DecodeStep(d, v), 2, Append(Append(out, bits + v \div 16), (v % 16) * 16))
<1>1. v \in B64Values /\ (1 + 1) % 4 = 2 /\ v \div 16 \in Nat
  BY DEF B64Values
<1> DEFINE e == DecodeStep(d, v)
<1>2. /\ e \in DecodeState /\ e.ended = "no" /\ e.state = 2
      /\ e.out = Append(OrLast(d.out, v \div 16), (v % 16) * 16)
  BY <1>1, DecodeStepIs DEF Decoded
<1>3. OrLast(d.out, v \div 16) = Append(out, bits + v \div 16)
  BY <1>1, OrLastAppended DEF Decoded
<1> HIDE DEF e
<1>4. Decoded(e, 2, Append(Append(out, bits + v \div 16), (v % 16) * 16))
  BY <1>2, <1>3 DEF Decoded
<1> QED  BY <1>4 DEF e

LEMMA ThirdIsDecoded ==
  ASSUME NEW d, NEW out \in Seq(Nat), NEW bits \in Nat, Decoded(d, 2, Append(out, bits)),
         NEW v \in 0..63
  PROVE  Decoded(DecodeStep(d, v), 3, Append(Append(out, bits + v \div 4), (v % 4) * 64))
<1>1. v \in B64Values /\ (2 + 1) % 4 = 3 /\ v \div 4 \in Nat
  BY DEF B64Values
<1> DEFINE e == DecodeStep(d, v)
<1>2. /\ e \in DecodeState /\ e.ended = "no" /\ e.state = 3
      /\ e.out = Append(OrLast(d.out, v \div 4), (v % 4) * 64)
  BY <1>1, DecodeStepIs DEF Decoded
<1>3. OrLast(d.out, v \div 4) = Append(out, bits + v \div 4)
  BY <1>1, OrLastAppended DEF Decoded
<1> HIDE DEF e
<1>4. Decoded(e, 3, Append(Append(out, bits + v \div 4), (v % 4) * 64))
  BY <1>2, <1>3 DEF Decoded
<1> QED  BY <1>4 DEF e

LEMMA FourthIsDecoded ==
  ASSUME NEW d, NEW out \in Seq(Nat), NEW bits \in Nat, Decoded(d, 3, Append(out, bits)),
         NEW v \in 0..63
  PROVE  Decoded(DecodeStep(d, v), 0, Append(out, bits + v))
<1>1. v \in B64Values /\ (3 + 1) % 4 = 0 /\ v \in Nat
  BY DEF B64Values
<1> DEFINE e == DecodeStep(d, v)
<1>2. e \in DecodeState /\ e.ended = "no" /\ e.state = 0 /\ e.out = OrLast(d.out, v)
  BY <1>1, DecodeStepIs DEF Decoded
<1>3. OrLast(d.out, v) = Append(out, bits + v)
  BY <1>1, OrLastAppended DEF Decoded
<1> HIDE DEF e
<1>4. Decoded(e, 0, Append(out, bits + v))
  BY <1>2, <1>3 DEF Decoded
<1> QED  BY <1>4 DEF e

\* Three bytes are what their four characters are decoded to.
LEMMA DivMod ==
  ASSUME NEW n \in Nat
  PROVE  /\ n = (n \div 4) * 4 + (n % 4) /\ n % 4 \in 0..3
         /\ n = (n \div 16) * 16 + (n % 16) /\ n % 16 \in 0..15
         /\ n = (n \div 64) * 64 + (n % 64) /\ n % 64 \in 0..63
         /\ n < 256 => n \div 4 \in 0..63 /\ n \div 16 \in 0..15 /\ n \div 64 \in 0..3
<1>1. n = (n \div 4) * 4 + (n % 4)
  BY Z3
<1>2. n = (n \div 16) * 16 + (n % 16)
  BY Z3
<1>3. n = (n \div 64) * 64 + (n % 64)
  BY Z3
<1>4. n % 4 \in 0..3 /\ n % 16 \in 0..15 /\ n % 64 \in 0..63
  OBVIOUS
<1>5. n < 256 => n \div 4 \in 0..63 /\ n \div 16 \in 0..15 /\ n \div 64 \in 0..3
  OBVIOUS
<1> QED  BY <1>1, <1>2, <1>3, <1>4, <1>5, Zenon

LEMMA OutputIs ==
  ASSUME NEW i0 \in Byte, NEW i1 \in Byte, NEW i2 \in Byte,
         NEW v1, NEW v2, NEW v3, NEW v4, <<v1, v2, v3, v4>> = Output(i0, i1, i2)
  PROVE  /\ v1 \in 0..63 /\ v2 \in 0..63 /\ v3 \in 0..63 /\ v4 \in 0..63
         /\ v1 * 4 + v2 \div 16 = i0
         /\ (v2 % 16) * 16 + v3 \div 4 = i1
         /\ (v3 % 4) * 64 + v4 = i2
<1>1. /\ v1 = i0 \div 4 /\ v2 = (i0 % 4) * 16 + i1 \div 16
      /\ v3 = (i1 % 16) * 4 + i2 \div 64 /\ v4 = i2 % 64
  BY DEF Output
<1>0. i0 \in Nat /\ i0 < 256 /\ i1 \in Nat /\ i1 < 256 /\ i2 \in Nat /\ i2 < 256
  BY DEF Byte
<1>2. i0 = (i0 \div 4) * 4 + (i0 % 4) /\ i0 % 4 \in 0..3 /\ i0 \div 4 \in 0..63
  BY <1>0, DivMod
<1>3. i1 = (i1 \div 16) * 16 + (i1 % 16) /\ i1 % 16 \in 0..15 /\ i1 \div 16 \in 0..15
  BY <1>0, DivMod
<1>4. i2 = (i2 \div 64) * 64 + (i2 % 64) /\ i2 % 64 \in 0..63 /\ i2 \div 64 \in 0..3
  BY <1>0, DivMod
<1>5. ASSUME NEW q \in 0..3, NEW s \in 0..15
      PROVE  (q * 16 + s) \div 16 = q /\ (q * 16 + s) % 16 = s /\ q * 16 + s \in 0..63
  OBVIOUS
<1>6. ASSUME NEW q \in 0..15, NEW s \in 0..3
      PROVE  (q * 4 + s) \div 4 = q /\ (q * 4 + s) % 4 = s /\ q * 4 + s \in 0..63
  OBVIOUS
<1> DEFINE q0 == i0 \div 4
           r0 == i0 % 4
           q1 == i1 \div 16
           r1 == i1 % 16
           q2 == i2 \div 64
           r2 == i2 % 64
<1> HIDE DEF q0, r0, q1, r1, q2, r2
<1>7. /\ v1 = q0 /\ v2 = r0 * 16 + q1 /\ v3 = r1 * 4 + q2 /\ v4 = r2
      /\ q0 \in 0..63 /\ r0 \in 0..3 /\ q1 \in 0..15 /\ r1 \in 0..15 /\ q2 \in 0..3 /\ r2 \in 0..63
      /\ i0 = q0 * 4 + r0 /\ i1 = q1 * 16 + r1 /\ i2 = q2 * 64 + r2
  BY <1>1, <1>2, <1>3, <1>4, Zenon DEF q0, r0, q1, r1, q2, r2
<1>8. v2 \div 16 = r0 /\ v2 % 16 = q1 /\ v2 \in 0..63
  BY <1>5, <1>7
<1>9. v3 \div 4 = r1 /\ v3 % 4 = q2 /\ v3 \in 0..63
  BY <1>6, <1>7
<1> QED  BY <1>7, <1>8, <1>9, Zenon

\* Sequences of four, one after the other.
LEMMA FlatOfFours ==
  ASSUME NEW S, NEW seqs \in Seq(Seq(S)), \A g \in 1..Len(seqs) : Len(seqs[g]) = 4
  PROVE  /\ FlattenSeq(seqs) \in Seq(S) /\ Len(FlattenSeq(seqs)) = 4 * Len(seqs)
         /\ \A g \in 1..Len(seqs), i \in 1..4 : FlattenSeq(seqs)[4 * (g - 1) + i] = seqs[g][i]
<1> DEFINE n == Len(seqs)
<1>1. n \in Nat /\ \A g \in 1..n : seqs[g] \in Seq(S) /\ Len(seqs[g]) = 4
  BY LenProperties, ElementOfSeq
<1>2. PICK flat : IsFlat(flat, seqs, S)
  BY FlatIs
<1> HIDE DEF n
<1>3. /\ flat \in [0..n -> Seq(S)] /\ flat[0] = <<>> /\ FlattenSeq(seqs) = flat[n]
      /\ \A g \in 1..n : flat[g] = flat[g - 1] \o seqs[g]
  BY <1>2 DEF IsFlat, n
<1> DEFINE Is(m) == Len(flat[m]) = 4 * m /\ \A g \in 1..m, i \in 1..4 : flat[m][4 * (g - 1) + i] = seqs[g][i]
           T == {m \in Nat : m <= n => Is(m)}
<1>4. 0 \in T
  BY <1>3
<1>5. ASSUME NEW m \in Nat, m \in T
      PROVE  m + 1 \in T
  <2> SUFFICES ASSUME m + 1 <= n
               PROVE  Is(m + 1)
    <3> HIDE DEF Is
    <3> QED  OBVIOUS
  <2>1. Is(m)
    <3> HIDE DEF Is
    <3> QED  BY <1>1, <1>5
  <2>2. /\ flat[m] \in Seq(S) /\ seqs[m + 1] \in Seq(S) /\ Len(seqs[m + 1]) = 4
        /\ flat[m + 1] = flat[m] \o seqs[m + 1]
    <3>1. m \in 0..n /\ m + 1 \in 1..n /\ (m + 1) - 1 = m
      BY <1>1
    <3> QED  BY <3>1, <1>1, <1>3
  <2> DEFINE before == flat[m]
             next == seqs[m + 1]
             all == before \o next
  <2>3. /\ Len(all) = 4 * m + 4
        /\ \A i \in 1..(4 * m + 4) : all[i] = IF i <= 4 * m THEN before[i] ELSE next[i - 4 * m]
    <3>1. /\ before \in Seq(S) /\ next \in Seq(S) /\ Len(before) = 4 * m /\ Len(next) = 4
          /\ 4 * m \in Nat
      BY <2>1, <2>2
    <3> HIDE DEF before, next
    <3>2. /\ Len(all) = Len(before) + Len(next)
          /\ \A i \in 1..(Len(before) + Len(next)) :
               all[i] = IF i <= Len(before) THEN before[i] ELSE next[i - Len(before)]
      BY <3>1, ConcatProperties
    <3> HIDE DEF all
    <3> QED  BY <3>1, <3>2
  <2> HIDE DEF all
  <2>4. flat[m + 1] = all
    BY <2>2 DEF all
  <2>5. ASSUME NEW g \in 1..(m + 1), NEW i \in 1..4
        PROVE  all[4 * (g - 1) + i] = seqs[g][i]
    <3>1. CASE g = m + 1
      <4>1. /\ 4 * (g - 1) + i \in 1..(4 * m + 4) /\ ~(4 * (g - 1) + i <= 4 * m)
            /\ (4 * (g - 1) + i) - 4 * m = i
        BY <3>1
      <4> QED  BY <4>1, <3>1, <2>3
    <3>2. CASE g # m + 1
      <4>1. 4 * (g - 1) + i \in 1..(4 * m + 4) /\ 4 * (g - 1) + i <= 4 * m /\ g \in 1..m
        BY <3>2
      <4>2. before[4 * (g - 1) + i] = seqs[g][i]
        BY <4>1, <2>1
      <4> HIDE DEF before, next
      <4> QED  BY <4>1, <4>2, <2>3
    <3> QED  BY <3>1, <3>2
  <2>6. 4 * (m + 1) = 4 * m + 4
    OBVIOUS
  <2> QED  BY <2>3, <2>4, <2>5, <2>6
<1> HIDE DEF Is
<1>6. Is(n)
  <2>1. Nat \subseteq T
    <3> HIDE DEF T
    <3> QED  BY <1>4, <1>5, Induct
  <2> QED  BY <1>1, <2>1
<1>7. flat[n] \in Seq(S)
  BY <1>1, <1>3
<1> QED  BY <1>3, <1>6, <1>7 DEF Is, n

\* The first elements of a sequence, and one more.
LEMMA OneMore ==
  ASSUME NEW S, NEW s \in Seq(S), NEW k \in Nat, k < Len(s)
  PROVE  SubSeq(s, 1, k) \in Seq(S) /\ SubSeq(s, 1, k + 1) = Append(SubSeq(s, 1, k), s[k + 1])
<1> DEFINE a == SubSeq(s, 1, k)
           b == SubSeq(s, 1, k + 1)
<1>1. Len(s) \in Nat /\ \A i \in 1..Len(s) : s[i] \in S
  BY LenProperties, ElementOfSeq
<1>2. a \in Seq(S) /\ Len(a) = k /\ \A i \in 1..k : a[i] = s[i]
  <2> HIDE DEF a
  <2>1. k \in Int /\ 1 \in Int /\ \A i \in 1..k : s[i] \in S
    BY <1>1
  <2>2. /\ a \in Seq(S) /\ Len(a) = IF 1 <= k THEN k - 1 + 1 ELSE 0
        /\ \A i \in 1..(k - 1 + 1) : a[i] = s[1 + i - 1]
    BY <2>1, SubSeqProperties DEF a
  <2> QED  BY <2>2
<1>3. b \in Seq(S) /\ Len(b) = k + 1 /\ \A i \in 1..(k + 1) : b[i] = s[i]
  <2> HIDE DEF b
  <2>1. k + 1 \in Int /\ 1 \in Int /\ \A i \in 1..(k + 1) : s[i] \in S
    BY <1>1
  <2>2. /\ b \in Seq(S) /\ Len(b) = IF 1 <= k + 1 THEN (k + 1) - 1 + 1 ELSE 0
        /\ \A i \in 1..((k + 1) - 1 + 1) : b[i] = s[1 + i - 1]
    BY <2>1, SubSeqProperties DEF b
  <2> QED  BY <2>2
<1> HIDE DEF a, b
<1>4. k + 1 \in 1..Len(s) /\ k + 1 \in 1..(k + 1) /\ \A i \in 1..k : i \in 1..(k + 1)
  BY <1>1
<1>5. Append(a, s[k + 1]) = b
  <2>1. Len(b) = Len(a) + 1 /\ \A i \in 1..Len(a) : b[i] = a[i]
    BY <1>2, <1>3, <1>4
  <2>2. s[k + 1] \in S /\ b[Len(a) + 1] = s[k + 1]
    BY <1>1, <1>2, <1>3, <1>4
  <2> QED  BY <1>2, <1>3, <2>1, <2>2, AppendIs
<1> QED  BY <1>2, <1>5 DEF a, b

LEMMA AllOfThem ==
  ASSUME NEW S, NEW s \in Seq(S)
  PROVE  SubSeq(s, 1, 0) = <<>> /\ SubSeq(s, 1, Len(s)) = s
<1>1. Len(s) \in Nat /\ \A i \in 1..Len(s) : s[i] \in S
  BY LenProperties, ElementOfSeq
<1> DEFINE k == Len(s)
           b == SubSeq(s, 1, k)
<1>2. b \in Seq(S) /\ Len(b) = k /\ \A i \in 1..k : b[i] = s[i]
  <2> HIDE DEF b, k
  <2>1. k \in Int /\ 1 \in Int /\ \A i \in 1..k : s[i] \in S /\ k \in Nat
    BY <1>1 DEF k
  <2>2. /\ b \in Seq(S) /\ Len(b) = IF 1 <= k THEN k - 1 + 1 ELSE 0
        /\ \A i \in 1..(k - 1 + 1) : b[i] = s[1 + i - 1]
    BY <2>1, SubSeqProperties DEF b
  <2>3. k \in Nat
    BY <1>1 DEF k
  <2> QED  BY <2>2, <2>3
<1>3. b = s
  <2> HIDE DEF b
  <2> QED  BY <1>2, SeqEqual
<1>4. SubSeq(s, 1, 0) \in Seq(S) /\ Len(SubSeq(s, 1, 0)) = 0
  BY SubSeqProperties
<1> QED  BY <1>3, <1>4, EmptySeq

\* The text that base64_encode() writes: four characters for each three bytes,
\* and the padded ones for what is left.
LEMMA OutputIsSeq ==
  ASSUME NEW i0 \in Byte, NEW i1 \in Byte, NEW i2 \in Byte,
         NEW o, o = Output(i0, i1, i2)
  PROVE  /\ o \in Seq(B64Values) /\ Len(o) = 4 /\ o = <<o[1], o[2], o[3], o[4]>>
         /\ \A i \in 1..4 : o[i] \in 0..63
<1> DEFINE v1 == o[1]
           v2 == o[2]
           v3 == o[3]
           v4 == o[4]
<1>1. o = <<v1, v2, v3, v4>>
  BY DEF Output
<1> HIDE DEF v1, v2, v3, v4
<1>2. v1 \in 0..63 /\ v2 \in 0..63 /\ v3 \in 0..63 /\ v4 \in 0..63
  <2>1. <<v1, v2, v3, v4>> = Output(i0, i1, i2)
    BY <1>1
  <2> HIDE DEF v1, v2, v3, v4
  <2> QED  BY <2>1, OutputIs
<1>3. v1 \in B64Values /\ v2 \in B64Values /\ v3 \in B64Values /\ v4 \in B64Values
  BY <1>2 DEF B64Values
<1>4. o \in Seq(B64Values) /\ Len(o) = 4
  BY <1>1, <1>3
<1>5. \A i \in 1..4 : o[i] \in 0..63
  BY <1>2 DEF v1, v2, v3, v4
<1> QED  BY <1>1, <1>4, <1>5 DEF v1, v2, v3, v4

IsEncoded(text, in, n) ==
  /\ n \in Nat /\ text \in Seq(B64Values)
  /\ \A g \in 1..n :
       /\ 3 * g <= Len(in) /\ 4 * g <= Len(text)
       /\ \A i \in 1..4 : text[4 * (g - 1) + i] = Output(in[3 * g - 2], in[3 * g - 1], in[3 * g])[i]
  /\ \/ Len(in) = 3 * n /\ Len(text) = 4 * n
     \/ /\ Len(in) = 3 * n + 1 /\ Len(text) = 4 * n + 4
        /\ \A i \in 1..2 : text[4 * n + i] = Output(in[3 * n + 1], 0, 0)[i]
        /\ text[4 * n + 3] = Pad64 /\ text[4 * n + 4] = Pad64
     \/ /\ Len(in) = 3 * n + 2 /\ Len(text) = 4 * n + 4
        /\ \A i \in 1..3 : text[4 * n + i] = Output(in[3 * n + 1], in[3 * n + 2], 0)[i]
        /\ text[4 * n + 4] = Pad64
LEMMA EncodedIs ==
  ASSUME NEW in \in Seq(Byte)
  PROVE  IsEncoded(Base64Encode(in), in, Len(in) \div 3)
<1> DEFINE len == Len(in)
           n == len \div 3
           groups == [g \in 1..n |-> Output(in[3 * g - 2], in[3 * g - 1], in[3 * g])]
           left == SubSeq(in, 3 * n + 1, len)
           four == Output(left[1], IF Len(left) = 2 THEN left[2] ELSE 0, 0)
           pads == <<four[1], four[2], IF Len(left) = 1 THEN Pad64 ELSE four[3], Pad64>>
           tail == IF left = <<>> THEN <<>> ELSE pads
           text == FlattenSeq(groups) \o tail
<1>1. text = Base64Encode(in)
  BY DEF Base64Encode
<1>2. len \in Nat /\ \A i \in 1..len : in[i] \in Byte
  BY LenProperties, ElementOfSeq
<1> HIDE DEF len
<1>3. n \in Nat /\ len \in {3 * n, 3 * n + 1, 3 * n + 2}
  BY <1>2
<1> HIDE DEF n
<1>4. ASSUME NEW g \in 1..n
      PROVE  /\ 3 * g <= len /\ groups[g] = Output(in[3 * g - 2], in[3 * g - 1], in[3 * g])
             /\ groups[g] \in Seq(B64Values) /\ Len(groups[g]) = 4
  <2>1. 3 * g <= len /\ 3 * g - 2 \in 1..len /\ 3 * g - 1 \in 1..len /\ 3 * g \in 1..len
    BY <1>2, <1>3
  <2>2. groups[g] = Output(in[3 * g - 2], in[3 * g - 1], in[3 * g])
    OBVIOUS
  <2>3. in[3 * g - 2] \in Byte /\ in[3 * g - 1] \in Byte /\ in[3 * g] \in Byte
    BY <1>2, <2>1
  <2> DEFINE a == in[3 * g - 2]
             b == in[3 * g - 1]
             c == in[3 * g]
             o == groups[g]
  <2>4. a \in Byte /\ b \in Byte /\ c \in Byte /\ o = Output(a, b, c)
    BY <2>2, <2>3
  <2> HIDE DEF groups, a, b, c, o
  <2>5. o \in Seq(B64Values) /\ Len(o) = 4
    BY <2>4, OutputIsSeq
  <2> QED  BY <2>1, <2>2, <2>5 DEF o
<1>5. groups \in Seq(Seq(B64Values)) /\ Len(groups) = n
  <2>1. groups \in [1..n -> Seq(B64Values)]
    <3>1. groups = [g \in 1..n |-> groups[g]]
      OBVIOUS
    <3> HIDE DEF groups
    <3> QED  BY <1>4, <3>1
  <2> HIDE DEF groups
  <2> QED  BY <1>3, <2>1, IsASeq
<1> HIDE DEF groups
<1> DEFINE flat == FlattenSeq(groups)
<1>6. /\ flat \in Seq(B64Values) /\ Len(flat) = 4 * n
      /\ \A g \in 1..n, i \in 1..4 : flat[4 * (g - 1) + i] = groups[g][i]
  <2>1. \A g \in 1..Len(groups) : Len(groups[g]) = 4
    BY <1>4, <1>5
  <2>2. /\ flat \in Seq(B64Values) /\ Len(flat) = 4 * Len(groups)
        /\ \A g \in 1..Len(groups), i \in 1..4 : flat[4 * (g - 1) + i] = groups[g][i]
    BY <1>5, <2>1, FlatOfFours
  <2> HIDE DEF flat
  <2> QED  BY <1>5, <2>2
<1>7. /\ left \in Seq(Byte) /\ Len(left) = len - 3 * n
      /\ len > 3 * n => left[1] = in[3 * n + 1]
      /\ len = 3 * n + 2 => left[2] = in[3 * n + 2]
  <2> DEFINE m == 3 * n + 1
  <2>1. m \in Int /\ len \in Int /\ m >= 1 /\ 3 * n = m - 1 /\ len >= m - 1 /\ len <= m + 1
    BY <1>2, <1>3
  <2> HIDE DEF m
  <2>2. \A i \in m..len : in[i] \in Byte
    BY <1>2, <2>1
  <2>3. left = SubSeq(in, m, len)
    BY DEF m
  <2> HIDE DEF left
  <2>4. /\ left \in Seq(Byte) /\ Len(left) = IF m <= len THEN len - m + 1 ELSE 0
        /\ \A i \in 1..(len - m + 1) : left[i] = in[m + i - 1]
    BY <2>1, <2>2, <2>3, SubSeqProperties
  <2>5. Len(left) = len - (m - 1)
    BY <2>1, <2>4
  <2>6. len > m - 1 => left[1] = in[m]
    <3>1. len > m - 1 => 1 \in 1..(len - m + 1) /\ m + 1 - 1 = m
      BY <2>1
    <3> QED  BY <3>1, <2>4
  <2>7. len = m + 1 => left[2] = in[m + 1]
    <3>1. len = m + 1 => 2 \in 1..(len - m + 1) /\ m + 2 - 1 = m + 1
      BY <2>1
    <3> QED  BY <3>1, <2>4
  <2>8. m = 3 * n + 1 /\ m + 1 = 3 * n + 2
    BY <1>3 DEF m
  <2> QED  BY <2>1, <2>4, <2>5, <2>6, <2>7, <2>8
<1> HIDE DEF left, flat
<1> DEFINE size == 4 * n
<1>8. size \in Nat
  BY <1>3
<1>9. ASSUME tail \in Seq(B64Values)
      PROVE  /\ text \in Seq(B64Values) /\ Len(text) = size + Len(tail)
             /\ \A i \in 1..size : text[i] = flat[i]
             /\ \A i \in 1..Len(tail) : text[size + i] = tail[i]
  <2>1. text = flat \o tail
    BY DEF flat
  <2>2. Len(tail) \in Nat
    BY <1>9, LenProperties
  <2>3. flat \in Seq(B64Values) /\ Len(flat) = size
    BY <1>6
  <2> HIDE DEF tail, text, size
  <2>4. /\ text \in Seq(B64Values) /\ Len(text) = size + Len(tail)
        /\ \A i \in 1..(size + Len(tail)) : text[i] = IF i <= size THEN flat[i] ELSE tail[i - size]
    BY <1>9, <2>1, <2>3, ConcatProperties
  <2>5. ASSUME NEW i \in 1..size
        PROVE  text[i] = flat[i]
    <3>1. i \in 1..(size + Len(tail)) /\ i <= size
      BY <1>8, <2>2
    <3> QED  BY <2>4, <3>1
  <2>6. ASSUME NEW i \in 1..Len(tail)
        PROVE  text[size + i] = tail[i]
    <3>1. size + i \in 1..(size + Len(tail)) /\ ~(size + i <= size) /\ (size + i) - size = i
      BY <1>8, <2>2
    <3> QED  BY <2>4, <3>1
  <2> QED  BY <2>4, <2>5, <2>6
<1>10. ASSUME Len(text) \in Nat, Len(text) >= size, \A i \in 1..size : text[i] = flat[i], NEW g \in 1..n
       PROVE  /\ 3 * g <= len /\ 4 * g <= Len(text)
              /\ \A i \in 1..4 :
                   text[4 * (g - 1) + i] = Output(in[3 * g - 2], in[3 * g - 1], in[3 * g])[i]
  <2>1. 4 * g <= size
    BY <1>3
  <2>2. \A i \in 1..4 : 4 * (g - 1) + i \in 1..size
    BY <1>3
  <2>3. ASSUME NEW i \in 1..4
        PROVE  text[4 * (g - 1) + i] = Output(in[3 * g - 2], in[3 * g - 1], in[3 * g])[i]
    <3> HIDE DEF text, size
    <3>1. text[4 * (g - 1) + i] = flat[4 * (g - 1) + i]
      BY <2>2, <1>10
    <3>2. flat[4 * (g - 1) + i] = groups[g][i]
      BY <1>6
    <3>3. groups[g] = Output(in[3 * g - 2], in[3 * g - 1], in[3 * g])
      BY <1>4
    <3> QED  BY <3>1, <3>2, <3>3
  <2>4. 3 * g <= len
    BY <1>4
  <2>5. 4 * g <= Len(text)
    <3> DEFINE all == Len(text)
    <3>1. all \in Nat /\ all >= size /\ size \in Nat /\ 4 * g \in Nat
      BY <1>8, <1>10
    <3> HIDE DEF all, size
    <3>2. 4 * g <= all
      BY <2>1, <3>1
    <3> QED  BY <3>2 DEF all
  <2> QED  BY <2>3, <2>4, <2>5
<1>11. ASSUME tail \in Seq(B64Values)
       PROVE  /\ Len(text) = size + Len(tail)
              /\ \A i \in 1..Len(tail) : text[size + i] = tail[i]
              /\ text \in Seq(B64Values)
              /\ \A g \in 1..n :
                   /\ 3 * g <= len /\ 4 * g <= Len(text)
                   /\ \A i \in 1..4 :
                        text[4 * (g - 1) + i] = Output(in[3 * g - 2], in[3 * g - 1], in[3 * g])[i]
  <2>1. /\ text \in Seq(B64Values) /\ Len(text) = size + Len(tail)
        /\ \A i \in 1..size : text[i] = flat[i]
        /\ \A i \in 1..Len(tail) : text[size + i] = tail[i]
    BY <1>9, <1>11
  <2>2. Len(tail) \in Nat /\ Len(text) \in Nat
    BY <1>11, <2>1, LenProperties
  <2> HIDE DEF tail, text, size
  <2>3. Len(text) >= size
    BY <1>8, <2>1, <2>2
  <2> QED  BY <2>1, <2>2, <2>3, <1>10
<1>12. CASE len = 3 * n
  <2>1. Len(left) = 0
    BY <1>3, <1>7, <1>12
  <2>2. tail = <<>>
    BY <2>1, <1>7, EmptySeq
  <2>3. tail \in Seq(B64Values) /\ Len(tail) = 0
    BY <2>2
  <2> HIDE DEF tail
  <2>4. Len(text) = size
    BY <1>8, <1>11, <2>3
  <2> HIDE DEF text
  <2>5. IsEncoded(text, in, n)
    BY <1>3, <1>11, <1>12, <2>3, <2>4 DEF IsEncoded, len
  <2> QED  BY <1>1, <2>5 DEF n, len
<1>13. CASE len = 3 * n + 1
  <2>1. Len(left) = 1 /\ left[1] = in[3 * n + 1]
    <3>1. len > 3 * n /\ len - 3 * n = 1
      BY <1>3, <1>13
    <3> QED  BY <1>7, <3>1
  <2> DEFINE o == Output(in[3 * n + 1], 0, 0)
  <2>2. four = o
    <3> DEFINE first == in[3 * n + 1]
               second == IF Len(left) = 2 THEN left[2] ELSE 0
    <3>1. left[1] = first /\ second = 0
      BY <2>1
    <3> HIDE DEF first, second
    <3>2. Output(left[1], second, 0) = Output(first, 0, 0)
      BY <3>1
    <3> QED  BY <3>2 DEF first, second
  <2>3. left # <<>>
    <3>1. Len(<<>>) # Len(left)
      BY <2>1, EmptySeq
    <3> QED  BY <3>1, Zenon
  <2>4. tail = <<four[1], four[2], Pad64, Pad64>>
    <3> HIDE DEF four
    <3> QED  BY <2>1, <2>3
  <2>5. in[3 * n + 1] \in Byte /\ 0 \in Byte
    <3>1. 3 * n + 1 \in 1..len
      BY <1>3, <1>13
    <3>2. in[3 * n + 1] \in Byte
      BY <1>2, <3>1
    <3>3. 0 \in Byte
      BY DEF Byte
    <3> QED  BY <3>2, <3>3
  <2>6. \A i \in 1..4 : o[i] \in 0..63
    <3> HIDE DEF o
    <3> QED  BY <2>5, OutputIsSeq DEF o
  <2>7. o[1] \in B64Values /\ o[2] \in B64Values /\ Pad64 \in B64Values
    <3> HIDE DEF o
    <3> QED  BY <2>6 DEF B64Values
  <2> HIDE DEF o, four
  <2>8. tail = <<o[1], o[2], Pad64, Pad64>>
    BY <2>2, <2>4
  <2> HIDE DEF tail
  <2>9. /\ tail \in Seq(B64Values) /\ Len(tail) = 4 /\ tail[1] = o[1] /\ tail[2] = o[2]
        /\ tail[3] = Pad64 /\ tail[4] = Pad64
    BY <2>7, <2>8
  <2>10. /\ Len(text) = size + 4 /\ text[size + 1] = o[1] /\ text[size + 2] = o[2]
         /\ text[size + 3] = Pad64 /\ text[size + 4] = Pad64
    <3> HIDE DEF text, size
    <3> QED  BY <1>11, <2>9
  <2>11. \A i \in 1..2 : text[size + i] = o[i]
    <3> HIDE DEF text, size
    <3> QED  BY <2>10
  <2> HIDE DEF text
  <2>12. IsEncoded(text, in, n)
    BY <1>3, <1>11, <1>13, <2>9, <2>10, <2>11 DEF IsEncoded, len, o
  <2> QED  BY <1>1, <2>12 DEF n, len
<1>14. CASE len = 3 * n + 2
  <2>1. Len(left) = 2 /\ left[1] = in[3 * n + 1] /\ left[2] = in[3 * n + 2]
    <3>1. len > 3 * n /\ len - 3 * n = 2
      BY <1>3, <1>14
    <3> QED  BY <1>7, <1>14, <3>1
  <2> DEFINE o == Output(in[3 * n + 1], in[3 * n + 2], 0)
  <2>2. four = o
    <3> DEFINE first == in[3 * n + 1]
               second == IF Len(left) = 2 THEN left[2] ELSE 0
               third == in[3 * n + 2]
    <3>1. left[1] = first /\ second = third
      BY <2>1
    <3> HIDE DEF first, second, third
    <3>2. Output(left[1], second, 0) = Output(first, third, 0)
      BY <3>1
    <3> QED  BY <3>2 DEF first, second, third
  <2>3. left # <<>>
    <3>1. Len(<<>>) # Len(left)
      BY <2>1, EmptySeq
    <3> QED  BY <3>1, Zenon
  <2>4. tail = <<four[1], four[2], four[3], Pad64>>
    <3> HIDE DEF four
    <3> QED  BY <2>1, <2>3
  <2>5. in[3 * n + 1] \in Byte /\ in[3 * n + 2] \in Byte /\ 0 \in Byte
    <3>1. 3 * n + 1 \in 1..len /\ 3 * n + 2 \in 1..len
      BY <1>3, <1>14
    <3>2. in[3 * n + 1] \in Byte /\ in[3 * n + 2] \in Byte
      BY <1>2, <3>1
    <3>3. 0 \in Byte
      BY DEF Byte
    <3> QED  BY <3>2, <3>3
  <2>6. \A i \in 1..4 : o[i] \in 0..63
    <3> HIDE DEF o
    <3> QED  BY <2>5, OutputIsSeq DEF o
  <2>7. o[1] \in B64Values /\ o[2] \in B64Values /\ o[3] \in B64Values /\ Pad64 \in B64Values
    <3> HIDE DEF o
    <3> QED  BY <2>6 DEF B64Values
  <2> HIDE DEF o, four
  <2>8. tail = <<o[1], o[2], o[3], Pad64>>
    BY <2>2, <2>4
  <2> HIDE DEF tail
  <2>9. /\ tail \in Seq(B64Values) /\ Len(tail) = 4 /\ tail[1] = o[1] /\ tail[2] = o[2]
        /\ tail[3] = o[3] /\ tail[4] = Pad64
    BY <2>7, <2>8
  <2>10. /\ Len(text) = size + 4 /\ text[size + 1] = o[1] /\ text[size + 2] = o[2]
         /\ text[size + 3] = o[3] /\ text[size + 4] = Pad64
    <3> HIDE DEF text, size
    <3> QED  BY <1>11, <2>9
  <2>11. \A i \in 1..3 : text[size + i] = o[i]
    <3> HIDE DEF text, size
    <3> QED  BY <2>10
  <2> HIDE DEF text
  <2>12. IsEncoded(text, in, n)
    BY <1>3, <1>11, <1>14, <2>9, <2>10, <2>11 DEF IsEncoded, len, o
  <2> QED  BY <1>1, <2>12 DEF n, len
<1> QED  BY <1>3, <1>12, <1>13, <1>14

\* After n groups of characters the bytes are the first 3 * n.
LEMMA GroupsAreDecoded ==
  ASSUME NEW in \in Seq(Byte), NEW n, NEW text, IsEncoded(text, in, n),
         NEW run, DecodeRun(run, text)
  PROVE  /\ run[4 * n] \in DecodeState /\ run[4 * n].ended = "no" /\ run[4 * n].state = 0
         /\ run[4 * n].out = SubSeq(in, 1, 3 * n)
<1> DEFINE Is(m) == /\ run[4 * m] \in DecodeState /\ run[4 * m].ended = "no" /\ run[4 * m].state = 0
                    /\ run[4 * m].out = SubSeq(in, 1, 3 * m)
           T == {m \in Nat : m <= n => Is(m)}
<1>1. /\ n \in Nat /\ text \in Seq(B64Values)
      /\ \A g \in 1..n :
           /\ 3 * g <= Len(in) /\ 4 * g <= Len(text)
           /\ \A i \in 1..4 : text[4 * (g - 1) + i] = Output(in[3 * g - 2], in[3 * g - 1], in[3 * g])[i]
  BY DEF IsEncoded
<1>2. /\ Len(text) \in Nat /\ Len(in) \in Nat /\ \A i \in 1..Len(in) : in[i] \in Byte
  BY <1>1, LenProperties, ElementOfSeq
<1>3. /\ run \in [0..Len(text) -> DecodeState] /\ run[0] = DecodeStart
      /\ \A i \in 1..Len(text) : run[i] = DecodeStep(run[i - 1], text[i])
  BY DEF DecodeRun
<1>4. in \in Seq(Nat)
  <2>1. Byte \subseteq Nat
    BY DEF Byte
  <2> QED  BY <2>1, SeqMonotonic
<1>5. 0 \in T
  <2>1. run[4 * 0] = DecodeStart /\ 3 * 0 = 0
    BY <1>3
  <2>2. SubSeq(in, 1, 0) = <<>>
    BY AllOfThem
  <2>3. DecodeStart \in DecodeState
    BY DEF DecodeStart, DecodeState
  <2>4. Is(0)
    BY <2>1, <2>2, <2>3 DEF DecodeStart
  <2> HIDE DEF Is
  <2> QED  BY <2>4
<1>6. ASSUME NEW m \in Nat, m \in T
      PROVE  m + 1 \in T
  <2> SUFFICES ASSUME m + 1 <= n
               PROVE  Is(m + 1)
    <3> HIDE DEF Is
    <3> QED  OBVIOUS
  <2>1. Is(m)
    <3> HIDE DEF Is
    <3> QED  BY <1>1, <1>6
  <2> DEFINE at == 4 * m
             k == 3 * m
             i0 == in[k + 1]
             i1 == in[k + 2]
             i2 == in[k + 3]
             o == Output(i0, i1, i2)
  <2>2. /\ at \in Nat /\ k \in Nat /\ m + 1 \in 1..n /\ 4 * (m + 1) = at + 4 /\ 3 * (m + 1) = k + 3
        /\ 4 * ((m + 1) - 1) = at
        /\ 3 * (m + 1) - 2 = k + 1 /\ 3 * (m + 1) - 1 = k + 2
    BY <1>1
  <2>17. at \in Nat /\ k \in Nat
    BY <2>2
  <2>3. /\ k + 3 <= Len(in) /\ at + 4 <= Len(text)
        /\ \A i \in 1..4 : text[at + i] = o[i]
    <3>1. /\ 3 * (m + 1) <= Len(in) /\ 4 * (m + 1) <= Len(text)
          /\ \A i \in 1..4 : text[4 * ((m + 1) - 1) + i]
                = Output(in[3 * (m + 1) - 2], in[3 * (m + 1) - 1], in[3 * (m + 1)])[i]
      BY <1>1, <2>2
    <3> HIDE DEF at, k
    <3> QED  BY <2>2, <3>1
  <2>4. /\ run[at] \in DecodeState /\ run[at].ended = "no" /\ run[at].state = 0
        /\ run[at].out = SubSeq(in, 1, k)
    BY <2>1
  <2>18. k + 3 <= Len(in) /\ at + 4 <= Len(text)
    BY <2>3
  <2> HIDE DEF at, k, o, i0, i1, i2
  <2>5. i0 \in Byte /\ i1 \in Byte /\ i2 \in Byte
    <3>1. k + 1 \in 1..Len(in) /\ k + 2 \in 1..Len(in) /\ k + 3 \in 1..Len(in)
      BY <1>2, <2>17, <2>18
    <3> QED  BY <1>2, <3>1 DEF i0, i1, i2
  <2>6. /\ run[at + 1] = DecodeStep(run[at], o[1]) /\ run[at + 2] = DecodeStep(run[at + 1], o[2])
        /\ run[at + 3] = DecodeStep(run[at + 2], o[3]) /\ run[at + 4] = DecodeStep(run[at + 3], o[4])
    <3>1. ASSUME NEW i \in 1..4
          PROVE  run[at + i] = DecodeStep(run[at + (i - 1)], o[i])
      <4>1. at + i \in 1..Len(text) /\ (at + i) - 1 = at + (i - 1)
        BY <1>2, <2>17, <2>18
      <4> QED  BY <4>1, <1>3, <2>3
    <3>2. /\ run[at + 1] = DecodeStep(run[at + (1 - 1)], o[1])
          /\ run[at + 2] = DecodeStep(run[at + (2 - 1)], o[2])
          /\ run[at + 3] = DecodeStep(run[at + (3 - 1)], o[3])
          /\ run[at + 4] = DecodeStep(run[at + (4 - 1)], o[4])
      BY <3>1
    <3>3. at + (1 - 1) = at /\ 2 - 1 = 1 /\ 3 - 1 = 2 /\ 4 - 1 = 3
      BY <2>2
    <3> QED  BY <3>2, <3>3
  <2> DEFINE v1 == o[1]
             v2 == o[2]
             v3 == o[3]
             v4 == o[4]
  <2>7. /\ v1 \in 0..63 /\ v2 \in 0..63 /\ v3 \in 0..63 /\ v4 \in 0..63
        /\ v1 * 4 + v2 \div 16 = i0 /\ (v2 % 16) * 16 + v3 \div 4 = i1 /\ (v3 % 4) * 64 + v4 = i2
    <3>1. <<v1, v2, v3, v4>> = Output(i0, i1, i2)
      BY DEF Output, o
    <3> HIDE DEF v1, v2, v3, v4
    <3> QED  BY <2>5, <3>1, OutputIs
  <2>8. k < Len(in) /\ k + 1 < Len(in) /\ k + 2 < Len(in) /\ k + 1 \in Nat /\ k + 2 \in Nat
        /\ (k + 1) + 1 = k + 2 /\ (k + 2) + 1 = k + 3
    BY <1>2, <2>17, <2>18
  <2> DEFINE s0 == SubSeq(in, 1, k)
             s1 == Append(s0, i0)
             s2 == Append(s1, i1)
             s3 == Append(s2, i2)
  <2>9. s0 \in Seq(Nat) /\ s1 \in Seq(Nat) /\ s2 \in Seq(Nat) /\ s3 = SubSeq(in, 1, k + 3)
    <3>1. s0 \in Seq(Nat) /\ s1 = SubSeq(in, 1, k + 1)
      BY <1>4, <2>17, <2>8, OneMore DEF i0
    <3> HIDE DEF s0, s1
    <3>2. s1 \in Seq(Nat) /\ s2 = SubSeq(in, 1, k + 2)
      <4>1. SubSeq(in, 1, k + 1) \in Seq(Nat)
             /\ SubSeq(in, 1, (k + 1) + 1) = Append(SubSeq(in, 1, k + 1), in[(k + 1) + 1])
        BY <1>4, <2>8, OneMore
      <4> QED  BY <2>8, <3>1, <4>1 DEF i1
    <3> HIDE DEF s2
    <3>3. s2 \in Seq(Nat) /\ s3 = SubSeq(in, 1, k + 3)
      <4>1. SubSeq(in, 1, k + 2) \in Seq(Nat)
             /\ SubSeq(in, 1, (k + 2) + 1) = Append(SubSeq(in, 1, k + 2), in[(k + 2) + 1])
        BY <1>4, <2>8, OneMore
      <4> QED  BY <2>8, <3>2, <4>1 DEF i2
    <3> QED  BY <3>1, <3>2, <3>3
  <2> HIDE DEF s0, s1, s2, s3, v1, v2, v3, v4
  <2> DEFINE d1 == run[at + 1]
             d2 == run[at + 2]
             d3 == run[at + 3]
             d4 == run[at + 4]
  <2>10. /\ d1 = DecodeStep(run[at], v1) /\ d2 = DecodeStep(d1, v2)
         /\ d3 = DecodeStep(d2, v3) /\ d4 = DecodeStep(d3, v4)
    BY <2>6 DEF v1, v2, v3, v4
  <2> HIDE DEF d1, d2, d3, d4
  <2>11. Decoded(run[at], 0, s0) /\ s1 = Append(s0, i0) /\ s2 = Append(s1, i1) /\ s3 = Append(s2, i2)
    BY <2>4 DEF Decoded, s0, s1, s2, s3
  <2> DEFINE a == v1 * 4
             b == (v2 % 16) * 16
             c == (v3 % 4) * 64
  <2>12. a \in Nat /\ b \in Nat /\ c \in Nat
    <3>1. 0 \in 0..3
      OBVIOUS
    <3> QED  BY <3>1, <2>7, BitsOf
  <2>13. Decoded(d1, 1, Append(s0, a))
    BY <2>7, <2>10, <2>11, FirstIsDecoded
  <2>14. a + v2 \div 16 = i0 /\ b + v3 \div 4 = i1 /\ c + v4 = i2
    BY <2>7
  <2>15. Decoded(d2, 2, Append(s1, b))
    <3> DEFINE bits == a
    <3> HIDE DEF bits
    <3>1. Decoded(DecodeStep(d1, v2), 2, Append(Append(s0, bits + v2 \div 16), (v2 % 16) * 16))
      BY <2>7, <2>9, <2>12, <2>13, SecondIsDecoded DEF bits
    <3> QED  BY <3>1, <2>10, <2>11, <2>14 DEF bits
  <2>19. Decoded(d3, 3, Append(s2, c))
    <3> DEFINE bits == b
    <3> HIDE DEF bits
    <3>1. Decoded(DecodeStep(d2, v3), 3, Append(Append(s1, bits + v3 \div 4), (v3 % 4) * 64))
      BY <2>7, <2>9, <2>12, <2>15, ThirdIsDecoded DEF bits
    <3> QED  BY <3>1, <2>10, <2>11, <2>14 DEF bits
  <2>20. Decoded(d4, 0, s3)
    <3> DEFINE bits == c
    <3> HIDE DEF bits
    <3>1. Decoded(DecodeStep(d3, v4), 0, Append(s2, bits + v4))
      BY <2>7, <2>9, <2>12, <2>19, FourthIsDecoded DEF bits
    <3> QED  BY <3>1, <2>10, <2>11, <2>14 DEF bits
  <2>16. run[4 * (m + 1)] = d4 /\ 3 * (m + 1) = k + 3
    BY <2>2 DEF d4
  <2> QED  BY <2>9, <2>16, <2>20 DEF Decoded
<1> HIDE DEF Is
<1>7. Is(n)
  <2>1. Nat \subseteq T
    <3> HIDE DEF T
    <3> QED  BY <1>5, <1>6, Induct
  <2> QED  BY <1>1, <2>1
<1> QED  BY <1>7 DEF Is

LEMMA FrontOfAppend ==
  ASSUME NEW s \in Seq(Nat), NEW e \in Nat
  PROVE  Front(Append(s, e)) = s
<1> DEFINE t == Append(s, e)
           f == Front(t)
<1>1. Len(s) \in Nat
  BY LenProperties
<1>2. /\ t \in Seq(Nat) /\ Len(t) = Len(s) + 1 /\ \A i \in 1..Len(s) : t[i] = s[i]
  BY AppendProperties
<1> HIDE DEF t
<1>3. Len(t) > 0 /\ Len(t) - 1 = Len(s)
  BY <1>1, <1>2
<1>4. f \in Seq(Nat) /\ Len(f) = Len(s) /\ \A i \in 1..Len(s) : f[i] = t[i]
  BY <1>2, <1>3, FrontIs
<1> HIDE DEF f
<1>5. f = s
  <2>1. \A i \in 1..Len(f) : f[i] = s[i]
    BY <1>2, <1>4
  <2> QED  BY <1>4, <2>1, SeqEqual
<1> QED  BY <1>5 DEF f, t

\* Once a pad is met, nothing more is read.
Padded(d, state, out) ==
  d \in DecodeState /\ d.ended = "pad" /\ d.state = state /\ d.out = out

LEMMA PadIsDecoded ==
  ASSUME NEW d, NEW state, NEW out
  PROVE  /\ Decoded(d, state, out) => Padded(DecodeStep(d, Pad64), state, out)
         /\ Padded(d, state, out) => Padded(DecodeStep(d, Pad64), state, out)
<1>1. Pad64 \in B64Values
  BY DEF B64Values
<1>2. ASSUME Decoded(d, state, out)
      PROVE  Padded(DecodeStep(d, Pad64), state, out)
  <2> DEFINE e == DecodeStep(d, Pad64)
  <2>1. e \in DecodeState /\ e = [d EXCEPT !.ended = "pad"] /\ d \in DecodeState
    BY <1>1, <1>2, DecodeStepIs DEF Decoded
  <2>2. d.state = state /\ d.out = out
    BY <1>2 DEF Decoded
  <2> HIDE DEF e
  <2>3. e.ended = "pad" /\ e.state = state /\ e.out = out
    BY <2>1, <2>2 DEF DecodeState
  <2> QED  BY <2>1, <2>3 DEF Padded, e
<1>3. ASSUME Padded(d, state, out)
      PROVE  Padded(DecodeStep(d, Pad64), state, out)
  <2>1. d \in DecodeState /\ d.ended # "no"
    BY <1>3 DEF Padded
  <2>2. DecodeStep(d, Pad64) = d
    BY <1>1, <2>1, DecodeStepIs
  <2> QED  BY <1>3, <2>2
<1> QED  BY <1>2, <1>3

\* The state in which base64_decode() comes to the end of what base64_encode()
\* wrote: the bytes are whole, or the last one goes.
LEMMA EndOfEncoded ==
  ASSUME NEW in \in Seq(Byte), NEW n, NEW text, IsEncoded(text, in, n),
         NEW run, DecodeRun(run, text)
  PROVE  LET d == run[Len(text)] IN
         \/ d.ended = "no" /\ d.state = 0 /\ d.out = in
         \/ d.ended = "pad" /\ d.state \in {2, 3} /\ Front(d.out) = in
<1> DEFINE at == 4 * n
           k == 3 * n
           d0 == run[at]
           out == SubSeq(in, 1, k)
<1>1. n \in Nat /\ at \in Nat /\ k \in Nat /\ text \in Seq(B64Values)
  BY DEF IsEncoded
<1>2. /\ Len(text) \in Nat /\ Len(in) \in Nat /\ \A i \in 1..Len(in) : in[i] \in Byte
  BY <1>1, LenProperties, ElementOfSeq
<1>3. \A i \in 1..Len(text) : run[i] = DecodeStep(run[i - 1], text[i])
  BY DEF DecodeRun
<1>4. Decoded(d0, 0, out)
  BY GroupsAreDecoded DEF Decoded
<1>5. in \in Seq(Nat)
  <2>1. Byte \subseteq Nat
    BY DEF Byte
  <2> QED  BY <2>1, SeqMonotonic
<1>6. \/ Len(in) = k /\ Len(text) = at
      \/ /\ Len(in) = k + 1 /\ Len(text) = at + 4
         /\ \A i \in 1..2 : text[at + i] = Output(in[k + 1], 0, 0)[i]
         /\ text[at + 3] = Pad64 /\ text[at + 4] = Pad64
      \/ /\ Len(in) = k + 2 /\ Len(text) = at + 4
         /\ \A i \in 1..3 : text[at + i] = Output(in[k + 1], in[k + 2], 0)[i]
         /\ text[at + 4] = Pad64
  BY DEF IsEncoded
<1> HIDE DEF at, k
<1>7. CASE Len(in) = k /\ Len(text) = at
  <2>1. out = in
    BY <1>7, AllOfThem
  <2>2. run[Len(text)] = d0
    BY <1>7
  <2> HIDE DEF out, d0
  <2> QED  BY <1>4, <2>1, <2>2 DEF Decoded
<1> DEFINE d1 == run[at + 1]
           d2 == run[at + 2]
           d3 == run[at + 3]
           d4 == run[at + 4]
<1>8. ASSUME Len(text) = at + 4
      PROVE  /\ d1 = DecodeStep(d0, text[at + 1]) /\ d2 = DecodeStep(d1, text[at + 2])
             /\ d3 = DecodeStep(d2, text[at + 3]) /\ d4 = DecodeStep(d3, text[at + 4])
  <2>1. /\ at + 1 \in 1..Len(text) /\ (at + 1) - 1 = at
        /\ at + 2 \in 1..Len(text) /\ (at + 2) - 1 = at + 1
        /\ at + 3 \in 1..Len(text) /\ (at + 3) - 1 = at + 2
        /\ at + 4 \in 1..Len(text) /\ (at + 4) - 1 = at + 3
    BY <1>1, <1>8
  <2>2. /\ run[at + 1] = DecodeStep(run[(at + 1) - 1], text[at + 1])
        /\ run[at + 2] = DecodeStep(run[(at + 2) - 1], text[at + 2])
        /\ run[at + 3] = DecodeStep(run[(at + 3) - 1], text[at + 3])
        /\ run[at + 4] = DecodeStep(run[(at + 4) - 1], text[at + 4])
    BY <1>3, <2>1, Zenon
  <2> QED  BY <2>1, <2>2
\* The first byte that is left.
<1>9. ASSUME Len(in) > k, NEW i1 \in Byte, Len(text) = at + 4,
              text[at + 1] = Output(in[k + 1], i1, 0)[1], text[at + 2] = Output(in[k + 1], i1, 0)[2]
       PROVE  LET o == Output(in[k + 1], i1, 0)
                  more == SubSeq(in, 1, k + 1)
              IN  /\ Decoded(d2, 2, Append(more, (o[2] % 16) * 16)) /\ more \in Seq(Nat)
                  /\ o[2] \in 0..63 /\ o[3] \in 0..63 /\ (o[2] % 16) * 16 + o[3] \div 4 = i1
  <2> DEFINE i0 == in[k + 1]
             o == Output(i0, i1, 0)
             v1 == o[1]
             v2 == o[2]
             v3 == o[3]
             v4 == o[4]
             more == SubSeq(in, 1, k + 1)
  <2>1. more = Append(out, i0) /\ out \in Seq(Nat) /\ i0 \in Byte /\ 0 \in Byte
    <3>1. k < Len(in) /\ k + 1 \in 1..Len(in)
      BY <1>1, <1>2, <1>9
    <3>2. more = Append(out, i0) /\ out \in Seq(Nat)
      BY <3>1, <1>1, <1>5, OneMore
    <3>3. 0 \in Byte
      BY DEF Byte
    <3> QED  BY <1>2, <3>1, <3>2, <3>3
  <2> HIDE DEF i0, out
  <2>2. /\ v1 \in 0..63 /\ v2 \in 0..63 /\ v3 \in 0..63
        /\ v1 * 4 + v2 \div 16 = i0 /\ (v2 % 16) * 16 + v3 \div 4 = i1
    <3>1. <<v1, v2, v3, v4>> = Output(i0, i1, 0)
      BY DEF Output
    <3> HIDE DEF v1, v2, v3, v4, o
    <3>2. i0 \in Byte /\ i1 \in Byte /\ 0 \in Byte
      BY <2>1
    <3> QED  BY ONLY <3>1, <3>2, OutputIs
  <2>3. d1 = DecodeStep(d0, v1) /\ d2 = DecodeStep(d1, v2)
    BY <1>8, <1>9 DEF i0
  <2> HIDE DEF v1, v2, v3, v4, d0, d1, d2, more
  <2> DEFINE bits == v1 * 4
  <2>4. bits \in Nat /\ bits + v2 \div 16 = i0
    BY <2>2
  <2>5. Decoded(d1, 1, Append(out, bits))
    BY <1>4, <2>2, <2>3, FirstIsDecoded DEF d0
  <2> HIDE DEF bits
  <2>6. Decoded(d2, 2, Append(Append(out, bits + v2 \div 16), (v2 % 16) * 16))
    BY <2>1, <2>2, <2>3, <2>4, <2>5, SecondIsDecoded
  <2>7. Decoded(d2, 2, Append(more, (v2 % 16) * 16))
    BY <2>1, <2>4, <2>6
  <2>8. more \in Seq(Nat)
    <3>1. i0 \in Nat
      BY <2>1 DEF Byte
    <3> QED  BY <2>1, <3>1, AppendProperties
  <2> QED  BY <2>2, <2>7, <2>8 DEF v2, v3, d2, more, i0
<1>10. ASSUME Len(in) = k + 1, Len(text) = at + 4,
              \A i \in 1..2 : text[at + i] = Output(in[k + 1], 0, 0)[i],
              text[at + 3] = Pad64, text[at + 4] = Pad64
       PROVE  d4.ended = "pad" /\ d4.state = 2 /\ Front(d4.out) = in
  <2> DEFINE o == Output(in[k + 1], 0, 0)
             left == (o[2] % 16) * 16
  <2>1. 0 \in Byte /\ Len(in) > k /\ 1 \in 1..2 /\ 2 \in 1..2
    BY <1>1, <1>10 DEF Byte
  <2>2. text[at + 1] = o[1] /\ text[at + 2] = o[2]
    BY <1>10, <2>1
  <2> HIDE DEF d0, d1, d2, d3, d4
  <2>3. Decoded(d2, 2, Append(SubSeq(in, 1, k + 1), left)) /\ o[2] \in 0..63
    BY <1>9, <1>10, <2>1, <2>2
  <2>4. SubSeq(in, 1, k + 1) = in
    BY <1>10, AllOfThem
  <2>5. left \in Nat
    <3>1. 0 \in 0..3
      OBVIOUS
    <3> QED  BY <2>3, <3>1, BitsOf
  <2> HIDE DEF left
  <2>6. Decoded(d2, 2, Append(in, left)) /\ d3 = DecodeStep(d2, Pad64) /\ d4 = DecodeStep(d3, Pad64)
    BY <1>8, <1>10, <2>3, <2>4
  <2>7. Padded(d4, 2, Append(in, left))
    BY <2>6, PadIsDecoded
  <2> QED  BY <1>5, <2>5, <2>7, FrontOfAppend DEF Padded
<1>11. ASSUME Len(in) = k + 2, Len(text) = at + 4,
              \A i \in 1..3 : text[at + i] = Output(in[k + 1], in[k + 2], 0)[i],
              text[at + 4] = Pad64
       PROVE  d4.ended = "pad" /\ d4.state = 3 /\ Front(d4.out) = in
  <2> DEFINE i1 == in[k + 2]
             o == Output(in[k + 1], i1, 0)
             more == SubSeq(in, 1, k + 1)
             v2 == o[2]
             v3 == o[3]
             bits == (v2 % 16) * 16
             left == (v3 % 4) * 64
  <2>1. /\ i1 \in Byte /\ Len(in) > k /\ 1 \in 1..3 /\ 2 \in 1..3 /\ 3 \in 1..3
        /\ k + 1 \in Nat /\ k + 1 < Len(in) /\ (k + 1) + 1 = k + 2
    <3>1. k + 2 \in 1..Len(in)
      BY <1>1, <1>11
    <3>2. i1 \in Byte
      BY <1>2, <3>1
    <3> HIDE DEF i1
    <3> QED  BY <1>1, <1>11, <3>2
  <2>2. text[at + 1] = o[1] /\ text[at + 2] = o[2] /\ text[at + 3] = o[3]
    BY <1>11, <2>1
  <2> HIDE DEF d0, d1, d2, d3, d4
  <2>3. /\ Decoded(d2, 2, Append(more, bits)) /\ more \in Seq(Nat)
        /\ v2 \in 0..63 /\ v3 \in 0..63 /\ bits + v3 \div 4 = i1
    <3> HIDE DEF i1
    <3> QED  BY <1>9, <1>11, <2>1, <2>2
  <2>4. Append(more, i1) = in
    <3>1. SubSeq(in, 1, k + 2) = in
      BY <1>11, AllOfThem
    <3>2. SubSeq(in, 1, (k + 1) + 1) = Append(SubSeq(in, 1, k + 1), in[(k + 1) + 1])
      BY <1>5, <2>1, OneMore
    <3> QED  BY <2>1, <3>1, <3>2
  <2>5. bits \in Nat /\ left \in Nat
    <3>1. 0 \in 0..3
      OBVIOUS
    <3> HIDE DEF v2, v3
    <3> QED  BY <2>3, <3>1, BitsOf
  <2>6. d3 = DecodeStep(d2, v3) /\ d4 = DecodeStep(d3, Pad64)
    BY <1>8, <1>11, <2>2
  <2> HIDE DEF v2, v3, more, i1, bits
  <2>7. Decoded(d3, 3, Append(in, left))
    <3>1. Decoded(DecodeStep(d2, v3), 3, Append(Append(more, bits + v3 \div 4), (v3 % 4) * 64))
      BY <2>3, <2>5, ThirdIsDecoded
    <3> QED  BY <2>3, <2>4, <2>6, <3>1
  <2> HIDE DEF left
  <2>8. Padded(d4, 3, Append(in, left))
    BY <2>6, <2>7, PadIsDecoded
  <2> QED  BY <1>5, <2>5, <2>8, FrontOfAppend DEF Padded
<1>12. CASE Len(in) # k
  <2>1. Len(text) = at + 4 /\ run[Len(text)] = d4
    BY <1>6, <1>12
  <2>2. d4.ended = "pad" /\ d4.state \in {2, 3} /\ Front(d4.out) = in
    <3> HIDE DEF d4
    <3> QED  BY <1>6, <1>10, <1>11, <1>12
  <2> HIDE DEF d4
  <2> QED  BY <2>1, <2>2
<1>13. Len(in) = k => Len(text) = at
  BY <1>1, <1>6
<1> QED  BY <1>7, <1>12, <1>13

\* base64.cxx: whatever the bytes and however many, what base64_encode() makes of
\* them base64_decode() brings back, with no blank in the text or with one at any
\* place of it.
THEOREM BytesComeBackFromBase64 ==
  \A in \in Seq(Byte) :
    LET text == Base64Encode(in)
        back == [ok |-> TRUE, out |-> in]
    IN  /\ Base64Decode(text) = back
        /\ \A at \in 1..(Len(text) + 1) : Base64Decode(InsertAt(text, at, Space)) = back
<1> SUFFICES ASSUME NEW in \in Seq(Byte)
             PROVE  LET text == Base64Encode(in)
                        back == [ok |-> TRUE, out |-> in]
                    IN  /\ Base64Decode(text) = back
                        /\ \A at \in 1..(Len(text) + 1) :
                             Base64Decode(InsertAt(text, at, Space)) = back
  OBVIOUS
<1> DEFINE text == Base64Encode(in)
           n == Len(in) \div 3
<1>1. IsEncoded(text, in, n)
  BY EncodedIs
<1> HIDE DEF n, text
<1>2. text \in Seq(B64Values)
  BY <1>1 DEF IsEncoded
<1>3. ASSUME NEW t, NEW run, DecodeRun(run, text),
             FoldLeft(DecodeStep, DecodeStart, t) = run[Len(text)]
      PROVE  Base64Decode(t) = [ok |-> TRUE, out |-> in]
  <2> DEFINE d == FoldLeft(DecodeStep, DecodeStart, t)
  <2>1. \/ d.ended = "no" /\ d.state = 0 /\ d.out = in
        \/ d.ended = "pad" /\ d.state \in {2, 3} /\ Front(d.out) = in
    BY <1>1, <1>3, EndOfEncoded
  <2>2. Base64Decode(t) =
          [ok |-> (d.ended = "pad" /\ d.state \in {2, 3}) \/ (d.ended = "no" /\ d.state = 0),
           out |-> IF d.ended = "pad" /\ d.state \in {2, 3} THEN Front(d.out) ELSE d.out]
    BY DEF Base64Decode
  <2> HIDE DEF d
  <2> QED  BY <2>1, <2>2
<1>4. Base64Decode(text) = [ok |-> TRUE, out |-> in]
  BY <1>2, <1>3, DecodeRuns
<1>5. ASSUME NEW at \in 1..(Len(text) + 1)
      PROVE  Base64Decode(InsertAt(text, at, Space)) = [ok |-> TRUE, out |-> in]
  BY <1>2, <1>3, BlankIsSkipped
<1> QED  BY <1>4, <1>5 DEF text

================================================================================
