-------------------------------- MODULE MCParts --------------------------------
(***************************************************************************)
(* Model checking of the components that share no state with each other    *)
(* nor with the pool, the directory and the loop: each behaviour is one of *)
(* a single component, the others stay where they are.                     *)
(***************************************************************************)
EXTENDS VirtualDir, Registry, Library, FindService, Renderer, Proxies, Volume, Browse,
        Playlist, Documents, Text

VARIABLE part \* the component that moves

Parts ==
  {"files", "registry", "library", "find", "renderer", "proxies",
   "volume", "browse", "playlist", "documents", "text"}

-----------------------------------------------------------------------------
(* Values of the constants.                                                 *)

\* VirtualDir: a directory in a directory, a file in each, and the inner
\* directory asked for as one.
MCDirs == {<<"a">>, <<"a", "b">>}
MCAsked == {<<"a", "f">>, <<"a", "b", "f">>, <<"a", "b", "">>}

\* Registry: a root device and an embedded one, with services of one name.
MCRootOf == [d \in {"r", "e"} |-> "r"]
MCServices == {<<"r", "x">>, <<"r", "y">>, <<"e", "x">>}
MCRequested == {<<"r", "x">>}

\* FindService: one device has two versions of a service, and there is another
\* of the same name.
MCKnownDevices ==
  <<DeviceNamed("n", <<Typed("y", 1), Typed("x", 1), Typed("x", 2)>>),
    DeviceNamed("n", <<Typed("x", 3)>>), DeviceNamed("m", <<Typed("x", 1)>>)>>
MCRequests == {[name |-> "n", type |-> "x", version |-> v, fuzzy |-> v = 0] : v \in {0, 2}}

\* Volume: steps that divide the range or not, ranges that start above 0, factors
\* that are off and make a product (14) or a quotient (14, 17) come out wrong, or
\* do not (25, 200), and an empty range.
MCRanges ==
  {[min |-> 0, max |-> 14, step |-> 1], [min |-> 10, max |-> 27, step |-> 1],
   [min |-> 0, max |-> 25, step |-> 5], [min |-> 0, max |-> 30, step |-> 4],
   [min |-> 0, max |-> 200, step |-> 20], [min |-> 3, max |-> 3, step |-> 1]}

\* Renderer: a service of each kind, one kind twice, one kind only.
MCOffered == {<<2, 1>>, <<1, 1>>, <<2>>}

\* Playlist: a track that is read, one with a URI in chunks, ones that are left
\* out with their URI and one without.
MCTracks ==
  {[uri |-> <<"u">>, meta |-> <<"good">>], [uri |-> <<"u", "&", "v">>, meta |-> <<"good">>],
   [uri |-> <<>>, meta |-> <<"good">>], [uri |-> <<"v">>, meta |-> <<>>],
   [uri |-> <<"v">>, meta |-> <<"none">>], [uri |-> <<>>, meta |-> <<"bad">>]}

MCChars == {"a", " ", ",", "\\", "\"", "\r"}

-----------------------------------------------------------------------------

\* What moves starts as it may, the others in one way.
PartsInit ==
  /\ part \in Parts
  /\ VDirInit
  /\ RegistryInit
  /\ LibraryInit
  /\ ProxiesInit
  /\ VolumeInit
  /\ BrowseInit
  /\ PlaylistInit
  /\ DocumentsInit
  /\ TextInit
  /\ RendererInit /\ offered \in (IF part = "renderer" THEN MCOffered ELSE {<<2, 1>>})
  /\ FindInit /\ (part # "find" =>
       \A s \in Seekers : seekers[s].request = CHOOSE r \in SomeRequests : TRUE)

PartsNext ==
  \/ /\ part = "files" /\ VDirNext
     /\ UNCHANGED <<part, registryVars, libraryVars, findVars, rendererVars,
                    proxiesVars, volumeVars, browseVars, playlistVars,
                    documentsVars, textVars>>
  \/ /\ part = "registry" /\ RegistryNext
     /\ UNCHANGED <<part, vdirVars, libraryVars, findVars, rendererVars, proxiesVars,
                    volumeVars, browseVars, playlistVars, documentsVars,
                    textVars>>
  \/ /\ part = "library" /\ LibraryNext
     /\ UNCHANGED <<part, vdirVars, registryVars, findVars, rendererVars, proxiesVars,
                    volumeVars, browseVars, playlistVars, documentsVars,
                    textVars>>
  \/ /\ part = "find" /\ FindNext
     /\ UNCHANGED <<part, vdirVars, registryVars, libraryVars, rendererVars,
                    proxiesVars, volumeVars, browseVars, playlistVars,
                    documentsVars, textVars>>
  \/ /\ part = "renderer" /\ RendererNext
     /\ UNCHANGED <<part, vdirVars, registryVars, libraryVars, findVars, proxiesVars,
                    volumeVars, browseVars, playlistVars, documentsVars,
                    textVars>>
  \/ /\ part = "proxies" /\ ProxiesNext
     /\ UNCHANGED <<part, vdirVars, registryVars, libraryVars, findVars, rendererVars,
                    volumeVars, browseVars, playlistVars, documentsVars,
                    textVars>>
  \/ /\ part = "volume" /\ VolumeNext
     /\ UNCHANGED <<part, vdirVars, registryVars, libraryVars, findVars, rendererVars,
                    proxiesVars, browseVars, playlistVars, documentsVars,
                    textVars>>
  \/ /\ part = "browse" /\ BrowseNext
     /\ UNCHANGED <<part, vdirVars, registryVars, libraryVars, findVars, rendererVars,
                    proxiesVars, volumeVars, playlistVars, documentsVars,
                    textVars>>
  \/ /\ part = "playlist" /\ PlaylistNext
     /\ UNCHANGED <<part, vdirVars, registryVars, libraryVars, findVars, rendererVars,
                    proxiesVars, volumeVars, browseVars, documentsVars, textVars>>
  \/ /\ part = "documents" /\ DocumentsNext
     /\ UNCHANGED <<part, vdirVars, registryVars, libraryVars, findVars, rendererVars,
                    proxiesVars, volumeVars, browseVars, playlistVars, textVars>>
  \/ /\ part = "text" /\ TextNext
     /\ UNCHANGED <<part, vdirVars, registryVars, libraryVars, findVars, rendererVars,
                    proxiesVars, volumeVars, browseVars, playlistVars,
                    documentsVars>>

partsVars ==
  <<part, vdirVars, registryVars, libraryVars, findVars, rendererVars, proxiesVars,
    volumeVars, browseVars, playlistVars, documentsVars, textVars>>
PartsSpec == PartsInit /\ [][PartsNext]_partsVars

\* Every component keeps its types.
AllTypeOK ==
  /\ VDirTypeOK /\ RegistryTypeOK /\ LibraryTypeOK /\ FindTypeOK /\ RendererTypeOK
  /\ ProxiesTypeOK /\ VolumeTypeOK /\ BrowseTypeOK /\ PlaylistTypeOK
================================================================================
