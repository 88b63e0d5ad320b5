SPECIFICATION PartsSpec
CHECK_DEADLOCK FALSE
CONSTANTS
  Dirs <- MCDirs
  Asked <- MCAsked
  Names = {"f"}
  Sizes = {1, 3}
  Requests = {q1, q2}
  Offsets = {0, 1, 2}
  Buffers = {0, 2}
  MaxAdds = 2
  Devices = {"r", "e"}
  RootOf <- MCRootOf
  Services <- MCServices
  Requested <- MCRequested
  MaxObjects = 2
  MaxInits = 4
  KnownDevices <- MCKnownDevices
  SomeRequests <- MCRequests
  Seekers = {"A", "B"}
  MaxFinds = 2
  NKinds = 2
  MaxProxies = 2
  MaxSids = 4
  MaxSettings = 2
  Ranges <- MCRanges
  Limits = {29, 40}
  Asks = {0, 1, 33, 50, 99, 100, 120}
  m_rdreqcnt = 2
  MaxContained = 5
  MaxContainerChanges = 2
  Tracks <- MCTracks
  MaxTracks = 2
  MaxPlaylistChanges = 3
  MaxFields = 3
  Chars <- MCChars
  MaxLen = 4
  MaxTokens = 2
  Codes = {0, 33, 52, 255}
  Bits = 8
INVARIANTS
  AllTypeOK
  ServedFaithfully
  RegistrySound
  LibrarySound
  FindsWhatIsThere
  OneHandleEach
  ToldAsAskedAndMeant
  MovesAsAsked
  BrowseComplete
  ListedAsHeld
  DocumentsAreRead
  TextSound
