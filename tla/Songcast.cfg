SPECIFICATION Spec
CONSTANTS
  Renderers = {r1, r2}
  Uris = {u1, u2}
  NoUri = NoUri
  Lists <- MCLists
  NoRenderer = NoRenderer
  Places <- MCPlaces
  MaxChanges = 2
SYMMETRY Symmetry
INVARIANTS
  TypeOK
  AnswerTells
  FollowsMaster
PROPERTIES
  LeavesOthersAlone
