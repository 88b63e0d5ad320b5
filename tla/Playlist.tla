-------------------------------- MODULE Playlist --------------------------------
(***************************************************************************)
(* A playlist of an OpenHome renderer, and a control point that works on   *)
(* it (OHPlaylist) while others do too: it gets the ids of the tracks with *)
(* a token, asks whether they have changed since, reads the tracks of the  *)
(* ids it holds, inserts and deletes.  OHRadio reads its channels so, too. *)
(*                                                                         *)
(* The device is modelled as the protocol has it: an id is never used      *)
(* again, and the token changes with every change of the list.  A URI is a *)
(* text of chunks (Sax), and may be empty.  The metadata of a track is a   *)
(* text which stands for a document with one item ("good"), with none      *)
(* ("none"), or no document ("bad"), or is empty.                          *)
(***************************************************************************)
EXTENDS Sax

Uris == Seq({"u", "&", "v"})
Metas == {<<"good">>, <<"none">>, <<"bad">>, <<>>}

CONSTANTS
  Tracks,      \* what is inserted: URIs and metadata
  MaxTracks,   \* bound: tracks that are ever inserted
  MaxPlaylistChanges \* bound: changes of the list
ASSUME PlaylistAssumption ==
  /\ Tracks \subseteq [uri : Uris, meta : Metas]
  /\ MaxTracks \in Nat /\ MaxPlaylistChanges \in Nat

VARIABLES
  playlist, \* the tracks at the device: id, URI and metadata
  token,    \* counts the changes
  lastId,   \* the last id that was given
  ids,      \* the vector of ids of the program
  held,     \* the token of the last answer; -1 if there was none
  outcome   \* what the last call returned, and what was at the device then

playlistVars == <<playlist, token, lastId, ids, held, outcome>>

IdsAt(list) == [n \in DOMAIN list |-> list[n].id]
PlaceOf(list, id) == CHOOSE n \in DOMAIN list : list[n].id = id
TrackAt(list, id) == list[PlaceOf(list, id)]
IsAt(list, id) == id \in Range(IdsAt(list))

-----------------------------------------------------------------------------
(* OHTrackListParser, of which there are two.                               *)

\* UPnPDirContent::parse() of a text, which may be that of several tracks.
ItemsOf(didl) == CASE didl = <<"good">> -> 1 [] didl = <<"none">> -> 0 [] OTHER -> -1

NoTrack == [id |-> -1, url |-> <<>>]
\* EndElement(): the entry stays with the metadata to be read unless it is good.
TrackEnd_KeepsMetadata(made, path) ==
  IF Last(path).name = "Entry" /\ ItemsOf(made.tdidl) = 1
  THEN [made EXCEPT !.list = Append(@, made.tt), !.tt = NoTrack] ELSE made
TrackEnd(made, path) ==
  IF Last(path).name = "Entry" /\ ItemsOf(made.tdidl) = 1
  THEN [list |-> Append(made.list, made.tt), tt |-> NoTrack, tdidl |-> <<>>] ELSE made
TrackData(made, path, chunk) ==
  CASE Last(path).name = "Id" -> [made EXCEPT !.tt.id = chunk]
    [] Last(path).name = "Uri" -> [made EXCEPT !.tt.url = <<chunk>>]
    [] Last(path).name = "Metadata" -> [made EXCEPT !.tdidl = Append(@, chunk)]
    [] OTHER -> made
ParseTrackList(events) ==
  Parse(events, [list |-> <<>>, tt |-> NoTrack, tdidl |-> <<>>], Unhandled, TrackEnd, TrackData)

\* The answer of the device: the tracks that it still has, in the order asked for.
WriteTrack(t) ==
  Element("Entry", NoAttributes,
          Leaf("Id", <<t.id>>) \o Leaf("Uri", t.uri) \o Leaf("Metadata", t.meta))
TracksOf(list, wanted) ==
  FoldLeft(LAMBDA found, id : IF IsAt(list, id) THEN Append(found, TrackAt(list, id)) ELSE found,
           <<>>, wanted)
TrackList(tracks) == Element("TrackList", NoAttributes, Written(WriteTrack, tracks))

-----------------------------------------------------------------------------

NoOutcome == [call |-> "none"]
PlaylistInit ==
  /\ playlist = <<>> /\ token = 0 /\ lastId = 0
  /\ ids = <<>> /\ held = -1
  /\ outcome = NoOutcome

May == token < MaxPlaylistChanges
Changed(list) == playlist' = list /\ token' = token + 1
AfterId(list, after) == IF after = 0 THEN 0 ELSE PlaceOf(list, after)
Inserted(after, track) ==
  /\ May /\ lastId < MaxTracks
  /\ lastId' = lastId + 1
  /\ Changed(InsertAt(playlist, AfterId(playlist, after) + 1,
                      [id |-> lastId', uri |-> track.uri, meta |-> track.meta]))
Deleted(id) ==
  /\ May
  /\ Changed(IF IsAt(playlist, id) THEN RemoveAt(playlist, PlaceOf(playlist, id)) ELSE playlist)
  /\ UNCHANGED lastId

OthersInsert(after, track) == Inserted(after, track) /\ UNCHANGED <<ids, held, outcome>>
OthersDelete(id) == Deleted(id) /\ UNCHANGED <<ids, held, outcome>>

UnchangedAtDevice == UNCHANGED <<playlist, token, lastId>>
\* The ids are put after those that the vector has.  An answer without an array
\* is that of an empty list.
IdArray(empty) ==
  /\ empty \/ Len(ids) <= MaxTracks
  /\ ids' = (IF empty THEN <<>> ELSE ids) \o IdsAt(playlist)
  /\ held' = token
  /\ outcome' = NoOutcome
  /\ UnchangedAtDevice
IdArrayChanged ==
  /\ held # -1
  /\ outcome' = [call |-> "changed", changed |-> held # token]
  /\ UnchangedAtDevice /\ UNCHANGED <<ids, held>>
\* The answer may have no list, or one that is cut short.
ReadList(missing, whole) ==
  /\ LET tracks == TracksOf(playlist, ids)
         events == TrackList(tracks)
         p == ParseTrackList(IF whole THEN events ELSE Front(events))
     IN  outcome' = [call |-> "list", ok |-> ~missing /\ p.ok,
                     list |-> IF missing THEN <<>> ELSE p.made.list, of |-> tracks]
  /\ UnchangedAtDevice /\ UNCHANGED <<ids, held>>
\* read(): the URI is put into the parameter before the metadata is looked at.
ReadTrack(id) ==
  /\ outcome' = [call |-> "read", ok |-> IsAt(playlist, id) /\ ItemsOf(TrackAt(playlist, id).meta) = 1,
                 url |-> IF IsAt(playlist, id) THEN TrackAt(playlist, id).uri ELSE <<>>]
  /\ UnchangedAtDevice /\ UNCHANGED <<ids, held>>
\* The device has inserted the track, and may not say as which.
Insert(after, track, told) ==
  /\ Inserted(after, track)
  /\ outcome' = [call |-> "insert", ok |-> told]
  /\ UNCHANGED <<ids, held>>
DeleteId(id) == Deleted(id) /\ outcome' = NoOutcome /\ UNCHANGED <<ids, held>>
DeleteAll ==
  /\ May /\ Changed(<<>>)
  /\ outcome' = NoOutcome
  /\ UNCHANGED <<lastId, ids, held>>

Anchors == {0} \cup Range(IdsAt(playlist))
PlaylistNext ==
  \/ \E after \in Anchors, track \in Tracks : OthersInsert(after, track)
  \/ \E id \in Range(IdsAt(playlist)) : OthersDelete(id)
  \/ \E empty \in BOOLEAN : IdArray(empty)
  \/ IdArrayChanged
  \/ \E missing, whole \in BOOLEAN : ReadList(missing, whole)
  \/ \E id \in Range(ids) : ReadTrack(id) \/ DeleteId(id)
  \/ \E after \in Anchors, track \in Tracks, told \in BOOLEAN : Insert(after, track, told)
  \/ DeleteAll

PlaylistSpec == PlaylistInit /\ [][PlaylistNext]_playlistVars

PlaylistTypeOK ==
  /\ IsInjective(IdsAt(playlist))
  /\ \A n \in DOMAIN playlist : playlist[n].uri \in Uris /\ playlist[n].meta \in Metas
  /\ token \in 0..MaxPlaylistChanges /\ held \in -1..token
  /\ lastId \in 0..MaxTracks
  /\ \A n \in DOMAIN ids : ids[n] \in 1..lastId

-----------------------------------------------------------------------------
(* Properties.                                                              *)

\* What a list has of the tracks that it should have: none from the first one
\* on whose metadata is there but not good.
Spoils(t) == t.meta # <<>> /\ ItemsOf(t.meta) # 1
Unspoilt(tracks) ==
  {n \in DOMAIN tracks : ItemsOf(tracks[n].meta) = 1 /\ \A m \in 1..n : ~Spoils(tracks[m])}
\* A program reads the playlist as it is, though others change it between its
\* calls: the tracks that it is given are those of the device that it has asked
\* for, in their order, each with its own id and URI (if that is in one chunk);
\* and if nothing has changed since its token, its ids end with those of the
\* whole list.
IdsEndAs(list) ==
  /\ Len(list) <= Len(ids)
  /\ \A n \in DOMAIN list : ids[Len(ids) - Len(list) + n] = list[n].id
ListedAsHeld ==
  /\ outcome.call = "list" /\ outcome.ok =>
       LET good == Unspoilt(outcome.of)
       IN  /\ Len(outcome.list) = Cardinality(good)
           /\ \A m \in good :
                LET n == Cardinality(good \cap 1..m)
                IN  /\ outcome.list[n].id = outcome.of[m].id
                    /\ Len(outcome.of[m].uri) = 1 => outcome.list[n].url = outcome.of[m].uri
  /\ outcome.call = "changed" /\ ~outcome.changed /\ held = token => IdsEndAs(playlist)

(* Not so: a list that is read has all the good tracks; a URI is read whole; a *)
(* track without a URI is read as such, and not with that of one before which  *)
(* was left out; ids that are of the token are those of the list and no more;  *)
(* what returns an error has changed nothing.                                  *)
AllTheGoodAreListed ==
  outcome.call = "list" /\ outcome.ok =>
    Len(outcome.list) = Len(SelectSeq(outcome.of, LAMBDA t : ItemsOf(t.meta) = 1))
UrisAreWhole ==
  outcome.call = "list" /\ outcome.ok /\ Len(outcome.list) = Len(outcome.of) =>
    \A n \in DOMAIN outcome.list : outcome.list[n].url = outcome.of[n].uri
UrisAreTheirOwn ==
  outcome.call = "list" /\ outcome.ok =>
    \A n \in DOMAIN outcome.list :
      TrackAt(outcome.of, outcome.list[n].id).uri = <<>> => outcome.list[n].url = <<>>
HeldAreTheList ==
  outcome.call = "changed" /\ ~outcome.changed /\ held = token => ids = IdsAt(playlist)
InsertFailsCleanly == [][outcome'.call = "insert" /\ ~outcome'.ok => UNCHANGED playlist]_playlistVars
=============================================================================
