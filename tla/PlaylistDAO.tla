----------------------------- MODULE PlaylistDAO -----------------------------
(***************************************************************************)
(* database/PlaylistDAO.cpp on the tables playlists and playlist_songs of  *)
(* sql/MusicPlayer.sql, called from several threads at once.               *)
(***************************************************************************)
EXTENDS DaoCall, Functions

CONSTANTS
  Users,         \* ids in the users table
  UserIds,       \* ids a caller may give
  Infos,         \* name and cover of a playlist
  Songs,         \* records [song_id, where]
  MaxPlaylists,  \* bound: AUTO_INCREMENT values handed out
  MaxRows        \* bound: rows of one song in one playlist (the key allows one)

Ids == 1 .. MaxPlaylists

ASSUME PlaylistAssumption ==
  /\ Users \subseteq UserIds
  /\ MaxPlaylists \in Nat /\ MaxRows \in Nat \ {0, 1}
  /\ \A s \in Songs : DOMAIN s = {"song_id", "where"}

VARIABLES
  playlists,       \* playlists[i]: the row with id i, or Null
  playlist_songs,  \* playlist_songs[i][s]: rows for song s in playlist i
  nextId           \* AUTO_INCREMENT of playlists

dbVars == <<playlists, playlist_songs, nextId>>
vars == <<callVars, dbVars>>

NoSongs == [s \in Songs |-> 0]

Init ==
  /\ CallInit
  /\ playlists = [i \in Ids |-> Null]
  /\ playlist_songs = [i \in Ids |-> NoSongs]
  /\ nextId = 1

-----------------------------------------------------------------------------
(* The operations.  A caller may give any id of a playlist. *)

Calls ==
  [op : {"createPlaylist"}, user_id : UserIds, info : Infos]
    \cup [op : {"updatePlaylist"}, id : Ids, info : Infos]
    \cup [op : {"getPlaylistsByUserId"}, user_id : UserIds]
    \cup [op : {"getPlaylistById", "deletePlaylist",
                "getSongsInPlaylist", "countSongsInPlaylist"}, id : Ids]
    \cup [op : {"addSongToPlaylist", "removeSongFromPlaylist"}, id : Ids, song : Songs]

Rows == [user_id : Users, info : Infos]

ASSUME NullAssumption == Null \notin Calls /\ Null \notin Rows

Call(t) ==
  /\ \E c \in Calls :
       Begin(t, c, IF c.op = "addSongToPlaylist" THEN "check" ELSE "execute")
  /\ UNCHANGED dbVars

(* createPlaylist: the INSERT takes the next id, also if it then fails on  *)
(* the foreign key to users.                                               *)
InsertPlaylist(t) ==
  /\ Running(t, "createPlaylist") /\ pc[t] = "execute"
  /\ \/ /\ nextId \in Ids
        /\ nextId' = nextId + 1
        /\ \/ /\ call[t].user_id \in Users
              /\ playlists' = [playlists EXCEPT ![nextId] =
                                 [user_id |-> call[t].user_id, info |-> call[t].info]]
              /\ Then(t, "lastid") \/ CatchFalse(t)
              /\ UNCHANGED playlist_songs
           \/ /\ call[t].user_id \notin Users
              /\ ReturnBool(t, FALSE)
              /\ UNCHANGED <<playlists, playlist_songs>>
     \/ /\ CatchFalse(t)
        /\ UNCHANGED dbVars

(* executeQuery(const SQLString&) is not implemented for a prepared        *)
(* statement: Connector/C++ throws MethodNotImplementedException, an       *)
(* SQLException, and the row that was inserted is reported as a failure.   *)
LastInsertId(t) ==
  /\ pc[t] = "lastid"
  /\ ReturnBool(t, FALSE)
  /\ UNCHANGED dbVars

(* What a SELECT returns; an exception is answered like an empty result.   *)
Selected(c) ==
  CASE c.op = "getPlaylistById" -> [playlist |-> playlists[c.id]]
    [] c.op = "getPlaylistsByUserId" ->
         [ids |-> {i \in Ids : playlists[i] # Null /\ playlists[i].user_id = c.user_id}]
    [] c.op = "getSongsInPlaylist" ->
         [songs |-> {s \in Songs : playlist_songs[c.id][s] > 0}]
    [] c.op = "countSongsInPlaylist" ->
         [count |-> SumFunction(playlist_songs[c.id])]

Nothing ==
  [getPlaylistById |-> [playlist |-> Null], getPlaylistsByUserId |-> [ids |-> {}],
   getSongsInPlaylist |-> [songs |-> {}], countSongsInPlaylist |-> [count |-> 0]]

Select(t) ==
  /\ pc[t] = "execute" /\ call[t].op \in DOMAIN Nothing
  /\ Return(t, Selected(call[t])) \/ Catch(t, Nothing[call[t].op])
  /\ UNCHANGED dbVars

(* Mutant: INSERT ... ON DUPLICATE KEY UPDATE. *)
Upsert(i, info) == [user_id |-> CHOOSE u \in Users : TRUE, info |-> info]

(* UPDATE playlists SET name, cover WHERE id = ?. *)
UpdatedRow(i, info) ==
  IF playlists[i] = Null THEN Null ELSE [playlists[i] EXCEPT !.info = info]

(* affected_row > 0: of a row that had these values already, MySQL reports *)
(* the one or the other, depending on the client flags.                    *)
UpdatePlaylist(t) ==
  LET i == call[t].id
      info == call[t].info
  IN  /\ Running(t, "updatePlaylist")
      /\ \/ /\ playlists' = [playlists EXCEPT ![i] = UpdatedRow(i, info)]
            /\ \/ ReturnBool(t, playlists[i] # Null)
               \/ playlists' = playlists /\ ReturnBool(t, FALSE)
               \/ CatchFalse(t)
         \/ CatchFalse(t) /\ UNCHANGED playlists
      /\ UNCHANGED <<playlist_songs, nextId>>

(* Mutant: playlist_songs without ON DELETE CASCADE. *)
KeepSongs(i) == UNCHANGED playlist_songs

(* ON DELETE CASCADE *)
DropSongs(i) == playlist_songs' = [playlist_songs EXCEPT ![i] = NoSongs]

DeletePlaylist(t) ==
  LET i == call[t].id
  IN  /\ Running(t, "deletePlaylist")
      /\ \/ /\ playlists' = [playlists EXCEPT ![i] = Null]
            /\ DropSongs(i)
            /\ ReturnBool(t, playlists[i] # Null) \/ CatchFalse(t)
         \/ CatchFalse(t) /\ UNCHANGED <<playlists, playlist_songs>>
      /\ UNCHANGED nextId

(* Mutant: the platform of the song is not compared. *)
CountById(i, s) ==
  Cardinality({r \in Songs : r.song_id = s.song_id /\ playlist_songs[i][r] > 0})

(* SELECT COUNT of the song, by song_id and song_where. *)
CountSong(i, s) == playlist_songs[i][s]

CheckSong(t) ==
  /\ pc[t] = "check"
  /\ \/ /\ CountSong(call[t].id, call[t].song) > 0
        /\ ReturnBool(t, TRUE)
     \/ /\ CountSong(call[t].id, call[t].song) = 0
        /\ Then(t, "insert")
     \/ CatchFalse(t)
  /\ UNCHANGED dbVars

(* UNIQUE KEY(playlist_id, song_id, song_where) *)
KeyIsFree(i, s) == playlist_songs[i][s] = 0

(* The INSERT throws on the key or on the foreign key to playlists. *)
InsertSong(t) ==
  LET i == call[t].id
      s == call[t].song
      Legal == playlists[i] # Null /\ KeyIsFree(i, s)
  IN  /\ pc[t] = "insert"
      /\ \/ /\ Legal /\ playlist_songs[i][s] < MaxRows
            /\ playlist_songs' = [playlist_songs EXCEPT ![i][s] = @ + 1]
            /\ ReturnBool(t, TRUE) \/ CatchFalse(t)
         \/ ~Legal /\ ReturnBool(t, FALSE) /\ UNCHANGED playlist_songs
         \/ CatchFalse(t) /\ UNCHANGED playlist_songs
      /\ UNCHANGED <<playlists, nextId>>

RemoveSong(t) ==
  LET i == call[t].id
      s == call[t].song
  IN  /\ Running(t, "removeSongFromPlaylist")
      /\ \/ /\ playlist_songs' = [playlist_songs EXCEPT ![i][s] = 0]
            /\ ReturnBool(t, playlist_songs[i][s] > 0) \/ CatchFalse(t)
         \/ CatchFalse(t) /\ UNCHANGED playlist_songs
      /\ UNCHANGED <<playlists, nextId>>

-----------------------------------------------------------------------------
Next ==
  \E t \in Threads :
    \/ Call(t)
    \/ InsertPlaylist(t) \/ LastInsertId(t) \/ UpdatePlaylist(t) \/ DeletePlaylist(t)
    \/ CheckSong(t) \/ InsertSong(t) \/ RemoveSong(t) \/ Select(t)

Spec == Init /\ [][Next]_vars

-----------------------------------------------------------------------------
(* Properties *)

(* Types of the calls and of the tables. *)
TypeOK ==
  /\ CallTypeOK({"execute", "lastid", "check", "insert"})
  /\ playlists \in [Ids -> Rows \cup {Null}]
  /\ playlist_songs \in [Ids -> [Songs -> 0 .. MaxRows]]
  /\ nextId \in 1 .. MaxPlaylists + 1

(* Types; and every row of playlist_songs belongs to a playlist that       *)
(* exists, and is there once, although addSongToPlaylist checks first and  *)
(* inserts later: the playlist may be deleted, or the song inserted by     *)
(* another call, in between.                                               *)
SongsBelong ==
  /\ TypeOK
  /\ \A i \in Ids, s \in Songs :
       playlist_songs[i][s] <= IF playlists[i] = Null THEN 0 ELSE 1

(* addSongToPlaylist: true means that the song, of that platform, is in    *)
(* the playlist; false, when nothing failed, that there is no such         *)
(* playlist or that another thread inserted the song after the check.      *)
AddVerdict ==
  [][\A t \in Threads : Ends(t, "addSongToPlaylist") =>
       LET r == result'
           There == playlist_songs'[call[t].id][call[t].song] > 0
       IN  /\ r.value.ok => There
           /\ ~r.value.ok /\ ~r.fault => playlists'[call[t].id] = Null \/ There]_vars

(* A deleted playlist never comes back, neither by an update that was on   *)
(* its way nor by a new playlist with its id.                              *)
NoResurrection ==
  [][\A i \in Ids : i < nextId /\ playlists[i] = Null => playlists'[i] = Null]_vars
=============================================================================
