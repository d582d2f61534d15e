-------------------------- MODULE PlaylistDAOProofs --------------------------
(***************************************************************************)
(* Proofs, for any threads, connections, playlists and songs, that every   *)
(* stored song belongs to a playlist and is stored once, that              *)
(* addSongToPlaylist's verdict is right, and that a deleted playlist stays *)
(* deleted.                                                                *)
(***************************************************************************)
EXTENDS PlaylistDAO, TLAPS

Statements == {"execute", "lastid", "check", "insert"}

(* Which call may be at a statement. *)
Fits(statement, c) ==
  /\ c \in Calls
  /\ statement = "lastid" => c.op = "createPlaylist"
  /\ statement \in {"check", "insert"} <=> c.op = "addSongToPlaylist"

(* The calls: their types, the statement each is at, and the promise of    *)
(* the pool that no two threads own one connection.                        *)
CallInv ==
  /\ CallTypeOK(Statements)
  /\ call \in [Threads -> Calls \cup {Null}]
  /\ \A t \in Threads : pc[t] # "idle" => Fits(pc[t], call[t])
  /\ \A t \in Threads : owner[t] \notin free
  /\ \A t, u \in Threads : owner[t] = owner[u] /\ owner[t] # NoConn => t = u

(* The tables: their types, and every song in a playlist that exists, once. *)
TableInv ==
  /\ playlists \in [Ids -> Rows \cup {Null}]
  /\ playlist_songs \in [Ids -> [Songs -> 0 .. MaxRows]]
  /\ nextId \in 1 .. MaxPlaylists + 1
  /\ \A i \in Ids, s \in Songs :
       playlist_songs[i][s] <= IF playlists[i] = Null THEN 0 ELSE 1

Inv == CallInv /\ TableInv

-----------------------------------------------------------------------------
(* The arguments of each operation have their types. *)
LEMMA Arguments ==
  ASSUME NEW c \in Calls
  PROVE  /\ c.op = "createPlaylist" => c.user_id \in UserIds /\ c.info \in Infos
         /\ c.op = "updatePlaylist" => c.id \in Ids /\ c.info \in Infos
         /\ c.op = "deletePlaylist" => c.id \in Ids
         /\ c.op \in {"addSongToPlaylist", "removeSongFromPlaylist"} =>
              c.id \in Ids /\ c.song \in Songs
  BY DEF Calls

(* The other threads' calls are as they were. *)
OthersWait(t) ==
  \A u \in Threads \ {t} :
     pc'[u] = pc[u] /\ call'[u] = call[u] /\ owner'[u] = owner[u]

(* A call begins: its guard takes a connection that nobody else has. *)
LEMMA BeginEffect ==
  ASSUME CallInv, NEW t \in Threads, NEW c, NEW s \in Statements, Fits(s, c),
         Begin(t, c, s)
  PROVE  CallInv' /\ OthersWait(t) /\ pc[t] = "idle" /\ pc'[t] = s
  BY PoolIsLargeEnough, NullAssumption
     DEF CallInv, CallTypeOK, PoolTypeOK, Begin, Acquire, OthersWait, Fits, Statements

(* A call goes on to its next statement, on the same connection. *)
LEMMA ThenEffect ==
  ASSUME CallInv, NEW t \in Threads, NEW s \in Statements, Fits(s, call[t]),
         pc[t] # "idle", Then(t, s)
  PROVE  /\ CallInv' /\ OthersWait(t) /\ pc'[t] = s
         /\ owner' = owner /\ call' = call
  BY DEF CallInv, CallTypeOK, PoolTypeOK, Then, OthersWait, poolVars, Fits, Statements

(* A call ends: the connection goes back, the value is the answer. *)
LEMMA AnswerEffect ==
  ASSUME CallInv, NEW t \in Threads, NEW value, NEW fault,
         pc[t] # "idle", Answer(t, value, fault)
  PROVE  /\ CallInv' /\ OthersWait(t) /\ pc'[t] = "idle"
         /\ result'.value = value /\ result'.fault = fault
<1>1. result' = [value |-> value, fault |-> fault]
  BY DEF Answer
<1>2. /\ result'.value = value /\ result'.fault = fault
      /\ DOMAIN result' = {"value", "fault"}
  BY <1>1
<1>3. /\ owner[t] # NoConn /\ free' = free \cup {owner[t]}
      /\ owner' = [owner EXCEPT ![t] = NoConn]
      /\ pc' = [pc EXCEPT ![t] = "idle"]
      /\ call' = [call EXCEPT ![t] = Null]
  BY DEF Answer, Release
<1> QED
  BY <1>2, <1>3, PoolIsLargeEnough
     DEF CallInv, CallTypeOK, PoolTypeOK, OthersWait, Fits, Statements

(* The statement a call is at, and its arguments. *)
LEMMA AtStatement ==
  ASSUME CallInv, NEW t \in Threads, pc[t] # "idle"
  PROVE  Fits(pc[t], call[t]) /\ call[t] \in Calls /\ owner[t] \in Conns
  BY DEF CallInv, CallTypeOK, PoolTypeOK, Fits

(* The rows of one song in one playlist change, to one only if it exists. *)
LEMMA SongSet ==
  ASSUME TableInv, NEW i \in Ids, NEW s \in Songs, NEW n \in {0, 1},
         n = 1 => playlists[i] # Null,
         playlist_songs' = [playlist_songs EXCEPT ![i][s] = n],
         UNCHANGED <<playlists, nextId>>
  PROVE  TableInv'
<1>0. n \in 0 .. MaxRows
  BY PlaylistAssumption
<1>1. playlist_songs' \in [Ids -> [Songs -> 0 .. MaxRows]]
  BY <1>0 DEF TableInv
<1>2. \A j \in Ids, r \in Songs :
        playlist_songs'[j][r] = IF j = i /\ r = s THEN n ELSE playlist_songs[j][r]
  BY DEF TableInv
<1>3. \A j \in Ids, r \in Songs :
        playlist_songs'[j][r] <= IF playlists'[j] = Null THEN 0 ELSE 1
  <2> SUFFICES ASSUME NEW j \in Ids, NEW r \in Songs
               PROVE  playlist_songs'[j][r] <= IF playlists'[j] = Null THEN 0 ELSE 1
    OBVIOUS
  <2>1. CASE j = i /\ r = s
    BY <1>2, <2>1
  <2>2. CASE ~(j = i /\ r = s)
    BY <1>2, <2>2 DEF TableInv
  <2> QED
    BY <2>1, <2>2
<1> QED
  BY <1>1, <1>3 DEF TableInv

(* Every step of every call keeps the invariant. *)
LEMMA Inductive == Inv /\ [Next]_vars => Inv'
<1> SUFFICES ASSUME Inv, [Next]_vars
             PROVE  Inv'
  OBVIOUS
<1>i. CallInv /\ TableInv
  BY DEF Inv
<1> USE PlaylistAssumption DEF Ids
<1>1. CASE UNCHANGED vars
  BY <1>1 DEF vars, callVars, poolVars, dbVars, Inv, CallInv, CallTypeOK, PoolTypeOK,
     TableInv
<1>2. ASSUME NEW t \in Threads, Call(t)
      PROVE  Inv'
  <2>1. PICK c \in Calls :
          Begin(t, c, IF c.op = "addSongToPlaylist" THEN "check" ELSE "execute")
    BY <1>2 DEF Call
  <2>2. PICK s \in {"check", "execute"} : Begin(t, c, s) /\ Fits(s, c)
    BY <2>1 DEF Fits
  <2>3. CallInv' /\ OthersWait(t) /\ pc[t] = "idle" /\ pc'[t] = s
    BY <1>i, <2>2, BeginEffect DEF Statements
  <2>4. UNCHANGED <<playlists, playlist_songs, nextId>>
    BY <1>2 DEF Call, dbVars
  <2> QED
    BY <1>i, <2>3, <2>4 DEF Inv, TableInv
<1>3. ASSUME NEW t \in Threads, InsertPlaylist(t)
      PROVE  Inv'
  <2>1. pc[t] = "execute" /\ call[t].op = "createPlaylist" /\ pc[t] # "idle"
    BY <1>3 DEF InsertPlaylist, Running
  <2>2. Fits(pc[t], call[t]) /\ call[t] \in Calls /\ owner[t] \in Conns
    BY <1>i, <2>1, AtStatement
  <2>3. CASE CatchFalse(t) /\ UNCHANGED dbVars
    BY <1>i, <2>1, <2>3, AnswerEffect
       DEF Inv, TableInv, CatchFalse, Catch, dbVars
  <2>4. CASE /\ nextId \in Ids /\ nextId' = nextId + 1 /\ call[t].user_id \notin Users
             /\ ReturnBool(t, FALSE) /\ UNCHANGED <<playlists, playlist_songs>>
    <3>1. CallInv' /\ OthersWait(t) /\ pc'[t] = "idle"
      BY <1>i, <2>1, <2>4, AnswerEffect DEF ReturnBool, Return
    <3>2. TableInv'
      BY <1>i, <2>4 DEF TableInv
    <3> QED
      BY <1>i, <2>1, <2>4, <3>1, <3>2 DEF Inv
  <2>5. CASE /\ nextId \in Ids /\ nextId' = nextId + 1 /\ call[t].user_id \in Users
             /\ playlists' = [playlists EXCEPT ![nextId] =
                                 [user_id |-> call[t].user_id, info |-> call[t].info]]
             /\ Then(t, "lastid") \/ CatchFalse(t)
             /\ UNCHANGED playlist_songs
    <3>1. [user_id |-> call[t].user_id, info |-> call[t].info] \in Rows
      BY <2>1, <2>2, <2>5, Arguments DEF Rows
    <3>2. TableInv'
      BY <1>i, <2>5, <3>1, NullAssumption DEF TableInv
    <3>3. CallInv' /\ OthersWait(t)
      <4>1. CASE Then(t, "lastid")
        BY <1>i, <2>1, <2>2, <4>1, ThenEffect DEF Fits, Statements
      <4>2. CASE CatchFalse(t)
        BY <1>i, <2>1, <4>2, AnswerEffect DEF CatchFalse, Catch
      <4> QED
        BY <2>5, <4>1, <4>2
    <3> QED
      BY <3>2, <3>3 DEF Inv
  <2> QED
    BY <1>3, <2>3, <2>4, <2>5 DEF InsertPlaylist
<1>4. ASSUME NEW t \in Threads, LastInsertId(t)
      PROVE  Inv'
  <2>1. pc[t] = "lastid" /\ pc[t] # "idle"
    BY <1>4 DEF LastInsertId
  <2>2. CallInv' /\ OthersWait(t) /\ pc'[t] = "idle"
    BY <1>4, <1>i, <2>1, AnswerEffect DEF LastInsertId, ReturnBool, Return
  <2>3. UNCHANGED <<playlists, playlist_songs, nextId>>
    BY <1>4 DEF LastInsertId, dbVars
  <2> QED
    BY <1>i, <2>2, <2>3 DEF Inv, TableInv
<1>5. ASSUME NEW t \in Threads, UpdatePlaylist(t)
      PROVE  Inv'
  <2>1. pc[t] # "idle" /\ call[t].op = "updatePlaylist"
    BY <1>5 DEF UpdatePlaylist, Running
  <2>2. call[t] \in Calls /\ pc[t] # "lastid"
    BY <1>i, <2>1, AtStatement DEF Fits
  <2> PICK i \in Ids : i = call[t].id
    BY <2>1, <2>2, Arguments
  <2>3. CallInv' /\ OthersWait(t) /\ pc'[t] = "idle"
    BY <1>5, <1>i, <2>1, AnswerEffect DEF UpdatePlaylist, ReturnBool, Return, CatchFalse, Catch
  <2>4. UNCHANGED <<playlist_songs, nextId>>
    BY <1>5 DEF UpdatePlaylist
  <2>5. UpdatedRow(i, call[t].info) \in Rows \cup {Null}
        /\ (UpdatedRow(i, call[t].info) = Null <=> playlists[i] = Null)
    <3>1. ASSUME NEW r \in Rows, NEW info \in Infos
          PROVE  [r EXCEPT !.info = info] \in Rows
      BY DEF Rows
    <3>2. call[t].info \in Infos /\ playlists[i] \in Rows \cup {Null}
      BY <1>i, <2>1, <2>2, Arguments DEF TableInv
    <3>3. playlists[i] # Null => [playlists[i] EXCEPT !.info = call[t].info] \in Rows
      BY <3>1, <3>2, Zenon
    <3> QED
      BY <3>3, NullAssumption, Zenon DEF UpdatedRow
  <2>6. playlists' = playlists
        \/ playlists' = [playlists EXCEPT ![i] = UpdatedRow(i, call[t].info)]
    BY <1>5, Zenon DEF UpdatePlaylist
  <2>7. TableInv'
    <3> DEFINE new == UpdatedRow(i, call[t].info)
    <3>1. new \in Rows \cup {Null} /\ (new = Null <=> playlists[i] = Null)
      BY <2>5
    <3>2. playlists' = playlists \/ playlists' = [playlists EXCEPT ![i] = new]
      BY <2>6
    <3> HIDE DEF new
    <3>3. /\ playlists' \in [Ids -> Rows \cup {Null}]
          /\ \A j \in Ids : playlists'[j] = Null <=> playlists[j] = Null
      <4>1. playlists \in [Ids -> Rows \cup {Null}]
        BY <1>i DEF TableInv
      <4>2. CASE playlists' = playlists
        BY <4>1, <4>2
      <4>3. CASE playlists' = [playlists EXCEPT ![i] = new]
        <5>1. \A j \in Ids : playlists'[j] = IF j = i THEN new ELSE playlists[j]
          BY <4>1, <4>3, Zenon
        <5>2. playlists' \in [Ids -> Rows \cup {Null}]
          BY <3>1, <4>1, <4>3
        <5> QED
          BY <3>1, <5>1, <5>2, Zenon
      <4> QED
        BY <3>2, <4>2, <4>3
    <3> QED
      BY <1>i, <2>4, <3>3 DEF TableInv
  <2> QED
    BY <1>i, <2>2, <2>3, <2>4, <2>7 DEF Inv
<1>6. ASSUME NEW t \in Threads, DeletePlaylist(t)
      PROVE  Inv'
  <2>1. pc[t] # "idle" /\ call[t].op = "deletePlaylist"
    BY <1>6 DEF DeletePlaylist, Running
  <2>2. call[t] \in Calls /\ pc[t] # "lastid"
    BY <1>i, <2>1, AtStatement DEF Fits
  <2> PICK i \in Ids : i = call[t].id
    BY <2>1, <2>2, Arguments
  <2>3. CallInv' /\ OthersWait(t) /\ pc'[t] = "idle"
    BY <1>6, <1>i, <2>1, AnswerEffect DEF DeletePlaylist, ReturnBool, Return, CatchFalse, Catch
  <2>4. /\ \/ /\ playlists' = [playlists EXCEPT ![i] = Null]
              /\ playlist_songs' = [playlist_songs EXCEPT ![i] = NoSongs]
           \/ UNCHANGED <<playlists, playlist_songs>>
        /\ UNCHANGED nextId
    BY <1>6 DEF DeletePlaylist, DropSongs
  <2>5. NoSongs \in [Songs -> 0 .. MaxRows] /\ \A s \in Songs : NoSongs[s] = 0
    BY DEF NoSongs
  <2>6. TableInv'
    <3>1. CASE /\ playlists' = [playlists EXCEPT ![i] = Null]
               /\ playlist_songs' = [playlist_songs EXCEPT ![i] = NoSongs]
      <4>1. playlist_songs' \in [Ids -> [Songs -> 0 .. MaxRows]]
        BY <1>i, <2>5, <3>1 DEF TableInv
      <4>2. \A j \in Ids, s \in Songs :
              playlist_songs'[j][s] = IF j = i THEN 0 ELSE playlist_songs[j][s]
        BY <1>i, <2>5, <3>1 DEF TableInv
      <4>3. playlists' \in [Ids -> Rows \cup {Null}]
            /\ \A j \in Ids : j # i => playlists'[j] = playlists[j]
        BY <1>i, <3>1 DEF TableInv
      <4>4. \A j \in Ids, s \in Songs :
              playlist_songs'[j][s] <= IF playlists'[j] = Null THEN 0 ELSE 1
        <5> SUFFICES ASSUME NEW j \in Ids, NEW s \in Songs
                     PROVE  playlist_songs'[j][s] <= IF playlists'[j] = Null THEN 0 ELSE 1
          OBVIOUS
        <5>1. CASE j = i
          BY <4>2, <5>1
        <5>2. CASE j # i
          <6>1. playlist_songs[j][s] <= IF playlists[j] = Null THEN 0 ELSE 1
            BY <1>i DEF TableInv
          <6>2. playlist_songs'[j][s] = playlist_songs[j][s] /\ playlists'[j] = playlists[j]
            BY <4>2, <4>3, <5>2, Zenon
          <6> QED
            BY <6>1, <6>2
        <5> QED
          BY <5>1, <5>2
      <4> QED
        BY <1>i, <2>4, <4>1, <4>3, <4>4 DEF TableInv
    <3>2. CASE UNCHANGED <<playlists, playlist_songs>>
      BY <1>i, <2>4, <3>2 DEF TableInv
    <3> QED
      BY <2>4, <3>1, <3>2
  <2> QED
    BY <1>i, <2>2, <2>3, <2>4, <2>6 DEF Inv
<1>7. ASSUME NEW t \in Threads, CheckSong(t)
      PROVE  Inv'
  <2>1. pc[t] = "check" /\ pc[t] # "idle"
    BY <1>7 DEF CheckSong
  <2>2. Fits("insert", call[t])
    BY <1>i, <2>1, AtStatement DEF Fits
  <2>3. CallInv' /\ OthersWait(t) /\ pc'[t] \in {"idle", "insert"}
    BY <1>7, <1>i, <2>1, <2>2, AnswerEffect, ThenEffect
       DEF CheckSong, ReturnBool, Return, CatchFalse, Catch, Statements
  <2>4. UNCHANGED <<playlists, playlist_songs, nextId>>
    BY <1>7 DEF CheckSong, dbVars
  <2> QED
    BY <1>i, <2>1, <2>3, <2>4 DEF Inv, TableInv
<1>8. ASSUME NEW t \in Threads, InsertSong(t)
      PROVE  Inv'
  <2>1. pc[t] = "insert" /\ pc[t] # "idle"
    BY <1>8 DEF InsertSong
  <2>2. call[t] \in Calls /\ call[t].op = "addSongToPlaylist"
    BY <1>i, <2>1, AtStatement DEF Fits
  <2> PICK i \in Ids, s \in Songs : i = call[t].id /\ s = call[t].song
    BY <2>2, Arguments
  <2>3. CallInv' /\ OthersWait(t) /\ pc'[t] = "idle"
    BY <1>8, <1>i, <2>1, AnswerEffect DEF InsertSong, ReturnBool, Return, CatchFalse, Catch
  <2>4. /\ \/ /\ playlists[i] # Null /\ playlist_songs[i][s] = 0
              /\ playlist_songs' = [playlist_songs EXCEPT ![i][s] = @ + 1]
           \/ UNCHANGED playlist_songs
        /\ UNCHANGED <<playlists, nextId>>
    BY <1>8 DEF InsertSong, KeyIsFree
  <2>5. TableInv'
    <3>1. CASE /\ playlists[i] # Null /\ playlist_songs[i][s] = 0
               /\ playlist_songs' = [playlist_songs EXCEPT ![i][s] = @ + 1]
      <4>1. playlist_songs' = [playlist_songs EXCEPT ![i][s] = 1]
        BY <3>1
      <4> QED
        BY <1>i, <2>4, <3>1, <4>1, SongSet
    <3>2. CASE UNCHANGED playlist_songs
      BY <1>i, <2>4, <3>2 DEF TableInv
    <3> QED
      BY <2>4, <3>1, <3>2
  <2> QED
    BY <1>i, <2>1, <2>3, <2>4, <2>5 DEF Inv
<1>9. ASSUME NEW t \in Threads, RemoveSong(t)
      PROVE  Inv'
  <2>1. pc[t] # "idle" /\ call[t].op = "removeSongFromPlaylist"
    BY <1>9 DEF RemoveSong, Running
  <2>2. call[t] \in Calls /\ pc[t] # "lastid"
    BY <1>i, <2>1, AtStatement DEF Fits
  <2> PICK i \in Ids, s \in Songs : i = call[t].id /\ s = call[t].song
    BY <2>1, <2>2, Arguments
  <2>3. CallInv' /\ OthersWait(t) /\ pc'[t] = "idle"
    BY <1>9, <1>i, <2>1, AnswerEffect DEF RemoveSong, ReturnBool, Return, CatchFalse, Catch
  <2>4. /\ \/ playlist_songs' = [playlist_songs EXCEPT ![i][s] = 0]
           \/ UNCHANGED playlist_songs
        /\ UNCHANGED <<playlists, nextId>>
    BY <1>9 DEF RemoveSong
  <2>5. TableInv'
    <3>1. CASE playlist_songs' = [playlist_songs EXCEPT ![i][s] = 0]
      <4>1. 0 \in {0, 1} /\ 0 # 1 /\ UNCHANGED <<playlists, nextId>>
        BY <2>4
      <4> QED
        BY <1>i, <3>1, <4>1, SongSet
    <3>2. CASE UNCHANGED playlist_songs
      BY <1>i, <2>4, <3>2 DEF TableInv
    <3> QED
      BY <2>4, <3>1, <3>2
  <2> QED
    BY <1>i, <2>2, <2>3, <2>4, <2>5 DEF Inv
<1>10. ASSUME NEW t \in Threads, Select(t)
       PROVE  Inv'
  <2>1. pc[t] = "execute" /\ pc[t] # "idle"
    BY <1>10 DEF Select
  <2>2. CallInv' /\ OthersWait(t) /\ pc'[t] = "idle"
    BY <1>10, <1>i, <2>1, AnswerEffect DEF Select, Return, Catch
  <2>3. UNCHANGED <<playlists, playlist_songs, nextId>>
    BY <1>10 DEF Select, dbVars
  <2> QED
    BY <1>i, <2>1, <2>2, <2>3 DEF Inv, TableInv
<1> QED
  BY <1>1, <1>2, <1>3, <1>4, <1>5, <1>6, <1>7, <1>8, <1>9, <1>10 DEF Next

LEMMA Invariance == Spec => []Inv
<1>1. Init => Inv
  <2> SUFFICES ASSUME Init
               PROVE  Inv
    OBVIOUS
  <2>1. CallInv
    BY PoolIsLargeEnough
       DEF Init, CallInit, CallInv, CallTypeOK, PoolTypeOK, Statements
  <2>2. TableInv
    BY PlaylistAssumption DEF Init, TableInv, NoSongs, Ids
  <2> QED
    BY <2>1, <2>2 DEF Inv
<1> QED
  BY <1>1, Inductive, PTL DEF Spec

(* SongsBelong, of sql/MusicPlayer.sql and addSongToPlaylist: every stored *)
(* song is in an existing playlist, and once, although the check and the   *)
(* INSERT are two statements.                                              *)
THEOREM SongsInPlaylists == Spec => []SongsBelong
<1>1. Inv => SongsBelong
  BY DEF Inv, CallInv, TableInv, SongsBelong, TypeOK, Statements
<1> QED
  BY <1>1, Invariance, PTL

-----------------------------------------------------------------------------
(* A call that ends in a step was taken on by that step. *)
LEMMA OwnStep ==
  ASSUME Inv, [Next]_vars, NEW t \in Threads, NEW op, Ends(t, op)
  PROVE  \/ InsertPlaylist(t) \/ LastInsertId(t) \/ UpdatePlaylist(t) \/ DeletePlaylist(t)
         \/ CheckSong(t) \/ InsertSong(t) \/ RemoveSong(t) \/ Select(t)
<1>1. pc[t] # "idle" /\ pc'[t] = "idle" /\ pc \in [Threads -> Statements \cup {"idle"}]
  BY DEF Ends, Running, Inv, CallInv, CallTypeOK
<1>2. ~UNCHANGED vars
  BY <1>1 DEF vars, callVars
<1>3. PICK u \in Threads :
        \/ Call(u)
        \/ InsertPlaylist(u) \/ LastInsertId(u) \/ UpdatePlaylist(u) \/ DeletePlaylist(u)
        \/ CheckSong(u) \/ InsertSong(u) \/ RemoveSong(u) \/ Select(u)
  BY <1>2 DEF Next
<1>4. \E s : pc' = [pc EXCEPT ![u] = s]
  BY <1>3, Zenon
     DEF Call, Begin, InsertPlaylist, LastInsertId, UpdatePlaylist, DeletePlaylist, CheckSong,
         InsertSong, RemoveSong, Select, Then, ReturnBool, Return, CatchFalse, Catch, Answer
<1>5. u = t
  BY <1>1, <1>4
<1>6. ~Call(t)
  BY <1>1 DEF Call, Begin
<1> QED
  BY <1>3, <1>5, <1>6

(* What the answers of the operations that return bool say. *)
LEMMA Verdicts ==
  ASSUME CallInv, NEW t \in Threads, pc[t] # "idle"
  PROVE  /\ CatchFalse(t) => result'.fault = TRUE /\ result'.value.ok = FALSE
         /\ ReturnBool(t, TRUE) => result'.value.ok = TRUE
         /\ ReturnBool(t, FALSE) => result'.value.ok = FALSE
<1>1. [ok |-> FALSE].ok = FALSE /\ [ok |-> TRUE].ok = TRUE
  OBVIOUS
<1>2. ASSUME NEW value, NEW fault, Answer(t, value, fault)
      PROVE  result'.value = value /\ result'.fault = fault
  BY <1>2, AnswerEffect
<1> QED
  BY <1>1, <1>2, Zenon DEF CatchFalse, Catch, ReturnBool, Return

(* AddVerdict: addSongToPlaylist answers true only if the song of that     *)
(* platform is then in the playlist, and false, without a failure, only if *)
(* there is no such playlist or somebody else inserted the song.           *)
THEOREM AddAnswersRight == Spec => AddVerdict
<1>1. ASSUME Inv, [Next]_vars, NEW t \in Threads, Ends(t, "addSongToPlaylist")
      PROVE  /\ result'.value.ok => playlist_songs'[call[t].id][call[t].song] > 0
             /\ ~result'.value.ok /\ ~result'.fault =>
                  \/ playlists'[call[t].id] = Null
                  \/ playlist_songs'[call[t].id][call[t].song] > 0
  <2>1. /\ CallInv /\ TableInv /\ pc[t] # "idle" /\ pc'[t] = "idle"
        /\ call[t].op = "addSongToPlaylist" /\ Fits(pc[t], call[t])
    BY <1>1, AtStatement DEF Ends, Running, Inv
  <2>2. CheckSong(t) \/ InsertSong(t)
    <3>1. ~UpdatePlaylist(t) /\ ~DeletePlaylist(t) /\ ~RemoveSong(t) /\ ~InsertPlaylist(t)
      BY <2>1 DEF UpdatePlaylist, DeletePlaylist, RemoveSong, InsertPlaylist, Running
    <3>2. ~LastInsertId(t)
      BY <2>1 DEF LastInsertId, Fits
    <3>3. ~Select(t)
      BY <2>1 DEF Select, Nothing
    <3> QED
      BY <1>1, <3>1, <3>2, <3>3, OwnStep
  <2> PICK i \in Ids, s \in Songs : i = call[t].id /\ s = call[t].song
    BY <2>1, Arguments DEF Fits
  <2>n. playlist_songs[i][s] \in Nat
    BY <2>1 DEF TableInv
  <2>3. CASE CatchFalse(t)
    BY <2>1, <2>3, Verdicts, Zenon
  <2>4. CASE playlist_songs'[i][s] > 0 /\ ReturnBool(t, TRUE)
    BY <2>1, <2>4, Verdicts, Zenon
  <2>5. CASE (playlists'[i] = Null \/ playlist_songs'[i][s] > 0) /\ ReturnBool(t, FALSE)
    BY <2>1, <2>5, Verdicts, Zenon
  <2>6. CASE CheckSong(t)
    <3>1. ASSUME Then(t, "insert")
          PROVE  FALSE
      BY <2>1, <3>1 DEF Then, CallInv, CallTypeOK
    <3>2. playlist_songs' = playlist_songs
      BY <2>6 DEF CheckSong, dbVars
    <3> QED
      BY <2>3, <2>4, <2>6, <3>1, <3>2, Zenon DEF CheckSong, CountSong
  <2>7. CASE InsertSong(t)
    <3>1. CASE /\ playlist_songs' = [playlist_songs EXCEPT ![i][s] = @ + 1]
               /\ ReturnBool(t, TRUE)
      <4>1. playlist_songs'[i][s] = playlist_songs[i][s] + 1
        BY <2>1, <3>1 DEF TableInv
      <4>2. playlist_songs'[i][s] > 0
        BY <2>n, <4>1
      <4> QED
        BY <2>4, <3>1, <4>2
    <3>2. CASE /\ ~(playlists[i] # Null /\ playlist_songs[i][s] = 0)
               /\ ReturnBool(t, FALSE) /\ UNCHANGED <<playlists, playlist_songs>>
      <4>1. playlists'[i] = Null \/ playlist_songs'[i][s] > 0
        BY <2>n, <3>2
      <4> QED
        BY <2>5, <3>2, <4>1
    <3> QED
      BY <2>3, <2>7, <3>1, <3>2, Zenon DEF InsertSong, KeyIsFree
  <2> QED
    BY <2>2, <2>6, <2>7
<1>2. ASSUME Inv, [Next]_vars
      PROVE  [\A t \in Threads : Ends(t, "addSongToPlaylist") =>
                LET r == result'
                    There == playlist_songs'[call[t].id][call[t].song] > 0
                IN  /\ r.value.ok => There
                    /\ ~r.value.ok /\ ~r.fault =>
                         playlists'[call[t].id] = Null \/ There]_vars
  BY <1>1, <1>2, Zenon
<1> QED
  BY <1>2, Invariance, PTL DEF Spec, AddVerdict

(* NoResurrection: no update on its way and no new id brings a deleted     *)
(* playlist back.                                                          *)
THEOREM DeletedStaysDeleted == Spec => NoResurrection
<1>1. ASSUME Inv, [Next]_vars, NEW j \in Ids, j < nextId, playlists[j] = Null
      PROVE  playlists'[j] = Null
  <2> USE <1>1
  <2>t. TableInv /\ CallInv
    BY DEF Inv
  <2>0. CASE UNCHANGED playlists
    BY <2>0
  <2>1. ASSUME NEW t \in Threads, InsertPlaylist(t)
        PROVE  playlists'[j] = Null
    <3>1. \/ playlists' = playlists
          \/ \E row : playlists' = [playlists EXCEPT ![nextId] = row]
      BY <2>1, Zenon DEF InsertPlaylist, dbVars
    <3>2. j # nextId
      BY <2>t DEF TableInv, Ids
    <3> QED
      BY <2>t, <3>1, <3>2 DEF TableInv
  <2>2. ASSUME NEW t \in Threads, UpdatePlaylist(t)
        PROVE  playlists'[j] = Null
    <3>1. \/ playlists' = playlists
          \/ playlists' = [playlists EXCEPT ![call[t].id] = UpdatedRow(call[t].id, call[t].info)]
      BY <2>2, Zenon DEF UpdatePlaylist
    <3>2. UpdatedRow(j, call[t].info) = Null
      BY Zenon DEF UpdatedRow
    <3> QED
      BY <2>t, <3>1, <3>2 DEF TableInv
  <2>3. ASSUME NEW t \in Threads, DeletePlaylist(t)
        PROVE  playlists'[j] = Null
    <3>1. \/ playlists' = playlists
          \/ playlists' = [playlists EXCEPT ![call[t].id] = Null]
      BY <2>3, Zenon DEF DeletePlaylist
    <3> QED
      BY <2>t, <3>1 DEF TableInv
  <2>4. ASSUME NEW t \in Threads,
               \/ Call(t) \/ LastInsertId(t) \/ CheckSong(t) \/ InsertSong(t)
               \/ RemoveSong(t) \/ Select(t)
        PROVE  UNCHANGED playlists
    BY <2>4, Zenon DEF Call, LastInsertId, CheckSong, InsertSong, RemoveSong, Select, dbVars
  <2>5. CASE UNCHANGED vars
    BY <2>0, <2>5 DEF vars, dbVars
  <2> QED
    BY <2>0, <2>1, <2>2, <2>3, <2>4, <2>5 DEF Next
<1>2. ASSUME Inv, [Next]_vars
      PROVE  [\A i \in Ids : i < nextId /\ playlists[i] = Null => playlists'[i] = Null]_vars
  BY <1>1, <1>2, Zenon
<1> QED
  BY <1>2, Invariance, PTL DEF Spec, NoResurrection
=============================================================================
