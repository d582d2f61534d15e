--------------------------- MODULE PlayHistoryDAO ---------------------------
(***************************************************************************)
(* database/PlayHistoryDAO.cpp on the table play_history of                *)
(* sql/MusicPlayer.sql, called from several threads at once.  The table    *)
(* outlives the process, so that the calls may find any rows in it.        *)
(***************************************************************************)
EXTENDS DaoCall, Sequences, Functions, FiniteSetsExt

CONSTANTS
  Users,
  Songs,     \* records [song_id, where, singer]
  MaxRows,   \* bound: rows of the table
  MaxCount,  \* bound: plays of a row
  MaxLimit   \* bound: limits, offsets and days in a call

Ids == 1 .. MaxRows

ASSUME HistoryAssumption ==
  /\ MaxRows \in Nat /\ MaxCount \in Nat /\ MaxLimit \in Nat
  /\ \A s \in Songs : DOMAIN s = {"song_id", "where", "singer"}

VARIABLES
  play_history,  \* play_history[i]: the row with id i, or Null
  found,         \* found[t]: id and song_count an addPlayHistory read, or Null
  owed,          \* history: owed[i], song_count of row i if no play were lost
  clash          \* history: rows that two calls incremented at the same time

vars == <<callVars, play_history, found, owed, clash>>

Rows == [user_id : Users, song : Songs, song_count : 0 .. MaxCount]

(* played_at is set when a row is inserted, like its id, and never again:  *)
(* the rows are from successive days, the last one from today.             *)
DaysAgo(i) == MaxRows - i

(* Any rows may be in the table when the server starts. *)
Init ==
  /\ CallInit
  /\ play_history \in [Ids -> Rows \cup {Null}]
  /\ found = [t \in Threads |-> Null]
  /\ owed = [i \in Ids |-> IF play_history[i] = Null THEN 0 ELSE play_history[i].song_count]
  /\ clash = {}

-----------------------------------------------------------------------------
(* The operations *)

Calls ==
  [op : {"addPlayHistory"}, user_id : Users, song : Songs]
    \cup [op : {"getUserPlayHistory"}, user_id : Users, limit : 1 .. MaxLimit, offset : 0 .. MaxLimit]
    \cup [op : {"clearUserPlayHistory", "getUserTotalPlayCount"}, user_id : Users]
    \cup [op : {"deletePlayHistory"}, id : Ids, user_id : Users]
    \cup [op : {"getUserRecentPlayCount"}, user_id : Users, days : 0 .. MaxLimit]
    \cup [op : {"getUserTopArtists", "getUserTopSongs", "getMostPlayedSongs"},
          user_id : Users, limit : 1 .. MaxLimit]

(* What the first statement of addPlayHistory reads. *)
Reads == [id : Ids, song_count : 0 .. MaxCount]

ASSUME NullAssumption == Null \notin Rows \cup Calls \cup Reads

Adding == {t \in Threads : Running(t, "addPlayHistory")}

WithinBound ==
  \A i \in Ids : play_history[i] # Null =>
     owed[i] + Cardinality(Adding) < MaxCount

Call(t) ==
  /\ \E c \in Calls :
       /\ c.op = "addPlayHistory" => WithinBound
       /\ Begin(t, c, IF c.op = "addPlayHistory" THEN "check" ELSE "execute")
  /\ UNCHANGED <<play_history, found, owed, clash>>

Of(user_id) ==
  {i \in Ids : play_history[i] # Null /\ play_history[i].user_id = user_id}

(* SELECT id, song_count WHERE user_id AND song_id: song_where is not      *)
(* compared, and of several rows the first one returned is taken.          *)
CheckHistory(t) ==
  LET Matches == {i \in Of(call[t].user_id) :
                    play_history[i].song.song_id = call[t].song.song_id}
  IN  /\ pc[t] = "check"
      /\ \/ \E i \in Matches :
              /\ found' = [found EXCEPT ![t] =
                             [id |-> i, song_count |-> play_history[i].song_count]]
              /\ clash' = IF \E u \in Threads : found[u] # Null /\ found[u].id = i
                          THEN clash \cup {i} ELSE clash
              /\ Then(t, "update")
         \/ Matches = {} /\ Then(t, "insert") /\ UNCHANGED <<found, clash>>
         \/ CatchFalse(t) /\ UNCHANGED <<found, clash>>
      /\ UNCHANGED <<play_history, owed>>

(* Mutant: the rows of the user and the song are updated, not the one      *)
(* that was read.                                                          *)
TargetBySong(t) ==
  {i \in Of(call[t].user_id) : play_history[i].song.song_id = call[t].song.song_id}

(* UPDATE play_history ... WHERE id = ?. *)
Target(t) == {found[t].id}

(* SET song_count = the value read, plus one. *)
Counted(i, t) ==
  IF play_history[i] = Null THEN Null
  ELSE [play_history[i] EXCEPT !.song_count = found[t].song_count + 1]

(* executeUpdate() > 0: of a row that has this count already, MySQL        *)
(* reports the one or the other, depending on the client flags.            *)
UpdateCount(t) ==
  /\ pc[t] = "update"
  /\ \/ /\ play_history' = [i \in Ids |->
             IF i \in Target(t) THEN Counted(i, t) ELSE play_history[i]]
        /\ owed' = [owed EXCEPT ![found[t].id] = @ + 1]
        /\ \/ ReturnBool(t, play_history[found[t].id] # Null)
           \/ play_history' = play_history /\ ReturnBool(t, FALSE)
           \/ CatchFalse(t)
     \/ CatchFalse(t) /\ UNCHANGED <<play_history, owed>>
  /\ found' = [found EXCEPT ![t] = Null]
  /\ UNCHANGED clash

(* The INSERT names seven columns and gives six values: MySQL refuses it   *)
(* when it is prepared, and the exception is answered with false.          *)
InsertHistory(t) ==
  /\ pc[t] = "insert"
  /\ ReturnBool(t, FALSE) \/ CatchFalse(t)
  /\ UNCHANGED <<play_history, found, owed, clash>>

(* Mutant: DELETE FROM play_history WHERE id = ?. *)
DeletedById(c) == {i \in Ids : i = c.id /\ play_history[i] # Null}

(* deletePlayHistory: WHERE id = ? AND user_id = ?. *)
Deleted(c) == Of(c.user_id) \cap {c.id}

(* clearUserPlayHistory and deletePlayHistory. *)
Delete(t) ==
  LET gone == IF Running(t, "clearUserPlayHistory") THEN Of(call[t].user_id)
              ELSE Deleted(call[t])
  IN  /\ Running(t, "clearUserPlayHistory") \/ Running(t, "deletePlayHistory")
      /\ \/ /\ play_history' = [i \in Ids |-> IF i \in gone THEN Null ELSE play_history[i]]
            /\ ReturnBool(t, gone # {}) \/ CatchFalse(t)
         \/ CatchFalse(t) /\ UNCHANGED play_history
      /\ UNCHANGED <<found, owed, clash>>

-----------------------------------------------------------------------------
(* The queries.  A SELECT with LIMIT answers a sequence of rows; rows that *)
(* are equal under ORDER BY come in any order.                             *)

(* Mutant: ORDER BY ... ASC. *)
Ascending(S, key) ==
  {s \in Bijection(1 .. Cardinality(S), S) :
     \A m, n \in DOMAIN s : m < n => key[s[m]] <= key[s[n]]}

(* The sequences of the elements of S with descending keys. *)
Descending(S, key) ==
  {s \in Bijection(1 .. Cardinality(S), S) :
     \A m, n \in DOMAIN s : m < n => key[s[m]] >= key[s[n]]}

Page(s, limit, offset) ==
  [n \in 1 .. Min({limit, Max({Len(s) - offset, 0})}) |-> s[n + offset]]

Plays(S) == MapThenSumSet(LAMBDA i : play_history[i].song_count, S)

SingersOf(u) == {play_history[i].song.singer : i \in Of(u)}

PlaysOf(u) ==
  [a \in SingersOf(u) |-> Plays({i \in Of(u) : play_history[i].song.singer = a})]

ByTime(u) == Descending(Of(u), [i \in Of(u) |-> MaxRows - DaysAgo(i)])
ByCount(u) == Descending(Of(u), [i \in Of(u) |-> play_history[i].song_count])

(* What the query of call c may answer: row ids stand for the rows. *)
Answers(c) ==
  LET u == c.user_id
  IN  CASE c.op = "getUserPlayHistory" ->
             {[rows |-> Page(s, c.limit, c.offset)] : s \in ByTime(u)}
        [] c.op \in {"getUserTopSongs", "getMostPlayedSongs"} ->
             {[rows |-> Page(s, c.limit, 0)] : s \in ByCount(u)}
        [] c.op = "getUserTopArtists" ->
             {[artists |-> [n \in DOMAIN Page(s, c.limit, 0) |-> <<s[n], PlaysOf(u)[s[n]]>>]] :
                s \in Descending(SingersOf(u), PlaysOf(u))}
        [] c.op = "getUserTotalPlayCount" -> {[count |-> Cardinality(Of(u))]}
        [] c.op = "getUserRecentPlayCount" ->
             {[count |-> Cardinality({i \in Of(u) : DaysAgo(i) <= c.days})]}

(* The answers of the catch blocks. *)
Nothing ==
  [getUserPlayHistory |-> [rows |-> <<>>], getUserTopSongs |-> [rows |-> <<>>],
   getMostPlayedSongs |-> [rows |-> <<>>], getUserTopArtists |-> [artists |-> <<>>],
   getUserTotalPlayCount |-> [count |-> 0], getUserRecentPlayCount |-> [count |-> 0]]

Select(t) ==
  /\ pc[t] = "execute" /\ call[t].op \in DOMAIN Nothing
  /\ \/ \E a \in Answers(call[t]) : Return(t, a)
     \/ Catch(t, Nothing[call[t].op])
  /\ UNCHANGED <<play_history, found, owed, clash>>

-----------------------------------------------------------------------------
Next ==
  \E t \in Threads :
    \/ Call(t)
    \/ CheckHistory(t) \/ UpdateCount(t) \/ InsertHistory(t)
    \/ Delete(t) \/ Select(t)

Spec == Init /\ [][Next]_vars

-----------------------------------------------------------------------------
(* Properties *)

(* Types of the calls and of the table. *)
TypeOK ==
  /\ CallTypeOK({"execute", "check", "update", "insert"})
  /\ play_history \in [Ids -> Rows \cup {Null}]
  /\ found \in [Threads -> Reads \cup {Null}]
  /\ clash \subseteq Ids

(* Types; and song_count never exceeds the plays that were counted, and    *)
(* misses none unless two calls had read the row before either wrote it    *)
(* back: addPlayHistory reads and writes it in two statements.             *)
PlaysCounted ==
  /\ TypeOK
  /\ \A i \in Ids : play_history[i] # Null =>
       /\ play_history[i].song_count <= owed[i]
       /\ i \notin clash => play_history[i].song_count = owed[i]

(* Every change of a row comes from a call for the user it belongs to:     *)
(* deletePlayHistory takes the user "to verify the permission".  And a     *)
(* deleted or cleared row never comes back, also if a play of that song    *)
(* had read it before.                                                     *)
HistoryChanges ==
  [][\A i \in Ids : play_history'[i] # play_history[i] =>
       /\ play_history[i] # Null
       /\ \E t \in Threads : /\ pc'[t] # pc[t]
                             /\ call[t].user_id = play_history[i].user_id]_vars

(* The rankings by play count: as many rows of the user as there are up to *)
(* limit, none twice, and no row left out was played more than one shown.  *)
RankingRight ==
  [][\A t \in Threads : \A op \in {"getUserTopSongs", "getMostPlayedSongs"} :
       Ends(t, op) /\ ~result'.fault =>
         LET mine == Of(call[t].user_id)
             shown == Range(result'.value.rows)
         IN  /\ shown \subseteq mine
             /\ Cardinality(shown) = Len(result'.value.rows)
             /\ Cardinality(shown) = Min({call[t].limit, Cardinality(mine)})
             /\ \A i \in shown, j \in mine \ shown :
                   play_history[j].song_count <= play_history[i].song_count]_vars

(* "Adds a play record": a first play of a song that meets no failure is   *)
(* recorded.                                                               *)
FirstPlayRecorded ==
  [][\A t \in Threads :
       pc[t] = "insert" /\ pc'[t] = "idle" /\ ~result'.fault => result'.value.ok]_vars
=============================================================================
