------------------------- MODULE PlayHistoryDAOProofs -------------------------
(***************************************************************************)
(* Proofs, for any threads, connections, users and songs, that a play is   *)
(* lost only when two calls read a row before either wrote it, that only   *)
(* calls for its user change a row, and that the rankings are right.       *)
(***************************************************************************)
EXTENDS PlayHistoryDAO, FiniteSetTheorems, TLAPS

Statements == {"execute", "check", "update", "insert"}

(* Which call may be at a statement. *)
Fits(statement, c) ==
  /\ c \in Calls
  /\ statement = "execute" <=> c.op # "addPlayHistory"

(* The calls: their types, the statement each is at, and the promise of    *)
(* the pool that no two threads own one connection.                        *)
CallInv ==
  /\ CallTypeOK(Statements)
  /\ call \in [Threads -> Calls \cup {Null}]
  /\ \A t \in Threads : pc[t] # "idle" => Fits(pc[t], call[t])
  /\ \A t \in Threads : owner[t] \notin free
  /\ \A t, u \in Threads : owner[t] = owner[u] /\ owner[t] # NoConn => t = u

(* What a call has read of a row of its user, and not yet written back. *)
ReadInv ==
  /\ found \in [Threads -> Reads \cup {Null}]
  /\ \A t \in Threads : found[t] # Null <=> pc[t] = "update"
  /\ \A t \in Threads : found[t] # Null /\ play_history[found[t].id] # Null =>
       play_history[found[t].id].user_id = call[t].user_id

(* A row that no two calls have read at once has the count its reader      *)
(* read; the count of any row is at most what it should be.                *)
CountInv ==
  /\ play_history \in [Ids -> Rows \cup {Null}]
  /\ owed \in [Ids -> Nat]
  /\ clash \subseteq Ids
  /\ \A i \in Ids : play_history[i] # Null =>
       /\ play_history[i].song_count <= owed[i]
       /\ i \notin clash => play_history[i].song_count = owed[i]
  /\ \A t \in Threads : found[t] # Null /\ play_history[found[t].id] # Null =>
       /\ found[t].song_count <= owed[found[t].id]
       /\ found[t].id \notin clash => found[t].song_count = owed[found[t].id]
  /\ \A t, u \in Threads : found[t] # Null /\ found[u] # Null
       /\ found[t].id = found[u].id /\ found[t].id \notin clash => t = u

(* The calls under way cannot take a row beyond the bound. *)
BoundInv ==
  \A i \in Ids : play_history[i] # Null => owed[i] + Cardinality(Adding) <= MaxCount

Inv == CallInv /\ ReadInv /\ CountInv /\ BoundInv

-----------------------------------------------------------------------------
(* The arguments of each operation have their types. *)
LEMMA Arguments ==
  ASSUME NEW c \in Calls
  PROVE  /\ c.user_id \in Users
         /\ c.op = "addPlayHistory" => c.song \in Songs
         /\ c.op = "deletePlayHistory" => c.id \in Ids
         /\ c.op \in {"getUserTopSongs", "getMostPlayedSongs"} => c.limit \in 1 .. MaxLimit
  BY DEF Calls

(* The other threads' calls are as they were. *)
OthersWait(t) ==
  \A u \in Threads \ {t} : pc'[u] = pc[u] /\ call'[u] = call[u]

(* A call begins: its guard takes a connection that nobody else has. *)
LEMMA BeginEffect ==
  ASSUME CallInv, NEW t \in Threads, NEW c, NEW s \in Statements, Fits(s, c),
         Begin(t, c, s)
  PROVE  CallInv' /\ OthersWait(t) /\ pc[t] = "idle" /\ pc'[t] = s /\ call'[t] = c
  BY PoolIsLargeEnough, NullAssumption
     DEF CallInv, CallTypeOK, PoolTypeOK, Begin, Acquire, OthersWait, Fits, Statements

(* A call goes on to its next statement, on the same connection. *)
LEMMA ThenEffect ==
  ASSUME CallInv, NEW t \in Threads, NEW s \in Statements, Fits(s, call[t]),
         pc[t] # "idle", Then(t, s)
  PROVE  CallInv' /\ OthersWait(t) /\ pc'[t] = s /\ call' = call
  BY DEF CallInv, CallTypeOK, PoolTypeOK, Then, OthersWait, poolVars, Fits, Statements

(* A call ends: the connection goes back, the value is the answer. *)
LEMMA AnswerEffect ==
  ASSUME CallInv, NEW t \in Threads, NEW value, NEW fault,
         pc[t] # "idle", Answer(t, value, fault)
  PROVE  /\ CallInv' /\ OthersWait(t) /\ pc'[t] = "idle"
         /\ result'.value = value /\ result'.fault = fault
<1>1. result' = [value |-> value, fault |-> fault]
  BY DEF Answer
<1>2. /\ result'.value = value /\ result'.fault = fault
      /\ DOMAIN result' = {"value", "fault"}
  BY <1>1
<1>3. /\ owner[t] # NoConn /\ free' = free \cup {owner[t]}
      /\ owner' = [owner EXCEPT ![t] = NoConn]
      /\ pc' = [pc EXCEPT ![t] = "idle"]
      /\ call' = [call EXCEPT ![t] = Null]
  BY DEF Answer, Release
<1>4. \A u \in Threads : owner'[u] \notin free'
  BY <1>3, PoolIsLargeEnough DEF CallInv, CallTypeOK, PoolTypeOK
<1> QED
  BY <1>2, <1>3, <1>4, PoolIsLargeEnough
     DEF CallInv, CallTypeOK, PoolTypeOK, OthersWait, Fits, Statements

(* The statement a call is at. *)
LEMMA AtStatement ==
  ASSUME CallInv, NEW t \in Threads, pc[t] # "idle"
  PROVE  /\ pc[t] \in Statements /\ Fits(pc[t], call[t]) /\ call[t] \in Calls
         /\ pc[t] # "execute" <=> t \in Adding
  BY DEF CallInv, CallTypeOK, Fits, Adding, Running

(* The numbers of threads the bound counts. *)
LEMMA AddingFinite ==
  ASSUME NEW S, S \subseteq Threads
  PROVE  IsFiniteSet(S) /\ Cardinality(S) \in Nat
  BY PoolIsLargeEnough, FS_Subset, FS_CardinalityType

(* Rows are kept or deleted, none is changed. *)
Shrinks == \A i \in Ids : play_history'[i] \in {play_history[i], Null}

(* A step of a thread that has read no row keeps what is known of those    *)
(* that others have read.                                                  *)
LEMMA QuietStep ==
  ASSUME ReadInv, CountInv, NEW t \in Threads, OthersWait(t),
         pc[t] # "update", pc'[t] # "update",
         play_history' \in [Ids -> Rows \cup {Null}], Shrinks,
         UNCHANGED <<found, owed, clash>>
  PROVE  ReadInv' /\ CountInv'
<1>1. \A u \in Threads : found[u] # Null => found[u].id \in Ids
  BY DEF ReadInv, Reads
<1>2. ReadInv'
  BY <1>1 DEF ReadInv, OthersWait, Shrinks
<1>3. CountInv'
  BY <1>1 DEF CountInv, Shrinks
<1> QED
  BY <1>2, <1>3

(* Fewer calls and fewer rows are within the bound. *)
LEMMA FewerAdding ==
  ASSUME CountInv, BoundInv, Adding' \subseteq Adding, Shrinks, UNCHANGED owed
  PROVE  BoundInv'
<1>1. Adding \subseteq Threads
  BY DEF Adding
<1>2. /\ Cardinality(Adding) \in Nat /\ Cardinality(Adding') \in Nat
      /\ Cardinality(Adding') <= Cardinality(Adding)
  BY <1>1, AddingFinite, FS_Subset
<1> QED
  BY <1>2, HistoryAssumption DEF BoundInv, CountInv, Shrinks

(* The call that ends, or goes on, adds nobody to the calls under way. *)
LEMMA NobodyAdded ==
  ASSUME NEW t \in Threads, OthersWait(t),
         pc'[t] = "idle" \/ (t \in Adding /\ call'[t] = call[t])
  PROVE  /\ Adding' \subseteq Adding
         /\ pc'[t] = "idle" => Adding' \subseteq Adding \ {t}
  BY DEF Adding, Running, OthersWait

(* A row with another count is a row of the same user. *)
LEMMA NewCount ==
  ASSUME NEW r \in Rows, NEW n \in 0 .. MaxCount
  PROVE  \E new \in Rows : /\ new = [r EXCEPT !.song_count = n]
                           /\ new.user_id = r.user_id /\ new.song_count = n
<1>1. /\ [r EXCEPT !.song_count = n] \in Rows
      /\ [r EXCEPT !.song_count = n].user_id = r.user_id
      /\ [r EXCEPT !.song_count = n].song_count = n
  BY DEF Rows
<1> QED
  BY <1>1, Zenon

(* Every step of every call keeps the invariant. *)
LEMMA Inductive == Inv /\ [Next]_vars => Inv'
<1> SUFFICES ASSUME Inv, [Next]_vars
             PROVE  Inv'
  OBVIOUS
<1>i. CallInv /\ ReadInv /\ CountInv /\ BoundInv
  BY DEF Inv
<1>s. play_history' = play_history => Shrinks /\ play_history' \in [Ids -> Rows \cup {Null}]
  BY <1>i DEF Shrinks, CountInv
<1>1. CASE UNCHANGED vars
  <2>1. UNCHANGED <<free, owner, pc, call, result, play_history, found, owed, clash>>
    BY <1>1 DEF vars, callVars, poolVars
  <2>2. CallInv'
    BY <1>i, <2>1 DEF CallInv, CallTypeOK, PoolTypeOK
  <2>3. ReadInv' /\ CountInv'
    BY <1>i, <2>1 DEF ReadInv, CountInv
  <2>4. BoundInv'
    BY <1>i, <2>1 DEF BoundInv, Adding, Running
  <2> QED
    BY <2>2, <2>3, <2>4 DEF Inv
<1>2. ASSUME NEW t \in Threads, Call(t)
      PROVE  Inv'
  <2>1. PICK c \in Calls :
          /\ c.op = "addPlayHistory" => WithinBound
          /\ Begin(t, c, IF c.op = "addPlayHistory" THEN "check" ELSE "execute")
    BY <1>2 DEF Call
  <2>2. PICK s \in {"check", "execute"} : Begin(t, c, s) /\ Fits(s, c)
    BY <2>1 DEF Fits
  <2>3. CallInv' /\ OthersWait(t) /\ pc[t] = "idle" /\ pc'[t] = s /\ call'[t] = c
    BY <1>i, <2>2, BeginEffect DEF Statements
  <2>4. UNCHANGED <<play_history, found, owed, clash>>
    BY <1>2 DEF Call
  <2>5. ReadInv' /\ CountInv'
    BY <1>i, <1>s, <2>3, <2>4, QuietStep
  <2>6. BoundInv'
    <3>1. CASE c.op # "addPlayHistory"
      <4>1. Adding' \subseteq Adding
        BY <2>3, <3>1 DEF Adding, Running, OthersWait
      <4> QED
        BY <1>i, <1>s, <2>4, <4>1, FewerAdding
    <3>2. CASE c.op = "addPlayHistory"
      <4>1. Adding' = Adding \cup {t} /\ t \notin Adding /\ Adding \subseteq Threads
        BY <2>3, <3>2 DEF Adding, Running, OthersWait
      <4>2. Cardinality(Adding) \in Nat /\ Cardinality(Adding') = Cardinality(Adding) + 1
        BY <4>1, AddingFinite, FS_AddElement
      <4> QED
        BY <1>i, <2>1, <2>4, <3>2, <4>2, HistoryAssumption DEF BoundInv, WithinBound, CountInv
    <3> QED
      BY <3>1, <3>2
  <2> QED
    BY <2>3, <2>5, <2>6 DEF Inv
<1>3. ASSUME NEW t \in Threads, CheckHistory(t)
      PROVE  Inv'
  <2>1. pc[t] = "check" /\ UNCHANGED <<play_history, owed>>
    BY <1>3 DEF CheckHistory
  <2>2. /\ Fits("update", call[t]) /\ Fits("insert", call[t]) /\ t \in Adding
        /\ found[t] = Null
    BY <1>i, <2>1, AtStatement DEF Fits, ReadInv
  <2>3. CASE /\ Then(t, "insert") \/ CatchFalse(t)
             /\ UNCHANGED <<found, clash>>
    <3>1. /\ CallInv' /\ OthersWait(t) /\ pc'[t] # "update"
          /\ pc'[t] = "idle" \/ call'[t] = call[t]
      BY <1>i, <2>1, <2>2, <2>3, ThenEffect, AnswerEffect DEF CatchFalse, Catch, Statements
    <3>2. ReadInv' /\ CountInv'
      BY <1>i, <1>s, <2>1, <2>3, <3>1, QuietStep
    <3>3. BoundInv'
      BY <1>i, <1>s, <2>1, <2>2, <3>1, NobodyAdded, FewerAdding
    <3> QED
      BY <3>1, <3>2, <3>3 DEF Inv
  <2>4. ASSUME NEW i \in Of(call[t].user_id),
               found' = [found EXCEPT ![t] =
                           [id |-> i, song_count |-> play_history[i].song_count]],
               clash' = IF \E u \in Threads : found[u] # Null /\ found[u].id = i
                        THEN clash \cup {i} ELSE clash,
               Then(t, "update")
        PROVE  Inv'
    <3>1. CallInv' /\ OthersWait(t) /\ pc'[t] = "update" /\ call' = call
      BY <1>i, <2>1, <2>2, <2>4, ThenEffect DEF Statements
    <3>2. i \in Ids /\ play_history[i] # Null /\ play_history[i].user_id = call[t].user_id
      BY <2>4 DEF Of
    <3>3. play_history[i].song_count \in 0 .. MaxCount
      BY <1>i, <3>2 DEF CountInv, Rows
    <3>4. PICK f \in Reads :
            /\ f = [id |-> i, song_count |-> play_history[i].song_count]
            /\ f.id = i /\ f.song_count = play_history[i].song_count
      <4>1. PICK n \in 0 .. MaxCount : n = play_history[i].song_count
        BY <3>3
      <4>2. [id |-> i, song_count |-> n] \in Reads
        BY <3>2 DEF Reads
      <4> QED
        BY <4>1, <4>2
    <3>5. found' = [found EXCEPT ![t] = f]
      BY <2>4, <3>4
    <3>6. /\ found' \in [Threads -> Reads \cup {Null}] /\ found'[t] = f /\ f # Null
          /\ \A u \in Threads \ {t} : found'[u] = found[u]
      BY <1>i, <3>5, NullAssumption DEF ReadInv
    <3>7. ReadInv'
      BY <1>i, <2>1, <3>1, <3>2, <3>4, <3>6 DEF ReadInv, OthersWait
    <3>8. /\ clash \subseteq clash' /\ clash' \subseteq clash \cup {i}
          /\ \A u \in Threads \ {t} : found[u] # Null /\ found[u].id = i => i \in clash'
      BY <2>4
    <3>9. CountInv'
      BY <1>i, <2>1, <3>2, <3>4, <3>6, <3>8 DEF CountInv
    <3>10. BoundInv'
      BY <1>i, <1>s, <2>1, <2>2, <3>1, NobodyAdded, FewerAdding
    <3> QED
      BY <3>1, <3>7, <3>9, <3>10 DEF Inv
  <2> QED
    BY <1>3, <2>3, <2>4 DEF CheckHistory
<1>4. ASSUME NEW t \in Threads, UpdateCount(t)
      PROVE  Inv'
  <2>1. /\ pc[t] = "update" /\ found' = [found EXCEPT ![t] = Null] /\ UNCHANGED clash
    BY <1>4 DEF UpdateCount
  <2>2. t \in Adding /\ found[t] # Null /\ found[t] \in Reads
    BY <1>i, <2>1, AtStatement DEF ReadInv
  <2>3. PICK j \in Ids, n \in 0 .. MaxCount : j = found[t].id /\ n = found[t].song_count
    BY <2>2 DEF Reads
  <2>4. CallInv' /\ OthersWait(t) /\ pc'[t] = "idle"
    <3>1. \E value, fault : Answer(t, value, fault)
      BY <1>4, Zenon DEF UpdateCount, ReturnBool, Return, CatchFalse, Catch
    <3> QED
      BY <1>i, <2>1, <3>1, AnswerEffect
  <2>5. /\ found' \in [Threads -> Reads \cup {Null}] /\ found'[t] = Null
        /\ \A u \in Threads \ {t} : found'[u] = found[u]
    BY <1>i, <2>1 DEF ReadInv
  <2>6. \A u \in Threads : found[u] # Null => found[u].id \in Ids
    BY <1>i DEF ReadInv, Reads
  <2>7. Adding \subseteq Threads /\ Adding' \subseteq Adding \ {t}
    BY <2>2, <2>4, NobodyAdded DEF Adding
  <2>8. /\ Cardinality(Adding) \in Nat /\ Cardinality(Adding') \in Nat
        /\ Cardinality(Adding') <= Cardinality(Adding) - 1
    <3>1. /\ IsFiniteSet(Adding) /\ Cardinality(Adding) \in Nat
          /\ Cardinality(Adding') \in Nat
      BY <2>7, AddingFinite
    <3>2. IsFiniteSet(Adding \ {t}) /\ Cardinality(Adding \ {t}) = Cardinality(Adding) - 1
      BY <2>2, <3>1, FS_RemoveElement
    <3>3. Cardinality(Adding') <= Cardinality(Adding \ {t})
      BY <2>7, <3>2, FS_Subset
    <3> QED
      BY <3>1, <3>2, <3>3
  <2>9. CASE UNCHANGED <<play_history, owed>>
    <3>1. ReadInv'
      BY <1>i, <2>4, <2>5, <2>9 DEF ReadInv, OthersWait
    <3>2. CountInv'
      BY <1>i, <2>1, <2>5, <2>9 DEF CountInv
    <3>3. BoundInv'
      BY <1>i, <1>s, <2>7, <2>9, FewerAdding
    <3> QED
      BY <2>4, <3>1, <3>2, <3>3 DEF Inv
  <2>10. CASE /\ play_history' = [i \in Ids |->
                    IF i \in Target(t) THEN Counted(i, t) ELSE play_history[i]]
              /\ owed' = [owed EXCEPT ![found[t].id] = @ + 1]
    <3>1. PICK new \in Rows \cup {Null} :
            /\ new = Counted(j, t) /\ (new = Null <=> play_history[j] = Null)
            /\ new # Null => /\ new.user_id = play_history[j].user_id
                             /\ new.song_count = n + 1
      <4>1. CASE play_history[j] = Null
        <5>1. Counted(j, t) = Null
          BY <4>1, Zenon DEF Counted
        <5> QED
          BY <4>1, <5>1
      <4>2. CASE play_history[j] # Null
        <5>1. n + 1 \in 0 .. MaxCount
          BY <1>i, <2>2, <2>3, <2>8, <4>2, HistoryAssumption DEF BoundInv, CountInv
        <5>2. play_history[j] \in Rows
          BY <1>i, <4>2 DEF CountInv
        <5>3. \E new \in Rows : /\ new = [play_history[j] EXCEPT !.song_count = n + 1]
                                /\ new.user_id = play_history[j].user_id
                                /\ new.song_count = n + 1
          BY <5>1, <5>2, NewCount
        <5> QED
          BY <2>3, <4>2, <5>3, NullAssumption, Zenon DEF Counted
      <4> QED
        BY <4>1, <4>2
    <3>2. /\ play_history' \in [Ids -> Rows \cup {Null}]
          /\ \A i \in Ids : play_history'[i] = IF i = j THEN new ELSE play_history[i]
      <4>1. play_history' = [i \in Ids |-> IF i = j THEN new ELSE play_history[i]]
        <5>1. \A i \in Ids : i \in Target(t) <=> i = j
          BY <2>3 DEF Target
        <5>2. \A i \in Ids : (IF i \in Target(t) THEN Counted(i, t) ELSE play_history[i])
                              = IF i = j THEN new ELSE play_history[i]
          BY <3>1, <5>1
        <5> QED
          BY <2>10, <5>2, Zenon
      <4> QED
        BY <1>i, <4>1 DEF CountInv
    <3>3. /\ owed' \in [Ids -> Nat]
          /\ \A i \in Ids : owed'[i] = IF i = j THEN owed[i] + 1 ELSE owed[i]
      BY <1>i, <2>3, <2>10 DEF CountInv
    <3>4. ReadInv'
      BY <1>i, <2>4, <2>5, <2>6, <3>1, <3>2 DEF ReadInv, OthersWait
    <3>5. CountInv'
      <4>1. \A i \in Ids : play_history'[i] # Null =>
              /\ play_history'[i].song_count <= owed'[i]
              /\ i \notin clash => play_history'[i].song_count = owed'[i]
        BY <1>i, <2>2, <2>3, <3>1, <3>2, <3>3 DEF CountInv
      <4>2. \A u \in Threads : found'[u] # Null /\ play_history'[found'[u].id] # Null =>
              /\ found'[u].song_count <= owed'[found'[u].id]
              /\ found'[u].id \notin clash => found'[u].song_count = owed'[found'[u].id]
        <5> SUFFICES ASSUME NEW u \in Threads, found'[u] # Null,
                            play_history'[found'[u].id] # Null
                     PROVE  /\ found'[u].song_count <= owed'[found'[u].id]
                            /\ found'[u].id \notin clash =>
                                 found'[u].song_count = owed'[found'[u].id]
          OBVIOUS
        <5>1. u # t /\ found'[u] = found[u] /\ found[u] \in Reads /\ found[u].id \in Ids
          BY <1>i, <2>5, <2>6 DEF ReadInv
        <5>2. PICK k \in Ids, m \in 0 .. MaxCount : k = found[u].id /\ m = found[u].song_count
          BY <5>1 DEF Reads
        <5>3. play_history[k] # Null
          BY <3>1, <3>2, <5>1, <5>2
        <5>4. m <= owed[k] /\ (k \notin clash => m = owed[k])
          BY <1>i, <5>1, <5>2, <5>3 DEF CountInv
        <5>5. k = j => k \in clash
          BY <1>i, <2>2, <2>3, <5>1, <5>2 DEF CountInv
        <5>6. owed[k] \in Nat
          BY <1>i DEF CountInv
        <5> QED
          BY <3>3, <5>1, <5>2, <5>4, <5>5, <5>6
      <4> QED
        BY <1>i, <2>1, <2>5, <3>2, <3>3, <4>1, <4>2 DEF CountInv
    <3>6. BoundInv'
      BY <1>i, <2>8, <3>1, <3>2, <3>3, HistoryAssumption DEF BoundInv, CountInv
    <3> QED
      BY <2>4, <3>4, <3>5, <3>6 DEF Inv
  <2> QED
    BY <1>4, <2>9, <2>10, Zenon DEF UpdateCount
<1>5. ASSUME NEW t \in Threads, InsertHistory(t)
      PROVE  Inv'
  <2>1. pc[t] = "insert" /\ UNCHANGED <<play_history, found, owed, clash>>
    BY <1>5 DEF InsertHistory
  <2>2. CallInv' /\ OthersWait(t) /\ pc'[t] = "idle"
    BY <1>5, <1>i, <2>1, AnswerEffect DEF InsertHistory, ReturnBool, Return, CatchFalse, Catch
  <2>3. ReadInv' /\ CountInv'
    BY <1>i, <1>s, <2>1, <2>2, QuietStep
  <2>4. BoundInv'
    BY <1>i, <1>s, <2>1, <2>2, NobodyAdded, FewerAdding
  <2> QED
    BY <2>2, <2>3, <2>4 DEF Inv
<1>6. ASSUME NEW t \in Threads, Delete(t)
      PROVE  Inv'
  <2>1. /\ pc[t] # "idle" /\ call[t].op # "addPlayHistory"
        /\ UNCHANGED <<found, owed, clash>>
    BY <1>6 DEF Delete, Running
  <2>2. pc[t] # "update"
    BY <1>i, <2>1, AtStatement DEF Fits
  <2>3. CallInv' /\ OthersWait(t) /\ pc'[t] = "idle"
    <3>1. \E value, fault : Answer(t, value, fault)
      BY <1>6, Zenon DEF Delete, ReturnBool, Return, CatchFalse, Catch
    <3> QED
      BY <1>i, <2>1, <3>1, AnswerEffect
  <2>4. play_history' = play_history
        \/ \E gone : play_history' = [i \in Ids |-> IF i \in gone THEN Null ELSE play_history[i]]
    BY <1>6, Zenon DEF Delete
  <2>5. play_history' \in [Ids -> Rows \cup {Null}] /\ Shrinks
    BY <1>i, <2>4 DEF CountInv, Shrinks
  <2>6. ReadInv' /\ CountInv'
    BY <1>i, <2>1, <2>2, <2>3, <2>5, QuietStep
  <2>7. BoundInv'
    BY <1>i, <2>1, <2>3, <2>5, NobodyAdded, FewerAdding
  <2> QED
    BY <2>3, <2>6, <2>7 DEF Inv
<1>7. ASSUME NEW t \in Threads, Select(t)
      PROVE  Inv'
  <2>1. pc[t] = "execute" /\ UNCHANGED <<play_history, found, owed, clash>>
    BY <1>7 DEF Select
  <2>2. CallInv' /\ OthersWait(t) /\ pc'[t] = "idle"
    <3>1. \E value, fault : Answer(t, value, fault)
      BY <1>7, Zenon DEF Select, Return, Catch
    <3> QED
      BY <1>i, <2>1, <3>1, AnswerEffect
  <2>3. ReadInv' /\ CountInv'
    BY <1>i, <1>s, <2>1, <2>2, QuietStep
  <2>4. BoundInv'
    BY <1>i, <1>s, <2>1, <2>2, NobodyAdded, FewerAdding
  <2> QED
    BY <2>2, <2>3, <2>4 DEF Inv
<1> QED
  BY <1>1, <1>2, <1>3, <1>4, <1>5, <1>6, <1>7 DEF Next

LEMMA Invariance == Spec => []Inv
<1>1. Init => Inv
  <2> SUFFICES ASSUME Init
               PROVE  Inv
    OBVIOUS
  <2>1. CallInv
    BY PoolIsLargeEnough DEF Init, CallInit, CallInv, CallTypeOK, PoolTypeOK, Statements
  <2>2. ReadInv
    BY DEF Init, CallInit, ReadInv
  <2>3. CountInv
    BY HistoryAssumption DEF Init, CountInv, Rows
  <2>4. BoundInv
    <3>1. Adding = {}
      BY DEF Init, CallInit, Adding, Running
    <3>2. Cardinality(Adding) = 0
      BY <3>1, FS_EmptySet
    <3>3. \A i \in Ids : play_history[i] # Null =>
            owed[i] = play_history[i].song_count /\ owed[i] \in 0 .. MaxCount
      BY DEF Init, Rows
    <3> QED
      BY <3>2, <3>3, HistoryAssumption DEF BoundInv
  <2> QED
    BY <2>1, <2>2, <2>3, <2>4 DEF Inv
<1> QED
  BY <1>1, Inductive, PTL DEF Spec

(* PlaysCounted: addPlayHistory loses a play only if two calls had read    *)
(* the row before either wrote it, and never counts one twice.             *)
THEOREM PlaysAreCounted == Spec => []PlaysCounted
<1>1. Inv => PlaysCounted
  BY DEF Inv, CallInv, ReadInv, CountInv, PlaysCounted, TypeOK, Statements
<1> QED
  BY <1>1, Invariance, PTL

-----------------------------------------------------------------------------
(* HistoryChanges: a row changes only in a call for the user it belongs    *)
(* to, and a deleted row does not come back, although addPlayHistory may   *)
(* write a row it read before the deletion.                                *)
THEOREM OnlyOwnHistoryChanges == Spec => HistoryChanges
<1>1. ASSUME Inv, [Next]_vars, NEW i \in Ids, play_history'[i] # play_history[i]
      PROVE  /\ play_history[i] # Null
             /\ \E t \in Threads : /\ pc'[t] # pc[t]
                                   /\ call[t].user_id = play_history[i].user_id
  <2>1. CallInv /\ ReadInv /\ CountInv
    BY <1>1 DEF Inv
  <2>2. ASSUME NEW t \in Threads, UpdateCount(t)
        PROVE  /\ play_history[i] # Null /\ pc'[t] # pc[t]
               /\ call[t].user_id = play_history[i].user_id
    <3>1. pc[t] = "update" /\ found[t] # Null
      BY <2>1, <2>2 DEF UpdateCount, ReadInv
    <3>2. play_history' = [j \in Ids |->
                             IF j \in Target(t) THEN Counted(j, t) ELSE play_history[j]]
      BY <1>1, <2>2, Zenon DEF UpdateCount
    <3>3. play_history'[i] = IF i \in Target(t) THEN Counted(i, t) ELSE play_history[i]
      BY <3>2
    <3>4. i = found[t].id /\ play_history'[i] = Counted(i, t)
      BY <1>1, <3>3 DEF Target
    <3>5. play_history[i] # Null
      <4>1. play_history[i] = Null => Counted(i, t) = Null
        BY Zenon DEF Counted
      <4> QED
        BY <1>1, <3>4, <4>1
    <3>6. \E value, fault : Answer(t, value, fault)
      BY <2>2, Zenon DEF UpdateCount, ReturnBool, Return, CatchFalse, Catch
    <3>7. pc'[t] = "idle"
      BY <2>1, <3>1, <3>6, AnswerEffect
    <3> QED
      BY <2>1, <3>1, <3>4, <3>5, <3>7 DEF ReadInv
  <2>3. ASSUME NEW t \in Threads, Delete(t)
        PROVE  /\ play_history[i] # Null /\ pc'[t] # pc[t]
               /\ call[t].user_id = play_history[i].user_id
    <3> DEFINE gone == IF Running(t, "clearUserPlayHistory") THEN Of(call[t].user_id)
                       ELSE Deleted(call[t])
    <3>1. gone \subseteq Of(call[t].user_id)
      BY DEF Deleted
    <3>2. play_history' = [j \in Ids |-> IF j \in gone THEN Null ELSE play_history[j]]
      BY <1>1, <2>3, Zenon DEF Delete
    <3> HIDE DEF gone
    <3>3. i \in Of(call[t].user_id)
      BY <1>1, <3>1, <3>2
    <3>4. pc[t] # "idle"
      BY <2>3 DEF Delete, Running
    <3>5. \E value, fault : Answer(t, value, fault)
      BY <2>3, Zenon DEF Delete, ReturnBool, Return, CatchFalse, Catch
    <3>6. pc'[t] = "idle"
      BY <2>1, <3>4, <3>5, AnswerEffect
    <3> QED
      BY <3>3, <3>4, <3>6 DEF Of
  <2>4. \E t \in Threads : UpdateCount(t) \/ Delete(t)
    BY <1>1, Zenon
       DEF Next, Call, CheckHistory, InsertHistory, Select, vars
  <2> QED
    BY <2>2, <2>3, <2>4
<1>2. ASSUME Inv, [Next]_vars
      PROVE  [\A i \in Ids : play_history'[i] # play_history[i] =>
                /\ play_history[i] # Null
                /\ \E t \in Threads : /\ pc'[t] # pc[t]
                                      /\ call[t].user_id = play_history[i].user_id]_vars
  BY <1>1, <1>2, Zenon
<1> QED
  BY <1>2, Invariance, PTL DEF Spec, HistoryChanges

-----------------------------------------------------------------------------
(* The smaller of two numbers, and the larger. *)
LEMMA MinMax ==
  ASSUME NEW m \in Nat, NEW n \in Nat
  PROVE  /\ Min({m, n}) = IF m <= n THEN m ELSE n
         /\ Max({m, n}) = IF m <= n THEN n ELSE m
<1>1. \A x \in {m, n} : (\A y \in {m, n} : x <= y) => x = IF m <= n THEN m ELSE n
  OBVIOUS
<1>2. \E x \in {m, n} : \A y \in {m, n} : x <= y
  OBVIOUS
<1>3. \A x \in {m, n} : (\A y \in {m, n} : x >= y) => x = IF m <= n THEN n ELSE m
  OBVIOUS
<1>4. \E x \in {m, n} : \A y \in {m, n} : x >= y
  OBVIOUS
<1>5. Min({m, n}) \in {m, n} /\ \A y \in {m, n} : Min({m, n}) <= y
  BY <1>2 DEF Min
<1>6. Max({m, n}) \in {m, n} /\ \A y \in {m, n} : Max({m, n}) >= y
  BY <1>4 DEF Max
<1> QED
  BY <1>1, <1>3, <1>5, <1>6

(* A page of the elements of S with the largest keys: as many as there are *)
(* up to the limit, none twice, and none left out has a larger key.        *)
LargestFirst(page, S, key, limit) ==
  /\ Range(page) \subseteq S
  /\ Cardinality(Range(page)) = Len(page)
  /\ Cardinality(Range(page)) = Min({limit, Cardinality(S)})
  /\ \A x \in Range(page), y \in S \ Range(page) : key[y] <= key[x]

LEMMA FirstPage ==
  ASSUME NEW S, IsFiniteSet(S), NEW key, \A x \in S : key[x] \in Nat,
         NEW limit \in Nat, NEW s \in Descending(S, key)
  PROVE  LargestFirst(Page(s, limit, 0), S, key, limit)
<1> DEFINE page == Page(s, limit, 0)
<1> DEFINE N == Cardinality(S)
<1>1. N \in Nat
  BY FS_CardinalityType
<1> HIDE DEF N
<1>2. /\ s \in [1 .. N -> S]
      /\ \A m, n \in 1 .. N : s[m] = s[n] => m = n
      /\ \A x \in S : \E n \in 1 .. N : s[n] = x
      /\ \A m, n \in 1 .. N : m < n => key[s[m]] >= key[s[n]]
  BY DEF Descending, Bijection, Injection, Surjection, IsInjective, N
<1>3. Len(s) = N
  BY <1>1, <1>2
<1>4. PICK k \in Nat : k = Min({limit, N}) /\ k <= N
  BY <1>1, MinMax
<1>5. Max({Len(s) - 0, 0}) = N
  BY <1>1, <1>3, MinMax
<1>6. page = [n \in 1 .. k |-> s[n + 0]]
  BY <1>4, <1>5 DEF Page
<1> HIDE DEF page
<1>7. /\ DOMAIN page = 1 .. k /\ Len(page) = k
      /\ \A n \in 1 .. k : page[n] = s[n] /\ n \in 1 .. N
  <2>1. \A n \in 1 .. k : n + 0 = n /\ n \in 1 .. N
    BY <1>1, <1>4
  <2>2. DOMAIN page = 1 .. k /\ \A n \in 1 .. k : page[n] = s[n]
    BY <1>6, <2>1
  <2>3. Len(page) = k
    BY <1>4, <1>6
  <2> QED
    BY <2>1, <2>2, <2>3
<1>8. Range(page) = {s[n] : n \in 1 .. k}
  BY <1>7 DEF Range
<1>9. Cardinality(Range(page)) = k
  <2>1. page \in Bijection(1 .. k, Range(page))
    <3>1. page \in [1 .. k -> Range(page)]
      BY <1>6, <1>7 DEF Range
    <3>2. \A m, n \in 1 .. k : page[m] = page[n] => m = n
      BY <1>2, <1>7
    <3>3. \A x \in Range(page) : \E n \in 1 .. k : page[n] = x
      BY <1>7 DEF Range
    <3> QED
      BY <3>1, <3>2, <3>3 DEF Bijection, Injection, Surjection, IsInjective
  <2>2. IsFiniteSet(1 .. k) /\ Cardinality(1 .. k) = k
    BY <1>4, FS_Interval
  <2> QED
    BY <2>1, <2>2, FS_Bijection DEF ExistsBijection
<1>10. Range(page) \subseteq S
  BY <1>2, <1>7, <1>8
<1>11. ASSUME NEW x \in Range(page), NEW y \in S \ Range(page)
       PROVE  key[y] <= key[x]
  <2>1. PICK m \in 1 .. k : x = s[m]
    BY <1>8
  <2>2. PICK n \in 1 .. N : y = s[n]
    BY <1>2
  <2>3. n \notin 1 .. k
    BY <1>8, <2>2
  <2>4. m < n /\ m \in 1 .. N
    BY <1>1, <1>4, <2>3
  <2>5. key[s[m]] >= key[s[n]] /\ key[s[m]] \in Nat /\ key[s[n]] \in Nat
    BY <1>2, <2>4
  <2> QED
    BY <2>1, <2>2, <2>5
<1> QED
  <2>1. LargestFirst(page, S, key, limit)
    BY <1>4, <1>7, <1>9, <1>10, <1>11 DEF N, LargestFirst
  <2> QED
    BY <2>1 DEF page

(* A call that ends in a step was taken on by that step. *)
LEMMA OwnStep ==
  ASSUME Inv, [Next]_vars, NEW t \in Threads, NEW op, Ends(t, op)
  PROVE  CheckHistory(t) \/ UpdateCount(t) \/ InsertHistory(t) \/ Delete(t) \/ Select(t)
<1>1. pc[t] # "idle" /\ pc'[t] = "idle" /\ pc \in [Threads -> Statements \cup {"idle"}]
  BY DEF Ends, Running, Inv, CallInv, CallTypeOK
<1>2. ~UNCHANGED vars
  BY <1>1 DEF vars, callVars
<1>3. PICK u \in Threads :
        \/ Call(u)
        \/ CheckHistory(u) \/ UpdateCount(u) \/ InsertHistory(u) \/ Delete(u) \/ Select(u)
  BY <1>2 DEF Next
<1>4. \E s : pc' = [pc EXCEPT ![u] = s]
  BY <1>3, Zenon
     DEF Call, Begin, CheckHistory, UpdateCount, InsertHistory, Delete, Select,
         Then, ReturnBool, Return, CatchFalse, Catch, Answer
<1>5. u = t
  BY <1>1, <1>4
<1>6. ~Call(t)
  BY <1>1 DEF Call, Begin
<1> QED
  BY <1>3, <1>5, <1>6

(* RankingRight: getUserTopSongs and getMostPlayedSongs show the right     *)
(* number of the user's rows, each once, and leave out no row that was     *)
(* played more often than one they show.                                   *)
THEOREM RankingsAreRight == Spec => RankingRight
<1>1. ASSUME Inv, [Next]_vars, NEW t \in Threads,
             NEW op \in {"getUserTopSongs", "getMostPlayedSongs"},
             Ends(t, op), ~result'.fault,
             NEW mine, mine = Of(call[t].user_id),
             NEW shown, shown = Range(result'.value.rows)
      PROVE  /\ shown \subseteq mine
             /\ Cardinality(shown) = Len(result'.value.rows)
             /\ Cardinality(shown) = Min({call[t].limit, Cardinality(mine)})
             /\ \A i \in shown, j \in mine \ shown :
                   play_history[j].song_count <= play_history[i].song_count
  <2>1. /\ CallInv /\ CountInv /\ pc[t] # "idle" /\ call[t].op = op
        /\ Fits(pc[t], call[t]) /\ call[t] \in Calls
    BY <1>1, AtStatement DEF Inv, Ends, Running
  <2>2. Select(t)
    <3>1. ~CheckHistory(t) /\ ~UpdateCount(t) /\ ~InsertHistory(t)
      BY <2>1 DEF CheckHistory, UpdateCount, InsertHistory, Fits
    <3>2. ~Delete(t)
      BY <2>1 DEF Delete, Running
    <3> QED
      BY <1>1, <3>1, <3>2, OwnStep
  <2>3. PICK a \in Answers(call[t]) : Return(t, a)
    <3>1. ASSUME NEW v, Catch(t, v)
          PROVE  FALSE
      <4>1. result'.fault = TRUE
        BY <2>1, <3>1, AnswerEffect, Zenon DEF Catch
      <4> QED
        BY <1>1, <4>1, Zenon
    <3> QED
      BY <2>2, <3>1, Zenon DEF Select
  <2>4. result'.value = a
    BY <2>1, <2>3, AnswerEffect DEF Return
  <2>5. PICK s \in ByCount(call[t].user_id) : a = [rows |-> Page(s, call[t].limit, 0)]
    BY <1>1, <2>1, <2>3 DEF Answers
  <2>6. PICK page : page = Page(s, call[t].limit, 0) /\ page = result'.value.rows
    BY <2>4, <2>5
  <2>k. PICK key : key = [i \in mine |-> play_history[i].song_count]
    OBVIOUS
  <2>7. s \in Descending(mine, key)
    BY <1>1, <2>5, <2>k DEF ByCount
  <2>8. IsFiniteSet(mine) /\ mine \subseteq Ids
    <3>1. mine \subseteq Ids
      BY <1>1 DEF Of
    <3>2. IsFiniteSet(Ids)
      BY HistoryAssumption, FS_Interval DEF Ids
    <3> QED
      BY <3>1, <3>2, FS_Subset
  <2>9. /\ \A i \in mine : key[i] = play_history[i].song_count
        /\ \A i \in mine : key[i] \in Nat
    BY <1>1, <2>1, <2>k DEF Of, CountInv, Rows
  <2>10. PICK limit \in Nat : limit = call[t].limit
    BY <1>1, <2>1, Arguments
  <2>11. /\ Range(page) \subseteq mine
         /\ Cardinality(Range(page)) = Len(page)
         /\ Cardinality(Range(page)) = Min({call[t].limit, Cardinality(mine)})
         /\ \A i \in Range(page), j \in mine \ Range(page) : key[j] <= key[i]
    <3>1. page = Page(s, limit, 0)
      BY <2>6, <2>10
    <3>2. IsFiniteSet(mine) /\ \A x \in mine : key[x] \in Nat
      BY <2>8, <2>9
    <3>3. LargestFirst(Page(s, limit, 0), mine, key, limit)
      BY <2>7, <3>2, FirstPage
    <3> QED
      BY <2>10, <3>1, <3>3 DEF LargestFirst
  <2> QED
    BY <1>1, <2>6, <2>9, <2>11
<1>2. ASSUME Inv, [Next]_vars
      PROVE  [\A t \in Threads : \A op \in {"getUserTopSongs", "getMostPlayedSongs"} :
                Ends(t, op) /\ ~result'.fault =>
                  LET mine == Of(call[t].user_id)
                      shown == Range(result'.value.rows)
                  IN  /\ shown \subseteq mine
                      /\ Cardinality(shown) = Len(result'.value.rows)
                      /\ Cardinality(shown) = Min({call[t].limit, Cardinality(mine)})
                      /\ \A i \in shown, j \in mine \ shown :
                            play_history[j].song_count <= play_history[i].song_count]_vars
  BY <1>1, <1>2, Zenon
<1> QED
  BY <1>2, Invariance, PTL DEF Spec, RankingRight
=============================================================================
