----------------------------- MODULE AvatarStore -----------------------------
(***************************************************************************)
(* handleUpdateAvatar and handleGetAvatar of handlers/UserHandler.cpp: a   *)
(* file per user, named by the id claim of a token, truncated and written  *)
(* in place while other threads may read or write it.  The files outlive   *)
(* the process, which may be killed at any moment.                         *)
(***************************************************************************)
EXTENDS JWTUtil, Sequences, FiniteSets

CONSTANTS
  Threads, Users,
  MaxSize,  \* bound: writes, and reads, that a picture takes
  MaxTime,  \* bound: the clock
  Null

ASSUME AvatarAssumption == MaxSize \in Nat /\ MaxTime \in Nat

(* The pictures users upload, told apart by their size. *)
Avatars == 1 .. MaxSize

VARIABLES
  now,     \* the system clock
  file,    \* file[u]: the chunks of the file of user u, or Null if absent
  pc,      \* pc[t]: what thread t does next for its request
  req,     \* req[t]: the request, or Null
  data,    \* data[t]: the chunks it has still to write, or has read
  pos,     \* pos[t]: how many it has written
  answer,  \* what the request answered in the last step, or Null
  saved,   \* history: the picture an undisturbed update left, or Null
  intact   \* history: intact[t], the picture the request of t should see or
           \* leave behind, or Null once something went wrong

fileVars == <<file, saved>>
threadVars == <<pc, req, data, pos, intact>>
vars == <<now, fileVars, threadVars, answer>>

(* A chunk of a picture, or of a gap in the file, which reads as zeros. *)
Picture(u, a) == [k \in 1 .. a |-> [by |-> u, of |-> a, part |-> k]]
Gap == [by |-> Null, of |-> 0, part |-> 0]
Chunks == [by : Users \cup {Null}, of : 0 .. MaxSize, part : 0 .. MaxSize]

(* The requests with a token of T; once verified, with its id claim only. *)
Requests(T) ==
  [op : {"get"}, token : T] \cup [op : {"update"}, token : T, avatar : Avatars]
Tokens == [id : Users, secret : Secrets, expires_at : 0 .. MaxTime + ValidFor]
Claims == [id : Users]

ASSUME NullAssumption ==
  Null \notin Requests(Tokens) \cup Requests(Claims) \cup Seq(Chunks)

Init ==
  /\ now = 0
  /\ file = [u \in Users |-> Null]
  /\ pc = [t \in Threads |-> "idle"]
  /\ req = [t \in Threads |-> Null]
  /\ data = [t \in Threads |-> <<>>]
  /\ pos = [t \in Threads |-> 0]
  /\ answer = Null
  /\ saved = [u \in Users |-> Null]
  /\ intact = [t \in Threads |-> Null]

-----------------------------------------------------------------------------
Tick ==
  /\ now < MaxTime
  /\ now' = now + 1
  /\ answer' = Null
  /\ UNCHANGED <<fileVars, threadVars>>

(* The process is killed, or crashes, and is started again. *)
Restart ==
  /\ pc' = [t \in Threads |-> "idle"]
  /\ req' = [t \in Threads |-> Null]
  /\ data' = [t \in Threads |-> <<>>]
  /\ pos' = [t \in Threads |-> 0]
  /\ intact' = [t \in Threads |-> Null]
  /\ answer' = Null
  /\ UNCHANGED <<now, fileVars>>

(* A request arrives with one of the tokens handed out. *)
Arrive(t) ==
  /\ pc[t] = "idle"
  /\ \E token \in TokensUntil(Users, now) :
       \/ req' = [req EXCEPT ![t] = [op |-> "get", token |-> token]]
       \/ \E a \in Avatars :
            req' = [req EXCEPT ![t] = [op |-> "update", token |-> token, avatar |-> a]]
  /\ pc' = [pc EXCEPT ![t] = "verify"]
  /\ answer' = Null
  /\ UNCHANGED <<now, fileVars, data, pos, intact>>

Goto(t, s) ==
  /\ pc' = [pc EXCEPT ![t] = s]
  /\ answer' = Null
  /\ UNCHANGED req

(* The handler returns its response. *)
Answer(t, status, content) ==
  /\ pc' = [pc EXCEPT ![t] = "idle"]
  /\ req' = [req EXCEPT ![t] = Null]
  /\ data' = [data EXCEPT ![t] = <<>>]
  /\ pos' = [pos EXCEPT ![t] = 0]
  /\ intact' = [intact EXCEPT ![t] = Null]
  /\ answer' = [status |-> status, content |-> content]
  /\ UNCHANGED now

Token(t) == req[t].token

(* verifyToken, first the verifier ... *)
Verify(t) ==
  /\ pc[t] = "verify"
  /\ \/ /\ VerifierAccepts(Token(t), now)
        /\ Goto(t, "expiry")
        /\ UNCHANGED <<now, data, pos, intact>>
     \/ /\ ~VerifierAccepts(Token(t), now)
        /\ Answer(t, "unauthorized", <<>>)
  /\ UNCHANGED fileVars

(* ... then isTokenExpired, which reads the clock again.  From here on     *)
(* only the id claim of the token is used.                                 *)
CheckExpiry(t) ==
  /\ pc[t] = "expiry"
  /\ \/ /\ ~IsTokenExpired(Token(t), now)
        /\ pc' = [pc EXCEPT ![t] = "open"]
        /\ req' = [req EXCEPT ![t].token = [id |-> Token(t).id]]
        /\ answer' = Null
        /\ UNCHANGED <<now, data, pos, intact>>
     \/ /\ IsTokenExpired(Token(t), now)
        /\ Answer(t, "unauthorized", <<>>)
  /\ UNCHANGED fileVars

-----------------------------------------------------------------------------
(* The files *)

(* avatar_path *)
FileOf(t) == Token(t).id

On(u) == {t \in Threads : pc[t] \in {"write", "read"} /\ FileOf(t) = u}

(* The pictures the requests on file u were to see or to leave, when the   *)
(* file changes under them.                                                *)
Disturbed(u) == [t \in Threads |-> IF t \in On(u) THEN Null ELSE intact[t]]

(* Mutant: the file is opened without being truncated. *)
Untruncated(u) == IF file[u] = Null THEN <<>> ELSE file[u]

(* std::ofstream creates or truncates the file. *)
Truncated(u) == <<>>

(* handleUpdateAvatar: the body is not as it should be, or the picture too *)
(* large; the file cannot be opened, or is truncated.                      *)
OpenToWrite(t) ==
  LET u == FileOf(t)
  IN  /\ pc[t] = "open" /\ req[t].op = "update"
      /\ \/ /\ Answer(t, "bad_request", <<>>) \/ Answer(t, "internal_server_error", <<>>)
            /\ UNCHANGED fileVars
         \/ /\ Goto(t, "write")
            /\ file' = [file EXCEPT ![u] = Truncated(u)]
            /\ saved' = [saved EXCEPT ![u] = Null]
            /\ data' = [data EXCEPT ![t] = Picture(Token(t).id, req[t].avatar)]
            /\ intact' = [Disturbed(u) EXCEPT ![t] =
                            IF \E w \in On(u) : pc[w] = "write" THEN Null ELSE req[t].avatar]
            /\ UNCHANGED <<now, pos>>

(* write() at the offset of this stream; a gap before it is filled up. *)
WriteChunk(t) ==
  LET f == file[FileOf(t)]
      end == IF Len(f) > pos[t] THEN Len(f) ELSE pos[t] + 1
  IN  [k \in 1 .. end |-> CASE k = pos[t] + 1 -> Head(data[t])
                            [] k # pos[t] + 1 /\ k <= Len(f) -> f[k]
                            [] OTHER -> Gap]

(* avatar_file << avatar_data. *)
Write(t) ==
  /\ pc[t] = "write" /\ data[t] # <<>>
  /\ file' = [file EXCEPT ![FileOf(t)] = WriteChunk(t)]
  /\ data' = [data EXCEPT ![t] = Tail(@)]
  /\ pos' = [pos EXCEPT ![t] = @ + 1]
  /\ Goto(t, "write")
  /\ UNCHANGED <<now, saved, intact>>

(* The disk is full: the stream ignores the rest, and nobody asks. *)
WriteFails(t) ==
  /\ pc[t] = "write" /\ data[t] # <<>>
  /\ data' = [data EXCEPT ![t] = <<>>]
  /\ intact' = [intact EXCEPT ![t] = Null]
  /\ Goto(t, "write")
  /\ UNCHANGED <<now, fileVars, pos>>

(* close(), "Avatar updated successfully". *)
CloseWritten(t) ==
  /\ pc[t] = "write" /\ data[t] = <<>>
  /\ saved' = [saved EXCEPT ![FileOf(t)] = IF intact[t] # Null THEN intact[t] ELSE @]
  /\ Answer(t, "ok", <<>>)
  /\ UNCHANGED file

(* handleGetAvatar: fs::exists, then the file is opened. *)
OpenToRead(t) ==
  /\ pc[t] = "open" /\ req[t].op = "get"
  /\ \/ /\ file[FileOf(t)] = Null
        /\ Answer(t, "not_found", <<>>)
     \/ Answer(t, "internal_server_error", <<>>)
     \/ /\ file[FileOf(t)] # Null
        /\ Goto(t, "read")
        /\ intact' = [intact EXCEPT ![t] = saved[FileOf(t)]]
        /\ UNCHANGED <<now, data, pos>>
  /\ UNCHANGED fileVars

(* Mutant: the last chunk is lost. *)
EndSeenEarly(t) == Len(data[t]) + 1 >= Len(file[FileOf(t)])

(* istreambuf_iterator has reached the end of the file as it now is. *)
AtEnd(t) == Len(data[t]) >= Len(file[FileOf(t)])

Read(t) ==
  /\ pc[t] = "read" /\ ~AtEnd(t)
  /\ data' = [data EXCEPT ![t] = Append(@, file[FileOf(t)][Len(@) + 1])]
  /\ Goto(t, "read")
  /\ UNCHANGED <<now, fileVars, pos, intact>>

(* The response; dump() throws if what was read is not UTF-8, which it is  *)
(* when it is a picture as it was uploaded.                                *)
CloseRead(t) ==
  /\ pc[t] = "read" /\ AtEnd(t)
  /\ \/ Answer(t, "ok", data[t])
     \/ /\ \A a \in Avatars : data[t] # Picture(FileOf(t), a)
        /\ Answer(t, "bad_request", <<>>)
  /\ UNCHANGED fileVars

-----------------------------------------------------------------------------
Next ==
  \/ Tick \/ Restart
  \/ \E t \in Threads :
       \/ Arrive(t) \/ Verify(t) \/ CheckExpiry(t)
       \/ OpenToWrite(t) \/ Write(t) \/ WriteFails(t) \/ CloseWritten(t)
       \/ OpenToRead(t) \/ Read(t) \/ CloseRead(t)

Spec == Init /\ [][Next]_vars

-----------------------------------------------------------------------------
(* Properties *)

(* Types *)
TypeOK ==
  /\ now \in 0 .. MaxTime
  /\ pc \in [Threads -> {"idle", "verify", "expiry", "open", "write", "read"}]
  /\ req \in [Threads -> Requests(Tokens) \cup Requests(Claims) \cup {Null}]
  /\ \A t \in Threads : req[t] = Null <=> pc[t] = "idle"
  /\ file \in [Users -> Seq(Chunks) \cup {Null}] /\ data \in [Threads -> Seq(Chunks)]
  /\ \A u \in Users : file[u] # Null => Len(file[u]) <= MaxSize
  /\ \A t \in Threads : Len(data[t]) + pos[t] <= MaxSize
  /\ saved \in [Users -> Avatars \cup {Null}]
  /\ intact \in [Threads -> Avatars \cup {Null}]

(* verifyToken refuses no token of this server that has not expired, and   *)
(* lets none pass that has by more than the leeway, although the clock     *)
(* moves between the verifier and isTokenExpired.                          *)
TokenVerdict ==
  [][\A t \in Threads :
       /\ pc[t] \in {"verify", "expiry"} /\ pc'[t] = "open" => WithinLeeway(Token(t), now)
       /\ pc[t] \in {"verify", "expiry"} /\ pc'[t] = "idle" /\ answer' # Null
            => ~Genuine(Token(t), now)]_vars

(* A deviation of 60 s is allowed (the comment on leeway(60) in            *)
(* JWTUtil.cpp): a token that expired no longer ago is not refused.        *)
LeewayHonoured ==
  [][\A t \in Threads :
       pc[t] \in {"verify", "expiry"} /\ pc'[t] = "idle" /\ answer' # Null
         => ~WithinLeeway(Token(t), now)]_vars

(* Types; and an update that neither failed nor met another update of that *)
(* user has saved the picture whole: until the next update begins the file *)
(* is that picture, whatever other requests and restarts come.             *)
UpdateSaves ==
  /\ TypeOK
  /\ \A u \in Users : saved[u] # Null => file[u] = Picture(u, saved[u])

(* A picture is read whole if it was saved whole and no update began       *)
(* while it was being read.                                                *)
ReadsWhole ==
  [][\A t \in Threads :
       pc[t] = "read" /\ pc'[t] = "idle" /\ intact[t] # Null /\ answer' # Null
         => answer' = [status |-> "ok", content |-> Picture(FileOf(t), intact[t])]]_vars
=============================================================================
